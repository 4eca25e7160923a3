CONSTANTS
    u1 = u1
    u2 = u2
    d1 = d1
    a = a
    b = b
    None = None
    Torn = Torn
    Names = {jpg}
    jpg = jpg
    Bytes = {a, b}
    MaxTrip = 1
    MaxPhotos = 1
    Uploads = {u1, u2}
    Deletes = {d1}
SPECIFICATION MCSpec
INVARIANTS BackupWhole PhotosKept FilesAccounted
PROPERTIES PreviousKept
CHECK_DEADLOCK FALSE
SYMMETRY MCSymmetry
