--------------------------- MODULE RollingBackups ---------------------------
(***************************************************************************)
(* The copies an export makes of its target before it writes (ADR-0022):   *)
(* each named for the second the run reached it, the old ones pruned, by   *)
(* runs that overlap, fail, or are stopped in the middle of a copy, while  *)
(* the owner works in the same database.                                   *)
(***************************************************************************)
EXTENDS Clock, FiniteSets

CONSTANTS
    Exports,      \* runs at a time
    MinKept,      \* MIN_KEPT
    Retention,    \* RETENTION
    MaxVersion    \* bound on the target's changes

ASSUME BackupsAssumption ==
    MinKept \in Nat /\ Retention \in Nat /\ MaxVersion \in Nat

VARIABLES
    target,  \* the database: what was done to it, counted
    copies,  \* the copy of each second: a version, Torn, else None
    export,  \* the run in each slot, else None
    \* history
    spoilt,  \* seconds more than one run copied in, or whose copy was cut off or
             \* is of a target changed under it
    undone   \* the versions that runs began to change, and when they copied them

rolling == <<target, copies, export, spoilt, undone>>

Seconds == 0 .. MaxTime
Torn == MaxVersion + 1

RollingInit ==
    /\ target = 0
    /\ copies = [t \in Seconds |-> None]
    /\ export = [x \in Exports |-> None]
    /\ spoilt = {} /\ undone = {}

Runs(x, at) == export[x] # None /\ export[x].at = at
Moves(x, at) == export' = [export EXCEPT ![x].at = at]

\* create_backup_and_prune: the name, and an empty file.
OpenCopy(x) ==
    /\ export[x] = None
    /\ export' = [export EXCEPT ![x] = [at |-> "copy", since |-> now, saw |-> target]]
    /\ copies' = [copies EXCEPT ![now] = Torn]
    /\ spoilt' = IF copies[now] = None THEN spoilt ELSE spoilt \cup {now}
    /\ UNCHANGED <<now, target, undone>>

\* What is copied while the target is changed is neither the old nor the new.
FillCopy(x) ==
    /\ Runs(x, "copy")
    /\ LET t == export[x].since
           whole == target = export[x].saw
       IN /\ copies' = [copies EXCEPT ![t] = IF whole THEN target ELSE Torn]
          /\ spoilt' = IF whole THEN spoilt ELSE spoilt \cup {t}
    /\ Moves(x, "list")
    /\ UNCHANGED <<now, target, undone>>

\* Mutant: the newest of those too old are kept, not the newest of all.
OldestFirst(listed, t) ==
    {s \in listed : Cardinality({u \in listed : u < s}) >= MinKept /\ s + Retention < t}
\* backups_to_delete: neither among the newest nor in the window.
ToDelete(listed, t) ==
    {s \in listed : Cardinality({u \in listed : u > s}) >= MinKept /\ s + Retention < t}

\* list_backups and what is to go, then the removals, any of which may fail.
ListCopies(x) ==
    /\ Runs(x, "list")
    /\ LET listed == {t \in Seconds : copies[t] # None}
           gone == ToDelete(listed, export[x].since)
       IN \E removed \in SUBSET gone :
            copies' = [t \in Seconds |-> IF t \in removed THEN None ELSE copies[t]]
    /\ Moves(x, "write")
    /\ UNCHANGED <<now, target, spoilt, undone>>

\* The first write to the target.
Write(x) ==
    /\ Runs(x, "write")
    /\ target < MaxVersion    \* bound
    /\ target' = target + 1
    /\ undone' = undone \cup {[at |-> export[x].since, version |-> export[x].saw]}
    /\ export' = [export EXCEPT ![x] = None]
    /\ UNCHANGED <<now, copies, spoilt>>

\* An error, or the process's end: a copy under way stays as it is.
Break(x) ==
    /\ export[x] # None
    /\ export' = [export EXCEPT ![x] = None]
    /\ spoilt' = IF Runs(x, "copy") THEN spoilt \cup {export[x].since} ELSE spoilt
    /\ UNCHANGED <<now, target, copies, undone>>

\* The owner, in QMapShack.
Paint ==
    /\ target < MaxVersion    \* bound
    /\ target' = target + 1
    /\ UNCHANGED <<now, copies, export, spoilt, undone>>

RollingNext ==
    \/ \E x \in Exports : OpenCopy(x) \/ FillCopy(x) \/ ListCopies(x) \/ Write(x) \/ Break(x)
    \/ Paint

-----------------------------------------------------------------------------
(* Properties.                                                             *)

\* What a run copied before it wrote can be brought back for the retention
\* window, and while it is one of the newest, unless a run of the same second
\* copied over it or the target was changed under the copy (backup.rs: "enough history to cover at least one month of
\* runs but never fewer than three").
Newer(at) == {t \in Seconds : t > at /\ copies[t] # None}
Kept(at, version) ==
    \/ copies[at] = version
    \/ at \in spoilt
    \/ at + Retention < now /\ Cardinality(Newer(at)) >= MinKept
CanGoBack == \A u \in undone : Kept(u.at, u.version)

-----------------------------------------------------------------------------
(* Strengthenings that make it inductive (TimedProofs).                    *)

Run == [at : {"copy", "list", "write"}, since : Seconds, saw : 0 .. Torn]

RollingTypes ==
    /\ now \in Seconds /\ target \in 0 .. MaxVersion
    /\ copies \in [Seconds -> 0 .. Torn \cup {None}]
    /\ export \in [Exports -> Run \cup {None}]
    /\ spoilt \subseteq Seconds
    /\ undone \subseteq [at : Seconds, version : 0 .. Torn]

\* Two runs of one second are noticed: while that second lasts, its copy stays.
OwnSecond ==
    /\ \A x \in Exports : export[x] # None =>
          LET t == export[x].since IN
          /\ t <= now /\ (t = now => copies[now] # None)
          /\ \A y \in Exports \ {x} : export[y] # None /\ export[y].since = t => t \in spoilt
          /\ \A u \in undone : u.at = t => t \in spoilt
    /\ \A u \in undone : u.at <= now /\ (u.at = now => copies[now] # None)

RunsCanGoBack ==
    \A x \in Exports : Runs(x, "list") \/ Runs(x, "write") => Kept(export[x].since, export[x].saw)

RollingInductive == RollingTypes /\ OwnSecond /\ RunsCanGoBack /\ CanGoBack
=============================================================================
