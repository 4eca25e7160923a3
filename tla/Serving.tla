------------------------------ MODULE Serving -------------------------------
(***************************************************************************)
(* The process around the requests, here those of the staged import: every *)
(* finished request hands a record to the access log's writer task (US-70);*)
(* a stop signal (US-47) lets the requests in flight finish, flushes the   *)
(* log, lets go of the pool and closes the database until its WAL is gone. *)
(* The process may also be killed anywhere and started again.              *)
(***************************************************************************)
EXTENDS StagedImport, SequencesExt

CONSTANTS
    Conns,       \* the pool's connections
    Capacity,    \* QUEUE_CAPACITY
    BatchSize,   \* BATCH_SIZE
    MaxRecords,  \* bound on the requests answered
    MaxKills     \* bound on kills

ASSUME ServingAssumption ==
    /\ Capacity \in Nat \ {0} /\ BatchSize \in Nat \ {0}
    /\ MaxRecords \in Nat /\ MaxKills \in Nat

VARIABLES
    phase,    \* main: "up", "draining", "flushing", "flushed",
              \* "closing", "stopped"
    queue,    \* the channel: record numbers, and Flush
    batch,    \* the writer's batch
    asked,    \* whether a flush waits for the writer's answer
    task,     \* the writer: "recv", "fill", "store", "answer", "ended"
    log,      \* access_log, by record number
    conn,     \* each connection of the pool: "open", "free", "closing",
              \* "looked" (it has decided about the WAL), "closed"
    last,     \* main's own last connection: "none", "open", "looked"
    wal,      \* the WAL is there
    answered, \* records so far: each one's number is its turn
    lost,     \* history: records dropped by a full queue, a failed batch or
              \* a kill
    late,     \* history: close gave up, out of patience or with an error
    kills     \* counter of MaxKills

memory == <<phase, queue, batch, asked, task>>
file == <<log, conn, last, wal>>
counters == <<answered, lost, late, kills>>
vars == <<staged, memory, file, counters>>

Flush == 0   \* a message like a record's number, which is never 0

Init ==
    /\ StagedInit
    /\ phase = "up" /\ queue = <<>> /\ batch = <<>> /\ asked = FALSE /\ task = "recv"
    /\ log = <<>> /\ conn = [c \in Conns |-> "open"] /\ last = "none" /\ wal = TRUE
    /\ answered = 0 /\ lost = {} /\ late = FALSE /\ kills = 0

----------------------------------------------------------------------------
\* Requests and their records.

Busy == {r \in Requests : req[r] # None}

Request(r) ==
    /\ \/ phase = "up" /\ answered + Cardinality(Busy) < MaxRecords /\ Arrive(r)
       \/ RequestStep(r)
       \/ Drop(r)
    /\ UNCHANGED <<memory, file, counters>>

PassTime == Tick /\ UNCHANGED <<memory, file, counters>>

\* access_log::log, once the response is there; try_send drops the record if
\* the queue is full.
Answer(r) ==
    /\ At(r, "done")
    /\ Becomes(r, None)
    /\ answered' = answered + 1
    /\ IF Len(queue) < Capacity
       THEN queue' = Append(queue, answered + 1) /\ UNCHANGED lost
       ELSE lost' = lost \cup {answered + 1} /\ UNCHANGED queue
    /\ UNCHANGED <<tables, fresh, now, writer, handles,
                   phase, batch, asked, task, file, late, kills>>

----------------------------------------------------------------------------
\* The writer task.

Writer == UNCHANGED <<staged, phase, conn, last, wal, answered, late, kills>>

\* recv, and try_recv while the batch has room.
Take ==
    /\ task \in {"recv", "fill"} /\ queue # <<>>
    /\ queue' = Tail(queue)
    /\ IF Head(queue) = Flush
       THEN asked' = TRUE /\ UNCHANGED batch
       ELSE batch' = Append(batch, Head(queue)) /\ UNCHANGED asked
    /\ task' = IF Len(batch') < BatchSize THEN "fill" ELSE "store"
    /\ Writer /\ UNCHANGED <<log, lost>>

Empty ==
    /\ task = "fill" /\ queue = <<>>
    /\ task' = "store"
    /\ Writer /\ UNCHANGED <<queue, batch, asked, log, lost>>

\* One transaction, which waits for the lock, or fails and is dropped.
Store ==
    /\ task = "store"
    /\ \/ (batch = <<>> \/ LockFree) /\ log' = log \o batch /\ UNCHANGED lost
       \/ lost' = lost \cup ToSet(batch) /\ UNCHANGED log
    /\ batch' = <<>>
    /\ task' = "answer"
    /\ Writer /\ UNCHANGED <<queue, asked>>

AnswerFlush ==
    /\ task = "answer"
    /\ task' = "recv"
    /\ asked' = FALSE
    /\ phase' = IF asked THEN "flushed" ELSE phase
    /\ UNCHANGED <<staged, queue, batch, file, counters>>

\* The channel is closed once no handle is left.
EndTask ==
    /\ task = "recv" /\ queue = <<>> /\ phase = "closing"
    /\ task' = "ended"
    /\ UNCHANGED <<staged, phase, queue, batch, asked, file, counters>>

----------------------------------------------------------------------------
\* main, from the stop signal on.

Main == UNCHANGED <<staged, batch, task, log, answered, lost, kills>>

Signal ==
    /\ phase = "up"
    /\ phase' = "draining"
    /\ Main /\ UNCHANGED <<queue, asked, conn, last, wal, late>>

\* Mutant: the log is flushed while requests are still under way.
AtOnce == TRUE
Drained == Busy = {}

SendFlush ==
    /\ phase = "draining" /\ Drained
    /\ Len(queue) < Capacity
    /\ queue' = Append(queue, Flush)
    /\ phase' = "flushing"
    /\ Main /\ UNCHANGED <<asked, conn, last, wal, late>>

\* drop(access_log) and Pool::close: idle connections may still be closing
\* when it returns, the others go on once the pool is dropped.
ClosePool ==
    /\ phase = "flushed"
    /\ phase' = "closing"
    /\ conn' \in [Conns -> {"free", "closing"}]
    /\ Main /\ UNCHANGED <<queue, asked, last, wal, late>>

\* The writer's handle is the last but main's, which close drops at once.
\* Mutant: the writer's is never let go of.
Kept == FALSE
PoolDropped == task = "ended"

Open == {c \in Conns : conn[c] # "closed"}

\* A connection that is the only one left takes the WAL with it; two that
\* see each other both leave it.
LookAround(c) ==
    /\ conn[c] = "free" \/ (conn[c] = "closing" /\ PoolDropped)
    /\ conn' = [conn EXCEPT ![c] = "looked"]
    /\ wal' = (wal /\ (Open # {c} \/ last = "open"))
    /\ UNCHANGED <<staged, memory, log, last, counters>>

Closed(c) ==
    /\ conn[c] = "looked"
    /\ conn' = [conn EXCEPT ![c] = "closed"]
    /\ UNCHANGED <<staged, memory, log, last, wal, counters>>

OpenLast ==
    /\ phase = "closing" /\ last = "none"
    /\ last' = "open" /\ wal' = TRUE
    /\ Main /\ UNCHANGED <<phase, queue, asked, conn, late>>

CloseLast ==
    /\ last = "open"
    /\ last' = "looked" /\ wal' = (Open # {})
    /\ Main /\ UNCHANGED <<phase, queue, asked, conn, late>>

\* The WAL is gone, or patience is, or again.
LookForWal ==
    /\ last = "looked"
    /\ last' = "none"
    /\ \/ ~wal /\ phase' = "stopped" /\ UNCHANGED late
       \/ wal /\ UNCHANGED <<phase, late>>
    /\ Main /\ UNCHANGED <<queue, asked, conn, wal>>

GiveUp ==
    /\ last = "looked" /\ wal
    /\ last' = "none" /\ phase' = "stopped" /\ late' = TRUE
    /\ Main /\ UNCHANGED <<queue, asked, conn, wal>>

\* Opening or closing the last connection fails, and with it main.
LastFails ==
    /\ last = "open" \/ (phase = "closing" /\ last = "none")
    /\ last' = "none" /\ phase' = "stopped" /\ late' = TRUE /\ wal' \in {wal, TRUE}
    /\ Main /\ UNCHANGED <<queue, asked, conn>>

----------------------------------------------------------------------------
\* A kill, and the next start: what is in memory goes, transactions are
\* rolled back; opening the database recovers the WAL.
Kill ==
    /\ kills < MaxKills
    /\ kills' = kills + 1
    /\ phase' = "up" /\ queue' = <<>> /\ batch' = <<>> /\ asked' = FALSE /\ task' = "recv"
    /\ lost' = lost \cup (1 .. answered \ ToSet(log))
    /\ conn' = [c \in Conns |-> "open"] /\ last' = "none" /\ wal' = TRUE
    /\ req' = [r \in Requests |-> None] /\ writer' = None
    /\ UNCHANGED <<tables, fresh, now, handles, log, answered, late>>

WriterStep == Take \/ Empty \/ Store \/ AnswerFlush \/ EndTask

MainStep == SendFlush \/ ClosePool \/ OpenLast \/ CloseLast \/ LookForWal

ConnStep(c) == LookAround(c) \/ Closed(c)

Next ==
    \/ \E r \in Requests : Request(r) \/ Answer(r)
    \/ PassTime
    \/ WriterStep
    \/ Signal \/ MainStep \/ GiveUp \/ LastFails
    \/ \E c \in Conns : ConnStep(c)
    \/ Kill

\* A request ends, the runtime runs its tasks and a connection being closed
\* is closed; nothing makes a signal, a kill or an error happen, or patience run
\* out.
Fairness ==
    /\ \A r \in Requests :
         /\ WF_vars(RequestStep(r) /\ UNCHANGED <<memory, file, counters>>)
         /\ WF_vars(Answer(r))
    /\ WF_vars(WriterStep) /\ WF_vars(MainStep)
    /\ \A c \in Conns : WF_vars(ConnStep(c))

Spec == Init /\ [][Next]_vars /\ Fairness

----------------------------------------------------------------------------
\* Properties.

\* "The last of their records go in before the database closes" (main.rs):
\* once the log is flushed every record is stored, but those a full queue, a
\* failed batch or a kill lost; and the table's order is the order in which
\* the requests were answered.
FlushKeepsAll ==
    /\ phase \in {"flushed", "closing", "stopped"} =>
         1 .. answered = lost \cup ToSet(log)
    /\ \A i, j \in 1 .. Len(log) : i < j => log[i] < log[j]

\* A stop signal is followed by the process's end, with the WAL gone unless
\* patience ran out or the last connection failed: no request, flush or connection is waited for in vain
\* (US-47) - unless the process is killed meanwhile.
StopsClean ==
    phase = "draining" ~> \/ (phase = "stopped" /\ (late \/ ~wal))
                          \/ phase = "up"

----------------------------------------------------------------------------
\* Strengthenings that make FlushKeepsAll inductive (ServingProofs).

Numbers == Nat \ {Flush}

ServingTypes ==
    /\ phase \in {"up", "draining", "flushing", "flushed", "closing", "stopped"}
    /\ queue \in Seq(Nat) /\ batch \in Seq(Numbers) /\ log \in Seq(Numbers)
    /\ asked \in BOOLEAN
    /\ task \in {"recv", "fill", "store", "answer", "ended"}
    /\ answered \in Nat /\ lost \subseteq 1 .. answered

\* The records on their way, in the order of their answers.
Ascends(s) == \A i, j \in 1 .. Len(s) : i < j /\ s[i] # Flush /\ s[j] # Flush => s[i] < s[j]
Precedes(s, t) ==
    \A i \in 1 .. Len(s), j \in 1 .. Len(t) : t[j] # Flush => s[i] < t[j]

InOrder ==
    /\ Ascends(log) /\ Ascends(batch) /\ Ascends(queue)
    /\ Precedes(log, batch) /\ Precedes(log, queue) /\ Precedes(batch, queue)

\* Every record is on its way, stored or lost.
Accounted ==
    /\ 1 .. answered = lost \cup ToSet(log) \cup ToSet(batch) \cup (ToSet(queue) \ {Flush})

\* A flush is sent when no request is left to answer, so nothing comes after
\* it, and it is answered when all before it is stored.
FlushIsLast ==
    /\ phase \in {"up", "draining"} => Flush \notin ToSet(queue) /\ ~asked
    /\ phase \notin {"up", "draining"} => Busy = {}
    /\ phase = "flushing" =>
          IF asked THEN queue = <<>>
          ELSE queue # <<>> /\ \A i \in 1 .. Len(queue) : queue[i] = Flush <=> i = Len(queue)
    /\ phase \in {"flushed", "closing", "stopped"} => queue = <<>> /\ batch = <<>> /\ ~asked
    /\ task \in {"recv", "answer", "ended"} => batch = <<>>
    /\ task \in {"recv", "ended"} => ~asked
    /\ last # "none" => phase = "closing"

LogInductive == ServingTypes /\ InOrder /\ Accounted /\ FlushIsLast
=============================================================================
