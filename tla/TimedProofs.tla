----------------------------- MODULE TimedProofs -----------------------------
(***************************************************************************)
(* What holds of the parts that read a clock for every value of the        *)
(* constants: the session and the lockout, the copies of an export, the    *)
(* throttle and the listing, and the shares.                               *)
(***************************************************************************)
EXTENDS Timed, TLAPS, SequenceTheorems, FiniteSetTheorems, WellFoundedInduction

-----------------------------------------------------------------------------
(* Signing in.                                                             *)

USE GateAssumption, ClockAssumption

\* What of the guesses is remembered with one more.
LEMMA RecentGuesses ==
    ASSUME NEW g \in Seq(Nat), NEW e \in Nat, Len(g) <= FailureLimit + 1,
           NEW r, r = Recent(Append(g, e))
    PROVE  /\ r \in Seq(Nat)
           /\ Len(g) <= FailureLimit =>
                 /\ Len(r) = Len(g) + 1 /\ r[Len(g) + 1] = e
                 /\ \A j \in 1 .. Len(g) : r[j] = g[j]
           /\ Len(g) = FailureLimit + 1 =>
                 /\ Len(r) = Len(g) /\ r[Len(g)] = e
                 /\ \A j \in 1 .. Len(g) - 1 : r[j] = g[j + 1]
<1> DEFINE a == Append(g, e)
<1>1. a \in Seq(Nat) /\ Len(a) = Len(g) + 1 /\ a[Len(g) + 1] = e
      /\ \A j \in 1 .. Len(g) : a[j] = g[j]
  BY AppendProperties
<1>2. CASE Len(g) <= FailureLimit
  <2>1. Recent(a) = a
    BY <1>1, <1>2 DEF Recent
  <2> QED
    BY <2>1, <1>1, <1>2, LenProperties
<1>3. CASE Len(g) = FailureLimit + 1
  <2>1. a # <<>> /\ Recent(a) = Tail(a)
    BY <1>1, <1>3 DEF Recent
  <2>2. /\ Tail(a) \in Seq(Nat) /\ Len(Tail(a)) = Len(g)
        /\ \A j \in 1 .. Len(g) : Tail(a)[j] = a[j + 1]
    BY <2>1, <1>1, HeadTailProperties
  <2> QED
    BY <2>1, <2>2, <1>1, <1>3
<1> QED
  BY <1>2, <1>3, LenProperties

\* The pace of the guesses, from what is counted of them.
LEMMA PacedGuesses ==
    ASSUME GateInductive
    PROVE  GuessesArePaced
<1> DEFINE n == Len(guesses)
           c == failures.consecutive
<1>1. SUFFICES ASSUME n > FailureLimit
               PROVE  \E i, j \in 1 .. n : guesses[j] >= guesses[i] + Lockout
  BY DEF GuessesArePaced
<1>2. n \in Nat /\ c \in Nat /\ n = FailureLimit + 1
  BY <1>1, LenProperties DEF GateInductive, GateTypes, Paced
<1>3. CASE c = 0
  <2>1. guesses[n] >= guesses[n - FailureLimit] + Lockout
    BY <1>1, <1>3 DEF GateInductive, Paced
  <2> QED
    BY <2>1, <1>2
<1>4. CASE c # 0
  <2>1. c < FailureLimit /\ failures.until = guesses[n - c] + Lockout
    BY <1>2, <1>4 DEF GateInductive, Paced
  <2>2. guesses[n] >= failures.until
    BY <1>2, <1>4 DEF GateInductive, Paced
  <2> QED
    BY <2>1, <2>2, <1>2
<1> QED
  BY <1>3, <1>4

LEMMA GateStarts == Init => GateInductive
<1> SUFFICES ASSUME Init PROVE GateInductive
  OBVIOUS
<1>1. GateTypes
  <2>1. guesses \in Seq(Nat)
    BY DEF Init, GateInit
  <2> QED
    BY <2>1 DEF Init, GateInit, GateTypes, Open
<1>2. Dated
  BY DEF Init, GateInit, Dated
<1>3. Len(guesses) = 0
  BY DEF Init, GateInit
<1>4. Paced
  BY <1>3 DEF Init, GateInit, Paced, Open
<1> QED
  BY <1>1, <1>2, <1>4 DEF Init, GateInit, GateInductive, LivesWhileUsed

\* Time passes, and the other parts go on.
LEMMA GateWaits ==
    ASSUME GateInductive, UNCHANGED gate, now' = now \/ now' = now + 1
    PROVE  GateInductive'
<1>1. GateTypes'
  BY DEF GateInductive, GateTypes, gate
<1>2. Dated'
  BY DEF GateInductive, GateTypes, Dated, gate, Asked
<1>3. Paced'
  BY DEF GateInductive, Paced, gate
<1>4. LivesWhileUsed'
  BY DEF GateInductive, LivesWhileUsed, gate
<1> QED
  BY <1>1, <1>2, <1>3, <1>4 DEF GateInductive
\* A request that moves on while the jar stays.
LEMMA RequestMoves ==
    ASSUME GateTypes, Dated, NEW v \in Visits, NEW request \in Asked \cup {None},
           Become(v, request), UNCHANGED <<now, jar, heard>>,
           request # None =>
              /\ request.since <= now
              /\ request.cookie # None =>
                    request.cookie <= now + Ttl /\ (jar # None => request.cookie <= jar + Patience)
              /\ request.owner => request.cookie # None /\ request.cookie > request.since
    PROVE  visiting' \in [Visits -> Asked \cup {None}] /\ Dated'
<1>1. visiting' \in [Visits -> Asked \cup {None}]
  BY DEF Become, GateTypes
<1>2. ASSUME NEW w \in Visits, visiting'[w] # None
      PROVE  /\ visiting'[w].since <= now
             /\ visiting'[w].cookie # None =>
                   visiting'[w].cookie <= now + Ttl
                   /\ (jar # None => visiting'[w].cookie <= jar + Patience)
             /\ visiting'[w].owner =>
                   visiting'[w].cookie # None /\ visiting'[w].cookie > visiting'[w].since
  <2>1. CASE w = v
    <3>1. visiting'[w] = request
      BY <2>1 DEF Become, GateTypes
    <3> QED BY <3>1, <1>2
  <2>2. CASE w # v
    <3>1. visiting'[w] = visiting[w]
      BY <2>2 DEF Become, GateTypes
    <3> QED BY <3>1, <1>2 DEF Dated
  <2> QED
    BY <2>1, <2>2
<1> QED
  BY <1>1, <1>2 DEF Dated

\* The steps that leave the jar and the counter alone.
LEMMA GateKeeps ==
    ASSUME GateInductive, GateTypes', Dated', UNCHANGED <<jar, heard>>,
           UNCHANGED <<failures, guesses>>
    PROVE  GateInductive'
BY DEF GateInductive, Paced, LivesWhileUsed

LEMMA AskKeeps ==
    ASSUME GateInductive, NEW v \in Visits, NEW ask \in {"right", "wrong", "out", "page"},
           Ask(v, ask)
    PROVE  GateInductive'
<1> DEFINE request == [ask |-> ask, cookie |-> jar, at |-> "sent", since |-> now,
                       owner |-> FALSE, sets |-> "nothing"]
<1>1. GateTypes /\ Dated
  BY DEF GateInductive
<1>2. Become(v, request) /\ UNCHANGED <<now, jar, failures, heard, guesses>>
  BY DEF Ask
<1>3. request \in Asked
  BY <1>1 DEF GateTypes, Asked
<1>4. request.since = now /\ request.cookie = jar /\ request.owner = FALSE
  OBVIOUS
<1> HIDE DEF request
<1>5. /\ request.since <= now
      /\ request.cookie # None =>
            request.cookie <= now + Ttl /\ (jar # None => request.cookie <= jar + Patience)
  BY <1>1, <1>4 DEF GateTypes, Dated
<1>6. visiting' \in [Visits -> Asked \cup {None}] /\ Dated'
  BY <1>1, <1>2, <1>3, <1>4, <1>5, RequestMoves
<1>7. GateTypes'
  BY <1>1, <1>2, <1>6 DEF GateTypes
<1> QED
  BY <1>2, <1>6, <1>7, GateKeeps

LEMMA ResolveKeeps ==
    ASSUME GateInductive, NEW v \in Visits, Resolve(v)
    PROVE  GateInductive'
<1>1. GateTypes /\ Dated /\ visiting[v] \in Asked /\ visiting[v] # None
  BY DEF GateInductive, GateTypes, Resolve, Under
<1>2. PICK request \in Asked :
         /\ Become(v, request)
         /\ request.since = now /\ request.cookie = visiting[v].cookie
         /\ request.owner => Valid(visiting[v].cookie)
  <2> DEFINE owner == Valid(visiting[v].cookie)
             here == [visiting[v] EXCEPT !.since = now, !.owner = owner]
             next == CASE here.ask \in {"right", "wrong"} -> [here EXCEPT !.at = "login"]
                       [] here.ask = "out" /\ owner -> [here EXCEPT !.at = "served", !.sets = "clear"]
                       [] OTHER -> [here EXCEPT !.at = "served"]
  <2>1. Become(v, next)
    BY DEF Resolve
  <2>2. owner \in BOOLEAN
    BY DEF Valid
  <2> HIDE DEF owner
  <2>3. here \in Asked /\ here.since = now /\ here.cookie = visiting[v].cookie /\ here.owner = owner
    BY <1>1, <2>2 DEF GateTypes, Asked
  <2> HIDE DEF here
  <2>4. /\ next \in Asked /\ next.since = here.since
        /\ next.cookie = here.cookie /\ next.owner = here.owner
    BY <2>3 DEF Asked
  <2> HIDE DEF next
  <2> QED
    BY <2>1, <2>3, <2>4 DEF owner
<1>3. UNCHANGED <<now, jar, failures, heard, guesses>>
  BY DEF Resolve
<1>4. /\ visiting[v].cookie # None =>
            visiting[v].cookie <= now + Ttl
            /\ (jar # None => visiting[v].cookie <= jar + Patience)
  BY <1>1 DEF Dated
<1>5. /\ request.since <= now
      /\ request.cookie # None =>
            request.cookie <= now + Ttl /\ (jar # None => request.cookie <= jar + Patience)
      /\ request.owner => request.cookie # None /\ request.cookie > request.since
  BY <1>1, <1>2, <1>4 DEF GateTypes, Valid
<1>6. visiting' \in [Visits -> Asked \cup {None}] /\ Dated'
  BY <1>1, <1>2, <1>3, <1>5, RequestMoves
<1>7. GateTypes'
  BY <1>1, <1>3, <1>6 DEF GateTypes
<1> QED
  BY <1>3, <1>6, <1>7, GateKeeps

\* One more wrong guess, judged after the lockout.
LEMMA GuessCounts ==
    ASSUME GateTypes, Paced, NEW since \in Nat, ~LockedFor(since),
           failures' = Failed(since), guesses' = Recent(Append(guesses, since))
    PROVE  failures' \in [consecutive : Nat, until : Nat] /\ guesses' \in Seq(Nat) /\ Paced'
<1>a. guesses \in Seq(Nat) /\ Len(guesses) <= FailureLimit + 1
      /\ failures \in [consecutive : Nat, until : Nat]
  BY DEF GateTypes, Paced
<1>b. guesses' \in Seq(Nat)
  BY <1>a, RecentGuesses
<1>1. PICK g \in Seq(Nat), r \in Seq(Nat), c \in Nat, n \in Nat, m \in Nat, until \in Nat :
         /\ g = guesses /\ r = guesses' /\ n = Len(g) /\ m = Len(r)
         /\ c = failures.consecutive /\ until = failures.until
  BY <1>a, <1>b, LenProperties
<1>2. /\ c < FailureLimit /\ c <= n /\ n <= FailureLimit + 1 /\ since >= until
      /\ \A j \in 1 .. n : j > n - c => g[j] >= until
      /\ c < n => until = g[n - c] + Lockout
  BY <1>1 DEF Paced, LockedFor
<1>3. /\ r \in Seq(Nat) /\ m \in Nat
      /\ n <= FailureLimit =>
            /\ m = n + 1 /\ r[n + 1] = since
            /\ \A j \in 1 .. n : r[j] = g[j]
      /\ n = FailureLimit + 1 =>
            /\ m = n /\ r[n] = since
            /\ \A j \in 1 .. n - 1 : r[j] = g[j + 1]
  <2>1. r = Recent(Append(g, since)) /\ Len(g) <= FailureLimit + 1
    BY <1>1, <1>2
  <2>2. /\ Len(g) <= FailureLimit =>
              /\ Len(r) = Len(g) + 1 /\ r[Len(g) + 1] = since
              /\ \A j \in 1 .. Len(g) : r[j] = g[j]
        /\ Len(g) = FailureLimit + 1 =>
              /\ Len(r) = Len(g) /\ r[Len(g)] = since
              /\ \A j \in 1 .. Len(g) - 1 : r[j] = g[j + 1]
    BY ONLY <2>1, g \in Seq(Nat), since \in Nat, RecentGuesses
  <2> QED BY <2>2, <1>1
<1>4. CASE c + 1 >= FailureLimit
  <2>0. failures' = [consecutive |-> 0, until |-> since + Lockout]
    BY <1>1, <1>4 DEF Failed, Limit
  <2>1. failures' = [consecutive |-> 0, until |-> since + Lockout] /\ c = FailureLimit - 1
    BY <1>2, <1>4, <2>0
  <2>2. m <= FailureLimit + 1 /\ 0 < m /\ r[m] = since
    BY <1>2, <1>3
  <2>3. ASSUME m > FailureLimit
        PROVE  r[m] >= r[m - FailureLimit] + Lockout
    <3>1. n - c \in 1 .. n /\ c < n /\ until = g[n - c] + Lockout
      BY <1>2, <1>3, <2>1, <2>3
    <3>2. r[m - FailureLimit] = g[n - c]
      <4>1. CASE n <= FailureLimit
        BY <1>2, <1>3, <2>1, <2>3, <3>1, <4>1
      <4>2. CASE n = FailureLimit + 1
        <5>1. m - FailureLimit = 1 /\ 1 \in 1 .. n - 1 /\ n - c = 1 + 1
          BY <1>3, <2>1, <4>2
        <5> QED BY <1>3, <4>2, <5>1
      <4> QED BY <1>2, <4>1, <4>2
    <3> QED BY <2>2, <1>2, <3>1, <3>2
  <2>4. failures' \in [consecutive : Nat, until : Nat]
        /\ failures'.consecutive = 0 /\ failures'.until = since + Lockout
    BY <2>1
  <2>5. PICK f : f = failures'
    OBVIOUS
  <2>6. Paced'
    <3>1. r = guesses' /\ m = Len(r) /\ f = failures' /\ f.consecutive = 0 /\ f.until = r[m] + Lockout
      BY <1>1, <2>2, <2>4, <2>5
    <3> QED BY <2>2, <2>3, <3>1 DEF Paced
  <2> QED
    BY <1>1, <1>3, <2>4, <2>6
<1>5. CASE c + 1 < FailureLimit
  <2>1. failures' = [failures EXCEPT !.consecutive = @ + 1]
    BY <1>1, <1>5 DEF Failed, Limit
  <2>2. failures'.consecutive = c + 1 /\ failures'.until = until
        /\ failures' \in [consecutive : Nat, until : Nat]
    <3>1. failures = [consecutive |-> c, until |-> until]
      BY <1>a, <1>1
    <3>2. failures' = [consecutive |-> c + 1, until |-> until]
      BY <2>1, <3>1
    <3> QED BY <3>2, c + 1 \in Nat
  <2>3. m <= FailureLimit + 1 /\ c + 1 <= m
    BY <1>2, <1>3, <1>5
  <2>4. ASSUME NEW j \in 1 .. m, j > m - (c + 1) PROVE r[j] >= until
    <3>1. CASE n <= FailureLimit
      <4>1. CASE j = n + 1
        BY <1>2, <1>3, <3>1, <4>1
      <4>2. CASE j # n + 1
        <5>1. j \in 1 .. n /\ j > n - c /\ r[j] = g[j]
          BY <1>2, <1>3, <2>4, <3>1, <4>2
        <5> QED BY <5>1, <1>2
      <4> QED BY <4>1, <4>2
    <3>2. CASE n = FailureLimit + 1
      <4>1. CASE j = n
        BY <1>2, <1>3, <3>2, <4>1
      <4>2. CASE j # n
        <5>1. j \in 1 .. n - 1 /\ j + 1 \in 1 .. n /\ j + 1 > n - c
          BY <1>2, <1>3, <2>4, <3>2, <4>2
        <5>2. r[j] = g[j + 1]
          BY <1>3, <3>2, <5>1
        <5> QED BY <5>1, <5>2, <1>2
      <4> QED BY <4>1, <4>2
    <3> QED BY <1>2, <3>1, <3>2
  <2>5. ASSUME c + 1 < m PROVE until = r[m - (c + 1)] + Lockout
    <3>1. c < n /\ n - c \in 1 .. n
      BY <1>2, <1>3, <1>5, <2>5
    <3>2. CASE n <= FailureLimit
      <4>1. m - (c + 1) = n - c
        BY <1>3, <3>2
      <4> QED BY <1>2, <1>3, <3>1, <3>2, <4>1
    <3>3. CASE n = FailureLimit + 1
      <4>1. m - (c + 1) \in 1 .. n - 1 /\ (m - (c + 1)) + 1 = n - c
        BY <1>3, <2>5, <3>1, <3>3
      <4> QED BY <1>2, <1>3, <3>1, <3>3, <4>1
    <3> QED BY <1>2, <3>2, <3>3
  <2>6. Paced'
    BY <1>1, <1>5, <2>2, <2>3, <2>4, <2>5 DEF Paced
  <2> QED
    BY <1>1, <1>3, <2>2, <2>6
<1> QED
  BY <1>2, <1>4, <1>5

LEMMA LogInKeeps ==
    ASSUME GateInductive, NEW v \in Visits, LogIn(v)
    PROVE  GateInductive'
<1>1. GateTypes /\ Dated /\ Paced /\ visiting[v] \in Asked /\ visiting[v] # None
      /\ visiting[v].since \in Nat
  BY DEF GateInductive, GateTypes, LogIn, Under, Asked
<1>2. UNCHANGED <<now, jar, heard>>
  BY DEF LogIn
<1>3. visiting' \in [Visits -> Asked \cup {None}] /\ Dated'
  <2>1. PICK request \in Asked :
           /\ Become(v, request)
           /\ request.since = visiting[v].since /\ request.cookie = visiting[v].cookie
           /\ request.owner = visiting[v].owner
    <3> DEFINE answer == [visiting[v] EXCEPT !.at = "served"]
    <3>1. Become(v, answer) \/ Become(v, [answer EXCEPT !.sets = "session"])
      BY DEF LogIn
    <3>2. answer \in Asked /\ answer.since = visiting[v].since
          /\ answer.cookie = visiting[v].cookie /\ answer.owner = visiting[v].owner
      BY <1>1 DEF Asked
    <3> HIDE DEF answer
    <3>3. [answer EXCEPT !.sets = "session"] \in Asked
          /\ [answer EXCEPT !.sets = "session"].since = answer.since
          /\ [answer EXCEPT !.sets = "session"].cookie = answer.cookie
          /\ [answer EXCEPT !.sets = "session"].owner = answer.owner
      BY <3>2 DEF Asked
    <3> QED
      BY <3>1, <3>2, <3>3
  <2>2. /\ request.since <= now
        /\ request.cookie # None =>
              request.cookie <= now + Ttl /\ (jar # None => request.cookie <= jar + Patience)
        /\ request.owner => request.cookie # None /\ request.cookie > request.since
    BY <1>1, <2>1 DEF Dated
  <2> QED
    BY <1>1, <1>2, <2>1, <2>2, RequestMoves
<1>4. failures' \in [consecutive : Nat, until : Nat] /\ guesses' \in Seq(Nat) /\ Paced'
  <2>1. CASE UNCHANGED <<failures, guesses>>
    BY <1>1, <2>1 DEF GateTypes, Paced
  <2>2. CASE /\ ~LockedFor(visiting[v].since)
             /\ failures' = Failed(visiting[v].since)
             /\ guesses' = Recent(Append(guesses, visiting[v].since))
    BY <1>1, <2>2, GuessCounts
  <2>3. CASE failures' = Open /\ guesses' = <<>>
    <3>1. guesses' \in Seq(Nat) /\ Len(guesses') = 0
      BY <2>3
    <3>2. Paced'
      BY <2>3, <3>1 DEF Open, Paced
    <3> QED BY <2>3, <3>1, <3>2 DEF Open
  <2> QED
    BY <2>1, <2>2, <2>3 DEF LogIn
<1>5. GateTypes'
  BY <1>1, <1>2, <1>3, <1>4 DEF GateTypes
<1>6. LivesWhileUsed'
  BY <1>2 DEF GateInductive, LivesWhileUsed
<1> QED
  BY <1>3, <1>4, <1>5, <1>6 DEF GateInductive
\* What an answer makes of the jar: a session counted from a time that is not
\* long past, none, or the one that is there, not yet due for renewal.
LEMMA AnswerJar ==
    ASSUME GateInductive, NEW v \in Visits, Receive(v)
    PROVE  /\ heard' \in Nat \cup {None} /\ jar' \in Nat \cup {None}
           /\ \/ /\ jar' # None
                 /\ heard' # None
                 /\ jar' <= now + Ttl /\ now + Ttl <= jar' + Patience
                 /\ heard' <= now
                 /\ jar' - heard' \in RefreshAfter - Patience .. Ttl
              \/ jar' = None /\ heard' = None
              \/ /\ jar' = jar /\ jar # None
                 /\ heard' # None /\ heard' <= now
                 /\ jar' - heard' \in RefreshAfter - Patience .. Ttl
<1>1. PICK q \in Asked : q = visiting[v]
  BY DEF GateInductive, GateTypes, Receive, Under
<1>2. /\ q.since \in Nat /\ q.since <= now /\ now - q.since <= Patience
      /\ q.cookie \in Nat \cup {None} /\ q.sets \in {"nothing", "session", "clear"}
      /\ q.owner \in BOOLEAN /\ now \in Nat
      /\ jar \in Nat \cup {None} /\ heard \in Nat \cup {None}
  BY <1>1 DEF GateInductive, GateTypes, Dated, Receive, Under, Asked
<1>3. /\ jar # None => jar <= now + Ttl /\ heard # None
      /\ heard # None => heard <= now
      /\ jar # None => jar - heard \in RefreshAfter - Patience .. Ttl
      /\ q.cookie # None => q.cookie <= now + Ttl /\ (jar # None => q.cookie <= jar + Patience)
      /\ q.owner => q.cookie # None
  BY <1>1 DEF GateInductive, LivesWhileUsed, Dated, Receive, Under
<1>4. heard' = IF jar' = None THEN None
               ELSE IF q.owner \/ q.sets = "session"
               THEN IF heard = None \/ heard < q.since THEN q.since ELSE heard
               ELSE heard
  BY <1>1 DEF Receive
<1>5. CASE (q.owner /\ q.sets = "nothing" /\ q.cookie - q.since < RefreshAfter)
           \/ q.sets = "session"
  <2>1. jar' = q.since + Ttl /\ (q.owner \/ q.sets = "session")
    BY <1>1, <1>5 DEF Receive, Answered, Renewable, Silent
  <2>2. /\ jar' \in Nat /\ jar' # None /\ jar' <= now + Ttl /\ now + Ttl <= jar' + Patience
    BY <1>2, <2>1
  <2>3. heard' \in Nat /\ heard' <= now /\ q.since <= heard'
    BY <1>2, <1>3, <1>4, <2>1, <2>2
  <2> QED
    BY <1>2, <2>1, <2>2, <2>3
<1>6. CASE q.sets = "clear"
  <2>1. jar' = None
    BY <1>1, <1>6 DEF Receive, Answered, Renewable, Silent
  <2> QED
    BY <1>4, <2>1
<1>7. CASE /\ ~(q.owner /\ q.sets = "nothing" /\ q.cookie - q.since < RefreshAfter)
           /\ q.sets = "nothing"
  <2>1. jar' = jar
    BY <1>1, <1>7 DEF Receive, Answered, Renewable, Silent
  <2>2. CASE jar = None
    BY <1>4, <2>1, <2>2
  <2>3. CASE jar # None /\ heard' = heard
    BY <1>2, <1>3, <2>1, <2>3
  <2>4. CASE jar # None /\ heard' # heard
    <3>1. q.owner /\ heard' = q.since /\ heard < q.since /\ heard \in Nat /\ jar \in Nat
      BY <1>2, <1>3, <1>4, <1>7, <2>1, <2>4
    <3>2. q.cookie \in Nat /\ q.cookie - q.since >= RefreshAfter /\ q.cookie <= jar + Patience
      BY <1>2, <1>3, <1>7, <2>4, <3>1
    <3>3. jar - q.since \in RefreshAfter - Patience .. Ttl
      BY <1>2, <1>3, <2>4, <3>1, <3>2
    <3> QED
      BY <1>2, <2>1, <2>4, <3>1, <3>3
  <2> QED
    BY <2>2, <2>3, <2>4
<1> QED
  BY <1>2, <1>5, <1>6, <1>7

LEMMA ReceiveKeeps ==
    ASSUME GateInductive, NEW v \in Visits, Receive(v)
    PROVE  GateInductive'
<1>1. UNCHANGED <<now, failures, guesses>> /\ Become(v, None)
  BY DEF Receive
<1>2. GateTypes'
  <2>1. visiting' \in [Visits -> Asked \cup {None}]
    BY <1>1 DEF Become, GateInductive, GateTypes
  <2> QED
    BY <1>1, <2>1, AnswerJar DEF GateInductive, GateTypes
<1>3. ASSUME NEW w \in Visits, visiting'[w] # None
      PROVE  /\ visiting[w] # None /\ visiting'[w] = visiting[w]
             /\ visiting[w].cookie \in Nat \cup {None}
  BY <1>1, <1>3 DEF Become, GateInductive, GateTypes, Asked
<1>4. Dated'
  <2>1. /\ jar' # None => jar' <= now + Ttl /\ heard' # None
        /\ heard' # None => heard' <= now
    BY AnswerJar DEF GateInductive, Dated, GateTypes
  <2>2. ASSUME NEW w \in Visits, visiting'[w] # None
        PROVE  /\ visiting'[w].since <= now
               /\ visiting'[w].cookie # None =>
                     visiting'[w].cookie <= now + Ttl
                     /\ (jar' # None => visiting'[w].cookie <= jar' + Patience)
               /\ visiting'[w].owner =>
                     visiting'[w].cookie # None /\ visiting'[w].cookie > visiting'[w].since
    <3>1. /\ visiting[w].since <= now
          /\ visiting[w].cookie # None =>
                visiting[w].cookie <= now + Ttl
                /\ (jar # None => visiting[w].cookie <= jar + Patience)
          /\ visiting[w].owner =>
                visiting[w].cookie # None /\ visiting[w].cookie > visiting[w].since
      BY <1>3, <2>2 DEF GateInductive, Dated
    <3>2. now \in Nat
      BY DEF GateInductive, GateTypes
    <3>3. PICK k : k = visiting[w].cookie /\ k \in Nat \cup {None}
      BY <1>3, <2>2
    <3>4. k # None /\ jar' # None => k <= jar' + Patience
      BY <3>1, <3>2, <3>3, AnswerJar
    <3> QED
      BY <1>3, <2>2, <3>1, <3>3, <3>4
  <2> QED
    BY <1>1, <2>1, <2>2 DEF Dated
<1>5. Paced'
  BY <1>1 DEF GateInductive, Paced
<1>6. LivesWhileUsed'
  BY AnswerJar DEF LivesWhileUsed
<1> QED
  BY <1>2, <1>4, <1>5, <1>6 DEF GateInductive

LEMMA ForgetKeeps ==
    ASSUME GateInductive, NEW v \in Visits, Forget(v)
    PROVE  GateInductive'
<1>1. Become(v, None) /\ UNCHANGED <<now, jar, failures, heard, guesses>>
  BY DEF Forget
<1>2. visiting' \in [Visits -> Asked \cup {None}]
  BY <1>1 DEF GateInductive, GateTypes, Become
<1>3. GateTypes'
  BY <1>1, <1>2 DEF GateInductive, GateTypes
<1>4. \A w \in Visits : visiting'[w] # None => visiting[w] # None /\ visiting'[w] = visiting[w]
  BY <1>1 DEF GateInductive, GateTypes, Become
<1>5. Dated'
  BY <1>1, <1>4 DEF GateInductive, Dated
<1> QED
  BY <1>1, <1>3, <1>5, GateKeeps

LEMMA ExpireKeeps ==
    ASSUME GateInductive, Expire
    PROVE  GateInductive'
<1>1. jar' = None /\ heard' = None /\ UNCHANGED <<now, failures, visiting, guesses>>
  BY DEF Expire
<1>2. GateTypes' /\ Dated' /\ Paced' /\ LivesWhileUsed'
  BY <1>1 DEF GateInductive, GateTypes, Dated, Paced, LivesWhileUsed
<1> QED
  BY <1>2 DEF GateInductive

LEMMA RestartKeeps ==
    ASSUME GateInductive, Restart
    PROVE  GateInductive'
<1>1. /\ failures' = Open /\ guesses' = <<>> /\ UNCHANGED <<now, jar, heard>>
      /\ \A v \in Visits : visiting'[v] = None
      /\ visiting' \in [Visits -> Asked \cup {None}]
  BY DEF Restart
<1>2. guesses' \in Seq(Nat) /\ Len(guesses') = 0
  BY <1>1
<1>3. GateTypes'
  BY <1>1, <1>2 DEF GateInductive, GateTypes, Open
<1>4. Dated'
  BY <1>1 DEF GateInductive, Dated
<1>5. Paced'
  BY <1>1, <1>2 DEF Paced, Open
<1>6. LivesWhileUsed'
  BY <1>1 DEF GateInductive, LivesWhileUsed
<1> QED
  BY <1>3, <1>4, <1>5, <1>6 DEF GateInductive

LEMMA GateSteps ==
    ASSUME GateInductive, GateNext
    PROVE  GateInductive'
BY AskKeeps, ResolveKeeps, LogInKeeps, ReceiveKeeps, ForgetKeeps, ExpireKeeps, RestartKeeps
   DEF GateNext
-----------------------------------------------------------------------------
(* The copies of an export.                                                *)

USE BackupsAssumption

\* Sets of seconds are finite.
LEMMA FiniteSeconds ==
    ASSUME NEW b \in Nat, NEW T \in SUBSET (0 .. b)
    PROVE  /\ IsFiniteSet(T) /\ Cardinality(T) \in Nat
           /\ \A U \in SUBSET T : IsFiniteSet(U) /\ Cardinality(U) \in Nat
                                  /\ Cardinality(U) <= Cardinality(T)
<1>1. IsFiniteSet(0 .. b)
  <2>1. 0 \in Int /\ b \in Int
    OBVIOUS
  <2> QED BY <2>1, FS_Interval
<1>2. IsFiniteSet(T)
  BY <1>1, FS_Subset, Zenon
<1>3. \A U \in SUBSET T : IsFiniteSet(U) /\ Cardinality(U) <= Cardinality(T)
  BY <1>2, FS_Subset, Zenon
<1> QED
  BY <1>2, <1>3, FS_CardinalityType, Zenon

\* Of seconds, one is the last.
LEMMA LastSecond ==
    ASSUME NEW b \in Nat, NEW T \in SUBSET (0 .. b), T # {}
    PROVE  \E m \in T : \A t \in T : t <= m
<1> DEFINE Later(x) == {u \in T : u > x}
           R == StrictSubsetOrdering(T)
           D == {Later(x) : x \in T}
<1>1. \A x \in T : Later(x) \in FiniteSubsetsOf(T)
  <2> TAKE x \in T
  <2>1. Later(x) \in SUBSET T
    OBVIOUS
  <2> HIDE DEF Later
  <2> QED BY <2>1, FiniteSeconds DEF FiniteSubsetsOf
<1>2. D \subseteq FiniteSubsetsOf(T) /\ D # {}
  <2> HIDE DEF Later
  <2> QED BY <1>1
<1>3. IsWellFoundedOn(R, FiniteSubsetsOf(T))
  BY FS_StrictSubsetOrderingWellFounded
<1>4. PICK d \in D : \A e \in D : ~ (<<e, d>> \in R)
  <2> HIDE DEF D, R
  <2> QED BY <1>2, <1>3, WFMin
<1>5. PICK m \in T : d = Later(m)
  BY <1>4
<1>6. ASSUME NEW t \in T, t > m PROVE FALSE
  <2>1. \A u \in T : u \in Int
    OBVIOUS
  <2>2. ASSUME NEW u \in T, u > t PROVE u > m
    BY <1>6, <2>1, <2>2
  <2>3. t \in Later(m) /\ t \notin Later(t)
    BY <1>6, <2>1
  <2>4. Later(t) \in SUBSET T /\ Later(m) \in SUBSET T /\ Later(t) \in D
    OBVIOUS
  <2>a. Later(t) \subseteq Later(m)
    BY <2>2
  <2> HIDE DEF Later, D
  <2>5. <<Later(t), d>> \in R
    BY <1>5, <2>a, <2>3, <2>4 DEF StrictSubsetOrdering
  <2> QED BY <1>4, <2>4, <2>5
<1> QED
  BY <1>6

\* What is pruned is never among the newest: where k and more were newer than
\* a copy, there still are.
LEMMA NewestStay ==
    ASSUME NEW b \in Nat, NEW L \in SUBSET (0 .. b), NEW k \in Nat, NEW at \in 0 .. b,
           NEW R \in SUBSET L,
           \A s \in R : Cardinality({u \in L : u > s}) >= k,
           Cardinality({u \in L : u > at}) >= k
    PROVE  Cardinality({u \in L \ R : u > at}) >= k
<1> DEFINE After(s) == {u \in L : u > s}
           S == After(at)
           K == {u \in L \ R : u > at}
<1>1. Cardinality(S) >= k /\ \A s \in R : Cardinality(After(s)) >= k
  OBVIOUS
<1>2. K \in SUBSET L /\ Cardinality(K) \in Nat
  <2>1. K \in SUBSET L
    OBVIOUS
  <2> HIDE DEF K
  <2> QED BY <2>1, FiniteSeconds
<1>3. SUFFICES ASSUME Cardinality(K) < k PROVE FALSE
  BY <1>2
<1>4. S \cap R # {}
  <2>1. SUFFICES ASSUME S \cap R = {} PROVE FALSE
    OBVIOUS
  <2>2. S = K
    BY <2>1
  <2> HIDE DEF S, K
  <2> QED BY <1>1, <1>2, <1>3, <2>2
<1>5. PICK w \in S \cap R : \A t \in S \cap R : t <= w
  <2>1. S \cap R \in SUBSET (0 .. b)
    OBVIOUS
  <2> HIDE DEF S
  <2> QED BY <1>4, <2>1, LastSecond
<1>6. ASSUME NEW u \in After(w) PROVE u \in K
  <2>1. u \in Int /\ w \in Int /\ at \in Int /\ u > w /\ w > at /\ u \in L
    OBVIOUS
  <2>2. u > at
    BY <2>1
  <2>3. u \notin R
    <3>1. SUFFICES ASSUME u \in R PROVE FALSE
      OBVIOUS
    <3>2. u \in S \cap R
      BY <2>1, <2>2, <3>1
    <3> QED BY <1>5, <2>1, <3>2
  <2> QED BY <2>1, <2>2, <2>3
<1>7. K \in SUBSET (0 .. b) /\ After(w) \in SUBSET K /\ w \in R
  BY <1>2, <1>6
<1> HIDE DEF After, K
<1>8. Cardinality(After(w)) <= Cardinality(K) /\ Cardinality(After(w)) \in Nat
  BY <1>7, FiniteSeconds
<1>9. Cardinality(After(w)) >= k
  BY <1>1, <1>7
<1> QED
  BY <1>2, <1>3, <1>8, <1>9

\* A copy that is left alone while others come, and time passes.
LEMMA KeptOn ==
    ASSUME RollingTypes, copies' \in [Seconds -> 0 .. Torn \cup {None}], now' \in Seconds,
           NEW at \in Seconds, NEW version \in 0 .. Torn,
           Kept(at, version), spoilt \subseteq spoilt', now <= now',
           copies'[at] = copies[at] \/ at \in spoilt',
           \A t \in Seconds : copies[t] # None => copies'[t] # None
    PROVE  Kept(at, version)'
<1>1. CASE copies[at] = version \/ at \in spoilt
  BY <1>1 DEF Kept
<1>2. CASE at + Retention < now /\ Cardinality(Newer(at)) >= MinKept
  <2>1. at + Retention < now'
    BY <1>2 DEF RollingTypes, Seconds
  <2>2. Newer(at) \subseteq Newer(at)' /\ Newer(at)' \subseteq 0 .. MaxTime
    BY DEF Newer, Seconds
  <2>3. PICK A, B : A = Newer(at) /\ B = Newer(at)'
    OBVIOUS
  <2>4. Cardinality(A) <= Cardinality(B) /\ Cardinality(A) \in Nat /\ Cardinality(B) \in Nat
    <3>1. B \in SUBSET (0 .. MaxTime) /\ A \in SUBSET B /\ MaxTime \in Nat
      BY <2>2, <2>3
    <3> QED BY <3>1, FiniteSeconds
  <2>5. Cardinality(Newer(at)') >= MinKept
    BY <1>2, <2>3, <2>4
  <2> QED
    BY <2>1, <2>5 DEF Kept
<1> QED
  BY <1>1, <1>2 DEF Kept

LEMMA RollingStarts == Init => RollingInductive
<1> SUFFICES ASSUME Init PROVE RollingInductive
  OBVIOUS
<1>1. RollingTypes
  BY DEF Init, RollingInit, RollingTypes, Seconds, Torn
<1>2. OwnSecond /\ RunsCanGoBack /\ CanGoBack
  BY DEF Init, RollingInit, OwnSecond, RunsCanGoBack, CanGoBack, Runs
<1> QED
  BY <1>1, <1>2 DEF RollingInductive

\* Time passes, and the other parts go on.
LEMMA RollingWaits ==
    ASSUME RollingInductive, UNCHANGED rolling,
           now' = now \/ (now < MaxTime /\ now' = now + 1)
    PROVE  RollingInductive'
<1>1. RollingTypes'
  BY DEF RollingInductive, RollingTypes, rolling, Seconds
<1>2. now <= now' /\ now' \in Seconds /\ copies' \in [Seconds -> 0 .. Torn \cup {None}]
      /\ copies' = copies /\ spoilt' = spoilt /\ export' = export /\ undone' = undone
  BY <1>1 DEF RollingTypes, Seconds, rolling, RollingInductive
<1>3. \A at \in Seconds, version \in 0 .. Torn : Kept(at, version) => Kept(at, version)'
  BY <1>2, KeptOn DEF RollingInductive
<1>4. RunsCanGoBack' /\ CanGoBack'
  <2>1. \A x \in Exports : export[x] # None => export[x].since \in Seconds /\ export[x].saw \in 0 .. Torn
    BY DEF RollingInductive, RollingTypes, Run
  <2>2. RunsCanGoBack'
    BY <1>2, <1>3, <2>1 DEF RollingInductive, RunsCanGoBack, Runs
  <2>3. CanGoBack'
    BY <1>2, <1>3 DEF RollingInductive, CanGoBack, RollingTypes
  <2> QED BY <2>2, <2>3
<1>5. OwnSecond'
  <2>1. \A x \in Exports : export[x] # None => export[x].since \in Seconds
    BY DEF RollingInductive, RollingTypes, Run
  <2>2. \A u \in undone : u.at \in Seconds
    BY DEF RollingInductive, RollingTypes
  <2> QED
    BY <1>2, <2>1, <2>2 DEF RollingInductive, OwnSecond, RollingTypes, Seconds
<1> QED
  BY <1>1, <1>4, <1>5 DEF RollingInductive
LEMMA RunOf ==
    ASSUME RollingTypes, NEW x \in Exports, export[x] # None
    PROVE  /\ export[x] \in Run /\ export[x].since \in Seconds
           /\ export[x].saw \in 0 .. Torn /\ export[x].at \in {"copy", "list", "write"}
BY DEF RollingTypes, Run

LEMMA CopyIsThere == Torn \in Nat /\ Torn # None /\ 0 .. MaxVersion \subseteq 0 .. Torn
                     /\ None \notin 0 .. Torn /\ Seconds \subseteq Nat
BY DEF Torn, Seconds

LEMMA OpenCopyKeeps ==
    ASSUME RollingInductive, NEW x \in Exports, OpenCopy(x)
    PROVE  RollingInductive'
<1> DEFINE run == [at |-> "copy", since |-> now, saw |-> target]
<1>1. RollingTypes /\ OwnSecond /\ RunsCanGoBack /\ CanGoBack
      /\ now \in Seconds /\ now \in Nat
  BY CopyIsThere DEF RollingInductive, RollingTypes
<1>2. /\ export[x] = None /\ UNCHANGED <<now, target, undone>>
      /\ copies' = [copies EXCEPT ![now] = Torn]
      /\ spoilt' = IF copies[now] = None THEN spoilt ELSE spoilt \cup {now}
      /\ export' = [export EXCEPT ![x] = run]
  BY DEF OpenCopy
<1>3. run \in Run /\ run.since = now /\ run.at = "copy"
  BY <1>1, CopyIsThere DEF Run, RollingTypes
<1>4. /\ export'[x] = run
      /\ \A y \in Exports \ {x} : export'[y] = export[y]
      /\ export' \in [Exports -> Run \cup {None}]
  BY <1>1, <1>2, <1>3 DEF RollingTypes
<1> HIDE DEF run
<1>5. /\ copies' \in [Seconds -> 0 .. Torn \cup {None}]
      /\ copies'[now] # None
      /\ \A t \in Seconds \ {now} : copies'[t] = copies[t]
  BY <1>1, <1>2, CopyIsThere DEF RollingTypes
<1>6. RollingTypes'
  <2>1. spoilt' \subseteq Seconds
    BY <1>1, <1>2 DEF RollingTypes
  <2> QED
    BY <1>1, <1>2, <1>4, <1>5, <2>1 DEF RollingTypes
<1>7. spoilt \subseteq spoilt' /\ (copies[now] # None => now \in spoilt')
  BY <1>2
<1>8. OwnSecond'
  <2>1. ASSUME NEW w \in Exports, export'[w] # None
        PROVE  /\ export'[w].since <= now /\ (export'[w].since = now => copies'[now] # None)
               /\ \A y \in Exports \ {w} :
                     export'[y] # None /\ export'[y].since = export'[w].since
                     => export'[w].since \in spoilt'
               /\ \A u \in undone : u.at = export'[w].since => export'[w].since \in spoilt'
    <3>1. CASE w = x
      <4>1. export'[w].since = now
        BY <1>3, <1>4, <3>1
      <4>2. ASSUME NEW y \in Exports \ {w}, export'[y] # None, export'[y].since = now
            PROVE  now \in spoilt'
        BY <1>1, <1>4, <1>7, <3>1, <4>2 DEF OwnSecond
      <4>3. ASSUME NEW u \in undone, u.at = now PROVE now \in spoilt'
        BY <1>1, <1>7, <4>3 DEF OwnSecond
      <4> QED
        BY <1>1, <1>5, <4>1, <4>2, <4>3
    <3>2. CASE w # x
      <4>1. export'[w] = export[w] /\ export[w] # None
        BY <1>4, <2>1, <3>2
      <4>2. ASSUME NEW y \in Exports \ {w}, export'[y] # None, export'[y].since = export[w].since
            PROVE  export[w].since \in spoilt'
        <5>1. CASE y = x
          <6>1. export[w].since = now
            BY <1>3, <1>4, <4>2, <5>1
          <6> QED BY <1>1, <1>7, <4>1, <6>1 DEF OwnSecond
        <5>2. CASE y # x
          BY <1>1, <1>4, <1>7, <4>1, <4>2, <5>2 DEF OwnSecond
        <5> QED BY <5>1, <5>2
      <4> QED
        BY <1>1, <1>5, <1>7, <4>1, <4>2 DEF OwnSecond
    <3> QED BY <3>1, <3>2
  <2>2. \A u \in undone : u.at <= now /\ (u.at = now => copies'[now] # None)
    BY <1>1, <1>5 DEF OwnSecond
  <2> QED
    BY <1>2, <2>1, <2>2 DEF OwnSecond
<1>9. ASSUME NEW at \in Seconds, NEW version \in 0 .. Torn, Kept(at, version),
             at = now => copies[now] # None
      PROVE  Kept(at, version)'
  <2>1. copies'[at] = copies[at] \/ at \in spoilt'
    BY <1>5, <1>7, <1>9
  <2>2. now <= now' /\ now' \in Seconds
    BY <1>1, <1>2
  <2>3. \A t \in Seconds : copies[t] # None => copies'[t] # None
    BY <1>5
  <2> QED
    BY <1>1, <1>5, <1>7, <1>9, <2>1, <2>2, <2>3, KeptOn
<1>10. RunsCanGoBack'
  <2>1. ASSUME NEW w \in Exports, Runs(w, "list")' \/ Runs(w, "write")'
        PROVE  Kept(export[w].since, export[w].saw)' /\ export'[w] = export[w]
    <3>1. w # x /\ export'[w] = export[w] /\ export[w] # None
          /\ (Runs(w, "list") \/ Runs(w, "write"))
      BY <1>3, <1>4, <2>1 DEF Runs
    <3>2. export[w].since \in Seconds /\ export[w].saw \in 0 .. Torn
      BY <1>1, <3>1, RunOf
    <3>3. Kept(export[w].since, export[w].saw)
          /\ (export[w].since = now => copies[now] # None)
      BY <1>1, <3>1 DEF RunsCanGoBack, OwnSecond
    <3>4. PICK at \in Seconds, version \in 0 .. Torn :
             at = export[w].since /\ version = export[w].saw
      BY <3>2
    <3>5. Kept(at, version)'
      BY <1>9, <3>3, <3>4
    <3>6. at = export'[w].since /\ version = export'[w].saw
      BY <3>1, <3>4
    <3> QED BY <3>1, <3>5, <3>6
  <2> QED
    BY <2>1 DEF RunsCanGoBack
<1>11. CanGoBack'
  <2>1. ASSUME NEW u \in undone PROVE Kept(u.at, u.version)'
    <3>1. u.at \in Seconds /\ u.version \in 0 .. Torn
      BY <1>1 DEF RollingTypes
    <3>2. Kept(u.at, u.version) /\ (u.at = now => copies[now] # None)
      BY <1>1 DEF CanGoBack, OwnSecond
    <3> QED BY <1>9, <3>1, <3>2
  <2> QED
    BY <1>2, <2>1 DEF CanGoBack
<1> QED
  BY <1>6, <1>8, <1>10, <1>11 DEF RollingInductive
LEMMA FillCopyKeeps ==
    ASSUME RollingInductive, NEW x \in Exports, FillCopy(x)
    PROVE  RollingInductive'
<1>1. RollingTypes /\ OwnSecond /\ RunsCanGoBack /\ CanGoBack
      /\ now \in Seconds /\ now \in Nat
  BY CopyIsThere DEF RollingInductive, RollingTypes
<1>2. PICK t \in Seconds, run \in Run :
         /\ t = export[x].since /\ export[x] # None
         /\ run.at = "list" /\ run.since = t
         /\ \/ /\ copies' = [copies EXCEPT ![t] = target]
               /\ run.saw = target /\ spoilt' = spoilt
            \/ /\ copies' = [copies EXCEPT ![t] = Torn]
               /\ spoilt' = spoilt \cup {t}
         /\ export' = [export EXCEPT ![x] = run]
  <2>1. PICK old \in Run : old = export[x] /\ old # None
    BY <1>1, RunOf DEF FillCopy, Runs
  <2>2. /\ [old EXCEPT !.at = "list"] \in Run
        /\ [old EXCEPT !.at = "list"].since = old.since
        /\ [old EXCEPT !.at = "list"].at = "list"
        /\ [old EXCEPT !.at = "list"].saw = old.saw
    BY <2>1 DEF Run
  <2>3. export' = [export EXCEPT ![x] = [old EXCEPT !.at = "list"]]
    BY <2>1 DEF FillCopy, Moves
  <2>4. \/ /\ copies' = [copies EXCEPT ![old.since] = target]
           /\ old.saw = target /\ spoilt' = spoilt
        \/ /\ copies' = [copies EXCEPT ![old.since] = Torn]
           /\ spoilt' = spoilt \cup {old.since}
    BY <2>1 DEF FillCopy
  <2>5. old.since \in Seconds
    BY <2>1 DEF Run
  <2> QED BY <2>1, <2>2, <2>3, <2>4, <2>5
<1>3. UNCHANGED <<now, target, undone>> /\ spoilt \subseteq spoilt' /\ spoilt' \subseteq Seconds
  BY <1>1, <1>2 DEF FillCopy, RollingTypes
<1>4. /\ export'[x] = run
      /\ \A y \in Exports \ {x} : export'[y] = export[y]
      /\ export' \in [Exports -> Run \cup {None}]
  BY <1>1, <1>2 DEF RollingTypes
<1>5. /\ copies' \in [Seconds -> 0 .. Torn \cup {None}]
      /\ copies'[t] # None /\ run.saw \in 0 .. Torn
      /\ copies'[t] = run.saw \/ t \in spoilt'
      /\ \A s \in Seconds \ {t} : copies'[s] = copies[s]
  BY <1>1, <1>2, CopyIsThere DEF RollingTypes, Run
<1>6. RollingTypes'
  BY <1>1, <1>3, <1>4, <1>5 DEF RollingTypes
<1>7. \A s \in Seconds : copies[s] # None => copies'[s] # None
  BY <1>5
<1>8. ASSUME NEW w \in Exports
      PROVE  /\ export'[w] # None => export[w] # None
             /\ export'[w] # None => export'[w].since = export[w].since
  <2>1. CASE w = x
    BY <1>2, <1>4, <2>1
  <2>2. CASE w # x
    BY <1>4, <2>2
  <2> QED BY <2>1, <2>2
<1>9. OwnSecond'
  <2>1. ASSUME NEW w \in Exports, export'[w] # None
        PROVE  /\ export'[w].since <= now /\ (export'[w].since = now => copies'[now] # None)
               /\ \A y \in Exports \ {w} :
                     export'[y] # None /\ export'[y].since = export'[w].since
                     => export'[w].since \in spoilt
               /\ \A u \in undone : u.at = export'[w].since => export'[w].since \in spoilt
    BY <1>1, <1>7, <1>8, <2>1 DEF OwnSecond
  <2>2. \A u \in undone : u.at <= now /\ (u.at = now => copies'[now] # None)
    BY <1>1, <1>7 DEF OwnSecond
  <2> QED
    BY <1>3, <2>1, <2>2 DEF OwnSecond
<1>10. ASSUME NEW at \in Seconds, NEW version \in 0 .. Torn, Kept(at, version),
              at = t => at \in spoilt
       PROVE  Kept(at, version)'
  <2>1. copies'[at] = copies[at] \/ at \in spoilt'
    BY <1>3, <1>5, <1>10
  <2>2. now <= now' /\ now' \in Seconds /\ spoilt \subseteq spoilt'
    BY <1>1, <1>3
  <2> QED
    BY <1>1, <1>5, <1>7, <1>10, <2>1, <2>2, KeptOn
<1>11. RunsCanGoBack'
  <2>1. ASSUME NEW w \in Exports, Runs(w, "list")' \/ Runs(w, "write")'
        PROVE  \E at \in Seconds, version \in 0 .. Torn :
                  /\ at = export'[w].since /\ version = export'[w].saw
                  /\ Kept(at, version)'
    <3>1. CASE w = x
      <4>1. t = export'[w].since /\ run.saw = export'[w].saw
        BY <1>2, <1>4, <3>1
      <4>2. PICK v \in 0 .. Torn : v = run.saw
        BY <1>5
      <4>3. Kept(t, v)'
        BY <1>5, <4>2 DEF Kept
      <4> QED BY <4>1, <4>2, <4>3
    <3>2. CASE w # x
      <4>1. export'[w] = export[w] /\ export[w] # None
            /\ (Runs(w, "list") \/ Runs(w, "write"))
        BY <1>4, <2>1, <3>2 DEF Runs
      <4>2. PICK at \in Seconds, version \in 0 .. Torn :
               at = export[w].since /\ version = export[w].saw
        BY <1>1, <4>1, RunOf
      <4>3. Kept(at, version) /\ (at = t => at \in spoilt)
        BY <1>1, <1>2, <3>2, <4>1, <4>2 DEF RunsCanGoBack, OwnSecond
      <4> QED BY <1>10, <4>1, <4>2, <4>3
    <3> QED BY <3>1, <3>2
  <2> QED
    BY <2>1 DEF RunsCanGoBack
<1>12. CanGoBack'
  <2>1. ASSUME NEW u \in undone PROVE Kept(u.at, u.version)'
    <3>1. u.at \in Seconds /\ u.version \in 0 .. Torn
      BY <1>1 DEF RollingTypes
    <3>2. Kept(u.at, u.version) /\ (u.at = t => u.at \in spoilt)
      BY <1>1, <1>2 DEF CanGoBack, OwnSecond
    <3> QED BY <1>10, <3>1, <3>2
  <2> QED
    BY <1>3, <2>1 DEF CanGoBack
<1> QED
  BY <1>6, <1>9, <1>11, <1>12 DEF RollingInductive

\* Pruning takes neither the copy of the second that is now nor one that is
\* still to be kept.
LEMMA ListCopiesKeeps ==
    ASSUME RollingInductive, NEW x \in Exports, ListCopies(x)
    PROVE  RollingInductive'
<1>1. RollingTypes /\ OwnSecond /\ RunsCanGoBack /\ CanGoBack
      /\ now \in Seconds /\ now \in Nat
  BY CopyIsThere DEF RollingInductive, RollingTypes
<1>2. PICK run \in Run, old \in Run :
         /\ old = export[x] /\ export[x] # None /\ old.at = "list"
         /\ run.at = "write" /\ run.since = old.since /\ run.saw = old.saw
         /\ export' = [export EXCEPT ![x] = run]
  <2>1. PICK old \in Run : old = export[x] /\ export[x] # None /\ old.at = "list"
    BY <1>1, RunOf DEF ListCopies, Runs
  <2>2. [old EXCEPT !.at = "write"] \in Run
        /\ [old EXCEPT !.at = "write"].since = old.since
        /\ [old EXCEPT !.at = "write"].at = "write"
        /\ [old EXCEPT !.at = "write"].saw = old.saw
    BY <2>1 DEF Run
  <2>3. export' = [export EXCEPT ![x] = [old EXCEPT !.at = "write"]]
    BY <2>1 DEF ListCopies, Moves
  <2> QED BY <2>1, <2>2, <2>3
<1>3. UNCHANGED <<now, target, spoilt, undone>>
  BY DEF ListCopies
<1> DEFINE listed == {t \in Seconds : copies[t] # None}
<1>4. PICK removed \in SUBSET ToDelete(listed, old.since) :
         copies' = [t \in Seconds |-> IF t \in removed THEN None ELSE copies[t]]
  BY <1>2 DEF ListCopies
<1>5. /\ removed \subseteq listed
      /\ \A s \in removed : Cardinality({u \in listed : u > s}) >= MinKept
                            /\ s + Retention < old.since
  BY <1>4 DEF ToDelete
<1>6. /\ old.since \in Nat /\ old.since <= now
      /\ \A s \in removed : s + Retention < now /\ s < now
  <2>1. old.since \in Nat /\ old.since <= now
    BY <1>1, <1>2, CopyIsThere DEF OwnSecond, Run
  <2>2. \A s \in removed : s \in Nat
    BY <1>5, CopyIsThere
  <2>3. ASSUME NEW s \in removed PROVE s + Retention < now /\ s < now
    <3>1. s \in Nat /\ s + Retention < old.since /\ Retention \in Nat
      BY <1>5, <2>2
    <3>2. PICK since \in Nat : since = old.since
      BY <2>1
    <3>3. now \in Nat /\ since <= now
      BY <1>1, <2>1, <3>2
    <3> QED BY ONLY <3>1, <3>2, <3>3
  <2> QED
    BY <2>1, <2>3
<1>7. /\ export'[x] = run
      /\ \A y \in Exports \ {x} : export'[y] = export[y]
      /\ export' \in [Exports -> Run \cup {None}]
  BY <1>1, <1>2 DEF RollingTypes
<1>8. /\ copies' \in [Seconds -> 0 .. Torn \cup {None}]
      /\ \A t \in Seconds : copies'[t] = IF t \in removed THEN None ELSE copies[t]
      /\ copies'[now] = copies[now]
  BY <1>1, <1>4, <1>6 DEF RollingTypes
<1>9. RollingTypes'
  BY <1>1, <1>3, <1>7, <1>8 DEF RollingTypes
<1>10. ASSUME NEW w \in Exports
       PROVE  /\ export'[w] # None => export[w] # None
              /\ export'[w] # None => export'[w].since = export[w].since
                                      /\ export'[w].saw = export[w].saw
  <2>1. CASE w = x
    BY <1>2, <1>7, <2>1
  <2>2. CASE w # x
    BY <1>7, <2>2
  <2> QED BY <2>1, <2>2
<1>11. OwnSecond'
  <2>1. ASSUME NEW w \in Exports, export'[w] # None
        PROVE  /\ export'[w].since <= now /\ (export'[w].since = now => copies'[now] # None)
               /\ \A y \in Exports \ {w} :
                     export'[y] # None /\ export'[y].since = export'[w].since
                     => export'[w].since \in spoilt
               /\ \A u \in undone : u.at = export'[w].since => export'[w].since \in spoilt
    BY <1>1, <1>8, <1>10, <2>1 DEF OwnSecond
  <2>2. \A u \in undone : u.at <= now /\ (u.at = now => copies'[now] # None)
    BY <1>1, <1>8 DEF OwnSecond
  <2> QED
    BY <1>3, <2>1, <2>2 DEF OwnSecond
<1>12. ASSUME NEW at \in Seconds, NEW version \in 0 .. Torn, Kept(at, version)
       PROVE  Kept(at, version)'
  <2>1. CASE at \in spoilt
    BY <1>3, <2>1 DEF Kept
  <2>2. CASE copies[at] = version /\ at \notin removed
    BY <1>8, <2>2 DEF Kept
  <2>3. CASE at + Retention < now /\ Cardinality({u \in listed : u > at}) >= MinKept
    <3>1. Cardinality({u \in listed \ removed : u > at}) >= MinKept
      <4>1. listed \in SUBSET (0 .. MaxTime) /\ removed \in SUBSET listed
            /\ at \in 0 .. MaxTime /\ MaxTime \in Nat
        BY <1>5 DEF Seconds
      <4>2. \A s \in removed : Cardinality({u \in listed : u > s}) >= MinKept
        BY <1>5
      <4> HIDE DEF listed
      <4>3. MinKept \in Nat /\ Cardinality({u \in listed : u > at}) >= MinKept
        BY <2>3
      <4> QED BY ONLY <4>1, <4>2, <4>3, NewestStay, Zenon
    <3>2. Newer(at)' = {u \in listed \ removed : u > at}
      BY <1>8 DEF Newer
    <3>3. Cardinality(Newer(at)') >= MinKept
      BY <3>1, <3>2
    <3> QED
      BY <1>3, <2>3, <3>3 DEF Kept
  <2>4. Newer(at) = {u \in listed : u > at}
    BY DEF Newer
  <2>5. at \in removed => at + Retention < now /\ Cardinality({u \in listed : u > at}) >= MinKept
    BY <1>5, <1>6
  <2> HIDE DEF listed
  <2> QED
    BY <1>12, <2>1, <2>2, <2>3, <2>4, <2>5 DEF Kept
<1>13. RunsCanGoBack'
  <2>1. ASSUME NEW w \in Exports, Runs(w, "list")' \/ Runs(w, "write")'
        PROVE  \E at \in Seconds, version \in 0 .. Torn :
                  /\ at = export'[w].since /\ version = export'[w].saw
                  /\ Kept(at, version)'
    <3>1. export[w] # None /\ (Runs(w, "list") \/ Runs(w, "write"))
      <4>1. CASE w = x
        BY <1>2, <4>1 DEF Runs
      <4>2. CASE w # x
        BY <1>7, <2>1, <4>2 DEF Runs
      <4> QED BY <4>1, <4>2
    <3>2. PICK at \in Seconds, version \in 0 .. Torn :
             at = export[w].since /\ version = export[w].saw
      BY <1>1, <3>1, RunOf
    <3>3. Kept(at, version)
      BY <1>1, <3>1, <3>2 DEF RunsCanGoBack
    <3>4. export'[w].since = at /\ export'[w].saw = version
      BY <1>10, <2>1, <3>2 DEF Runs
    <3> QED BY <1>12, <3>2, <3>3, <3>4
  <2> QED
    BY <2>1 DEF RunsCanGoBack
<1>14. CanGoBack'
  <2>1. ASSUME NEW u \in undone PROVE Kept(u.at, u.version)'
    <3>1. u.at \in Seconds /\ u.version \in 0 .. Torn
      BY <1>1 DEF RollingTypes
    <3>2. Kept(u.at, u.version)
      BY <1>1 DEF CanGoBack
    <3> QED BY <1>12, <3>1, <3>2
  <2> QED
    BY <1>3, <2>1 DEF CanGoBack
<1> QED
  BY <1>9, <1>11, <1>13, <1>14 DEF RollingInductive
\* What neither time nor the copies changes is kept as it was.
LEMMA KeptStill ==
    ASSUME RollingTypes, UNCHANGED <<now, copies>>, spoilt \subseteq spoilt',
           NEW at \in Seconds, NEW version \in 0 .. Torn, Kept(at, version)
    PROVE  Kept(at, version)'
<1>1. copies' \in [Seconds -> 0 .. Torn \cup {None}] /\ now' \in Seconds /\ now <= now'
      /\ copies'[at] = copies[at]
      /\ \A t \in Seconds : copies[t] # None => copies'[t] # None
  BY CopyIsThere DEF RollingTypes
<1> QED
  BY <1>1, KeptOn

LEMMA WriteKeeps ==
    ASSUME RollingInductive, NEW x \in Exports, Write(x)
    PROVE  RollingInductive'
<1>1. RollingTypes /\ OwnSecond /\ RunsCanGoBack /\ CanGoBack
  BY DEF RollingInductive
<1>2. PICK old \in Run : old = export[x] /\ export[x] # None /\ old.at = "write"
  BY <1>1, RunOf DEF Write, Runs
<1>3. PICK done \in [at : Seconds, version : 0 .. Torn] :
         /\ done = [at |-> old.since, version |-> old.saw]
         /\ undone' = undone \cup {done}
  BY <1>2 DEF Write, Run
<1>4. /\ UNCHANGED <<now, copies, spoilt>>
      /\ export'[x] = None
      /\ \A y \in Exports \ {x} : export'[y] = export[y]
      /\ export' \in [Exports -> Run \cup {None}]
      /\ target' \in 0 .. MaxVersion
  BY <1>1 DEF Write, RollingTypes
<1>5. RollingTypes'
  BY <1>1, <1>3, <1>4 DEF RollingTypes
<1>6. \A w \in Exports : export'[w] # None => w # x /\ export'[w] = export[w]
  BY <1>4
<1>7. done.at = export[x].since /\ done.version = export[x].saw
  BY <1>2, <1>3
<1>8. OwnSecond'
  <2>1. ASSUME NEW w \in Exports, export'[w] # None
        PROVE  /\ export[w].since <= now /\ (export[w].since = now => copies[now] # None)
               /\ \A y \in Exports \ {w} :
                     export'[y] # None /\ export'[y].since = export[w].since
                     => export[w].since \in spoilt
               /\ \A u \in undone' : u.at = export[w].since => export[w].since \in spoilt
    <3>1. w # x /\ export[w] # None
      BY <1>6, <2>1
    <3>2. ASSUME NEW u \in undone', u.at = export[w].since PROVE export[w].since \in spoilt
      <4>1. CASE u \in undone
        BY <1>1, <3>1, <3>2, <4>1 DEF OwnSecond
      <4>2. CASE u = done
        BY <1>1, <1>2, <1>7, <3>1, <3>2, <4>2 DEF OwnSecond
      <4> QED BY <1>3, <4>1, <4>2
    <3> QED BY <1>1, <1>6, <3>1, <3>2 DEF OwnSecond
  <2>2. ASSUME NEW u \in undone' PROVE u.at <= now /\ (u.at = now => copies[now] # None)
    <3>1. CASE u \in undone
      BY <1>1, <3>1 DEF OwnSecond
    <3>2. CASE u = done
      BY <1>1, <1>2, <1>7, <3>2 DEF OwnSecond
    <3> QED BY <1>3, <3>1, <3>2
  <2> QED
    BY <1>4, <1>6, <2>1, <2>2 DEF OwnSecond
<1>9. RunsCanGoBack'
  <2>1. ASSUME NEW w \in Exports, Runs(w, "list")' \/ Runs(w, "write")'
        PROVE  \E at \in Seconds, version \in 0 .. Torn :
                  /\ at = export'[w].since /\ version = export'[w].saw
                  /\ Kept(at, version)'
    <3>1. export'[w] = export[w] /\ export[w] # None /\ (Runs(w, "list") \/ Runs(w, "write"))
      BY <1>6, <2>1 DEF Runs
    <3>2. PICK at \in Seconds, version \in 0 .. Torn :
             at = export[w].since /\ version = export[w].saw
      BY <1>1, <3>1, RunOf
    <3>3. Kept(at, version)
      BY <1>1, <3>1, <3>2 DEF RunsCanGoBack
    <3> QED BY <1>1, <1>4, <3>1, <3>2, <3>3, KeptStill
  <2> QED
    BY <2>1 DEF RunsCanGoBack
<1>10. CanGoBack'
  <2>1. ASSUME NEW u \in undone' PROVE Kept(u.at, u.version)'
    <3>1. u.at \in Seconds /\ u.version \in 0 .. Torn
      BY <1>5 DEF RollingTypes
    <3>2. Kept(u.at, u.version)
      <4>1. CASE u \in undone
        BY <1>1, <4>1 DEF CanGoBack
      <4>2. CASE u = done
        BY <1>1, <1>2, <1>7, <4>2 DEF RunsCanGoBack, Runs
      <4> QED BY <1>3, <4>1, <4>2
    <3> QED BY <1>1, <1>4, <3>1, <3>2, KeptStill
  <2> QED
    BY <2>1 DEF CanGoBack
<1> QED
  BY <1>5, <1>8, <1>9, <1>10 DEF RollingInductive

LEMMA BreakKeeps ==
    ASSUME RollingInductive, NEW x \in Exports, Break(x)
    PROVE  RollingInductive'
<1>1. RollingTypes /\ OwnSecond /\ RunsCanGoBack /\ CanGoBack
  BY DEF RollingInductive
<1>2. /\ UNCHANGED <<now, target, copies, undone>>
      /\ export'[x] = None
      /\ \A y \in Exports \ {x} : export'[y] = export[y]
      /\ export' \in [Exports -> Run \cup {None}]
  BY <1>1 DEF Break, RollingTypes
<1>3. spoilt \subseteq spoilt' /\ spoilt' \subseteq Seconds
  BY <1>1, RunOf DEF Break, RollingTypes
<1>4. RollingTypes'
  BY <1>1, <1>2, <1>3 DEF RollingTypes
<1>5. \A w \in Exports : export'[w] # None => w # x /\ export'[w] = export[w]
  BY <1>2
<1>6. OwnSecond'
  BY <1>1, <1>2, <1>3, <1>5 DEF OwnSecond
<1>7. RunsCanGoBack'
  <2>1. ASSUME NEW w \in Exports, Runs(w, "list")' \/ Runs(w, "write")'
        PROVE  \E at \in Seconds, version \in 0 .. Torn :
                  /\ at = export'[w].since /\ version = export'[w].saw
                  /\ Kept(at, version)'
    <3>1. export'[w] = export[w] /\ export[w] # None /\ (Runs(w, "list") \/ Runs(w, "write"))
      BY <1>5, <2>1 DEF Runs
    <3>2. PICK at \in Seconds, version \in 0 .. Torn :
             at = export[w].since /\ version = export[w].saw
      BY <1>1, <3>1, RunOf
    <3>3. Kept(at, version)
      BY <1>1, <3>1, <3>2 DEF RunsCanGoBack
    <3> QED BY <1>1, <1>2, <1>3, <3>1, <3>2, <3>3, KeptStill
  <2> QED
    BY <2>1 DEF RunsCanGoBack
<1>8. CanGoBack'
  <2>1. ASSUME NEW u \in undone PROVE Kept(u.at, u.version)'
    <3>1. u.at \in Seconds /\ u.version \in 0 .. Torn /\ Kept(u.at, u.version)
      BY <1>1 DEF RollingTypes, CanGoBack
    <3> QED BY <1>1, <1>2, <1>3, <3>1, KeptStill
  <2> QED
    BY <1>2, <2>1 DEF CanGoBack
<1> QED
  BY <1>4, <1>6, <1>7, <1>8 DEF RollingInductive

LEMMA PaintKeeps ==
    ASSUME RollingInductive, Paint
    PROVE  RollingInductive'
<1>1. UNCHANGED <<now, copies, export, spoilt, undone>> /\ target' \in 0 .. MaxVersion
  BY DEF Paint, RollingInductive, RollingTypes
<1>2. RollingTypes' /\ OwnSecond'
  BY <1>1 DEF RollingInductive, RollingTypes, OwnSecond
<1>3. RunsCanGoBack' /\ CanGoBack'
  BY <1>1 DEF RollingInductive, RunsCanGoBack, CanGoBack, Kept, Newer, Runs
<1> QED
  BY <1>2, <1>3 DEF RollingInductive

LEMMA RollingSteps ==
    ASSUME RollingInductive, RollingNext
    PROVE  RollingInductive'
BY OpenCopyKeeps, FillCopyKeeps, ListCopiesKeeps, WriteKeeps, BreakKeeps, PaintKeeps
   DEF RollingNext
-----------------------------------------------------------------------------
(* Asking Komoot: the throttle.                                            *)

USE ListingAssumption

LEMMA LaterOfTwo ==
    ASSUME NEW a \in Nat, NEW b \in Nat
    PROVE  Max({a, b}) \in Nat /\ Max({a, b}) >= a /\ Max({a, b}) >= b /\ Max({a, b}) \in {a, b}
<1>1. \E m \in {a, b} : \A y \in {a, b} : m >= y
  BY a >= b \/ b >= a
<1>2. Max({a, b}) \in {a, b} /\ \A y \in {a, b} : Max({a, b}) >= y
  BY <1>1 DEF Max
<1> QED
  BY <1>2

\* A slot reserved is behind all that were, and no sooner than Komoot asked.
LEMMA ReserveChains ==
    ASSUME ListingTypes, Chained, NEW c \in Callers, Reserve(c), UNCHANGED <<now, told>>
    PROVE  /\ slot' \in [Callers -> Nat \cup {None}] /\ nextAllowed' \in Nat /\ Chained'
           /\ slot[c] = None /\ slot'[c] >= told
           /\ \A d \in Callers \ {c} : slot'[d] = slot[d]
           /\ \A d \in Callers \ {c} : slot[d] # None => slot'[c] >= slot[d] + MinGap
<1>1. PICK m \in Nat : m = Max({now, nextAllowed}) /\ m >= nextAllowed
  BY LaterOfTwo DEF ListingTypes
<1>2. /\ slot[c] = None /\ slot' = [slot EXCEPT ![c] = m] /\ nextAllowed' = m + MinGap
  BY <1>1 DEF Reserve, Taken
<1>3. /\ slot' \in [Callers -> Nat \cup {None}] /\ slot'[c] = m
      /\ \A d \in Callers \ {c} : slot'[d] = slot[d]
  BY <1>2 DEF ListingTypes
<1>4. told \in Nat /\ nextAllowed \in Nat /\ told <= nextAllowed /\ MinGap \in Nat
      /\ \A d \in Callers : slot[d] # None => slot[d] \in Nat /\ slot[d] + MinGap <= nextAllowed
  BY DEF ListingTypes, Chained
<1>5. \A d \in Callers : slot'[d] # None => slot'[d] + MinGap <= nextAllowed'
  <2> TAKE d \in Callers
  <2>1. CASE d = c
    BY <1>1, <1>2, <1>3, <2>1
  <2>2. CASE d # c
    BY <1>1, <1>2, <1>3, <1>4, <2>2
  <2> QED BY <2>1, <2>2
<1>6. told' <= nextAllowed'
  BY <1>1, <1>2, <1>4
<1>7. Chained'
  BY <1>5, <1>6 DEF Chained
<1>8. ASSUME NEW d \in Callers \ {c}, slot[d] # None PROVE slot'[c] >= slot[d] + MinGap
  BY <1>1, <1>3, <1>4, <1>8
<1> QED
  BY <1>1, <1>2, <1>3, <1>4, <1>7, <1>8

LEMMA ServedChains ==
    ASSUME ListingTypes, Chained, NEW c \in Callers, Served(c), UNCHANGED <<nextAllowed, told>>
    PROVE  slot' \in [Callers -> Nat \cup {None}] /\ Chained'
           /\ \A d \in Callers : slot'[d] # None => slot'[d] = slot[d]
BY DEF ListingTypes, Chained, Served

\* A 429 moves on what is next allowed, never back.
LEMMA RefusedChains ==
    ASSUME ListingTypes, Chained, NEW c \in Callers, NEW backoff \in Backoffs, Refused(c, backoff)
    PROVE  /\ slot' \in [Callers -> Nat \cup {None}] /\ nextAllowed' \in Nat /\ told' \in Nat
           /\ Chained'
           /\ \A d \in Callers : slot'[d] # None => slot'[d] = slot[d]
<1>1. PICK until \in Nat : until = now + backoff
  <2>1. backoff \in Nat /\ now \in Nat
    BY DEF ListingTypes
  <2> QED BY <2>1
<1>2. nextAllowed' = Max({nextAllowed, until}) /\ told' = Max({told, until})
  BY <1>1 DEF Refused, Extended
<1>3. /\ nextAllowed' \in Nat /\ told' \in Nat
      /\ nextAllowed' >= nextAllowed /\ nextAllowed' >= until /\ told' \in {told, until}
      /\ nextAllowed \in Nat /\ told \in Nat
  BY <1>2, LaterOfTwo DEF ListingTypes
<1>4. told' <= nextAllowed'
  BY <1>3 DEF Chained
<1>5. /\ slot' \in [Callers -> Nat \cup {None}]
      /\ \A d \in Callers : slot'[d] # None => slot'[d] = slot[d]
  BY DEF ListingTypes, Refused, Served
<1>6. \A d \in Callers : slot'[d] # None => slot'[d] + MinGap <= nextAllowed'
  <2> TAKE d \in Callers
  <2>1. slot'[d] # None => slot[d] \in Nat /\ slot[d] + MinGap <= nextAllowed
    BY <1>5 DEF ListingTypes, Chained
  <2> QED BY <1>3, <1>5, <2>1
<1> QED
  BY <1>3, <1>4, <1>5, <1>6 DEF Chained

-----------------------------------------------------------------------------
(* Asking Komoot: the pages.                                               *)

\* Two runs of tours, one after the other.
LEMMA ListedTogether ==
    ASSUME NEW a \in Seq(KomootIds), NEW b \in Seq(KomootIds)
    PROVE  a \o b \in Seq(KomootIds) /\ Listed(a) \cup Listed(b) \subseteq Listed(a \o b)
<1>1. /\ a \o b \in Seq(KomootIds) /\ Len(a \o b) = Len(a) + Len(b)
      /\ \A i \in 1 .. Len(a) + Len(b) :
            (a \o b)[i] = IF i <= Len(a) THEN a[i] ELSE b[i - Len(a)]
      /\ Len(a) \in Nat /\ Len(b) \in Nat
  BY ConcatProperties, LenProperties
<1>2. ASSUME NEW i \in 1 .. Len(a) PROVE a[i] \in Listed(a \o b)
  BY <1>1 DEF Listed
<1>3. ASSUME NEW i \in 1 .. Len(b) PROVE b[i] \in Listed(a \o b)
  <2>1. i + Len(a) \in 1 .. Len(a) + Len(b) /\ ~ (i + Len(a) <= Len(a))
        /\ (i + Len(a)) - Len(a) = i
    BY <1>1
  <2>2. (a \o b)[i + Len(a)] = b[i]
    BY <1>1, <2>1
  <2> QED BY <1>1, <2>1, <2>2 DEF Listed
<1> QED
  BY <1>1, <1>2, <1>3 DEF Listed

\* What stands on a page of a list is read with it.
LEMMA PageHolds ==
    ASSUME NEW a \in Seq(KomootIds), NEW from \in Nat, NEW to \in Nat, to <= Len(a)
    PROVE  LET batch == SubSeq(a, from + 1, to) IN
           /\ batch \in Seq(KomootIds)
           /\ Len(batch) = IF from < to THEN to - from ELSE 0
           /\ \A i \in from + 1 .. to : a[i] \in Listed(batch)
<1> DEFINE batch == SubSeq(a, from + 1, to)
<1>1. Len(a) \in Nat /\ \A i \in 1 .. Len(a) : a[i] \in KomootIds
  BY LenProperties, ElementOfSeq
<1>2. /\ batch \in Seq(KomootIds)
      /\ Len(batch) = IF from + 1 <= to THEN to - (from + 1) + 1 ELSE 0
      /\ \A i \in 1 .. to - (from + 1) + 1 : batch[i] = a[from + 1 + i - 1]
  BY <1>1, SubSeqProperties
<1>3. Len(batch) = IF from < to THEN to - from ELSE 0
  BY <1>2
<1>4. ASSUME NEW i \in from + 1 .. to PROVE a[i] \in Listed(batch)
  <2>1. i - from \in 1 .. Len(batch) /\ batch[i - from] = a[i]
    BY <1>2
  <2> HIDE DEF batch
  <2> QED BY <2>1 DEF Listed
<1> QED
  BY <1>2, <1>3, <1>4
\* A listing that goes elsewhere, or on without reading.
LEMMA TurnsElsewhere ==
    ASSUME ListingTypes, NoneSlipsBy, ListsWhatStayed,
           NEW c \in Listers, NEW state, Turns(c, state), UNCHANGED <<account, stayed>>,
           Shaped(state), state.do # "listed",
           state.do \in {"list", "turn"} =>
              \/ state.page = 0
              \/ /\ state.page = listing[c].page /\ state.all = listing[c].all
                 /\ listing[c].do \in {"list", "turn"}
    PROVE  /\ DOMAIN listing' = Listers /\ \A d \in Listers : Shaped(listing'[d])
           /\ NoneSlipsBy' /\ ListsWhatStayed'
<1>1. /\ DOMAIN listing' = Listers /\ listing'[c] = state
      /\ \A d \in Listers \ {c} : listing'[d] = listing[d]
  BY DEF ListingTypes, Turns
<1>2. \A d \in Listers : Shaped(listing'[d])
  BY <1>1 DEF ListingTypes
<1>3. ListsWhatStayed'
  BY <1>1 DEF ListsWhatStayed, Does
<1>4. ASSUME NEW d \in Listers, listing'[d].do \in {"list", "turn"}, listing'[d].page > 0,
             NEW t \in stayed[d]
      PROVE  \/ t \in Listed(listing'[d].all)
             \/ \E i \in 1 .. Len(account) : i > listing'[d].page * PageSize /\ account[i] = t
  <2>1. /\ listing'[d].page = listing[d].page /\ listing'[d].all = listing[d].all
        /\ listing[d].do \in {"list", "turn"}
    <3>1. CASE d = c
      BY <1>1, <1>4, <3>1
    <3>2. CASE d # c
      BY <1>1, <1>4, <3>2
    <3> QED BY <3>1, <3>2
  <2>2. t \in Listed(listing[d].all) \/ Behind(t, d)
    BY <1>4, <2>1 DEF NoneSlipsBy, Does
  <2> QED
    BY <2>1, <2>2 DEF Behind
<1>5. NoneSlipsBy'
  BY <1>4 DEF NoneSlipsBy, Does, Behind
<1> QED
  BY <1>1, <1>2, <1>3, <1>5

\* What a throttled call leaves of the rest.
LEMMA CallKeeps ==
    ASSUME ListingInductive, UNCHANGED <<now, account, listing, linked, stayed>>,
           slot' \in [Callers -> Nat \cup {None}], nextAllowed' \in Nat, told' \in Nat, Chained'
    PROVE  ListingInductive'
<1>1. ListingTypes'
  BY DEF ListingInductive, ListingTypes
<1>2. NoneSlipsBy' /\ ListsWhatStayed'
  BY DEF ListingInductive, NoneSlipsBy, ListsWhatStayed, Does, Behind
<1> QED
  BY <1>1, <1>2 DEF ListingInductive

LEMMA OtherKeeps ==
    ASSUME ListingInductive, UNCHANGED now, NEW c \in Others, Other(c)
    PROVE  ListingInductive'
<1>1. c \in Callers /\ ListingTypes /\ Chained /\ UNCHANGED <<account, listing, linked, stayed>>
  BY DEF ListingInductive, Callers, Other
<1>2. CASE Reserve(c) /\ UNCHANGED told
  <2>1. told' \in Nat
    BY <1>1, <1>2 DEF ListingTypes
  <2> QED BY <1>1, <1>2, <2>1, ReserveChains, CallKeeps
<1>3. CASE Served(c) /\ UNCHANGED <<nextAllowed, told>>
  <2>1. told' \in Nat /\ nextAllowed' \in Nat
    BY <1>1, <1>3 DEF ListingTypes
  <2> QED BY <1>1, <1>3, <2>1, ServedChains, CallKeeps
<1>4. CASE \E backoff \in Backoffs : Refused(c, backoff)
  BY <1>1, <1>4, RefusedChains, CallKeeps
<1> QED
  BY <1>2, <1>3, <1>4 DEF Other

LEMMA RecordKeeps ==
    ASSUME ListingInductive, UNCHANGED now, NEW t \in KomootIds, Record(t)
    PROVE  ListingInductive'
<1>1. /\ ListingTypes /\ Chained /\ NoneSlipsBy /\ ListsWhatStayed
      /\ account \in Seq(KomootIds) /\ account' = <<t>> \o account
      /\ UNCHANGED <<nextAllowed, slot, listing, linked, told, stayed>>
  BY DEF ListingInductive, ListingTypes, Record
<1>2. /\ account' \in Seq(KomootIds) /\ Len(account') = Len(account) + 1 /\ Len(account) \in Nat
      /\ \A i \in 1 .. Len(account) : account'[i + 1] = account[i]
  <2>1. <<t>> \in Seq(KomootIds) /\ Len(<<t>>) = 1
    OBVIOUS
  <2>2. /\ account' \in Seq(KomootIds) /\ Len(account') = 1 + Len(account)
        /\ \A i \in 1 .. 1 + Len(account) :
              account'[i] = IF i <= 1 THEN <<t>>[i] ELSE account[i - 1]
    BY <1>1, <2>1, ConcatProperties
  <2>3. Len(account) \in Nat
    BY <1>1, LenProperties
  <2>4. ASSUME NEW i \in 1 .. Len(account) PROVE account'[i + 1] = account[i]
    <3>1. i + 1 \in 1 .. 1 + Len(account) /\ ~ (i + 1 <= 1) /\ (i + 1) - 1 = i
      BY <2>3
    <3> QED BY <2>2, <3>1
  <2> QED BY <2>2, <2>3, <2>4
<1>3. ListingTypes'
  BY <1>1, <1>2 DEF ListingTypes
<1>4. Chained' /\ ListsWhatStayed'
  BY <1>1 DEF Chained, ListsWhatStayed, Does
<1>5. ASSUME NEW c \in Listers, NEW u, Behind(u, c) PROVE Behind(u, c)'
  <2>1. PICK i \in 1 .. Len(account) : i > listing[c].page * PageSize /\ account[i] = u
    BY <1>5 DEF Behind
  <2>2. PICK from \in Nat : from = listing[c].page * PageSize
    BY <1>1 DEF ListingTypes, Shaped
  <2>3. i + 1 \in 1 .. Len(account') /\ i + 1 > from /\ account'[i + 1] = u
    BY <1>2, <2>1, <2>2
  <2>4. from = listing'[c].page * PageSize
    BY <1>1, <2>2
  <2> QED
    BY <2>3, <2>4 DEF Behind
<1>6. NoneSlipsBy'
  BY <1>1, <1>5 DEF NoneSlipsBy, Does
<1> QED
  BY <1>3, <1>4, <1>6 DEF ListingInductive

LEMMA RemoveKeeps ==
    ASSUME ListingInductive, UNCHANGED now, NEW t \in KomootIds, Remove(t)
    PROVE  ListingInductive'
<1>1. /\ ListingTypes /\ Chained /\ account \in Seq(KomootIds)
      /\ stayed' = [c \in Listers |-> {}]
      /\ UNCHANGED <<nextAllowed, slot, listing, linked, told>>
  BY DEF ListingInductive, ListingTypes, Remove
<1>2. account' \in Seq(KomootIds)
  <2>1. PICK i \in 1 .. Len(account) :
           account' = SubSeq(account, 1, i - 1) \o SubSeq(account, i + 1, Len(account))
    BY DEF Remove
  <2>2. Len(account) \in Nat /\ \A j \in 1 .. Len(account) : account[j] \in KomootIds
    BY <1>1, LenProperties, ElementOfSeq
  <2>3. SubSeq(account, 1, i - 1) \in Seq(KomootIds)
    <3>1. 1 \in Int /\ i - 1 \in Int /\ \A j \in 1 .. i - 1 : account[j] \in KomootIds
      BY <2>2
    <3> QED BY <3>1, SubSeqProperties
  <2>4. SubSeq(account, i + 1, Len(account)) \in Seq(KomootIds)
    <3>1. i + 1 \in Int /\ Len(account) \in Int
          /\ \A j \in i + 1 .. Len(account) : account[j] \in KomootIds
      BY <2>2
    <3> QED BY <3>1, SubSeqProperties
  <2> QED BY <2>1, <2>3, <2>4, ConcatProperties
<1>3. ListingTypes'
  BY <1>1, <1>2 DEF ListingTypes
<1>4. Chained' /\ ListsWhatStayed' /\ NoneSlipsBy'
  BY <1>1 DEF Chained, ListsWhatStayed, NoneSlipsBy
<1> QED
  BY <1>3, <1>4 DEF ListingInductive
\* The fields of a listing, one by one.
LEMMA ShapedFields ==
    ASSUME NEW do, NEW page \in Nat, NEW all \in Seq(KomootIds), NEW selected, NEW already,
           NEW attempted, NEW run,
           run = [do |-> do, page |-> page, all |-> all, selected |-> selected,
                  already |-> already, attempted |-> attempted]
    PROVE  Shaped(run) /\ run.do = do /\ run.page = page /\ run.all = all
BY DEF Shaped

LEMMA ShapedResting == Shaped(Resting) /\ Resting.do = "nothing" /\ Resting.page = 0
BY DEF Shaped, Resting

LEMMA ShapedTurn ==
    ASSUME NEW run, Shaped(run), NEW do, NEW turned, turned = [run EXCEPT !.do = do]
    PROVE  Shaped(turned) /\ turned.do = do /\ turned.page = run.page /\ turned.all = run.all
<1>1. turned = [do |-> do, page |-> run.page, all |-> run.all, selected |-> run.selected,
                already |-> run.already, attempted |-> run.attempted]
  BY DEF Shaped
<1>2. run.page \in Nat /\ run.all \in Seq(KomootIds)
  BY DEF Shaped
<1> QED
  BY <1>1, <1>2, ShapedFields

LEMMA ShapedChoice ==
    ASSUME NEW run, Shaped(run), NEW already, NEW selected, NEW turned,
           turned = [run EXCEPT !.do = "import", !.already = already, !.selected = selected]
    PROVE  Shaped(turned) /\ turned.do = "import"
<1>1. turned = [do |-> "import", page |-> run.page, all |-> run.all, selected |-> selected,
                already |-> already, attempted |-> run.attempted]
  BY DEF Shaped
<1>2. run.page \in Nat /\ run.all \in Seq(KomootIds)
  BY DEF Shaped
<1> QED
  BY <1>1, <1>2, ShapedFields

LEMMA ShapedTaking ==
    ASSUME NEW run, Shaped(run), NEW attempted, NEW selected, NEW turned,
           turned = [run EXCEPT !.selected = selected, !.attempted = attempted]
    PROVE  Shaped(turned) /\ turned.do = run.do
<1>1. turned = [do |-> run.do, page |-> run.page, all |-> run.all, selected |-> selected,
                already |-> run.already, attempted |-> attempted]
  BY DEF Shaped
<1>2. run.page \in Nat /\ run.all \in Seq(KomootIds)
  BY DEF Shaped
<1> QED
  BY <1>1, <1>2, ShapedFields

LEMMA ShapedHalt ==
    ASSUME NEW run, Shaped(run), NEW selected, NEW turned,
           turned = [run EXCEPT !.do = "halted", !.selected = selected]
    PROVE  Shaped(turned) /\ turned.do = "halted"
<1>1. turned = [do |-> "halted", page |-> run.page, all |-> run.all, selected |-> selected,
                already |-> run.already, attempted |-> run.attempted]
  BY DEF Shaped
<1>2. run.page \in Nat /\ run.all \in Seq(KomootIds)
  BY DEF Shaped
<1> QED
  BY <1>1, <1>2, ShapedFields

LEMMA StartKeeps ==
    ASSUME ListingInductive, UNCHANGED now, NEW c \in Listers, Start(c)
    PROVE  ListingInductive'
<1>1. /\ c \in Callers /\ ListingTypes /\ Chained /\ NoneSlipsBy /\ ListsWhatStayed
      /\ Reserve(c) /\ UNCHANGED <<account, linked, told, stayed>>
      /\ Turns(c, [Resting EXCEPT !.do = "list"])
  BY DEF ListingInductive, Callers, Start
<1>s. PICK state : state = [Resting EXCEPT !.do = "list"]
  OBVIOUS
<1>2. Shaped(state) /\ state.do = "list" /\ state.page = 0
  BY <1>s, ShapedResting, ShapedTurn
<1>3. /\ DOMAIN listing' = Listers /\ \A d \in Listers : Shaped(listing'[d])
      /\ NoneSlipsBy' /\ ListsWhatStayed'
  BY <1>1, <1>s, <1>2, TurnsElsewhere
<1>4. slot' \in [Callers -> Nat \cup {None}] /\ nextAllowed' \in Nat /\ Chained'
  BY <1>1, ReserveChains
<1>5. ListingTypes'
  BY <1>1, <1>3, <1>4 DEF ListingTypes
<1> QED
  BY <1>3, <1>4, <1>5 DEF ListingInductive

LEMMA TurnPageKeeps ==
    ASSUME ListingInductive, UNCHANGED now, NEW c \in Listers, TurnPage(c)
    PROVE  ListingInductive'
<1>1. /\ c \in Callers /\ ListingTypes /\ Chained /\ NoneSlipsBy /\ ListsWhatStayed
      /\ Reserve(c) /\ UNCHANGED <<account, linked, told, stayed>>
      /\ listing[c].do = "turn" /\ Shaped(listing[c])
      /\ Turns(c, [listing[c] EXCEPT !.do = "list"])
  BY DEF ListingInductive, ListingTypes, Callers, TurnPage, Does
<1>s. PICK state : state = [listing[c] EXCEPT !.do = "list"]
  OBVIOUS
<1>2. Shaped(state) /\ state.do = "list"
      /\ state.page = listing[c].page /\ state.all = listing[c].all
  BY <1>1, <1>s, ShapedTurn
<1>3. /\ DOMAIN listing' = Listers /\ \A d \in Listers : Shaped(listing'[d])
      /\ NoneSlipsBy' /\ ListsWhatStayed'
  BY <1>1, <1>s, <1>2, TurnsElsewhere
<1>4. slot' \in [Callers -> Nat \cup {None}] /\ nextAllowed' \in Nat /\ Chained'
  BY <1>1, ReserveChains
<1>5. ListingTypes'
  BY <1>1, <1>3, <1>4 DEF ListingTypes
<1> QED
  BY <1>3, <1>4, <1>5 DEF ListingInductive

LEMMA FailKeeps ==
    ASSUME ListingInductive, UNCHANGED now, NEW c \in Listers, Fail(c)
    PROVE  ListingInductive'
<1>1. /\ c \in Callers /\ ListingTypes /\ Chained /\ NoneSlipsBy /\ ListsWhatStayed
      /\ UNCHANGED <<account, linked, stayed>> /\ Turns(c, Resting)
  BY DEF ListingInductive, Callers, Fail
<1>2. /\ DOMAIN listing' = Listers /\ \A d \in Listers : Shaped(listing'[d])
      /\ NoneSlipsBy' /\ ListsWhatStayed'
  BY <1>1, ShapedResting, TurnsElsewhere
<1>3. /\ slot' \in [Callers -> Nat \cup {None}] /\ nextAllowed' \in Nat /\ told' \in Nat
      /\ Chained'
  <2>1. CASE \E backoff \in Backoffs : Refused(c, backoff)
    BY <1>1, <2>1, RefusedChains
  <2>2. CASE Served(c) /\ UNCHANGED <<nextAllowed, told>>
    BY <1>1, <2>2, ServedChains DEF ListingTypes
  <2> QED BY <2>1, <2>2 DEF Fail
<1>4. ListingTypes'
  BY <1>1, <1>2, <1>3 DEF ListingTypes
<1> QED
  BY <1>2, <1>3, <1>4 DEF ListingInductive

\* The steps that ask Komoot nothing.
LEMMA QuietKeeps ==
    ASSUME ListingInductive, NEW c \in Listers, NEW state, Shaped(state), Turns(c, state),
           state.do \notin {"list", "turn", "listed"},
           UNCHANGED <<now, account, nextAllowed, slot, told, stayed>>
    PROVE  ListingInductive'
<1>1. ListingTypes /\ Chained /\ NoneSlipsBy /\ ListsWhatStayed
  BY DEF ListingInductive
<1>2. /\ DOMAIN listing' = Listers /\ \A d \in Listers : Shaped(listing'[d])
      /\ NoneSlipsBy' /\ ListsWhatStayed'
  BY <1>1, TurnsElsewhere
<1>3. ListingTypes' /\ Chained'
  BY <1>1, <1>2 DEF ListingTypes, Chained
<1> QED
  BY <1>2, <1>3 DEF ListingInductive

LEMMA SelectAllKeeps ==
    ASSUME ListingInductive, UNCHANGED now, NEW c \in Listers, SelectAll(c)
    PROVE  ListingInductive'
<1>1. Shaped(listing[c]) /\ UNCHANGED <<now, account, nextAllowed, slot, told, stayed>>
  BY DEF ListingInductive, ListingTypes, SelectAll
<1>2. PICK selected : Turns(c, [listing[c] EXCEPT !.do = "import", !.already = linked,
                                                  !.selected = selected])
  BY DEF SelectAll
<1>3. PICK state : /\ state = [listing[c] EXCEPT !.do = "import", !.already = linked,
                                                 !.selected = selected]
                   /\ Shaped(state) /\ state.do = "import"
  BY <1>1, ShapedChoice
<1> QED
  BY <1>1, <1>2, <1>3, QuietKeeps

LEMMA SelectSomeKeeps ==
    ASSUME ListingInductive, UNCHANGED now, NEW c \in Listers, SelectSome(c)
    PROVE  ListingInductive'
<1>1. Shaped(listing[c]) /\ UNCHANGED <<now, account, nextAllowed, slot, told, stayed>>
  BY DEF ListingInductive, ListingTypes, SelectSome
<1>2. PICK selected : Turns(c, [listing[c] EXCEPT !.do = "import", !.already = linked,
                                                  !.selected = selected])
  BY DEF SelectSome
<1>3. PICK state : /\ state = [listing[c] EXCEPT !.do = "import", !.already = linked,
                                                 !.selected = selected]
                   /\ Shaped(state) /\ state.do = "import"
  BY <1>1, ShapedChoice
<1> QED
  BY <1>1, <1>2, <1>3, QuietKeeps

LEMMA ImportNextKeeps ==
    ASSUME ListingInductive, UNCHANGED now, NEW c \in Listers, ImportNext(c)
    PROVE  ListingInductive'
<1> DEFINE run == listing[c]
           t == Head(run.selected)
           then == [run EXCEPT !.selected = Tail(@), !.attempted = @ \cup {t}]
           halt == [run EXCEPT !.do = "halted", !.selected = <<t>>]
<1>1. /\ Shaped(run) /\ run.do = "import"
      /\ UNCHANGED <<now, account, nextAllowed, slot, told, stayed>>
      /\ Turns(c, then) \/ Turns(c, Resting) \/ Turns(c, halt)
  BY DEF ListingInductive, ListingTypes, ImportNext, Does
<1>2. then = [run EXCEPT !.selected = Tail(run.selected), !.attempted = run.attempted \cup {t}]
  OBVIOUS
<1>3. Shaped(then) /\ then.do = "import"
  <2> HIDE DEF then, t, run
  <2> QED BY <1>1, <1>2, ShapedTaking
<1>4. Shaped(halt) /\ halt.do = "halted"
  <2>1. PICK h : h = halt
    OBVIOUS
  <2> HIDE DEF t, run
  <2> QED BY <1>1, <2>1, ShapedHalt
<1> HIDE DEF run, then, halt
<1> QED
  BY <1>1, <1>3, <1>4, ShapedResting, QuietKeeps

LEMMA EndKeeps ==
    ASSUME ListingInductive, UNCHANGED now, NEW c \in Listers, End(c)
    PROVE  ListingInductive'
BY ShapedResting, QuietKeeps DEF End
\* A page is read: a tour that stayed is on it, was on one before, or is
\* behind it; and nothing is behind the last one.
LEMMA ReadPageKeeps ==
    ASSUME ListingInductive, UNCHANGED now, NEW c \in Listers, ReadPage(c)
    PROVE  ListingInductive'
<1>1. /\ c \in Callers /\ ListingTypes /\ Chained /\ NoneSlipsBy /\ ListsWhatStayed
      /\ Shaped(listing[c]) /\ listing[c].do = "list"
      /\ Served(c) /\ UNCHANGED <<account, nextAllowed, linked, told>>
  BY DEF ListingInductive, ListingTypes, Callers, ReadPage, Does
<1>2. PICK a \in Seq(KomootIds), page \in Nat, before \in Seq(KomootIds), from \in Nat, n \in Nat :
         /\ a = account /\ page = listing[c].page /\ before = listing[c].all
         /\ from = page * PageSize /\ n = Len(a)
         /\ (page + 1) * PageSize = from + PageSize
  <2>1. listing[c].page \in Nat /\ listing[c].all \in Seq(KomootIds) /\ account \in Seq(KomootIds)
    BY <1>1 DEF Shaped, ListingTypes
  <2>2. PICK page \in Nat : page = listing[c].page
    BY <2>1
  <2>3. page * PageSize \in Nat /\ (page + 1) * PageSize = page * PageSize + PageSize
    BY <2>2
  <2>4. Len(account) \in Nat
    BY <2>1, LenProperties
  <2> QED BY <2>1, <2>2, <2>3, <2>4
<1>3. PICK to \in Nat : to = IF from + PageSize < n THEN from + PageSize ELSE n
  BY <1>2
<1>4. PICK batch \in Seq(KomootIds) :
         /\ batch = SubSeq(a, from + 1, to) /\ batch = Page(c)
         /\ Len(batch) = IF from < to THEN to - from ELSE 0
         /\ \A i \in from + 1 .. to : a[i] \in Listed(batch)
  <2>1. to <= Len(a)
    BY <1>2, <1>3
  <2>2. SubSeq(a, from + 1, to) = Page(c)
    BY <1>2, <1>3 DEF Page
  <2> QED BY <2>1, <2>2, PageHolds
<1>5. PICK all \in Seq(KomootIds) :
         /\ all = before \o batch
         /\ Listed(before) \subseteq Listed(all) /\ Listed(batch) \subseteq Listed(all)
  BY ListedTogether
<1>6. PICK do : do = IF Len(batch) < PageSize THEN "listed" ELSE "turn"
  OBVIOUS
<1>7. PICK state : state = [listing[c] EXCEPT !.all = all, !.page = page + 1, !.do = do]
  OBVIOUS
<1>8. Turns(c, state)
  BY <1>2, <1>4, <1>5, <1>6, <1>7 DEF ReadPage, IsLast
<1>9. Shaped(state) /\ state.do = do /\ state.page = page + 1 /\ state.all = all
  <2>1. PICK next \in Nat : next = page + 1
    OBVIOUS
  <2>a. PICK run : run = listing[c]
    OBVIOUS
  <2>2. Shaped(run) /\ state = [run EXCEPT !.all = all, !.page = next, !.do = do]
    BY <1>1, <1>7, <2>1, <2>a
  <2>3. Shaped(state) /\ state.do = do /\ state.page = next /\ state.all = all
    <3>1. next \in Nat /\ all \in Seq(KomootIds)
      BY <1>5, <2>1
    <3>2. state = [do |-> do, page |-> next, all |-> all, selected |-> run.selected,
                   already |-> run.already, attempted |-> run.attempted]
      BY <2>2 DEF Shaped
    <3> QED BY <3>1, <3>2 DEF Shaped
  <2> QED BY <2>1, <2>3
<1>10. /\ DOMAIN listing' = Listers /\ listing'[c] = state
       /\ \A d \in Listers \ {c} : listing'[d] = listing[d]
  BY <1>1, <1>8 DEF ListingTypes, Turns
<1>11. /\ DOMAIN stayed' = Listers
       /\ stayed'[c] = IF page = 0 THEN Listed(a) ELSE stayed[c]
       /\ \A d \in Listers \ {c} : stayed'[d] = stayed[d]
  BY <1>1, <1>2 DEF ListingTypes, ReadPage
<1>12. slot' \in [Callers -> Nat \cup {None}] /\ Chained'
  BY <1>1, ServedChains
<1>13. \A d \in Listers : Shaped(listing'[d])
  BY <1>1, <1>9, <1>10 DEF ListingTypes
<1>14. ListingTypes'
  BY <1>1, <1>10, <1>11, <1>12, <1>13 DEF ListingTypes
<1>15. ASSUME NEW t \in stayed'[c]
       PROVE  \/ t \in Listed(before)
              \/ \E i \in 1 .. n : i > from /\ a[i] = t
  <2>1. CASE page = 0
    <3>1. from = 0 /\ t \in Listed(a)
      BY <1>2, <1>11, <1>15, <2>1
    <3> QED BY <1>2, <3>1 DEF Listed
  <2>2. CASE page # 0
    <3>1. t \in stayed[c] /\ page > 0
      BY <1>11, <1>15, <2>2
    <3>2. t \in Listed(listing[c].all) \/ Behind(t, c)
      BY <1>1, <1>2, <3>1 DEF NoneSlipsBy, Does
    <3> QED BY <1>2, <3>2 DEF Behind
  <2> QED BY <2>1, <2>2
<1>16. ASSUME NEW t \in stayed'[c], t \notin Listed(all)
       PROVE  Len(batch) = PageSize /\ \E i \in 1 .. n : i > from + PageSize /\ a[i] = t
  <2>1. PICK i \in 1 .. n : i > from /\ a[i] = t
    BY <1>5, <1>15, <1>16
  <2>2. i \notin from + 1 .. to
    BY <1>4, <1>5, <1>16, <2>1
  <2>3. i > to
    BY <2>1, <2>2
  <2>4. to = from + PageSize
    BY <1>3, <2>1, <2>3
  <2>5. Len(batch) = PageSize
    BY <1>4, <2>4
  <2> QED BY <2>1, <2>3, <2>4, <2>5
<1>17. ListsWhatStayed'
  <2>1. ASSUME NEW d \in Listers, listing'[d].do = "listed"
        PROVE  stayed'[d] \subseteq Listed(listing'[d].all)
    <3>1. CASE d = c
      <4>1. do = "listed" /\ Len(batch) < PageSize /\ Len(batch) \in Nat
        BY <1>4, <1>6, <1>9, <1>10, <2>1, <3>1, LenProperties
      <4>2. listing'[c].all = all
        BY <1>9, <1>10
      <4> QED BY <1>16, <3>1, <4>1, <4>2
    <3>2. CASE d # c
      BY <1>1, <1>10, <1>11, <2>1, <3>2 DEF ListsWhatStayed, Does
    <3> QED BY <3>1, <3>2
  <2> QED BY <2>1 DEF ListsWhatStayed, Does
<1>18. NoneSlipsBy'
  <2>1. ASSUME NEW d \in Listers, listing'[d].do \in {"list", "turn"}, listing'[d].page > 0,
               NEW t \in stayed'[d]
        PROVE  \/ t \in Listed(listing'[d].all)
               \/ \E i \in 1 .. Len(account) : i > listing'[d].page * PageSize /\ account[i] = t
    <3>1. CASE d = c
      <4>1. listing'[c].all = all /\ listing'[c].page = page + 1
        BY <1>9, <1>10
      <4> QED BY <1>2, <1>16, <2>1, <3>1, <4>1
    <3>2. CASE d # c
      <4>1. listing'[d] = listing[d] /\ stayed'[d] = stayed[d]
        BY <1>10, <1>11, <3>2
      <4>2. t \in Listed(listing[d].all) \/ Behind(t, d)
        BY <1>1, <2>1, <4>1 DEF NoneSlipsBy, Does
      <4> QED BY <4>1, <4>2 DEF Behind
    <3> QED BY <3>1, <3>2
  <2> QED BY <1>1, <2>1 DEF NoneSlipsBy, Does, Behind
<1> QED
  BY <1>12, <1>14, <1>17, <1>18 DEF ListingInductive

LEMMA ListingSteps ==
    ASSUME ListingInductive, ListingNext
    PROVE  ListingInductive'
BY OtherKeeps, RecordKeeps, RemoveKeeps, StartKeeps, ReadPageKeeps, TurnPageKeeps, FailKeeps,
   SelectAllKeeps, SelectSomeKeeps, ImportNextKeeps, EndKeeps
   DEF ListingNext

LEMMA ListingStarts == Init => ListingInductive
<1> SUFFICES ASSUME Init PROVE ListingInductive
  OBVIOUS
<1>1. account = <<>> /\ account \in Seq(KomootIds)
  BY DEF Init, ListingInit
<1>2. /\ DOMAIN listing = Listers /\ \A c \in Listers : listing[c] = Resting
      /\ DOMAIN stayed = Listers /\ slot \in [Callers -> {None}]
      /\ now = 0 /\ nextAllowed = 0 /\ told = 0
  BY DEF Init, ListingInit
<1>3. ListingTypes
  BY <1>1, <1>2, ShapedResting DEF ListingTypes
<1>4. Chained /\ NoneSlipsBy /\ ListsWhatStayed
  BY <1>2, ShapedResting DEF Chained, NoneSlipsBy, ListsWhatStayed, Does
<1> QED
  BY <1>3, <1>4 DEF ListingInductive

\* Time passes, and the other parts go on.
LEMMA ListingWaits ==
    ASSUME ListingInductive, UNCHANGED asking, now' = now \/ now' = now + 1
    PROVE  ListingInductive'
<1>1. /\ UNCHANGED <<account, nextAllowed, slot, listing, linked, told, stayed>>
      /\ now' \in Nat
  BY DEF asking, ListingInductive, ListingTypes
<1>2. ListingTypes' /\ Chained'
  BY <1>1 DEF ListingInductive, ListingTypes, Chained
<1>3. NoneSlipsBy' /\ ListsWhatStayed'
  BY <1>1 DEF ListingInductive, NoneSlipsBy, ListsWhatStayed, Does, Behind
<1> QED
  BY <1>2, <1>3 DEF ListingInductive
-----------------------------------------------------------------------------
(* The shares.                                                             *)

USE SharingAssumption

\* A share that was handed out only goes, or names less, until when it did.
SharesNarrow ==
    \A s \in shared :
        share'[s] # None =>
            /\ share[s] # None /\ share'[s].names \subseteq share[s].names
            /\ share'[s].until = share[s].until

LEMMA SharingStarts == Init => SharingInductive
<1> SUFFICES ASSUME Init PROVE SharingInductive
  OBVIOUS
<1>1. /\ now = 0 /\ alive = Present /\ used = Present /\ shared = {}
      /\ holds \in SUBSET ((Present \cap Tags) \X (Present \ Tags))
      /\ name \in [Tags -> Names \cup {None}]
      /\ share = [s \in Shares |-> None]
      /\ visit = [c \in Clients |-> None] /\ lost = [c \in Clients |-> {}]
  BY DEF Init, SharingInit
<1>2. Present \subseteq Things
  BY DEF Things
<1>3. holds \subseteq used \X used
  BY <1>1
<1>4. SharingTypes
  BY <1>1, <1>2, <1>3 DEF SharingTypes
<1>5. NamesUsed /\ LostForGood /\ ShowsWhatWasCovered
  BY <1>1 DEF NamesUsed, LostForGood, ShowsWhatWasCovered, Step
<1> QED
  BY <1>4, <1>5 DEF SharingInductive

\* Time passes, and the other parts go on.
LEMMA SharingWaits ==
    ASSUME SharingInductive, UNCHANGED sharing, now' = now \/ now' = now + 1
    PROVE  SharingInductive' /\ SharesNarrow
<1>1. UNCHANGED <<alive, used, name, holds, share, shared, visit, lost>> /\ now' \in Nat
  BY DEF sharing, tables, SharingInductive, SharingTypes
<1>2. SharingTypes' /\ NamesUsed' /\ LostForGood' /\ ShowsWhatWasCovered'
  BY <1>1 DEF SharingInductive, SharingTypes, NamesUsed, LostForGood, ShowsWhatWasCovered, Step
<1>3. SharesNarrow
  BY <1>1 DEF SharesNarrow
<1> QED
  BY <1>2, <1>3 DEF SharingInductive

\* The owner adds, tags and renames: what is lost stays lost, as no id returns.
LEMMA AddingKeeps ==
    ASSUME SharingInductive, UNCHANGED <<now, share, shared, visit, lost>>,
           alive' \subseteq used', used \subseteq used', used' \subseteq Things,
           \A x \in alive' \ alive : x \notin used,
           name' \in [Tags -> Names \cup {None}], holds' \subseteq used' \X used'
    PROVE  SharingInductive' /\ SharesNarrow
<1>1. SharingTypes'
  BY DEF SharingInductive, SharingTypes
<1>2. NamesUsed'
  BY DEF SharingInductive, NamesUsed
<1>3. LostForGood'
  <2>1. ASSUME NEW c \in Clients
        PROVE  /\ lost'[c] \subseteq used' \ alive'
               /\ visit'[c] = None \/ Step(c, "in")' \/ Step(c, "tags")' \/ Step(c, "lists")'
                  => lost'[c] = {}
               /\ Step(c, "covered")' => visit'[c].shown \subseteq used'
    BY DEF SharingInductive, LostForGood, Step
  <2> QED BY <2>1 DEF LostForGood
<1>4. ShowsWhatWasCovered' /\ SharesNarrow
  BY DEF SharingInductive, ShowsWhatWasCovered, Step, SharesNarrow
<1> QED
  BY <1>1, <1>2, <1>3, <1>4 DEF SharingInductive

LEMMA AddsKeep ==
    ASSUME SharingInductive,
           \/ \E x \in Trips \cup Colls : Enter(x)
           \/ \E k \in Tracks, c \in Colls : EnterTrack(k, c)
           \/ \E g \in Tags, n \in Names : CreateTag(g, n) \/ RenameTag(g, n)
           \/ \E X \in SUBSET Things, n \in Names, g \in Tags : Put(X, n, g)
           \/ \E g \in Tags, x \in Things : RemoveTag(g, x)
    PROVE  SharingInductive' /\ SharesNarrow
<1>1. /\ alive \subseteq used /\ used \subseteq Things /\ holds \subseteq used \X used
      /\ name \in [Tags -> Names \cup {None}]
  BY DEF SharingInductive, SharingTypes
<1>2. ASSUME NEW x \in Things, New(x)
      PROVE  /\ alive' \subseteq used' /\ used \subseteq used' /\ used' \subseteq Things
             /\ \A y \in alive' \ alive : y \notin used
             /\ x \in used'
  BY <1>1, <1>2 DEF New, Unused
<1>3. ASSUME Adds, UNCHANGED <<share, shared>> PROVE UNCHANGED <<now, share, shared, visit, lost>>
  BY <1>3 DEF Adds, Work
<1>4. ASSUME NEW x \in Trips \cup Colls, Enter(x) PROVE SharingInductive' /\ SharesNarrow
  <2>1. x \in Things /\ New(x) /\ Adds /\ UNCHANGED <<name, holds, share, shared>>
    BY <1>4 DEF Enter, Things
  <2>2. holds' \subseteq used' \X used' /\ name' \in [Tags -> Names \cup {None}]
    BY <1>1, <1>2, <2>1
  <2> QED BY <1>2, <1>3, <2>1, <2>2, AddingKeeps
<1>5. ASSUME NEW k \in Tracks, NEW c \in Colls, EnterTrack(k, c)
      PROVE  SharingInductive' /\ SharesNarrow
  <2>1. /\ k \in Things /\ c \in alive /\ New(k) /\ Adds
        /\ holds' = holds \cup {<<c, k>>} /\ UNCHANGED <<name, share, shared>>
    BY <1>5 DEF EnterTrack, Things
  <2>2. holds' \subseteq used' \X used' /\ name' \in [Tags -> Names \cup {None}]
    BY <1>1, <1>2, <2>1
  <2> QED BY <1>2, <1>3, <2>1, <2>2, AddingKeeps
<1>6. ASSUME NEW g \in Tags, NEW n \in Names, CreateTag(g, n)
      PROVE  SharingInductive' /\ SharesNarrow
  <2>1. /\ g \in Things /\ New(g) /\ Adds
        /\ name' = [name EXCEPT ![g] = n] /\ UNCHANGED <<holds, share, shared>>
    BY <1>6 DEF CreateTag, Things
  <2>2. holds' \subseteq used' \X used' /\ name' \in [Tags -> Names \cup {None}]
    BY <1>1, <1>2, <2>1
  <2> QED BY <1>2, <1>3, <2>1, <2>2, AddingKeeps
<1>7. ASSUME NEW g \in Tags, NEW n \in Names, RenameTag(g, n)
      PROVE  SharingInductive' /\ SharesNarrow
  <2>1. /\ Adds /\ name' = [name EXCEPT ![g] = n]
        /\ UNCHANGED <<alive, used, holds, share, shared>>
    BY <1>7 DEF RenameTag
  <2>2. holds' \subseteq used' \X used' /\ name' \in [Tags -> Names \cup {None}]
    BY <1>1, <2>1
  <2> QED BY <1>1, <1>3, <2>1, <2>2, AddingKeeps
<1>8. ASSUME NEW X \in SUBSET Things, NEW n \in Names, NEW g \in Tags, Put(X, n, g)
      PROVE  SharingInductive' /\ SharesNarrow
  <2>1. Adds /\ X \subseteq alive /\ holds' = holds \cup ({g} \X X) /\ UNCHANGED <<share, shared>>
        /\ g \in Things
    BY <1>8 DEF Put, Things
  <2>2. CASE New(g) /\ name' = [name EXCEPT ![g] = n]
    <3>1. holds' \subseteq used' \X used' /\ name' \in [Tags -> Names \cup {None}]
      BY <1>1, <1>2, <2>1, <2>2
    <3> QED BY <1>2, <1>3, <2>1, <2>2, <3>1, AddingKeeps
  <2>3. CASE g \in Named(n) /\ UNCHANGED <<alive, used, name>>
    <3>1. holds' \subseteq used' \X used' /\ name' \in [Tags -> Names \cup {None}]
      BY <1>1, <2>1, <2>3 DEF Named
    <3> QED BY <1>1, <1>3, <2>1, <2>3, <3>1, AddingKeeps
  <2> QED BY <1>8, <2>2, <2>3 DEF Put
<1>9. ASSUME NEW g \in Tags, NEW x \in Things, RemoveTag(g, x)
      PROVE  SharingInductive' /\ SharesNarrow
  <2>1. /\ Adds /\ holds' \subseteq holds /\ UNCHANGED <<alive, used, name, share, shared>>
    BY <1>9 DEF RemoveTag
  <2>2. holds' \subseteq used' \X used' /\ name' \in [Tags -> Names \cup {None}]
    BY <1>1, <2>1
  <2> QED BY <1>1, <1>3, <2>1, <2>2, AddingKeeps
<1> QED
  BY <1>4, <1>5, <1>6, <1>7, <1>8, <1>9

\* What is deleted is lost to a request that covered it and has not read it.
LEMMA DeletingKeeps ==
    ASSUME SharingInductive, NEW gone, Cascade(gone), UNCHANGED <<now, shared, visit>>,
           \A s \in Shares : share'[s] \in {None, Narrowed(gone)[s]},
           DOMAIN share' = Shares, share' = [s \in Shares |-> share'[s]]
    PROVE  SharingInductive' /\ SharesNarrow
<1>1. /\ alive' = alive \ gone /\ UNCHANGED used /\ holds' \subseteq holds
      /\ name' = [g \in Tags |-> IF g \in gone THEN None ELSE name[g]]
      /\ lost' = [c \in Clients |-> IF Step(c, "covered") THEN lost[c] \cup (visit[c].shown \cap gone)
                                    ELSE lost[c]]
  BY DEF Cascade
<1>2. SharingTypes /\ NamesUsed /\ LostForGood /\ ShowsWhatWasCovered
  BY DEF SharingInductive
<1>3. ASSUME NEW s \in Shares
      PROVE  /\ share'[s] \in Share \cup {None}
             /\ share'[s] # None =>
                   /\ share[s] # None /\ share'[s].names \subseteq share[s].names
                   /\ share'[s].until = share[s].until
  <2>1. CASE share'[s] = None
    BY <2>1
  <2>2. CASE share'[s] # None
    <3>1. share[s] # None /\ share'[s] = [share[s] EXCEPT !.names = @ \ gone]
      BY <2>2 DEF Narrowed
    <3>2. PICK old \in Share : old = share[s]
      BY <1>2, <3>1 DEF SharingTypes
    <3>3. share'[s] = [names |-> old.names \ gone, until |-> old.until]
      BY <3>1, <3>2 DEF Share
    <3> QED BY <3>1, <3>2, <3>3 DEF Share
  <2> QED BY <2>1, <2>2
<1>4. SharesNarrow
  BY <1>2, <1>3 DEF SharesNarrow, SharingTypes
<1>5. share' \in [Shares -> Share \cup {None}]
  BY <1>3
<1>6. \A c \in Clients : lost'[c] \in SUBSET Things /\ lost'[c] \subseteq used' \ alive'
  BY <1>1, <1>2 DEF SharingTypes, LostForGood
<1>7. lost' \in [Clients -> SUBSET Things]
  BY <1>1, <1>6
<1>8. name' \in [Tags -> Names \cup {None}]
  BY <1>1, <1>2 DEF SharingTypes
<1>9. SharingTypes'
  BY <1>1, <1>2, <1>5, <1>7, <1>8 DEF SharingTypes
<1>10. NamesUsed'
  BY <1>1, <1>2, <1>3 DEF NamesUsed
<1>11. LostForGood'
  <2>1. ASSUME NEW c \in Clients,
               visit[c] = None \/ Step(c, "in") \/ Step(c, "tags") \/ Step(c, "lists")
        PROVE  lost'[c] = {}
    BY <1>1, <1>2, <2>1 DEF LostForGood, Step
  <2> QED
    BY <1>1, <1>2, <1>6, <2>1 DEF LostForGood, Step
<1>12. ShowsWhatWasCovered'
  BY <1>1, <1>2 DEF ShowsWhatWasCovered, Step
<1> QED
  BY <1>4, <1>9, <1>10, <1>11, <1>12 DEF SharingInductive

LEMMA DeletesKeep ==
    ASSUME SharingInductive,
           \/ \E x \in Things : Delete(x)
           \/ \E g \in Tags : DeleteTag(g)
    PROVE  SharingInductive' /\ SharesNarrow
<1>1. ASSUME NEW x \in Things, Delete(x) PROVE SharingInductive' /\ SharesNarrow
  <2>1. PICK gone : Cascade(gone) /\ share' = Narrowed(gone)
    BY <1>1 DEF Delete
  <2>2. UNCHANGED <<now, shared, visit>>
    BY <1>1 DEF Delete, Work
  <2>3. /\ \A s \in Shares : share'[s] \in {None, Narrowed(gone)[s]}
        /\ DOMAIN share' = Shares /\ share' = [s \in Shares |-> share'[s]]
    BY <2>1 DEF Narrowed
  <2> QED BY <2>1, <2>2, <2>3, DeletingKeeps
<1>2. ASSUME NEW g \in Tags, DeleteTag(g) PROVE SharingInductive' /\ SharesNarrow
  <2>1. /\ Cascade({g}) /\ UNCHANGED <<now, shared, visit>>
        /\ share' = [s \in Shares |->
                       IF share[s] # None /\ share[s].names = {g} THEN None
                       ELSE Narrowed({g})[s]]
    BY <1>2 DEF DeleteTag, Work
  <2>2. /\ \A s \in Shares : share'[s] \in {None, Narrowed({g})[s]}
        /\ DOMAIN share' = Shares /\ share' = [s \in Shares |-> share'[s]]
    BY <2>1
  <2> QED BY <2>1, <2>2, DeletingKeeps
<1> QED
  BY <1>1, <1>2
\* A share is stored or stopped; nothing else changes.
LEMMA RequestsKeep ==
    ASSUME SharingInductive, UNCHANGED <<tables, now, visit, work, lost>>,
           share' \in [Shares -> Share \cup {None}], shared' \subseteq Shares, SharesNarrow,
           \A s \in Shares : share'[s] # None => share'[s].names \subseteq used
    PROVE  SharingInductive'
<1>1. UNCHANGED <<now, alive, used, name, holds, visit, lost>>
  BY DEF tables
<1>2. SharingTypes' /\ NamesUsed' /\ LostForGood' /\ ShowsWhatWasCovered'
  BY <1>1 DEF SharingInductive, SharingTypes, NamesUsed, LostForGood, ShowsWhatWasCovered, Step
<1> QED
  BY <1>2 DEF SharingInductive

LEMMA OwnerStepsKeep ==
    ASSUME SharingInductive,
           \/ \E r \in Creators, K \in {Trips, Names, Colls, Tracks} :
                \E want \in SUBSET K : AskShare(r, want)
           \/ \E r \in Creators, w \in Things \cup Names : Find(r, w)
           \/ \E r \in Creators, s \in Shares, until \in Expiries : Store(r, s, until)
           \/ \E r \in Owners, s \in Shares : AskStop(r, s)
           \/ \E r \in Owners : Stop(r)
    PROVE  SharingInductive' /\ SharesNarrow
<1>1. /\ share \in [Shares -> Share \cup {None}] /\ shared \subseteq Shares
      /\ alive \subseteq used /\ used \subseteq Things /\ now \in Nat
      /\ \A s \in Shares : share[s] # None => share[s].names \subseteq used
  BY DEF SharingInductive, SharingTypes, NamesUsed
<1>2. CASE UNCHANGED <<share, shared>> /\ UNCHANGED <<tables, now, visit, work, lost>>
  <2>1. SharesNarrow
    BY <1>2 DEF SharesNarrow
  <2> QED BY <1>1, <1>2, <2>1, RequestsKeep
<1>3. ASSUME NEW r \in Creators, NEW s \in Shares, NEW until \in Expiries, Store(r, s, until),
             ~ UNCHANGED <<share, shared>>
      PROVE  SharingInductive' /\ SharesNarrow
  <2>1. PICK ids : ids = req[r].ids
    OBVIOUS
  <2>2. /\ ids \subseteq alive /\ s \notin shared
        /\ share' = [share EXCEPT ![s] = [names |-> ids, until |-> until]]
        /\ shared' = shared \cup {s} /\ UNCHANGED <<tables, now, visit, work, lost>>
    BY <1>3, <2>1 DEF Store, OwnerStep
  <2>3. [names |-> ids, until |-> until] \in Share
    <3>1. until \in {Never} \cup 0 .. Horizon
      BY <1>1 DEF Expiries
    <3> QED BY <1>1, <2>2, <3>1 DEF Share
  <2>4. /\ share' \in [Shares -> Share \cup {None}] /\ share'[s].names = ids
        /\ \A q \in Shares \ {s} : share'[q] = share[q]
    BY <1>1, <2>2, <2>3
  <2>5. SharesNarrow
    BY <1>1, <2>2, <2>4 DEF SharesNarrow
  <2>6. \A q \in Shares : share'[q] # None => share'[q].names \subseteq used
    <3> TAKE q \in Shares
    <3>1. CASE q = s
      BY <1>1, <2>2, <2>4, <3>1
    <3>2. CASE q # s
      BY <1>1, <2>4, <3>2
    <3> QED BY <3>1, <3>2
  <2> QED BY <1>1, <2>2, <2>4, <2>5, <2>6, RequestsKeep
<1>4. ASSUME NEW r \in Owners, Stop(r) PROVE SharingInductive' /\ SharesNarrow
  <2>1. PICK k : share' = [share EXCEPT ![k] = None]
    BY <1>4 DEF Stop
  <2>2. shared' = shared /\ UNCHANGED <<tables, now, visit, work, lost>>
    BY <1>4 DEF Stop, OwnerStep
  <2>3. /\ share' \in [Shares -> Share \cup {None}]
        /\ \A q \in Shares : share'[q] # None => share'[q] = share[q]
    BY <1>1, <2>1
  <2>4. SharesNarrow
    BY <1>1, <2>3 DEF SharesNarrow
  <2>5. \A q \in Shares : share'[q] # None => share'[q].names \subseteq used
    BY <1>1, <2>3
  <2> QED BY <1>1, <2>2, <2>3, <2>4, <2>5, RequestsKeep
<1>5. ASSUME NEW r \in Creators, NEW s \in Shares, NEW until \in Expiries, Store(r, s, until)
      PROVE  SharingInductive' /\ SharesNarrow
  <2>1. UNCHANGED <<tables, now, visit, work, lost>>
    BY <1>5 DEF Store, OwnerStep
  <2> QED BY <1>2, <1>3, <1>5, <2>1
<1>6. ASSUME \/ \E r \in Creators, K \in {Trips, Names, Colls, Tracks} :
                  \E want \in SUBSET K : AskShare(r, want)
             \/ \E r \in Creators, w \in Things \cup Names : Find(r, w)
             \/ \E r \in Owners, s \in Shares : AskStop(r, s)
      PROVE  UNCHANGED <<share, shared>> /\ UNCHANGED <<tables, now, visit, work, lost>>
  BY <1>6 DEF AskShare, Find, AskStop, OwnerStep
<1> QED
  BY <1>2, <1>4, <1>5, <1>6

\* What a share reaches has been handed out.
LEMMA ReachUsed ==
    ASSUME SharingInductive, NEW s \in Shares, share[s] # None
    PROVE  Reach(s) \subseteq used
<1>1. share[s].names \subseteq used /\ holds \subseteq used \X used
  BY DEF SharingInductive, NamesUsed, SharingTypes
<1> QED
  BY <1>1 DEF Reach

\* A recipient's request goes on, and shows nothing that it lost.
LEMMA VisitKeeps ==
    ASSUME SharingInductive, NEW c \in Clients, NEW next \in Reading \cup {None},
           VisitStep(c, next),
           next # None =>
              /\ next.at \in {"in", "tags", "lists"} => lost[c] = {}
              /\ next.at = "covered" => next.shown \subseteq used
              /\ next.at = "done" => next.shown \cap lost[c] = {}
    PROVE  SharingInductive' /\ SharesNarrow
<1>1. /\ UNCHANGED <<now, alive, used, name, holds, share, shared>>
      /\ visit' = [visit EXCEPT ![c] = next]
      /\ lost' = IF next = None THEN [lost EXCEPT ![c] = {}] ELSE lost
  BY DEF VisitStep, tables
<1>2. SharingTypes /\ NamesUsed /\ LostForGood /\ ShowsWhatWasCovered
  BY DEF SharingInductive
<1>3. /\ visit' \in [Clients -> Reading \cup {None}] /\ visit'[c] = next
      /\ \A d \in Clients \ {c} : visit'[d] = visit[d]
  BY <1>1, <1>2 DEF SharingTypes
<1>4. /\ lost' \in [Clients -> SUBSET Things] /\ lost'[c] = IF next = None THEN {} ELSE lost[c]
      /\ \A d \in Clients \ {c} : lost'[d] = lost[d]
  BY <1>1, <1>2 DEF SharingTypes
<1>5. SharingTypes' /\ NamesUsed'
  BY <1>1, <1>2, <1>3, <1>4 DEF SharingTypes, NamesUsed
<1>6. ASSUME NEW d \in Clients
      PROVE  /\ lost'[d] \subseteq used' \ alive'
             /\ visit'[d] = None \/ Step(d, "in")' \/ Step(d, "tags")' \/ Step(d, "lists")'
                => lost'[d] = {}
             /\ Step(d, "covered")' => visit'[d].shown \subseteq used'
             /\ Step(d, "done")' => visit'[d].shown \cap lost'[d] = {}
  <2>1. CASE d = c
    BY <1>1, <1>2, <1>3, <1>4, <2>1 DEF LostForGood, Step
  <2>2. CASE d # c
    BY <1>1, <1>2, <1>3, <1>4, <2>2 DEF LostForGood, ShowsWhatWasCovered, Step
  <2> QED BY <2>1, <2>2
<1>7. LostForGood' /\ ShowsWhatWasCovered'
  BY <1>6 DEF LostForGood, ShowsWhatWasCovered
<1>8. SharesNarrow
  BY <1>1 DEF SharesNarrow
<1> QED
  BY <1>5, <1>7, <1>8 DEF SharingInductive

LEMMA RecipientKeeps ==
    ASSUME SharingInductive, Recipient
    PROVE  SharingInductive' /\ SharesNarrow
<1>1. SharingTypes /\ LostForGood
  BY DEF SharingInductive
<1>2. ASSUME NEW c \in Clients, visit[c] # None
      PROVE  /\ visit[c] \in Reading /\ visit[c].share \in Shares
             /\ Reached(c) \subseteq used /\ used \subseteq Things
  BY <1>1, <1>2, ReachUsed DEF SharingTypes, Reading, Reached
<1>3. ASSUME NEW c \in Clients, NEW s \in Shares, LetIn(c, s)
      PROVE  SharingInductive' /\ SharesNarrow
  <2> DEFINE next == [share |-> s, at |-> "in", tags |-> {}, shown |-> {}, summed |-> {}]
  <2>1. VisitStep(c, next) /\ lost[c] = {}
    BY <1>1, <1>3 DEF LetIn, LostForGood
  <2>2. next \in Reading /\ next.at = "in"
    BY DEF Reading
  <2> HIDE DEF next
  <2> QED BY <2>1, <2>2, VisitKeeps
<1>4. ASSUME NEW c \in Clients, NEW x \in Things, Cover(c, x)
      PROVE  SharingInductive' /\ SharesNarrow
  <2>1. PICK old \in Reading : old = visit[c] /\ x \in used
    BY <1>2, <1>4 DEF Cover, Step
  <2> DEFINE next == [old EXCEPT !.at = "covered", !.shown = {x}]
  <2>2. VisitStep(c, next)
    BY <1>4, <2>1 DEF Cover
  <2>3. next \in Reading /\ next.at = "covered" /\ next.shown = {x}
    BY <2>1 DEF Reading
  <2> HIDE DEF next
  <2> QED BY <2>1, <2>2, <2>3, VisitKeeps
<1>5. ASSUME NEW c \in Clients, Show(c)
      PROVE  SharingInductive' /\ SharesNarrow
  <2>1. PICK old \in Reading : old = visit[c]
    BY <1>2, <1>5 DEF Show, Step
  <2> DEFINE next == [old EXCEPT !.at = "done", !.shown = @ \cap alive]
  <2>2. VisitStep(c, next)
    BY <1>5, <2>1 DEF Show
  <2>3. next \in Reading /\ next.at = "done" /\ next.shown = old.shown \cap alive
    BY <2>1 DEF Reading
  <2>4. next.shown \cap lost[c] = {}
    BY <1>1, <2>3 DEF LostForGood
  <2> HIDE DEF next
  <2> QED BY <2>2, <2>3, <2>4, VisitKeeps
<1>6. ASSUME NEW c \in Clients, ReadTagNames(c)
      PROVE  SharingInductive' /\ SharesNarrow
  <2>1. PICK old \in Reading : old = visit[c]
    BY <1>2, <1>6 DEF ReadTagNames, Step
  <2>2. PICK found : found = IF share[old.share] = None THEN {}
                             ELSE {name[g] : g \in share[old.share].names \cap Tags}
    OBVIOUS
  <2>3. found \subseteq Names \cup {None}
    BY <1>1, <2>2 DEF SharingTypes
  <2> DEFINE next == [old EXCEPT !.at = "tags", !.tags = found]
  <2>4. VisitStep(c, next)
    BY <1>6, <2>1, <2>2 DEF ReadTagNames
  <2>5. next \in Reading /\ next.at = "tags"
    BY <2>1, <2>3 DEF Reading
  <2>6. lost[c] = {}
    BY <1>1, <1>6 DEF ReadTagNames, LostForGood
  <2> HIDE DEF next
  <2> QED BY <2>4, <2>5, <2>6, VisitKeeps
<1>7. ASSUME NEW c \in Clients, ReadSummary(c)
      PROVE  SharingInductive' /\ SharesNarrow
  <2>1. PICK old \in Reading : old = visit[c]
    BY <1>2, <1>7 DEF ReadSummary, Step
  <2>2. PICK found : found = {t \in Recorded : \E g \in Tags : name[g] \in old.tags /\ <<g, t>> \in holds}
    OBVIOUS
  <2> DEFINE next == [old EXCEPT !.at = "lists", !.tags = {}, !.summed = found]
  <2>3. VisitStep(c, next)
    BY <1>7, <2>1, <2>2 DEF ReadSummary
  <2>4. next \in Reading /\ next.at = "lists"
    BY <2>1, <2>2 DEF Reading
  <2>5. lost[c] = {}
    BY <1>1, <1>7 DEF ReadSummary, LostForGood
  <2> HIDE DEF next
  <2> QED BY <2>3, <2>4, <2>5, VisitKeeps
<1>8. ASSUME NEW c \in Clients, ReadLists(c)
      PROVE  SharingInductive' /\ SharesNarrow
  <2>1. PICK old \in Reading : old = visit[c]
    BY <1>2, <1>8 DEF ReadLists, Step
  <2>2. PICK found : found = Reached(c)
    OBVIOUS
  <2>3. found \subseteq Things
    BY <1>2, <1>8, <2>2 DEF ReadLists, Step
  <2> DEFINE next == [old EXCEPT !.at = "done", !.shown = found]
  <2>4. VisitStep(c, next)
    BY <1>8, <2>1, <2>2 DEF ReadLists
  <2>5. next \in Reading /\ next.at = "done"
    BY <2>1, <2>3 DEF Reading
  <2>6. lost[c] = {}
    BY <1>1, <1>8 DEF ReadLists, LostForGood
  <2>7. next.shown \cap lost[c] = {}
    BY <2>6
  <2> HIDE DEF next
  <2> QED BY <2>4, <2>5, <2>7, VisitKeeps
<1>9. ASSUME NEW c \in Clients, Leave(c)
      PROVE  SharingInductive' /\ SharesNarrow
  BY <1>9, VisitKeeps DEF Leave
<1> QED
  BY <1>3, <1>4, <1>5, <1>6, <1>7, <1>8, <1>9 DEF Recipient

LEMMA SharingSteps ==
    ASSUME SharingInductive, SharingNext
    PROVE  SharingInductive' /\ SharesNarrow
<1>1. CASE \/ \E x \in Things \ Tags, n \in Names, g \in Tags : AddTag(x, n, g)
           \/ \E X \in (SUBSET Trips) \cup (SUBSET Colls), n \in Names, g \in Tags : BulkAddTags(X, n, g)
  <2>1. \E X \in SUBSET Things, n \in Names, g \in Tags : Put(X, n, g)
    <3>1. ASSUME NEW x \in Things \ Tags, NEW n \in Names, NEW g \in Tags, AddTag(x, n, g)
          PROVE  \E X \in SUBSET Things : Put(X, n, g)
      <4>1. {x} \in SUBSET Things /\ Put({x}, n, g)
        BY <3>1 DEF AddTag
      <4> QED BY <4>1
    <3>2. (SUBSET Trips) \cup (SUBSET Colls) \subseteq SUBSET Things
      BY DEF Things
    <3> QED BY <1>1, <3>1, <3>2 DEF BulkAddTags
  <2> QED BY <2>1, AddsKeep
<1> QED
  BY <1>1, AddsKeep, DeletesKeep, OwnerStepsKeep, RecipientKeeps DEF SharingNext, Owner
-----------------------------------------------------------------------------
(* The parts together.                                                     *)

TimedInductive == GateInductive /\ RollingInductive /\ ListingInductive /\ SharingInductive

\* A step of a part changes no other part's state, and the clock only by Tick.
LEMMA TimedSteps ==
    ASSUME TimedInductive, [Next]_vars
    PROVE  TimedInductive' /\ SharesNarrow /\ now <= now'
<1>1. GateInductive /\ RollingInductive /\ ListingInductive /\ SharingInductive /\ now \in Nat
  BY DEF TimedInductive, GateInductive, GateTypes
<1>2. CASE part = "sharing" /\ SharingNext /\ UNCHANGED <<gate, asking, rolling>>
  <2>1. now' = now
    BY <1>2 DEF SharingNext, Owner, Recipient, Enter, EnterTrack, CreateTag, RenameTag, AddTag,
                BulkAddTags, Put, RemoveTag, Delete, DeleteTag, Adds, Work, AskShare, Find, Store,
                AskStop, Stop, OwnerStep, LetIn, Cover, Show, ReadTagNames, ReadSummary, ReadLists,
                Leave, VisitStep
  <2> QED
    BY <1>1, <1>2, <2>1, SharingSteps, GateWaits, ListingWaits, RollingWaits DEF TimedInductive
<1>3. CASE part = "gate" /\ GateNext /\ UNCHANGED <<sharing, asking, rolling>>
  <2>1. now' = now
    BY <1>3 DEF GateNext, Ask, Resolve, LogIn, Receive, Forget, Expire, Restart
  <2> QED
    BY <1>1, <1>3, <2>1, GateSteps, SharingWaits, ListingWaits, RollingWaits DEF TimedInductive
<1>4. CASE part = "listing" /\ ListingNext /\ UNCHANGED <<sharing, gate, rolling>>
  <2>1. now' = now
    BY <1>4 DEF ListingNext
  <2> QED
    BY <1>1, <1>4, <2>1, ListingSteps, SharingWaits, GateWaits, RollingWaits DEF TimedInductive
<1>5. CASE part = "backups" /\ RollingNext /\ UNCHANGED <<sharing, gate, asking>>
  <2>1. now' = now
    BY <1>5 DEF RollingNext, OpenCopy, FillCopy, ListCopies, Write, Break, Paint
  <2> QED
    BY <1>1, <1>5, <2>1, RollingSteps, SharingWaits, GateWaits, ListingWaits DEF TimedInductive
<1>6. CASE Tick
  <2>1. now < MaxTime /\ now' = now + 1 /\ UNCHANGED <<sharing, gate, asking, rolling>>
    BY <1>6 DEF Tick, Passes
  <2> QED
    BY <1>1, <2>1, SharingWaits, GateWaits, ListingWaits, RollingWaits DEF TimedInductive
<1>7. CASE UNCHANGED vars
  <2>1. now' = now /\ UNCHANGED <<sharing, gate, asking, rolling>>
    BY <1>7 DEF vars
  <2> QED
    BY <1>1, <2>1, SharingWaits, GateWaits, ListingWaits, RollingWaits DEF TimedInductive
<1> QED
  BY <1>2, <1>3, <1>4, <1>5, <1>6, <1>7 DEF Next

\* The inductive invariant of the parts that read a clock: sessions and
\* cookies of no time to come, the failures counted and their lockout, the
\* copies of runs, the chain of slots, the tours behind the pages read, and
\* what recipients lost.
THEOREM TimedStaysSound == Spec => []TimedInductive
<1>1. Init => TimedInductive
  BY GateStarts, RollingStarts, ListingStarts, SharingStarts DEF TimedInductive
<1>2. TimedInductive /\ [Next]_vars => TimedInductive'
  BY TimedSteps
<1> QED
  BY <1>1, <1>2, PTL DEF Spec

\* Of FailureLimit + 1 wrong guesses in a row one began a whole lockout after
\* another (auth.rs register_failure), with any number of attempts queueing.
THEOREM LockoutHolds == Spec => []GuessesArePaced
<1>1. TimedInductive => GuessesArePaced
  BY PacedGuesses DEF TimedInductive
<1> QED
  BY <1>1, TimedStaysSound, PTL

\* A session in use outlives its last use by RefreshAfter - Patience at least,
\* and none outlives it by more than Ttl (auth.rs sets_session_cookie).
THEOREM SessionSlides == Spec => []LivesWhileUsed
<1>1. TimedInductive => LivesWhileUsed
  BY DEF TimedInductive, GateInductive
<1> QED
  BY <1>1, TimedStaysSound, PTL

\* What an export's run copied before it wrote can be brought back, however
\* runs overlap, fail and prune (backup.rs backups_to_delete).
THEOREM ExportCanBeUndone == Spec => []CanGoBack
<1>1. TimedInductive => CanGoBack
  BY DEF TimedInductive, RollingInductive
<1> QED
  BY <1>1, TimedStaysSound, PTL

\* A listing during which no tour left holds every tour there when it began,
\* with any page size and whatever is added (list_all_tours_of_kind).
THEOREM ListingIsComplete == Spec => []ListsWhatStayed
<1>1. TimedInductive => ListsWhatStayed
  BY DEF TimedInductive, ListingInductive
<1> QED
  BY <1>1, TimedStaysSound, PTL

\* What was covered and deleted before it was read is not shown.
THEOREM CoveredIsShown == Spec => []ShowsWhatWasCovered
<1>1. TimedInductive => ShowsWhatWasCovered
  BY DEF TimedInductive, SharingInductive
<1> QED
  BY <1>1, TimedStaysSound, PTL

\* A share that opens after a step opened before it.
LEMMA OpensBefore ==
    ASSUME TimedInductive, SharesNarrow, now <= now', now' \in Nat,
           NEW s \in shared, Opens(s)'
    PROVE  Opens(s)
<1>1. /\ share'[s] # None /\ share'[s].names # {}
      /\ share'[s].until \in {Never} \cup (now' + 1) .. Horizon
  BY DEF Opens, NamesSomething, Expiries
<1>2. /\ share[s] # None /\ share'[s].names \subseteq share[s].names
      /\ share'[s].until = share[s].until
  BY <1>1 DEF SharesNarrow
<1>3. now \in Nat
  BY DEF TimedInductive, GateInductive, GateTypes
<1>4. share[s].until \in {Never} \cup (now + 1) .. Horizon
  BY <1>1, <1>2, <1>3
<1> QED
  BY <1>1, <1>2, <1>4 DEF Opens, NamesSomething, Expiries

\* A link that opens nothing never opens anything again (share.rs still_open).
THEOREM ClosedForGood == Spec => NeverReopens
<1>1. TimedInductive /\ [Next]_vars
      => [\A s \in shared : ~Opens(s) => ~Opens(s)']_<<now, sharing>>
  <2> SUFFICES ASSUME TimedInductive, [Next]_vars, NEW s \in shared, Opens(s)'
               PROVE  Opens(s)
    OBVIOUS
  <2>1. TimedInductive' /\ SharesNarrow /\ now <= now'
    BY TimedSteps
  <2>2. now' \in Nat
    BY <2>1 DEF TimedInductive, GateInductive, GateTypes
  <2> QED BY <2>1, <2>2, OpensBefore
<1> QED
  BY <1>1, TimedStaysSound, PTL DEF Spec, NeverReopens
\* What a step gives a caller that had no slot.
LEMMA GivenSlot ==
    ASSUME ListingInductive, ListingNext, NEW c \in Callers, slot[c] = None, slot'[c] # None
    PROVE  /\ slot'[c] >= told
           /\ \A d \in Callers \ {c} : slot[d] # None => slot'[c] >= slot[d] + MinGap
<1>1. ListingTypes /\ Chained /\ UNCHANGED now
  BY DEF ListingInductive, ListingNext
<1>2. ASSUME NEW b \in Callers, Reserve(b), UNCHANGED told
      PROVE  /\ slot'[c] >= told
             /\ \A d \in Callers \ {c} : slot[d] # None => slot'[c] >= slot[d] + MinGap
  <2>1. b = c
    BY <1>1, <1>2, ReserveChains
  <2> QED BY <1>1, <1>2, <2>1, ReserveChains
<1>3. ASSUME NEW b \in Callers, Served(b), UNCHANGED <<nextAllowed, told>> PROVE FALSE
  BY <1>1, <1>3, ServedChains
<1>4. ASSUME NEW b \in Callers, NEW backoff \in Backoffs, Refused(b, backoff) PROVE FALSE
  BY <1>1, <1>4, RefusedChains
<1>5. ASSUME UNCHANGED slot PROVE FALSE
  BY <1>5
<1>6. ASSUME NEW b \in Others, Other(b)
      PROVE  \/ Reserve(b) /\ UNCHANGED told
             \/ Served(b) /\ UNCHANGED <<nextAllowed, told>>
             \/ \E backoff \in Backoffs : Refused(b, backoff)
  BY <1>6 DEF Other
<1>7. ASSUME NEW b \in Listers, Start(b) \/ TurnPage(b) PROVE Reserve(b) /\ UNCHANGED told
  BY <1>7 DEF Start, TurnPage
<1>8. ASSUME NEW b \in Listers, ReadPage(b) \/ Fail(b)
      PROVE  \/ Served(b) /\ UNCHANGED <<nextAllowed, told>>
             \/ \E backoff \in Backoffs : Refused(b, backoff)
  BY <1>8 DEF ReadPage, Fail
<1>9. ASSUME NEW b \in Listers, SelectAll(b) \/ SelectSome(b) \/ ImportNext(b) \/ End(b)
      PROVE  UNCHANGED slot
  BY <1>9 DEF SelectAll, SelectSome, ImportNext, End
<1>10. ASSUME NEW t \in KomootIds, Record(t) \/ Remove(t) PROVE UNCHANGED slot
  BY <1>10 DEF Record, Remove
<1>11. Listers \subseteq Callers /\ Others \subseteq Callers
  BY DEF Callers
<1> QED
  BY <1>2, <1>3, <1>4, <1>5, <1>6, <1>7, <1>8, <1>9, <1>10, <1>11 DEF ListingNext

\* Requests of one process are given slots MinGap apart, and none before the
\* longest wait Komoot has asked for (rate_limit.rs wait_and_advance).
THEOREM SlotsAreApart == Spec => Throttled
<1>1. TimedInductive /\ [Next]_vars
      => [\A c \in Callers : slot[c] = None /\ slot'[c] # None
            => /\ slot'[c] >= told
               /\ \A d \in Callers \ {c} : slot[d] # None => slot'[c] >= slot[d] + MinGap]_<<now, asking>>
  <2> SUFFICES ASSUME TimedInductive, [Next]_vars,
                      NEW c \in Callers, slot[c] = None, slot'[c] # None
               PROVE  /\ slot'[c] >= told
                      /\ \A d \in Callers \ {c} : slot[d] # None => slot'[c] >= slot[d] + MinGap
    OBVIOUS
  <2>1. CASE ListingNext
    BY <2>1, GivenSlot DEF TimedInductive
  <2>2. CASE UNCHANGED asking
    BY <2>2 DEF asking
  <2> QED
    BY <2>1, <2>2 DEF Next, Tick, vars
<1> QED
  BY <1>1, TimedStaysSound, PTL DEF Spec, Throttled
=============================================================================
