-------------------------------- MODULE Gate --------------------------------
(***************************************************************************)
(* Signing in to the archive (US-19): the lockout, a failure counter that  *)
(* login attempts reach one at a time under its mutex but with the time    *)
(* they read before they waited for it; and the session, an expiry that    *)
(* the browser's cookie carries and the gate slides forward, while         *)
(* requests of the same browser are answered in any order, or never.       *)
(***************************************************************************)
EXTENDS Clock, Sequences

CONSTANTS
    Visits,        \* requests in flight
    Ttl,           \* SESSION_TTL
    RefreshAfter,  \* SESSION_REFRESH_AFTER
    FailureLimit,  \* LOGIN_FAILURE_LIMIT
    Lockout,       \* LOGIN_LOCKOUT
    Patience       \* how long an answer may take and still be taken

ASSUME GateAssumption ==
    /\ RefreshAfter \in Nat /\ Ttl \in Nat /\ Lockout \in Nat /\ Patience \in Nat
    /\ FailureLimit \in Nat \ {0}
    /\ Patience <= RefreshAfter /\ RefreshAfter + Patience <= Ttl

VARIABLES
    jar,       \* the browser's cookie: its expiry, else None
    failures,  \* LoginFailures
    visiting,  \* the request in each slot, else None
    heard,     \* history: when the last request answered to the owner began
    guesses    \* history: when the last FailureLimit + 1 wrong guesses since the
               \* last success began

gate == <<jar, failures, visiting, heard, guesses>>

Open == [consecutive |-> 0, until |-> 0]

GateInit ==
    /\ jar = None
    /\ failures = Open
    /\ visiting = [v \in Visits |-> None]
    /\ heard = None
    /\ guesses = <<>>

Under(v, at) == visiting[v] # None /\ visiting[v].at = at
Become(v, request) == visiting' = [visiting EXCEPT ![v] = request]

\* The browser sends what its jar holds.
Ask(v, ask) ==
    /\ visiting[v] = None
    /\ Become(v, [ask |-> ask, cookie |-> jar, at |-> "sent", since |-> now,
                  owner |-> FALSE, sets |-> "nothing"])
    /\ UNCHANGED <<now, jar, failures, heard, guesses>>

\* verify: an expiry still to come.
Valid(expiry) == expiry # None /\ expiry > now

\* gate reads the clock and resolves the caller, whom only the login may do
\* without.  (The handler of a login is still to be run.)
Resolve(v) ==
    /\ Under(v, "sent")
    /\ LET owner == Valid(visiting[v].cookie)
           here == [visiting[v] EXCEPT !.since = now, !.owner = owner]
       IN Become(v, CASE here.ask \in {"right", "wrong"} -> [here EXCEPT !.at = "login"]
                      [] here.ask = "out" /\ owner -> [here EXCEPT !.at = "served", !.sets = "clear"]
                      [] OTHER -> [here EXCEPT !.at = "served"])
    /\ UNCHANGED <<now, jar, failures, heard, guesses>>

LockedFor(since) == failures.until > since

\* Mutant: one failure more than the limit is tolerated.
LateLimit == FailureLimit + 1
Limit == FailureLimit

\* register_failure.
Failed(since) ==
    IF failures.consecutive + 1 >= Limit
    THEN [consecutive |-> 0, until |-> since + Lockout]
    ELSE [failures EXCEPT !.consecutive = @ + 1]

Recent(times) == IF Len(times) > FailureLimit + 1 THEN Tail(times) ELSE times

\* Auth::login, on the blocking pool: the mutex is held to its end.
LogIn(v) ==
    /\ Under(v, "login")
    /\ LET since == visiting[v].since
           answer == [visiting[v] EXCEPT !.at = "served"]
       IN \/ /\ LockedFor(since)
             /\ Become(v, answer)
             /\ UNCHANGED <<failures, guesses>>
          \/ /\ ~LockedFor(since)
             /\ visiting[v].ask = "wrong"
             /\ failures' = Failed(since)
             /\ guesses' = Recent(Append(guesses, since))
             /\ Become(v, answer)
          \/ /\ ~LockedFor(since)
             /\ visiting[v].ask = "right"
             /\ failures' = Open
             /\ guesses' = <<>>
             /\ Become(v, [answer EXCEPT !.sets = "session"])
    /\ UNCHANGED <<now, jar, heard>>

\* sets_session_cookie: not over a handler that spoke about the session.
Silent(v) == visiting[v].sets = "nothing"

\* Mutant: what has passed of the session is taken for what is left of it.
RenewedYoung(v) ==
    /\ visiting[v].owner
    /\ Silent(v)
    /\ visiting[v].since - (visiting[v].cookie - Ttl) < RefreshAfter

\* Less than RefreshAfter is left.
Renewable(v) ==
    /\ visiting[v].owner
    /\ Silent(v)
    /\ visiting[v].cookie - visiting[v].since < RefreshAfter

\* The answer, its renewal minted for the time the gate read; the last
\* Set-Cookie of two wins.
Answered(v) ==
    IF Renewable(v) \/ visiting[v].sets = "session" THEN visiting[v].since + Ttl
    ELSE IF visiting[v].sets = "clear" THEN None
    ELSE jar

Receive(v) ==
    /\ Under(v, "served")
    /\ now - visiting[v].since <= Patience
    /\ jar' = Answered(v)
    /\ heard' = IF jar' = None THEN None
                ELSE IF visiting[v].owner \/ visiting[v].sets = "session"
                THEN IF heard = None \/ heard < visiting[v].since THEN visiting[v].since ELSE heard
                ELSE heard
    /\ Become(v, None)
    /\ UNCHANGED <<now, failures, guesses>>

\* The browser gives up, or the connection goes; what runs goes on.
Forget(v) ==
    /\ visiting[v] # None /\ ~Under(v, "login")
    /\ Become(v, None)
    /\ UNCHANGED <<now, jar, failures, heard, guesses>>

\* The browser lets a cookie go at its Max-Age.
Expire ==
    /\ jar # None /\ ~Valid(jar)
    /\ jar' = None /\ heard' = None
    /\ UNCHANGED <<now, failures, visiting, guesses>>

\* The process starts again: the counter is gone.
Restart ==
    /\ failures # Open
    /\ failures' = Open /\ guesses' = <<>>
    /\ visiting' = [v \in Visits |-> None]
    /\ UNCHANGED <<now, jar, heard>>

GateNext ==
    \/ \E v \in Visits, ask \in {"right", "wrong", "out", "page"} : Ask(v, ask)
    \/ \E v \in Visits : Resolve(v) \/ LogIn(v) \/ Receive(v) \/ Forget(v)
    \/ Expire \/ Restart

-----------------------------------------------------------------------------
(* Properties.                                                             *)

\* However attempts queue for the mutex with the times they read before, of
\* FailureLimit + 1 wrong guesses in a row one began a whole lockout after
\* another (auth.rs register_failure; US-19: five failures lock it).
GuessesArePaced ==
    Len(guesses) > FailureLimit =>
        \E i, j \in 1 .. Len(guesses) : guesses[j] >= guesses[i] + Lockout

\* "An archive opened at any interval shorter than [half the session's life]
\* never sees a login screen, and one left alone dies within [its life] of
\* its last use" (config.rs), but for the time an answer takes, as an older
\* one may come last.
LivesWhileUsed ==
    jar # None => jar - heard \in RefreshAfter - Patience .. Ttl

-----------------------------------------------------------------------------
(* Strengthenings that make them inductive (TimedProofs).                  *)

Asked ==
    [ask : {"right", "wrong", "out", "page"}, cookie : Nat \cup {None},
     at : {"sent", "login", "served"}, since : Nat, owner : BOOLEAN,
     sets : {"nothing", "session", "clear"}]

GateTypes ==
    /\ now \in Nat
    /\ jar \in Nat \cup {None} /\ heard \in Nat \cup {None}
    /\ failures \in [consecutive : Nat, until : Nat]
    /\ visiting \in [Visits -> Asked \cup {None}]
    /\ guesses \in Seq(Nat)

\* Nothing is of a time to come, and a cookie a request carries outlives the
\* jar's by the time an answer may take at most.
Dated ==
    /\ jar # None => jar <= now + Ttl /\ heard # None
    /\ heard # None => heard <= now
    /\ \A v \in Visits : visiting[v] # None =>
          LET request == visiting[v] IN
          /\ request.since <= now
          /\ request.cookie # None =>
                request.cookie <= now + Ttl /\ (jar # None => request.cookie <= jar + Patience)
          /\ request.owner => request.cookie # None /\ request.cookie > request.since

\* The failures counted are the last guesses, all judged after the lockout that
\* the guess before them set off.
Paced ==
    LET c == failures.consecutive
        n == Len(guesses)
    IN /\ c < FailureLimit /\ c <= n /\ n <= FailureLimit + 1
       /\ \A j \in 1 .. n : j > n - c => guesses[j] >= failures.until
       /\ c < n => failures.until = guesses[n - c] + Lockout
       /\ c = 0 /\ n > FailureLimit => guesses[n] >= guesses[n - FailureLimit] + Lockout

GateInductive == GateTypes /\ Dated /\ Paced /\ LivesWhileUsed
=============================================================================
