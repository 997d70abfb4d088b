------------------------------ MODULE LoginLimiter ------------------------------
(***************************************************************************)
(* LoginRateLimiter of the dashboard (dashboard/auth.py) and the logins that    *)
(* call it (routes.py, login_submit): handlers in threads, one table, no lock.  *)
(***************************************************************************)
EXTENDS Naturals, FiniteSets

CONSTANTS
    Clients,        \* browsers and programs, each with one login at a time
    Address,        \* the address the limiter knows a client by
    Window,         \* window_seconds
    MaxAttempts,    \* max_attempts
    MaxTime,        \* bound on the clock
    None

VARIABLES
    clock,
    attempts,       \* the table: per address that it has, the list of its failures, [at, nr]
                    \* with nr for the order
    stage,          \* per client, its next step
    calls,          \* per client, what its call of the limiter has read
    alone,          \* history: the client whose call no other one overlaps, or None
    lone            \* history: per address, the failures that such calls recorded

vars == <<clock, attempts, stage, calls, alone, lone>>

Addresses == {Address[c] : c \in Clients}
NoCall    == [clock |-> 0, stale |-> {}, history |-> None]

Init ==
    /\ clock = 0
    /\ attempts = [a \in {} |-> {}]
    /\ stage = [c \in Clients |-> "idle"] /\ calls = [c \in Clients |-> NoCall]
    /\ alone = None /\ lone = [a \in Addresses |-> {}]

Tick == clock < MaxTime /\ clock' = clock + 1 /\ UNCHANGED <<attempts, stage, calls, alone, lone>>

-----------------------------------------------------------------------------
Recent(list, time) == {x \in list : time - x.at < Window}

List(a)      == IF a \in DOMAIN attempts THEN attempts[a] ELSE {}
With(a, list) == [b \in DOMAIN attempts \cup {a} |-> IF b = a THEN list ELSE attempts[b]]
Without(a)   == [b \in DOMAIN attempts \ {a} |-> attempts[b]]
Last(list)   == CHOOSE n \in {0} \cup {x.nr : x \in list} : \A x \in list : x.nr <= n

\* Mutant of Stale: the first of the list is looked at.
StaleOldest(time) ==
    {a \in DOMAIN attempts : attempts[a] = {} \/ \E x \in attempts[a] : time - x.at >= Window}

\* _prune_stale: the lists that are empty, or whose last failure is out of the window.
Stale(time) ==
    {a \in DOMAIN attempts : \A x \in attempts[a] :
                                 x.nr = Last(attempts[a]) => time - x.at >= Window}

\* A call: the clock and what is stale, those dropped one by one, the list read and cut to
\* the window, and the list replaced. Any other call can come between.
Calling(c) == stage[c] \in {"check", "record"}

Enters(c, step) ==
    /\ stage' = [stage EXCEPT ![c] = step]
    /\ calls' = [calls EXCEPT ![c] = [clock |-> clock, stale |-> Stale(clock), history |-> None]]
    /\ alone' = IF \E d \in Clients : Calling(d) THEN None ELSE c
    /\ UNCHANGED <<clock, attempts, lone>>

Returns(c, step) ==
    /\ stage' = [stage EXCEPT ![c] = step]
    /\ calls' = [calls EXCEPT ![c] = NoCall]
    /\ alone' = IF alone = c THEN None ELSE alone

\* login_submit: is_rate_limited first; record_failure for a wrong token.
Login(c) == stage[c] = "idle" /\ Enters(c, "check")
Fails(c) == stage[c] = "compare" /\ Enters(c, "record")

DropStale(c, a) ==
    /\ Calling(c) /\ a \in calls[c].stale
    /\ attempts' = Without(a)
    /\ calls' = [calls EXCEPT ![c].stale = @ \ {a}]
    /\ UNCHANGED <<clock, stage, alone, lone>>

\* Another call changes the table while _prune_stale goes through it: an error, and the
\* login ends, its failure not recorded.
TableChanges(c) ==
    /\ Calling(c) /\ calls[c].history = None /\ alone # c
    /\ Returns(c, "idle")
    /\ UNCHANGED <<clock, attempts, lone>>

ReadHistory(c) ==
    /\ Calling(c) /\ calls[c].stale = {} /\ calls[c].history = None
    /\ attempts' = With(Address[c], List(Address[c]))
    /\ calls' = [calls EXCEPT ![c].history = Recent(List(Address[c]), calls[c].clock)]
    /\ UNCHANGED <<clock, stage, alone, lone>>

Checked(c) ==
    /\ stage[c] = "check" /\ calls[c].history # None
    /\ attempts' = With(Address[c], calls[c].history)
    /\ Returns(c, IF Cardinality(calls[c].history) >= MaxAttempts THEN "idle" ELSE "compare")
    /\ UNCHANGED <<clock, lone>>

Failure(c) == [at |-> calls[c].clock, nr |-> Last(calls[c].history) + 1]

Recorded(c) ==
    /\ stage[c] = "record" /\ calls[c].history # None
    /\ attempts' = With(Address[c], calls[c].history \cup {Failure(c)})
    /\ lone' = IF alone = c THEN [lone EXCEPT ![Address[c]] = @ \cup {Failure(c)}] ELSE lone
    /\ Returns(c, "idle")
    /\ UNCHANGED clock

\* The token is right: reset.
Succeeds(c) ==
    /\ stage[c] = "compare"
    /\ attempts' = Without(Address[c])
    /\ lone' = [lone EXCEPT ![Address[c]] = {}]
    /\ stage' = [stage EXCEPT ![c] = "idle"]
    /\ alone' = None
    /\ UNCHANGED <<clock, calls>>

Next ==
    \/ Tick
    \/ \E c \in Clients :
          \/ Login(c) \/ Fails(c) \/ Succeeds(c)
          \/ \E a \in Addresses : DropStale(c, a)
          \/ TableChanges(c) \/ ReadHistory(c) \/ Checked(c) \/ Recorded(c)

Spec == Init /\ [][Next]_vars
-----------------------------------------------------------------------------
\* Of the failures of an address that were recorded by a call no other call of the limiter
\* overlaps, there are never more in the window than are allowed and its clients can have
\* on their way, whatever calls that do overlap write over each other (is_rate_limited,
\* record_failure, _prune_stale, reset).
FailuresAreLimited ==
    \A a \in Addresses :
        Cardinality(Recent(lone[a], clock)) < MaxAttempts + Cardinality({c \in Clients : Address[c] = a})
=============================================================================
