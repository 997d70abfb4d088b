----------------------------- MODULE ThreadStores ------------------------------
(***************************************************************************)
(* One store for many threads (storage/thread_safe.py, factory.py): with       *)
(* SQLAlchemy one store serves them all; else there is a SQLite store per       *)
(* thread, found by the number the system gave the thread, which is given      *)
(* again once the thread has ended; close() may come at any time.             *)
(*                                                                         *)
(* An operation holds the lock of its store while its transaction is open       *)
(* (@_synchronized); close() of a store does not wait for that lock.           *)
(***************************************************************************)
EXTENDS Naturals, Sequences, FiniteSets

CONSTANTS
    Urls,       \* database URLs: [scheme, host, path, driver], or None when unset
    Threads,    \* threads that start, work and end, each once
    Idents,     \* numbers of running threads (threading.get_ident)
    MaxStores,  \* bound on stores opened
    MaxCloses,  \* bound on calls of close()
    None

VARIABLES
    backend,    \* what create_approval_store made: "sqlite" or "sql"
    ident,      \* per running thread its number, else None
    ended,      \* threads that have ended
    local,      \* per thread, _thread_local.store or None
    byIdent,    \* _thread_stores: per number a store or None
    all,        \* _all_stores
    opened,     \* stores opened so far: 1 .. opened
    closed,     \* stores whose connection has been closed
    where,      \* per thread, its next step
    using,      \* per thread, the store it works with, or None
    closes      \* bound counter

vars == <<backend, ident, ended, local, byIdent, all, opened, closed, where, using, closes>>
tables == <<local, byIdent, all, opened, closed>>

Running == {t \in Threads : ident[t] # None}

\* create_approval_store: an unset URL means a SQLite file; a set one is used or refused.
\* Without SQLAlchemy (driver) only a SQLite file can be opened.
Backend(url) ==
    IF url = None THEN "sqlite"
    ELSE IF url.scheme \notin {"sqlite", "postgresql", "postgres"} \/ (url.scheme # "sqlite" /\ url.host = None)
         THEN "refused"
    ELSE IF url.driver THEN "sql"
    ELSE IF url.scheme = "sqlite" /\ url.path # None THEN "sqlite" ELSE "refused"

\* __init__ runs in a thread that keeps the first store; thread and number are its own.
Init ==
    \E main \in Threads, n \in Idents :
        /\ backend \in {Backend(url) : url \in Urls} \ {"refused"}
        /\ ident = [t \in Threads |-> IF t = main THEN n ELSE None]
        /\ ended = {}
        /\ opened = 1 /\ all = {1} /\ closed = {}
        /\ local = [t \in Threads |-> IF t = main THEN 1 ELSE None]
        /\ byIdent = [m \in Idents |-> IF m = n THEN 1 ELSE None]
        /\ where = [t \in Threads |-> "idle"] /\ using = [t \in Threads |-> None]
        /\ closes = 0

Goes(t, step) == where' = [where EXCEPT ![t] = step]
Uses(t, s)    == using' = [using EXCEPT ![t] = s]

\* A thread starts with a number no running thread has.
Start(t) ==
    /\ t \notin ended /\ ident[t] = None
    /\ \E n \in Idents \ {ident[u] : u \in Running} : ident' = [ident EXCEPT ![t] = n]
    /\ UNCHANGED <<backend, ended, tables, where, using, closes>>

\* It ends: its thread-local values go, the entry under its number stays.
End(t) ==
    /\ ident[t] # None /\ where[t] = "idle"
    /\ ident' = [ident EXCEPT ![t] = None]
    /\ ended' = ended \cup {t}
    /\ local' = [local EXCEPT ![t] = None]
    /\ Uses(t, None)
    /\ UNCHANGED <<backend, byIdent, all, opened, closed, where, closes>>

-----------------------------------------------------------------------------
(***************************************************************************)
(* _get_current_store.                                                     *)
(***************************************************************************)
\* Mutant of Find: a number without a store has the first one.
FindFirst(t) ==
    /\ ident[t] # None /\ where[t] = "idle"
    /\ LET s == byIdent[ident[t]]
       IN  Uses(t, IF s = None THEN 1 ELSE s) /\ Goes(t, "work")
    /\ UNCHANGED <<backend, ident, ended, tables, closes>>

\* The one store of SQLAlchemy; else, under the lock, the store of this number.
Find(t) ==
    /\ ident[t] # None /\ where[t] = "idle"
    /\ LET s == byIdent[ident[t]]
       IN  IF backend = "sql" THEN Uses(t, 1) /\ Goes(t, "work")
        ELSE Uses(t, s) /\ Goes(t, IF s = None THEN "own" ELSE "work")
    /\ UNCHANGED <<backend, ident, ended, tables, closes>>

\* The thread's own store, or a new one.
Own(t) ==
    /\ where[t] = "own"
    /\ IF local[t] # None
       THEN Uses(t, local[t]) /\ UNCHANGED <<local, opened>>
       ELSE /\ opened < MaxStores
            /\ opened' = opened + 1
            /\ local' = [local EXCEPT ![t] = opened + 1]
            /\ Uses(t, opened + 1)
    /\ Goes(t, "register")
    /\ UNCHANGED <<backend, ident, ended, byIdent, all, closed, closes>>

\* Mutant of Register: the list of all stores is not kept.
RegisterByIdent(t) ==
    /\ where[t] = "register"
    /\ byIdent' = [byIdent EXCEPT ![ident[t]] = using[t]]
    /\ Goes(t, "work")
    /\ UNCHANGED <<backend, ident, ended, local, all, opened, closed, using, closes>>

\* Under the lock: the store is found under this number from now on, and by close().
Register(t) ==
    /\ where[t] = "register"
    /\ byIdent' = [byIdent EXCEPT ![ident[t]] = using[t]]
    /\ all' = all \cup {using[t]}
    /\ Goes(t, "work")
    /\ UNCHANGED <<backend, ident, ended, local, opened, closed, using, closes>>

-----------------------------------------------------------------------------
(***************************************************************************)
(* Work and close.                                                         *)
(***************************************************************************)
\* An operation: with a closed store it fails; else its transaction opens.
Begin(t) ==
    /\ where[t] = "work"
    /\ IF using[t] \in closed THEN Goes(t, "idle") /\ Uses(t, None)
                              ELSE Goes(t, "transaction") /\ UNCHANGED using
    /\ UNCHANGED <<backend, ident, ended, tables, closes>>

\* It commits, or fails because its connection was closed under it.
Finish(t) ==
    /\ where[t] = "transaction"
    /\ Goes(t, "idle") /\ Uses(t, None)
    /\ UNCHANGED <<backend, ident, ended, tables, closes>>

\* close(): under the lock every store listed is closed and both lists are emptied; what
\* threads keep of their own is not touched. An engine that is disposed of connects anew.
Close ==
    /\ closes < MaxCloses
    /\ closes' = closes + 1
    /\ closed' = IF backend = "sqlite" THEN closed \cup all ELSE closed
    /\ all' = {}
    /\ byIdent' = [n \in Idents |-> None]
    /\ UNCHANGED <<backend, ident, ended, local, opened, where, using>>

Next ==
    \/ \E t \in Threads :
          Start(t) \/ End(t) \/ Find(t) \/ Own(t) \/ Register(t) \/ Begin(t) \/ Finish(t)
    \/ Close

Spec == Init /\ [][Next]_vars
-----------------------------------------------------------------------------
\* Threads that run side by side never work with one SQLite store, however their numbers
\* are given again (_get_current_store).
NoStoreIsShared ==
    \A t, u \in Running : backend = "sqlite" /\ t # u /\ using[t] # None => using[t] # using[u]

\* A store that is open will be closed by the next close(), or a thread is about to list it.
OpenStoresAreListed ==
    \A s \in 1 .. opened :
        backend = "sql" \/ s \in closed \cup all \/ \E t \in Running : where[t] = "register" /\ using[t] = s

\* Both hold at every step.
EachThreadItsStore == NoStoreIsShared /\ OpenStoresAreListed
=============================================================================
