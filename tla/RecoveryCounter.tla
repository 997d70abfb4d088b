---------------------------- MODULE RecoveryCounter ----------------------------
(***************************************************************************)
(* How SQLiteApprovalStore notices that its database file was replaced by  *)
(* an older copy (core/storage/sqlite.py, _sync_recovery_counter).         *)
(*                                                                         *)
(* Table store_recovery holds a counter that every consumption advances;   *)
(* the file <database>.epoch mirrors it.  A database that lags its mirror  *)
(* has been rolled back, and the operation raises.  Opening a store, get   *)
(* and save_pending check; consume_approved checks and advances, after it  *)
(* has committed the consumption.  The database and the mirror are two     *)
(* files, so an exclusive flock on a third one makes the check atomic.     *)
(*                                                                         *)
(* External: an operator may copy the database file at any time and put    *)
(* the copy back while nothing uses the store.  One copy is kept, the last *)
(* one: two branches of history can reach the same counter, and going back *)
(* and forth between branches is not something a counter can tell.         *)
(***************************************************************************)
EXTENDS Integers

CONSTANTS
    Approvals,      \* approval ids
    Stores,         \* store instances of any process
    None

ASSUME NoneAssumption == None \notin Approvals \cup Stores

VARIABLES
    db,         \* the database: the counter (0 while the row is missing) and the rows
    sidecar,    \* the number in the .epoch file, 0 while it is empty
    lock,       \* who holds the flock on the .epoch.lock file
    op,         \* the operation each instance is in
    uses,       \* observation: consumptions returned to a caller
    alarm,      \* observation: some operation reported a rollback
    backup,     \* external: the operator's copy of the database file
    restored    \* observation: a copy that differs has been put back

vars == <<db, sidecar, lock, op, uses, alarm, backup, restored>>

Larger(m, n) == IF m > n THEN m ELSE n

RowStates == {"ABSENT", "PENDING", "APPROVED", "REJECTED", "CONSUMED"}
Database  == [counter : Nat, row : [Approvals -> RowStates]]

\* pc: waiting for the lock, about to read the counter, about to read the
\* mirror and compare, about to commit the counter, about to write the mirror,
\* and save_pending's insert after its check.
Phases == {"idle", "lock", "read", "compare", "commit", "mirror", "insert"}
Locked == {"read", "compare", "commit", "mirror"}
Kinds  == {"check", "save", "consume"}

Op == [pc : Phases, kind : Kinds, id : Approvals \cup {None}, counter : Nat]

Idle == [pc |-> "idle", kind |-> "check", id |-> None, counter |-> 0]

Begin(s, k, a) ==
    /\ op[s].pc = "idle"
    /\ op' = [op EXCEPT ![s] = [pc |-> "lock", kind |-> k, id |-> a, counter |-> 0]]

Goto(s, pc, n) ==
    op' = [op EXCEPT ![s] =
              [pc |-> pc, kind |-> op[s].kind, id |-> op[s].id, counter |-> n]]

\* A statement that commits a new state of row a.
SetRow(a, state) ==
    db' = [counter |-> db.counter, row |-> [db.row EXCEPT ![a] = state]]

\* The check of s passed: it drops the lock; get returns, save_pending goes on,
\* consume_approved hands the consumed record to its caller.
Passed(s) ==
    /\ lock' = None
    /\ \/ op[s].kind = "check" /\ op' = [op EXCEPT ![s] = Idle] /\ UNCHANGED uses
       \/ op[s].kind = "save" /\ Goto(s, "insert", 0) /\ UNCHANGED uses
       \/ /\ op[s].kind = "consume"
          /\ op' = [op EXCEPT ![s] = Idle]
          /\ uses' = [uses EXCEPT ![op[s].id] = @ + 1]

-----------------------------------------------------------------------------
Init ==
    /\ db = [counter |-> 0, row |-> [a \in Approvals |-> "ABSENT"]]
    /\ sidecar = 0
    /\ lock = None
    /\ op = [s \in Stores |-> Idle]
    /\ uses = [a \in Approvals |-> 0]
    /\ alarm = FALSE
    /\ backup = db
    /\ restored = FALSE

\* Opening a store and get() check; save_pending checks before it inserts.
Check(s) ==
    /\ Begin(s, "check", None)
    /\ UNCHANGED <<db, sidecar, lock, uses, alarm, backup, restored>>

Save(s) ==
    /\ Begin(s, "save", None)
    /\ UNCHANGED <<db, sidecar, lock, uses, alarm, backup, restored>>

Insert(s) ==
    /\ op[s].pc = "insert"
    /\ \E a \in Approvals :
           /\ db.row[a] = "ABSENT"
           /\ SetRow(a, "PENDING")
    /\ op' = [op EXCEPT ![s] = Idle]
    /\ UNCHANGED <<sidecar, lock, uses, alarm, backup, restored>>

\* approve_pending and reject_pending do not look at the counter.
Decide(s, a, verdict) ==
    /\ op[s].pc = "idle"
    /\ db.row[a] = "PENDING"
    /\ SetRow(a, verdict)
    /\ UNCHANGED <<sidecar, lock, op, uses, alarm, backup, restored>>

\* consume_approved commits the row first.
Consume(s, a) ==
    /\ db.row[a] = "APPROVED"
    /\ SetRow(a, "CONSUMED")
    /\ Begin(s, "consume", a)
    /\ UNCHANGED <<sidecar, lock, uses, alarm, backup, restored>>

-----------------------------------------------------------------------------
\* Mutant of Lock: the flock is not exclusive.
LockShared(s) ==
    /\ op[s].pc = "lock"
    /\ lock' = s
    /\ Goto(s, "read", 0)
    /\ UNCHANGED <<db, sidecar, uses, alarm, backup, restored>>

Lock(s) ==
    /\ op[s].pc = "lock"
    /\ lock = None
    /\ lock' = s
    /\ Goto(s, "read", 0)
    /\ UNCHANGED <<db, sidecar, uses, alarm, backup, restored>>

\* Mutant of ReadCounter: a missing row reads as -1.
ReadCounterMissing(s) ==
    /\ op[s].pc = "read"
    /\ Goto(s, "compare", IF db.counter = 0 THEN -1 ELSE db.counter)
    /\ UNCHANGED <<db, sidecar, lock, uses, alarm, backup, restored>>

ReadCounter(s) ==
    /\ op[s].pc = "read"
    /\ Goto(s, "compare", db.counter)
    /\ UNCHANGED <<db, sidecar, lock, uses, alarm, backup, restored>>

Alarm(s) ==
    /\ op[s].pc = "compare"
    /\ op[s].counter < sidecar
    /\ alarm' = TRUE
    /\ lock' = None
    /\ op' = [op EXCEPT ![s] = Idle]
    /\ UNCHANGED <<db, sidecar, uses, backup, restored>>

\* The counter is advanced by a consumption and created by the first check.
Advance(s) ==
    LET seen == op[s].counter
        next == Larger(seen, sidecar) + (IF op[s].kind = "consume" THEN 1 ELSE 0)
    IN /\ op[s].pc = "compare"
       /\ seen >= sidecar
       /\ op[s].kind = "consume" \/ seen = 0
       /\ Goto(s, "commit", Larger(next, 1))
       /\ UNCHANGED <<db, sidecar, lock, uses, alarm, backup, restored>>

CommitCounter(s) ==
    /\ op[s].pc = "commit"
    /\ db' = [counter |-> op[s].counter, row |-> db.row]
    /\ Goto(s, "mirror", op[s].counter)
    /\ UNCHANGED <<sidecar, lock, uses, alarm, backup, restored>>

\* Mutant of Repair: the mirror is left lagging.
RepairSkipped(s) ==
    /\ op[s].pc = "compare"
    /\ op[s].kind # "consume" /\ op[s].counter # 0
    /\ op[s].counter > sidecar
    /\ Passed(s)
    /\ UNCHANGED <<db, sidecar, alarm, backup, restored>>

\* A mirror that lags was left behind by a crash, and is repaired.
Repair(s) ==
    /\ op[s].pc = "compare"
    /\ op[s].kind # "consume" /\ op[s].counter # 0
    /\ op[s].counter > sidecar
    /\ Goto(s, "mirror", op[s].counter)
    /\ UNCHANGED <<db, sidecar, lock, uses, alarm, backup, restored>>

Agree(s) ==
    /\ op[s].pc = "compare"
    /\ op[s].kind # "consume" /\ op[s].counter # 0
    /\ op[s].counter = sidecar
    /\ Passed(s)
    /\ UNCHANGED <<db, sidecar, alarm, backup, restored>>

\* Mutant of WriteMirror: the file is not written.
WriteMirrorSkipped(s) ==
    /\ op[s].pc = "mirror"
    /\ Passed(s)
    /\ UNCHANGED <<db, sidecar, alarm, backup, restored>>

\* The file is written under a temporary name and renamed into place.
WriteMirror(s) ==
    /\ op[s].pc = "mirror"
    /\ sidecar' = op[s].counter
    /\ Passed(s)
    /\ UNCHANGED <<db, alarm, backup, restored>>

\* The process dies, or a read or write fails and the operation raises: what is
\* committed stays, the kernel or the finally clause drops the flock.
Crash(s) ==
    /\ op[s].pc # "idle"
    /\ op' = [op EXCEPT ![s] = Idle]
    /\ lock' = IF lock = s THEN None ELSE lock
    /\ UNCHANGED <<db, sidecar, uses, alarm, backup, restored>>

Backup ==
    /\ backup' = db
    /\ UNCHANGED <<db, sidecar, lock, op, uses, alarm, restored>>

Restore ==
    /\ \A s \in Stores : op[s].pc = "idle"
    /\ backup # db
    /\ db' = backup
    /\ restored' = TRUE
    /\ UNCHANGED <<sidecar, lock, op, uses, alarm, backup>>

Step(s) ==
    \/ Lock(s) \/ ReadCounter(s) \/ Alarm(s) \/ Advance(s) \/ CommitCounter(s)
    \/ Repair(s) \/ Agree(s) \/ WriteMirror(s) \/ Insert(s) \/ Crash(s)

Call(s) ==
    \/ Check(s) \/ Save(s)
    \/ \E a \in Approvals, v \in {"APPROVED", "REJECTED"} : Decide(s, a, v)
    \/ \E a \in Approvals : Consume(s, a)

Next == (\E s \in Stores : Call(s) \/ Step(s)) \/ Backup \/ Restore

Spec == Init /\ [][Next]_vars
-----------------------------------------------------------------------------
TypeOK ==
    /\ db \in Database /\ backup \in Database
    /\ sidecar \in Nat
    /\ lock \in Stores \cup {None}
    /\ op \in [Stores -> Op]
    /\ uses \in [Approvals -> Nat]
    /\ alarm \in BOOLEAN /\ restored \in BOOLEAN

\* No interleaving of instances and no crash between the two writes makes an
\* operation report a rollback that did not happen.
NoFalseAlarm == alarm => restored

\* A call that was executed is never executed again, even after the database is
\* put back to a copy in which its approval was still unconsumed: the mirror
\* outlives the copy.
SingleUseAcrossRestores == \A a \in Approvals : uses[a] <= 1

\* As soon as a consumption that was returned is missing from the database, every
\* check fails, and keeps failing.
ForgottenUseIsNoticed ==
    \A a \in Approvals :
        uses[a] > 0 /\ db.row[a] # "CONSUMED" => db.counter < sidecar

\* An operation whose check passed leaves the mirror equal to the counter, also
\* when an earlier process died between the two writes.
PassedCheckLeavesMirrorEqual ==
    [][\A s \in Stores :
           op[s].pc \in {"compare", "mirror"} /\ (uses' # uses \/ op'[s].pc = "insert")
               => sidecar' = db'.counter]_vars

\* CODEBASE_OVERVIEW.md says "A DB-only rollback is detected and fails closed".
\* Read for a human's refusal: if a copy from before it is put back, the next
\* check fails.
RefusalRollbackDetected ==
    [][\A a \in Approvals :
           db.row[a] = "REJECTED" /\ db'.row[a] # "REJECTED"
               => db'.counter < sidecar']_vars
=============================================================================
