-------------------------- MODULE SqlRecoveryCounter ---------------------------
(***************************************************************************)
(* The same rollback check in SQLAlchemyApprovalStore on a SQLite file     *)
(* (core/storage/sql.py, _sync_recovery_counter_with_conn).  Here it runs  *)
(* inside the caller's database transaction: the mirror file is written,   *)
(* the flock is dropped, and only then does the transaction commit.        *)
(* Opening a store and save_pending check; consume_approved updates the    *)
(* row, checks and advances, all in one transaction.  On PostgreSQL there  *)
(* is no mirror and no check.                                              *)
(*                                                                         *)
(* External: SQLite gives the write lock to one transaction at a time and  *)
(* shows a reader the last committed state.  The operator's copy is as in  *)
(* RecoveryCounter.                                                        *)
(***************************************************************************)
EXTENDS Integers, FiniteSets

CONSTANTS
    Approvals,      \* approval ids
    Stores,         \* store instances of any process
    None

ASSUME NoneAssumption == None \notin Approvals \cup Stores

VARIABLES
    db,         \* the committed database: the counter (0 while the row is missing) and the rows
    sidecar,    \* the number in the recovery epoch file, 0 while it is empty
    writer,     \* whose transaction holds SQLite's write lock
    lock,       \* who holds the flock
    op,         \* the transaction each instance is in
    uses,       \* observation: consumptions returned to a caller
    alarm,      \* observation: some operation reported a rollback
    backup,     \* external: the operator's copy of the database file
    restored    \* observation: a copy that differs has been put back

vars == <<db, sidecar, writer, lock, op, uses, alarm, backup, restored>>

RowStates == {"ABSENT", "PENDING", "APPROVED", "REJECTED", "CONSUMED"}
Database  == [counter : Nat, row : [Approvals -> RowStates]]

\* pc: waiting for the flock, about to read the counter, about to read the
\* mirror and compare, about to write the mirror, and the transaction's commit
\* outside the flock.  counter is what the transaction will commit.
Phases == {"idle", "lock", "read", "compare", "mirror", "commit"}
Kinds  == {"check", "save", "consume"}

Op == [pc : Phases, kind : Kinds, id : Approvals \cup {None}, counter : Nat]

Idle == [pc |-> "idle", kind |-> "check", id |-> None, counter |-> 0]

Begin(s, k, a) ==
    /\ op[s].pc = "idle"
    /\ op' = [op EXCEPT ![s] = [pc |-> "lock", kind |-> k, id |-> a, counter |-> 0]]

Goto(s, pc, n) == op' = [op EXCEPT ![s] = [@ EXCEPT !.pc = pc, !.counter = n]]

\* Leave the transaction, with what it holds.
Leave(s) ==
    /\ op' = [op EXCEPT ![s] = Idle]
    /\ lock' = IF lock = s THEN None ELSE lock
    /\ writer' = IF writer = s THEN None ELSE writer

-----------------------------------------------------------------------------
Init ==
    /\ db = [counter |-> 0, row |-> [a \in Approvals |-> "ABSENT"]]
    /\ sidecar = 0
    /\ writer = None
    /\ lock = None
    /\ op = [s \in Stores |-> Idle]
    /\ uses = [a \in Approvals |-> 0]
    /\ alarm = FALSE
    /\ backup = db
    /\ restored = FALSE

Check(s) ==
    /\ Begin(s, "check", None)
    /\ UNCHANGED <<db, sidecar, writer, lock, uses, alarm, backup, restored>>

\* save_pending checks before its first write.
Save(s, a) ==
    /\ db.row[a] = "ABSENT"
    /\ Begin(s, "save", a)
    /\ UNCHANGED <<db, sidecar, writer, lock, uses, alarm, backup, restored>>

\* approve_pending and reject_pending do not look at the counter.
Decide(s, a, verdict) ==
    /\ op[s].pc = "idle"
    /\ writer = None
    /\ db.row[a] = "PENDING"
    /\ db' = [db EXCEPT !.row[a] = verdict]
    /\ UNCHANGED <<sidecar, writer, lock, op, uses, alarm, backup, restored>>

\* consume_approved updates the row first, which takes SQLite's write lock; the
\* update is seen by others only when the transaction commits.
Consume(s, a) ==
    /\ writer = None
    /\ db.row[a] = "APPROVED"
    /\ writer' = s
    /\ Begin(s, "consume", a)
    /\ UNCHANGED <<db, sidecar, lock, uses, alarm, backup, restored>>

Lock(s) ==
    /\ op[s].pc = "lock"
    /\ lock = None
    /\ lock' = s
    /\ Goto(s, "read", 0)
    /\ UNCHANGED <<db, sidecar, writer, uses, alarm, backup, restored>>

ReadCounter(s) ==
    /\ op[s].pc = "read"
    /\ Goto(s, "compare", db.counter)
    /\ UNCHANGED <<db, sidecar, writer, lock, uses, alarm, backup, restored>>

\* The counter as s read it; a missing row counts as 1.
Seen(s) == IF op[s].counter = 0 THEN 1 ELSE op[s].counter

\* The raise leaves the transaction: everything it did is rolled back.
Alarm(s) ==
    /\ op[s].pc = "compare"
    /\ Seen(s) < sidecar
    /\ alarm' = TRUE
    /\ Leave(s)
    /\ UNCHANGED <<db, sidecar, uses, backup, restored>>

\* Mutant of Advance: a consumption is not counted.
AdvanceUncounted(s) ==
    /\ op[s].pc = "compare"
    /\ Seen(s) >= sidecar
    /\ writer \in {s, None}
    /\ writer' = s
    /\ Goto(s, "mirror", Seen(s))
    /\ UNCHANGED <<db, sidecar, lock, uses, alarm, backup, restored>>

\* The upsert of the counter needs the write lock.
Advance(s) ==
    /\ op[s].pc = "compare"
    /\ Seen(s) >= sidecar
    /\ op[s].kind = "consume" \/ op[s].counter = 0
    /\ writer \in {s, None}
    /\ writer' = s
    /\ Goto(s, "mirror", Seen(s) + (IF op[s].kind = "consume" THEN 1 ELSE 0))
    /\ UNCHANGED <<db, sidecar, lock, uses, alarm, backup, restored>>

\* The row is there: a lagging mirror is repaired, an equal one left alone.
Agree(s) ==
    /\ op[s].pc = "compare"
    /\ Seen(s) >= sidecar
    /\ op[s].kind # "consume" /\ op[s].counter # 0
    /\ sidecar' = op[s].counter
    /\ lock' = None
    /\ Goto(s, "commit", 0)
    /\ UNCHANGED <<db, writer, uses, alarm, backup, restored>>

\* Mutant of WriteMirror: the file is not written.
WriteMirrorSkipped(s) ==
    /\ op[s].pc = "mirror"
    /\ lock' = None
    /\ Goto(s, "commit", op[s].counter)
    /\ UNCHANGED <<db, sidecar, writer, uses, alarm, backup, restored>>

WriteMirror(s) ==
    /\ op[s].pc = "mirror"
    /\ sidecar' = op[s].counter
    /\ lock' = None
    /\ Goto(s, "commit", op[s].counter)
    /\ UNCHANGED <<db, writer, uses, alarm, backup, restored>>

\* The transaction commits the counter it upserted, if it did, with its rows.
Commit(s) ==
    LET n == op[s].counter
        a == op[s].id
    IN /\ op[s].pc = "commit"
       /\ op[s].kind = "save" => writer \in {s, None} /\ db.row[a] = "ABSENT"
       /\ db' = [counter |-> IF n = 0 THEN db.counter ELSE n,
                 row |-> CASE op[s].kind = "check"   -> db.row
                           [] op[s].kind = "save"    -> [db.row EXCEPT ![a] = "PENDING"]
                           [] op[s].kind = "consume" -> [db.row EXCEPT ![a] = "CONSUMED"]]
       /\ uses' = IF op[s].kind = "consume" THEN [uses EXCEPT ![a] = @ + 1] ELSE uses
       /\ Leave(s)
       /\ UNCHANGED <<sidecar, alarm, backup, restored>>

\* The process dies or a statement fails: the transaction is rolled back, the
\* mirror is not.
Crash(s) ==
    /\ op[s].pc # "idle"
    /\ Leave(s)
    /\ UNCHANGED <<db, sidecar, uses, alarm, backup, restored>>

Backup ==
    /\ backup' = db
    /\ UNCHANGED <<db, sidecar, writer, lock, op, uses, alarm, restored>>

Restore ==
    /\ \A s \in Stores : op[s].pc = "idle"
    /\ backup # db
    /\ db' = backup
    /\ restored' = TRUE
    /\ UNCHANGED <<sidecar, writer, lock, op, uses, alarm, backup>>

Step(s) ==
    \/ Check(s) \/ \E a \in Approvals : Save(s, a) \/ Consume(s, a)
    \/ \E a \in Approvals, v \in {"APPROVED", "REJECTED"} : Decide(s, a, v)
    \/ Lock(s) \/ ReadCounter(s) \/ Alarm(s) \/ Advance(s) \/ Agree(s)
    \/ WriteMirror(s) \/ Commit(s) \/ Crash(s)

Next == (\E s \in Stores : Step(s)) \/ Backup \/ Restore

Spec == Init /\ [][Next]_vars
-----------------------------------------------------------------------------
TypeOK ==
    /\ db \in Database /\ backup \in Database
    /\ sidecar \in Nat
    /\ writer \in Stores \cup {None} /\ lock \in Stores \cup {None}
    /\ op \in [Stores -> Op]
    /\ uses \in [Approvals -> Nat]
    /\ alarm \in BOOLEAN /\ restored \in BOOLEAN

\* A call that was executed is never executed again, even after the database is
\* put back to a copy in which its approval was still unconsumed.
SingleUseAcrossRestores == \A a \in Approvals : uses[a] <= 1

\* The counter commits with the consumption it counts: in every committed
\* database, backups included, it is one more than the consumed rows.
CounterCountsConsumptions ==
    \A d \in {db, backup} :
        d.counter # 0 =>
            d.counter = 1 + Cardinality({a \in Approvals : d.row[a] = "CONSUMED"})

\* The message of the alarm, and errors.mdx, call it a rollback of the database:
\* none is reported without one.
NoFalseAlarm == alarm => restored
=============================================================================
