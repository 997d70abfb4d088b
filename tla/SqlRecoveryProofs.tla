--------------------------- MODULE SqlRecoveryProofs ---------------------------
(***************************************************************************)
(* Theorems about SqlRecoveryCounter, for any number of approvals, stores,  *)
(* crashes and restores: the counter counts, and single use survives.       *)
(***************************************************************************)
EXTENDS SqlRecoveryCounter, FiniteSetTheorems, TLAPS

Consumed(d) == {a \in Approvals : d.row[a] = "CONSUMED"}

\* What is in a database file, the operator's copy included.
Counted(d) ==
    /\ IsFiniteSet(Consumed(d))
    /\ Cardinality(Consumed(d)) = IF d.counter = 0 THEN 0 ELSE d.counter - 1
    /\ d.counter <= sidecar

\* A use that a database has forgotten leaves its counter behind the mirror.
Forgets(d) == \E a \in Approvals : uses[a] # 0 /\ d.row[a] # "CONSUMED"
Noticed(d) == Forgets(d) => sidecar > d.counter /\ sidecar > 1

\* The flock covers reading to mirroring; the write lock, every consumption and
\* everything that will commit a counter.
LocksHeld ==
    \A s \in Stores :
        /\ op[s].pc \in {"read", "compare", "mirror"} => lock = s
        /\ op[s].pc # "idle" /\ op[s].kind = "consume" => writer = s
        /\ op[s].pc = "mirror" => writer = s
        /\ op[s].pc = "commit" /\ op[s].counter # 0 => writer = s
        /\ op[s].pc = "mirror" => op[s].counter # 0

\* What a transaction is about to do to the counter.
Pending(s) ==
    /\ op[s].pc # "idle" /\ op[s].kind = "consume" =>
           op[s].id \in Approvals /\ db.row[op[s].id] = "APPROVED"
    /\ op[s].pc # "idle" /\ op[s].kind = "save" => op[s].id \in Approvals
    /\ op[s].pc = "compare" =>
           /\ op[s].counter <= db.counter
           /\ op[s].kind = "consume" => op[s].counter = db.counter
    /\ op[s].pc = "mirror" => op[s].counter >= sidecar
    /\ op[s].pc = "commit" => op[s].counter <= sidecar
    /\ op[s].pc \in {"mirror", "commit"} /\ op[s].kind = "consume" =>
           /\ op[s].counter = 1 + (IF db.counter = 0 THEN 1 ELSE db.counter)
           /\ backup.counter < op[s].counter
           /\ ~Forgets(db)
    /\ op[s].pc \in {"mirror", "commit"} /\ op[s].kind # "consume" /\ op[s].counter # 0 =>
           op[s].counter = 1 /\ db.counter <= 1

Inv ==
    /\ TypeOK
    /\ LocksHeld
    /\ \A s \in Stores : Pending(s)
    /\ Counted(db) /\ Counted(backup)
    /\ Noticed(db) /\ Noticed(backup)
    /\ SingleUseAcrossRestores

-----------------------------------------------------------------------------
(***************************************************************************)
(* How the phases of a transaction move.                                   *)
(***************************************************************************)
LEMMA BeginMoves ==
    ASSUME TypeOK, NEW s \in Stores, NEW k \in Kinds, NEW a \in Approvals \cup {None}, Begin(s, k, a)
    PROVE  /\ op' \in [Stores -> Op] /\ op[s].pc = "idle"
           /\ op'[s].pc = "lock" /\ op'[s].kind = k /\ op'[s].id = a /\ op'[s].counter = 0
           /\ \A t \in Stores : t # s => op'[t] = op[t]
<1> DEFINE o == [pc |-> "lock", kind |-> k, id |-> a, counter |-> 0]
<1>1. o \in Op
  BY DEF Op, Phases
<1> QED
  BY <1>1 DEF Begin, TypeOK

LEMMA GotoMoves ==
    ASSUME TypeOK, NEW s \in Stores, NEW p \in Phases, NEW n \in Nat, Goto(s, p, n)
    PROVE  /\ op' \in [Stores -> Op]
           /\ op'[s].pc = p /\ op'[s].kind = op[s].kind /\ op'[s].id = op[s].id
           /\ op'[s].counter = n
           /\ \A t \in Stores : t # s => op'[t] = op[t]
<1>1. op[s] \in Op
  BY DEF TypeOK
<1> DEFINE o == [op[s] EXCEPT !.pc = p, !.counter = n]
<1>2. o \in Op
  BY <1>1 DEF Op
<1>3. o.pc = p /\ o.counter = n
  BY <1>1 DEF Op
<1>4. o.kind = op[s].kind /\ o.id = op[s].id
  BY <1>1 DEF Op
<1>5. op' = [op EXCEPT ![s] = o]
  BY DEF Goto
<1> HIDE DEF o
<1> QED
  BY <1>2, <1>3, <1>4, <1>5 DEF TypeOK

LEMMA LeaveMoves ==
    ASSUME TypeOK, NEW s \in Stores, Leave(s)
    PROVE  /\ op' \in [Stores -> Op] /\ op'[s].pc = "idle"
           /\ \A t \in Stores : t # s => op'[t] = op[t]
           /\ lock' = (IF lock = s THEN None ELSE lock) /\ lock' \in Stores \cup {None}
           /\ writer' = (IF writer = s THEN None ELSE writer) /\ writer' \in Stores \cup {None}
<1>1. Idle \in Op /\ Idle.pc = "idle"
  BY DEF Idle, Op, Phases, Kinds
<1> QED
  BY <1>1 DEF Leave, TypeOK

LEMMA OpFields ==
    ASSUME TypeOK, NEW s \in Stores
    PROVE  /\ op[s].pc \in Phases /\ op[s].kind \in Kinds /\ op[s].counter \in Nat
           /\ op[s].id \in Approvals \cup {None}
BY DEF TypeOK, Op

LEMMA DatabaseFields ==
    ASSUME NEW d \in Database
    PROVE  d.counter \in Nat /\ d.row \in [Approvals -> RowStates]
           /\ d = [counter |-> d.counter, row |-> d.row]
BY DEF Database

\* What the operation of a store relies on, of the locks.
Held(s) ==
    /\ op[s].pc \in {"read", "compare", "mirror"} => lock = s
    /\ op[s].pc # "idle" /\ op[s].kind = "consume" => writer = s
    /\ op[s].pc = "mirror" => writer = s
    /\ op[s].pc = "commit" /\ op[s].counter # 0 => writer = s
    /\ op[s].pc = "mirror" => op[s].counter # 0

\* Nothing changes but phases, locks and observations.
LEMMA FilesStay ==
    ASSUME Inv, UNCHANGED <<db, backup, sidecar, uses>>
    PROVE  /\ Counted(db)' /\ Counted(backup)' /\ Noticed(db)' /\ Noticed(backup)'
           /\ SingleUseAcrossRestores'
BY DEF Inv, Counted, Consumed, Noticed, Forgets, SingleUseAcrossRestores

\* The others, while the files stay and no lock of theirs is taken or dropped.
LEMMA OthersStay ==
    ASSUME Inv, NEW s \in Stores, NEW t \in Stores, t # s, op'[t] = op[t],
           UNCHANGED <<db, backup, sidecar, uses>>,
           lock = t => lock' = t, writer = t => writer' = t
    PROVE  Held(t)' /\ Pending(t)'
BY DEF Inv, LocksHeld, Held, Pending, Forgets

\* A step of one store that leaves the files alone.
LEMMA OneMoves ==
    ASSUME Inv, NEW s \in Stores, op' \in [Stores -> Op],
           \A t \in Stores : t # s => op'[t] = op[t],
           \A t \in Stores : t # s => (lock = t => lock' = t) /\ (writer = t => writer' = t),
           UNCHANGED <<db, backup, sidecar, uses>>,
           lock' \in Stores \cup {None}, writer' \in Stores \cup {None},
           alarm' \in BOOLEAN, restored' = restored,
           Held(s)', Pending(s)'
    PROVE  Inv'
<1>1. TypeOK'
  BY DEF Inv, TypeOK
<1>2. \A t \in Stores : Held(t)' /\ Pending(t)'
  BY OthersStay
<1>3. LocksHeld'
  BY <1>2 DEF LocksHeld, Held
<1> QED
  BY <1>1, <1>2, <1>3, FilesStay DEF Inv

-----------------------------------------------------------------------------
LEMMA InvInit == Init => Inv
<1> SUFFICES ASSUME Init PROVE Inv
  OBVIOUS
<1> USE DEF Init
<1>1. db \in Database /\ db.counter = 0 /\ \A a \in Approvals : db.row[a] = "ABSENT"
  BY DEF Database, RowStates
<1>2. \A s \in Stores : op[s].pc = "idle"
  BY DEF Idle
<1>3. TypeOK
  BY <1>1 DEF TypeOK, Op, Idle, Phases, Kinds
<1>4. Consumed(db) = {}
  BY <1>1 DEF Consumed
<1>5. Counted(db) /\ Counted(backup)
  BY <1>1, <1>4, FS_EmptySet DEF Counted
<1>6. ~Forgets(db) /\ ~Forgets(backup)
  BY DEF Forgets
<1>7. LocksHeld /\ \A s \in Stores : Pending(s)
  BY <1>2 DEF LocksHeld, Pending
<1>8. SingleUseAcrossRestores
  BY DEF SingleUseAcrossRestores
<1> QED
  BY <1>3, <1>5, <1>6, <1>7, <1>8 DEF Inv, Noticed

LEMMA CheckStep == ASSUME Inv, NEW s \in Stores, Check(s) PROVE Inv'
<1>1. UNCHANGED <<db, sidecar, writer, lock, uses, alarm, backup, restored>> /\ TypeOK
  BY DEF Check, Inv
<1>2. op' \in [Stores -> Op] /\ op'[s].pc = "lock" /\ op'[s].kind = "check"
      /\ \A t \in Stores : t # s => op'[t] = op[t]
  BY <1>1, BeginMoves DEF Check, Kinds
<1>3. Held(s)' /\ Pending(s)'
  BY <1>2 DEF Held, Pending
<1> QED
  BY <1>1, <1>2, <1>3, OneMoves DEF TypeOK

LEMMA SaveStep == ASSUME Inv, NEW s \in Stores, NEW a \in Approvals, Save(s, a) PROVE Inv'
<1>1. UNCHANGED <<db, sidecar, writer, lock, uses, alarm, backup, restored>> /\ TypeOK
  BY DEF Save, Inv
<1>2. op' \in [Stores -> Op] /\ op'[s].pc = "lock" /\ op'[s].kind = "save" /\ op'[s].id = a
      /\ \A t \in Stores : t # s => op'[t] = op[t]
  BY <1>1, BeginMoves DEF Save, Kinds
<1>3. Held(s)' /\ Pending(s)'
  BY <1>2 DEF Held, Pending
<1> QED
  BY <1>1, <1>2, <1>3, OneMoves DEF TypeOK

LEMMA ConsumeStep == ASSUME Inv, NEW s \in Stores, NEW a \in Approvals, Consume(s, a) PROVE Inv'
<1>1. /\ UNCHANGED <<db, sidecar, lock, uses, alarm, backup, restored>> /\ TypeOK
      /\ writer = None /\ writer' = s /\ db.row[a] = "APPROVED"
  BY DEF Consume, Inv
<1>2. op' \in [Stores -> Op] /\ op'[s].pc = "lock" /\ op'[s].kind = "consume" /\ op'[s].id = a
      /\ \A t \in Stores : t # s => op'[t] = op[t]
  BY <1>1, BeginMoves DEF Consume, Kinds
<1>3. Held(s)' /\ Pending(s)'
  BY <1>1, <1>2 DEF Held, Pending
<1>4. \A t \in Stores : writer # t
  BY <1>1, NoneAssumption
<1> QED
  BY <1>1, <1>2, <1>3, <1>4, OneMoves DEF TypeOK

LEMMA LockStep == ASSUME Inv, NEW s \in Stores, Lock(s) PROVE Inv'
<1>1. /\ UNCHANGED <<db, sidecar, writer, uses, alarm, backup, restored>> /\ TypeOK
      /\ lock = None /\ lock' = s /\ op[s].pc = "lock"
  BY DEF Lock, Inv
<1>2. /\ op' \in [Stores -> Op] /\ op'[s].pc = "read"
      /\ op'[s].kind = op[s].kind /\ op'[s].id = op[s].id
      /\ \A t \in Stores : t # s => op'[t] = op[t]
  BY <1>1, GotoMoves DEF Lock, Phases
<1>3. Held(s)' /\ Pending(s)'
  BY <1>1, <1>2 DEF Held, Pending, Inv, LocksHeld
<1>4. \A t \in Stores : lock # t
  BY <1>1, NoneAssumption
<1> QED
  BY <1>1, <1>2, <1>3, <1>4, OneMoves DEF TypeOK

LEMMA ReadStep == ASSUME Inv, NEW s \in Stores, ReadCounter(s) PROVE Inv'
<1>1. /\ UNCHANGED <<db, sidecar, writer, lock, uses, alarm, backup, restored>> /\ TypeOK
      /\ op[s].pc = "read" /\ db.counter \in Nat
  BY DatabaseFields DEF ReadCounter, Inv, TypeOK
<1>2. /\ op' \in [Stores -> Op] /\ op'[s].pc = "compare" /\ op'[s].counter = db.counter
      /\ op'[s].kind = op[s].kind /\ op'[s].id = op[s].id
      /\ \A t \in Stores : t # s => op'[t] = op[t]
  BY <1>1, GotoMoves DEF ReadCounter, Phases
<1>3. Held(s)' /\ Pending(s)'
  BY <1>1, <1>2 DEF Held, Pending, Inv, LocksHeld
<1> QED
  BY <1>1, <1>2, <1>3, OneMoves DEF TypeOK

LEMMA LeaveStep == ASSUME Inv, NEW s \in Stores, Alarm(s) \/ Crash(s) PROVE Inv'
<1>1. UNCHANGED <<db, sidecar, uses, backup, restored>> /\ alarm' \in BOOLEAN /\ TypeOK /\ Leave(s)
  BY DEF Alarm, Crash, Inv, TypeOK
<1>2. /\ op' \in [Stores -> Op] /\ op'[s].pc = "idle"
      /\ \A t \in Stores : t # s => op'[t] = op[t]
      /\ lock' = (IF lock = s THEN None ELSE lock) /\ lock' \in Stores \cup {None}
      /\ writer' = (IF writer = s THEN None ELSE writer) /\ writer' \in Stores \cup {None}
  BY <1>1, LeaveMoves
<1>3. Held(s)' /\ Pending(s)'
  BY <1>2 DEF Held, Pending
<1> QED
  BY <1>1, <1>2, <1>3, OneMoves

LEMMA AdvanceStep == ASSUME Inv, NEW s \in Stores, Advance(s) PROVE Inv'
<1> DEFINE n == Seen(s) + (IF op[s].kind = "consume" THEN 1 ELSE 0)
<1>1. /\ UNCHANGED <<db, sidecar, lock, uses, alarm, backup, restored>> /\ TypeOK
      /\ op[s].pc = "compare" /\ Seen(s) >= sidecar
      /\ op[s].kind = "consume" \/ op[s].counter = 0
      /\ writer \in {s, None} /\ writer' = s
  BY DEF Advance, Inv
<1>2. /\ Seen(s) \in Nat /\ Seen(s) >= 1 /\ n \in Nat
      /\ Seen(s) = IF op[s].counter = 0 THEN 1 ELSE op[s].counter
      /\ sidecar \in Nat /\ db.counter \in Nat /\ backup.counter \in Nat
  BY <1>1, OpFields, DatabaseFields DEF Seen, TypeOK
<1>3. /\ op' \in [Stores -> Op] /\ op'[s].pc = "mirror" /\ op'[s].counter = n
      /\ op'[s].kind = op[s].kind /\ op'[s].id = op[s].id
      /\ \A t \in Stores : t # s => op'[t] = op[t]
  BY <1>1, <1>2, GotoMoves DEF Advance, Phases
<1> HIDE DEF n
<1>4. /\ db.counter <= sidecar /\ backup.counter <= sidecar
      /\ op[s].counter <= db.counter
      /\ op[s].kind = "consume" => op[s].counter = db.counter
      /\ Noticed(db) /\ lock = s
      /\ op[s].kind = "consume" => db.row[op[s].id] = "APPROVED" /\ op[s].id \in Approvals
      /\ op[s].kind = "save" => op[s].id \in Approvals
  BY <1>1 DEF Inv, Counted, Pending, LocksHeld
<1>5. op[s].kind = "consume" => ~Forgets(db)
  BY <1>1, <1>2, <1>4 DEF Noticed
<1>6. Held(s)'
  BY <1>1, <1>2, <1>3, <1>4 DEF Held, n
<1>7. Pending(s)'
  <2>1. CASE op[s].kind = "consume"
    BY <1>1, <1>2, <1>3, <1>4, <1>5, <2>1 DEF Pending, n, Forgets
  <2>2. CASE op[s].kind # "consume"
    BY <1>1, <1>2, <1>3, <1>4, <2>2 DEF Pending, n
  <2> QED
    BY <2>1, <2>2
<1>8. \A t \in Stores : t # s => writer # t
  BY <1>1, NoneAssumption
<1> QED
  BY <1>1, <1>3, <1>6, <1>7, <1>8, OneMoves DEF TypeOK

\* The counter cannot be ahead of the mirror, so the repair writes what is there.
LEMMA AgreeStep == ASSUME Inv, NEW s \in Stores, Agree(s) PROVE Inv'
<1>1. /\ UNCHANGED <<db, writer, uses, alarm, backup, restored>> /\ TypeOK
      /\ op[s].pc = "compare" /\ Seen(s) >= sidecar
      /\ op[s].kind # "consume" /\ op[s].counter # 0
      /\ sidecar' = op[s].counter /\ lock' = None
  BY DEF Agree, Inv
<1>2. /\ op[s].counter \in Nat /\ Seen(s) = op[s].counter
      /\ sidecar \in Nat /\ db.counter \in Nat
  BY <1>1, OpFields, DatabaseFields DEF Seen, TypeOK
<1>3. op[s].counter <= db.counter /\ db.counter <= sidecar /\ lock = s
  BY <1>1 DEF Inv, Pending, Counted, LocksHeld
<1>4. sidecar' = sidecar
  BY <1>1, <1>2, <1>3
<1>5. /\ op' \in [Stores -> Op] /\ op'[s].pc = "commit" /\ op'[s].counter = 0
      /\ op'[s].kind = op[s].kind /\ op'[s].id = op[s].id
      /\ \A t \in Stores : t # s => op'[t] = op[t]
  BY <1>1, GotoMoves DEF Agree, Phases
<1>6. Held(s)' /\ Pending(s)'
  BY <1>1, <1>2, <1>4, <1>5 DEF Held, Pending, Inv
<1> QED
  BY <1>1, <1>3, <1>4, <1>5, <1>6, OneMoves DEF TypeOK

LEMMA WriteMirrorStep == ASSUME Inv, NEW s \in Stores, WriteMirror(s) PROVE Inv'
<1>1. /\ UNCHANGED <<db, writer, uses, alarm, backup, restored>> /\ TypeOK
      /\ op[s].pc = "mirror" /\ sidecar' = op[s].counter /\ lock' = None
  BY DEF WriteMirror, Inv
<1>2. /\ op[s].counter \in Nat /\ sidecar \in Nat /\ sidecar' \in Nat
      /\ db.counter \in Nat /\ backup.counter \in Nat
      /\ \A t \in Stores : op[t].counter \in Nat
  BY <1>1, OpFields, DatabaseFields DEF TypeOK
<1>3. op[s].counter >= sidecar /\ lock = s /\ sidecar' >= sidecar
  BY <1>1 DEF Inv, Pending, LocksHeld
<1>4. /\ op' \in [Stores -> Op] /\ op'[s].pc = "commit" /\ op'[s].counter = op[s].counter
      /\ op'[s].kind = op[s].kind /\ op'[s].id = op[s].id
      /\ \A t \in Stores : t # s => op'[t] = op[t]
  BY <1>1, <1>2, GotoMoves DEF WriteMirror, Phases
<1>5. Held(s)' /\ Pending(s)'
  BY <1>1, <1>2, <1>4 DEF Held, Pending, Inv, LocksHeld, Forgets
<1>6. ASSUME NEW t \in Stores, t # s PROVE Held(t)' /\ Pending(t)'
  <2>1. op'[t] = op[t] /\ op[t].pc \notin {"read", "compare", "mirror"}
    BY <1>3, <1>4, <1>6 DEF Inv, LocksHeld
  <2>2. Held(t) /\ Pending(t)
    BY DEF Inv, LocksHeld, Held
  <2> QED
    BY <1>1, <1>2, <1>3, <2>1, <2>2 DEF Held, Pending, Forgets
<1>7. TypeOK'
  BY <1>1, <1>2, <1>4 DEF TypeOK
<1>8. LocksHeld'
  BY <1>5, <1>6 DEF LocksHeld, Held
<1>9. Counted(db)' /\ Counted(backup)'
  BY <1>1, <1>2, <1>3 DEF Inv, Counted, Consumed
<1>10. Noticed(db)' /\ Noticed(backup)'
  BY <1>1, <1>2, <1>3 DEF Inv, Noticed, Forgets
<1>11. SingleUseAcrossRestores'
  BY <1>1 DEF Inv, SingleUseAcrossRestores
<1> QED
  BY <1>5, <1>6, <1>7, <1>8, <1>9, <1>10, <1>11 DEF Inv

\* A database whose rows change, but for consumptions and the counter.
LEMMA SameCounts ==
    ASSUME Inv, NEW d \in Database, d.counter = db.counter,
           \A a \in Approvals : d.row[a] = "CONSUMED" <=> db.row[a] = "CONSUMED"
    PROVE  Counted(d) /\ Noticed(d)
<1>1. Consumed(d) = Consumed(db)
  BY DEF Consumed
<1> QED
  BY <1>1 DEF Inv, Counted, Noticed, Forgets

LEMMA RowWritten ==
    ASSUME NEW d \in Database, NEW a \in Approvals, NEW v \in RowStates
    PROVE  /\ [d.row EXCEPT ![a] = v] \in [Approvals -> RowStates]
           /\ [d.row EXCEPT ![a] = v][a] = v
           /\ \A b \in Approvals : b # a => [d.row EXCEPT ![a] = v][b] = d.row[b]
BY DatabaseFields

LEMMA DecideStep ==
    ASSUME Inv, NEW s \in Stores, NEW a \in Approvals, NEW v \in {"APPROVED", "REJECTED"},
           Decide(s, a, v)
    PROVE  Inv'
<1> DEFINE row == [db.row EXCEPT ![a] = v]
           d   == [counter |-> db.counter, row |-> row]
<1>1. /\ UNCHANGED <<sidecar, writer, lock, op, uses, alarm, backup, restored>> /\ TypeOK
      /\ writer = None /\ db.row[a] = "PENDING"
  BY DEF Decide, Inv
<1>2. /\ row \in [Approvals -> RowStates] /\ row[a] = v
      /\ \A b \in Approvals : b # a => row[b] = db.row[b]
  BY RowWritten DEF Inv, TypeOK, RowStates
<1>3. db' = d
  <2>1. db = [counter |-> db.counter, row |-> db.row] /\ db' = [db EXCEPT !.row[a] = v]
    BY DatabaseFields DEF Decide, Inv, TypeOK
  <2> QED
    BY <2>1
<1> HIDE DEF row
<1>4. d \in Database /\ d.counter = db.counter /\ d.row = row
  BY <1>2, DatabaseFields DEF Inv, TypeOK, Database
<1> HIDE DEF d
<1>5. \A b \in Approvals : row[b] = "CONSUMED" <=> db.row[b] = "CONSUMED"
  BY <1>1, <1>2
<1>6. Counted(d) /\ Noticed(d)
  BY <1>4, <1>5, SameCounts
<1>7. \A t \in Stores : writer # t
  BY <1>1, NoneAssumption
<1>8. TypeOK'
  BY <1>1, <1>3, <1>4 DEF TypeOK
<1>9. LocksHeld'
  BY <1>1 DEF Inv, LocksHeld
<1>10. \A t \in Stores : Pending(t)'
  BY <1>1, <1>3, <1>4, <1>7 DEF Inv, LocksHeld, Pending
<1>11. Counted(db)' /\ Counted(backup)'
  BY <1>1, <1>3, <1>6 DEF Inv, Counted, Consumed
<1>12. Noticed(db)' /\ Noticed(backup)'
  BY <1>1, <1>3, <1>6 DEF Inv, Noticed, Forgets
<1>13. SingleUseAcrossRestores'
  BY <1>1 DEF Inv, SingleUseAcrossRestores
<1> QED
  BY <1>8, <1>9, <1>10, <1>11, <1>12, <1>13 DEF Inv

\* What the commit of any transaction does to the other stores.
LEMMA OthersAtCommit ==
    ASSUME Inv, NEW s \in Stores, NEW t \in Stores, t # s, Commit(s),
           db'.counter >= db.counter, db'.counter \in Nat,
           op[s].counter = 0 => db'.counter = db.counter,
           op[s].counter # 0 => writer = s,
           op[s].counter = 0 => \A a \in Approvals : (writer = t => db'.row[a] = db.row[a])
    PROVE  Held(t)' /\ Pending(t)'
<1>1. /\ op'[t] = op[t] /\ UNCHANGED <<sidecar, alarm, backup, restored>>
      /\ writer' = (IF writer = s THEN None ELSE writer)
      /\ lock' = (IF lock = s THEN None ELSE lock)
  BY LeaveMoves DEF Commit, Inv
<1>2. Held(t) /\ Pending(t) /\ op[t].counter \in Nat /\ db.counter \in Nat
  BY OpFields, DatabaseFields DEF Inv, LocksHeld, Held, TypeOK
<1>3. Held(t)'
  BY <1>1, <1>2 DEF Held
<1>4. CASE writer = t
  <2>1. op[s].counter = 0 /\ op[s].kind # "consume" /\ uses' = uses
    BY <1>4 DEF Commit, Inv, LocksHeld
  <2> QED
    <3>1. db'.counter = db.counter /\ \A a \in Approvals : db'.row[a] = db.row[a]
      BY <1>4, <2>1
    <3> QED
      BY <1>1, <1>2, <1>3, <2>1, <3>1 DEF Pending, Forgets
<1>5. CASE writer # t
  BY <1>1, <1>2, <1>3, <1>5 DEF Held, Pending
<1> QED
  BY <1>3, <1>4, <1>5

LEMMA CommitStep == ASSUME Inv, NEW s \in Stores, Commit(s) PROVE Inv'
<1> DEFINE n == op[s].counter
           a == op[s].id
           c == IF n = 0 THEN db.counter ELSE n
<1>1. /\ op[s].pc = "commit" /\ UNCHANGED <<sidecar, alarm, backup, restored>> /\ TypeOK
      /\ op[s].kind = "save" => writer \in {s, None} /\ db.row[a] = "ABSENT"
      /\ uses' = IF op[s].kind = "consume" THEN [uses EXCEPT ![a] = @ + 1] ELSE uses
  BY DEF Commit, Inv
<1>2. /\ op' \in [Stores -> Op] /\ op'[s].pc = "idle"
      /\ lock' \in Stores \cup {None} /\ writer' \in Stores \cup {None}
  BY <1>1, LeaveMoves DEF Commit
<1>3. /\ n \in Nat /\ db.counter \in Nat /\ backup.counter \in Nat /\ sidecar \in Nat /\ c \in Nat
      /\ db.row \in [Approvals -> RowStates] /\ op[s].kind \in Kinds
  BY <1>1, OpFields, DatabaseFields DEF TypeOK
<1>4. Pending(s) /\ Held(s) /\ Counted(db) /\ Noticed(db)
  BY DEF Inv, LocksHeld, Held
<1>5. n <= sidecar /\ c <= sidecar /\ c >= db.counter /\ (n # 0 => writer = s)
  BY <1>1, <1>3, <1>4 DEF Pending, Held, Counted
<1>6. Held(s)' /\ Pending(s)'
  BY <1>2 DEF Held, Pending
<1>7. SUFFICES /\ db' \in Database /\ uses' \in [Approvals -> Nat]
               /\ db'.counter = c
               /\ op[s].counter = 0 => \A b \in Approvals, t \in Stores :
                                          t # s /\ writer = t => db'.row[b] = db.row[b]
               /\ Counted(db)' /\ Noticed(db)' /\ Noticed(backup)'
               /\ SingleUseAcrossRestores'
  <2>1. \A t \in Stores : Held(t)' /\ Pending(t)'
    BY <1>3, <1>5, <1>6, <1>7, OthersAtCommit
  <2>2. LocksHeld' /\ \A t \in Stores : Pending(t)'
    BY <2>1 DEF LocksHeld, Held
  <2>3. TypeOK'
    BY <1>1, <1>2, <1>7 DEF TypeOK
  <2>4. Counted(backup)'
    BY <1>1 DEF Inv, Counted, Consumed
  <2> QED
    BY <1>7, <2>2, <2>3, <2>4 DEF Inv
<1>8. CASE op[s].kind = "consume"
  <2> DEFINE row == [db.row EXCEPT ![a] = "CONSUMED"]
  <2>1. db' = [counter |-> c, row |-> row] /\ uses' = [uses EXCEPT ![a] = @ + 1]
    BY <1>1, <1>8 DEF Commit
  <2>2. /\ a \in Approvals /\ db.row[a] = "APPROVED" /\ ~Forgets(db)
        /\ n = 1 + (IF db.counter = 0 THEN 1 ELSE db.counter) /\ backup.counter < n
    BY <1>1, <1>4, <1>8 DEF Pending
  <2>3. /\ row \in [Approvals -> RowStates] /\ row[a] = "CONSUMED"
        /\ \A b \in Approvals : b # a => row[b] = db.row[b]
    BY <2>2, RowWritten DEF Inv, TypeOK, RowStates
  <2> HIDE DEF row
  <2>4. db' \in Database /\ db'.counter = n /\ db'.row = row /\ c = n
    BY <1>3, <2>1, <2>2, <2>3 DEF Database
  <2>5. uses[a] = 0 /\ uses' \in [Approvals -> Nat] /\ uses'[a] = 1
        /\ \A b \in Approvals : b # a => uses'[b] = uses[b]
    BY <1>1, <2>1, <2>2 DEF Forgets, TypeOK
  <2>6. Counted(db)'
    <3>1. a \notin Consumed(db) /\ Consumed(db') = Consumed(db) \cup {a}
      BY <2>2, <2>3, <2>4 DEF Consumed
    <3>2. IsFiniteSet(Consumed(db')) /\ Cardinality(Consumed(db')) = Cardinality(Consumed(db)) + 1
      BY <1>4, <3>1, FS_AddElement DEF Counted
    <3> QED
      BY <1>1, <1>3, <1>4, <1>5, <2>2, <2>4, <3>2 DEF Counted, Consumed
  <2>7. ~Forgets(db)'
    BY <2>2, <2>3, <2>4, <2>5 DEF Forgets
  <2>8. Noticed(db)' /\ Noticed(backup)'
    BY <1>1, <1>3, <1>5, <2>2, <2>7 DEF Noticed
  <2>9. SingleUseAcrossRestores'
    BY <2>5 DEF Inv, SingleUseAcrossRestores
  <2>10. op[s].counter # 0
    BY <1>3, <2>2
  <2> QED
    BY <2>4, <2>5, <2>6, <2>8, <2>9, <2>10
<1>9. CASE op[s].kind # "consume"
  <2>1. uses' = uses
    BY <1>1, <1>9
  <2>2. /\ db' \in Database /\ db'.counter = c
        /\ \A b \in Approvals : db'.row[b] = "CONSUMED" <=> db.row[b] = "CONSUMED"
        /\ op[s].counter = 0 => \A b \in Approvals, t \in Stores :
                                   t # s /\ writer = t => db'.row[b] = db.row[b]
    <3>1. CASE op[s].kind = "check"
      <4>1. db' = [counter |-> c, row |-> db.row]
        BY <3>1 DEF Commit
      <4> QED
        BY <1>3, <4>1 DEF Database
    <3>2. CASE op[s].kind = "save"
      <4> DEFINE row == [db.row EXCEPT ![a] = "PENDING"]
      <4>1. db' = [counter |-> c, row |-> row] /\ db.row[a] = "ABSENT" /\ a \in Approvals
            /\ writer \in {s, None}
        BY <1>1, <1>4, <3>2 DEF Commit, Pending
      <4>2. /\ row \in [Approvals -> RowStates] /\ row[a] = "PENDING"
            /\ \A b \in Approvals : b # a => row[b] = db.row[b]
        BY <4>1, RowWritten DEF Inv, TypeOK, RowStates
      <4> HIDE DEF row
      <4>3. db' \in Database /\ db'.counter = c /\ db'.row = row
        BY <1>3, <4>1, <4>2 DEF Database
      <4>4. \A t \in Stores : t # s => writer # t
        BY <4>1, NoneAssumption
      <4> QED
        BY <4>1, <4>2, <4>3, <4>4
    <3> QED
      BY <1>3, <1>9, <3>1, <3>2 DEF Kinds
  <2>3. n # 0 => n = 1 /\ db.counter <= 1
    BY <1>1, <1>4, <1>9 DEF Pending
  <2>4. Consumed(db') = Consumed(db)
    BY <2>2 DEF Consumed
  <2>5. Counted(db)'
    <3>1. IsFiniteSet(Consumed(db))
          /\ Cardinality(Consumed(db)) = IF db.counter = 0 THEN 0 ELSE db.counter - 1
      BY <1>4 DEF Counted
    <3>2. Cardinality(Consumed(db)) = IF c = 0 THEN 0 ELSE c - 1
      BY <1>3, <2>3, <3>1
    <3>3. db'.counter = c /\ c <= sidecar'
      BY <1>1, <1>5, <2>2
    <3> HIDE DEF c
    <3> QED
      BY <2>4, <3>1, <3>2, <3>3 DEF Counted, Consumed
  <2>6. Forgets(db)' => Forgets(db)
    BY <2>1, <2>2 DEF Forgets
  <2>7. Noticed(db)'
    BY <1>1, <1>3, <1>4, <2>2, <2>3, <2>6 DEF Noticed
  <2>8. Noticed(backup)' /\ SingleUseAcrossRestores' /\ uses' \in [Approvals -> Nat]
    BY <1>1, <2>1 DEF Inv, TypeOK, Noticed, Forgets, SingleUseAcrossRestores
  <2> QED
    BY <2>2, <2>5, <2>7, <2>8
<1> QED
  BY <1>8, <1>9

LEMMA BackupStep == Inv /\ Backup => Inv'
<1> SUFFICES ASSUME Inv, Backup PROVE Inv'
  OBVIOUS
<1>1. backup' = db /\ UNCHANGED <<db, sidecar, writer, lock, op, uses, alarm, restored>>
  BY DEF Backup
<1>2. TypeOK' /\ LocksHeld'
  BY <1>1 DEF Inv, TypeOK, LocksHeld
<1>3. ASSUME NEW s \in Stores PROVE Pending(s)'
  BY <1>1, OpFields, DatabaseFields DEF Inv, TypeOK, Pending, Forgets
<1>4. Counted(db)' /\ Counted(backup)' /\ Noticed(db)' /\ Noticed(backup)'
  BY <1>1 DEF Inv, Counted, Consumed, Noticed, Forgets
<1>5. SingleUseAcrossRestores'
  BY <1>1 DEF Inv, SingleUseAcrossRestores
<1> QED
  BY <1>2, <1>3, <1>4, <1>5 DEF Inv

LEMMA RestoreStep == Inv /\ Restore => Inv'
<1> SUFFICES ASSUME Inv, Restore PROVE Inv'
  OBVIOUS
<1>1. db' = backup /\ restored' = TRUE
      /\ UNCHANGED <<sidecar, writer, lock, op, uses, alarm, backup>>
      /\ \A s \in Stores : op[s].pc = "idle"
  BY DEF Restore
<1>2. TypeOK' /\ LocksHeld'
  BY <1>1 DEF Inv, TypeOK, LocksHeld
<1>3. \A s \in Stores : Pending(s)'
  BY <1>1 DEF Pending
<1>4. Counted(db)' /\ Counted(backup)' /\ Noticed(db)' /\ Noticed(backup)'
  BY <1>1 DEF Inv, Counted, Consumed, Noticed, Forgets
<1>5. SingleUseAcrossRestores'
  BY <1>1 DEF Inv, SingleUseAcrossRestores
<1> QED
  BY <1>2, <1>3, <1>4, <1>5 DEF Inv

LEMMA StutterStep == Inv /\ UNCHANGED vars => Inv'
<1> SUFFICES ASSUME Inv, UNCHANGED vars PROVE Inv'
  OBVIOUS
<1> USE DEF vars
<1>1. TypeOK' /\ LocksHeld'
  BY DEF Inv, TypeOK, LocksHeld
<1>2. \A s \in Stores : Pending(s)'
  BY DEF Inv, Pending, Forgets
<1>3. Counted(db)' /\ Counted(backup)' /\ Noticed(db)' /\ Noticed(backup)'
      /\ SingleUseAcrossRestores'
  BY FilesStay
<1> QED
  BY <1>1, <1>2, <1>3 DEF Inv

LEMMA InvStep == Inv /\ [Next]_vars => Inv'
<1>1. ASSUME Inv, NEW s \in Stores, Step(s) PROVE Inv'
  BY <1>1, CheckStep, SaveStep, ConsumeStep, DecideStep, LockStep, ReadStep, LeaveStep,
     AdvanceStep, AgreeStep, WriteMirrorStep, CommitStep DEF Step
<1> QED
  BY <1>1, BackupStep, RestoreStep, StutterStep DEF Next

-----------------------------------------------------------------------------
\* The variables keep to their types.
THEOREM SqlTypeCorrect == Spec => []TypeOK
<1>1. Inv => TypeOK
  BY DEF Inv
<1> QED
  BY InvInit, InvStep, <1>1, PTL DEF Spec

\* An executed approval is not executed again, whatever copies of the database are
\* put back and wherever processes die.
THEOREM SqlSingleUseSurvivesRestores == Spec => []SingleUseAcrossRestores
<1>1. Inv => SingleUseAcrossRestores
  BY DEF Inv
<1> QED
  BY InvInit, InvStep, <1>1, PTL DEF Spec

\* Database and counter agree, since they commit together.
THEOREM SqlCounterCounts == Spec => []CounterCountsConsumptions
<1>1. Inv => CounterCountsConsumptions
  <2> SUFFICES ASSUME Inv, NEW d \in {db, backup}, d.counter # 0
               PROVE  d.counter = 1 + Cardinality(Consumed(d))
    BY DEF CounterCountsConsumptions, Consumed
  <2>1. d.counter \in Nat
    BY DatabaseFields DEF Inv, TypeOK
  <2> QED
    BY <2>1 DEF Inv, Counted
<1> QED
  BY InvInit, InvStep, <1>1, PTL DEF Spec
=============================================================================
