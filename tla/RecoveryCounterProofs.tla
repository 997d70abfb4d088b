------------------------- MODULE RecoveryCounterProofs --------------------------
(***************************************************************************)
(* Theorems about RecoveryCounter, for any number of approvals and store   *)
(* instances, any number of crashes, backups and restores.                 *)
(***************************************************************************)
EXTENDS RecoveryCounter, TLAPS

\* The flock is held by exactly the instance between Lock and its release.
LockInv == \A s \in Stores : op[s].pc \in Locked <=> lock = s

\* What the holder of the flock read or computed is still true of the files.
SeenInv ==
    \A s \in Stores :
        /\ op[s].pc = "compare" => op[s].counter = db.counter
        /\ op[s].pc = "commit" => op[s].counter > db.counter /\ db.counter >= sidecar
        /\ op[s].pc = "mirror" => op[s].counter = db.counter /\ db.counter >= sidecar

\* Without a restore the mirror never gets ahead, so nothing is reported.
MirrorInv ==
    /\ restored \/ sidecar <= db.counter
    /\ NoFalseAlarm

\* Consumptions under way: the row is committed, no other instance is consuming
\* the same one, and it was not used before, unless this is already a forgotten
\* use that the check will refuse.
Consuming(s) == op[s].pc # "idle" /\ op[s].kind = "consume"

ConsumeInv ==
    /\ \A s \in Stores : Consuming(s) =>
           /\ op[s].id \in Approvals
           /\ db.row[op[s].id] = "CONSUMED"
           /\ uses[op[s].id] = 0 \/ db.counter < sidecar
    /\ \A s, t \in Stores :
           Consuming(s) /\ Consuming(t) /\ s # t => op[s].id # op[t].id

\* The copy lags whatever was consumed after it was taken.
BackupInv ==
    /\ backup.counter <= db.counter
    /\ \A s \in Stores : Consuming(s) /\ op[s].pc = "mirror" =>
           backup.row[op[s].id] = "CONSUMED" \/ backup.counter < db.counter
    /\ \A a \in Approvals :
           uses[a] > 0 /\ backup.row[a] # "CONSUMED" => backup.counter < sidecar

Inv ==
    /\ TypeOK /\ LockInv /\ SeenInv /\ MirrorInv
    /\ ConsumeInv /\ BackupInv
    /\ ForgottenUseIsNoticed /\ SingleUseAcrossRestores

-----------------------------------------------------------------------------
LEMMA InitInv == Init => Inv
<1> SUFFICES ASSUME Init PROVE Inv
  OBVIOUS
<1> USE NoneAssumption DEF Init
<1>1. TypeOK
  BY DEF TypeOK, Database, RowStates, Op, Idle, Phases, Kinds
<1>2. LockInv /\ SeenInv /\ MirrorInv /\ ConsumeInv /\ BackupInv
  BY DEF LockInv, SeenInv, MirrorInv, NoFalseAlarm, ConsumeInv, BackupInv,
     Consuming, Idle, Locked
<1>3. ForgottenUseIsNoticed /\ SingleUseAcrossRestores
  BY DEF ForgottenUseIsNoticed, SingleUseAcrossRestores
<1> QED
  BY <1>1, <1>2, <1>3 DEF Inv

(***************************************************************************)
(* Types.                                                                  *)
(***************************************************************************)
LEMMA TypeStep == TypeOK /\ [Next]_vars => TypeOK'
<1> SUFFICES ASSUME TypeOK, [Next]_vars PROVE TypeOK'
  OBVIOUS
<1> USE DEF TypeOK
<1>1. CASE UNCHANGED vars
  BY <1>1 DEF vars
<1>2. CASE Backup \/ Restore
  BY <1>2 DEF Backup, Restore
<1>3. ASSUME NEW s \in Stores, Call(s) PROVE TypeOK'
  <2>1. CASE Check(s) \/ Save(s)
    BY <2>1 DEF Check, Save, Begin, Op, Phases, Kinds
  <2>2. ASSUME NEW a \in Approvals, NEW v \in {"APPROVED", "REJECTED"}, Decide(s, a, v)
        PROVE  TypeOK'
    BY <2>2 DEF Decide, SetRow, Database, RowStates
  <2>3. ASSUME NEW a \in Approvals, Consume(s, a) PROVE TypeOK'
    BY <2>3 DEF Consume, Begin, SetRow, Database, RowStates, Op, Phases, Kinds
  <2> QED BY <1>3, <2>1, <2>2, <2>3 DEF Call
<1>4. ASSUME NEW s \in Stores, Step(s) PROVE TypeOK'
  <2> USE DEF Op, Phases, Kinds
  <2>1. CASE Lock(s) \/ ReadCounter(s) \/ Repair(s)
    BY <2>1 DEF Lock, ReadCounter, Repair, Goto, Database
  <2>2. CASE Advance(s)
    BY <2>2 DEF Advance, Goto, Larger
  <2>3. CASE CommitCounter(s)
    BY <2>3 DEF CommitCounter, Goto, Database
  <2> Idle \in Op
    BY DEF Idle
  <2>4. CASE Alarm(s)
    BY <2>4 DEF Alarm
  <2>5. CASE Crash(s)
    BY <2>5 DEF Crash
  <2>6. CASE Insert(s)
    BY <2>6 DEF Insert, SetRow, Database, RowStates
  <2>7. CASE Agree(s) \/ WriteMirror(s)
    <3>1. op[s].kind \in Kinds /\ sidecar' \in Nat
      BY <2>7 DEF Agree, WriteMirror
    <3>2. op' \in [Stores -> Op] /\ uses' \in [Approvals -> Nat] /\ lock' = None
      <4>1. CASE op[s].kind = "check"
        BY <2>7, <4>1 DEF Agree, WriteMirror, Passed
      <4>2. CASE op[s].kind = "save"
        BY <2>7, <4>2 DEF Agree, WriteMirror, Passed, Goto
      <4>3. CASE op[s].kind = "consume"
        BY <2>7, <4>3 DEF Agree, WriteMirror, Passed
      <4> QED BY <3>1, <4>1, <4>2, <4>3
    <3> QED BY <2>7, <3>1, <3>2 DEF Agree, WriteMirror
  <2> QED BY <1>4, <2>1, <2>2, <2>3, <2>4, <2>5, <2>6, <2>7 DEF Step
<1> QED
  BY <1>1, <1>2, <1>3, <1>4 DEF Next

(***************************************************************************)
(* The invariant.                                                          *)
(***************************************************************************)
LEMMA PassedStep ==
    ASSUME TypeOK, NEW s \in Stores, Passed(s)
    PROVE  /\ lock' = None
           /\ \A t \in Stores \ {s} : op'[t] = op[t]
           /\ op[s].kind = "check" => op'[s] = Idle /\ UNCHANGED uses
           /\ op[s].kind = "save" =>
                  op'[s].pc = "insert" /\ op'[s].kind = "save" /\ UNCHANGED uses
           /\ op[s].kind = "consume" =>
                  op'[s] = Idle /\ uses' = [uses EXCEPT ![op[s].id] = @ + 1]
           /\ op[s].kind \in Kinds
BY DEF Passed, Goto, TypeOK, Op

LEMMA InvStep == Inv /\ [Next]_vars => Inv'
<1> SUFFICES ASSUME Inv, [Next]_vars PROVE Inv'
  OBVIOUS
<1> TypeOK /\ TypeOK'
  BY TypeStep DEF Inv
<1> USE NoneAssumption DEF Inv, TypeOK, Database, Op, Idle
<1> USE DEF LockInv, SeenInv, MirrorInv, NoFalseAlarm, ConsumeInv, BackupInv, Consuming,
        ForgottenUseIsNoticed, SingleUseAcrossRestores, Locked
<1>1. CASE UNCHANGED vars
  BY <1>1 DEF vars
<1>2. CASE Backup
  BY <1>2 DEF Backup
<1>3. CASE Restore
  BY <1>3 DEF Restore
<1>4. ASSUME NEW s \in Stores, Check(s) PROVE Inv'
  BY <1>4 DEF Check, Begin
<1>5. ASSUME NEW s \in Stores, Save(s) PROVE Inv'
  BY <1>5 DEF Save, Begin
<1>6. ASSUME NEW s \in Stores, Insert(s) PROVE Inv'
  BY <1>6 DEF Insert, SetRow
<1>7. ASSUME NEW s \in Stores, Lock(s) PROVE Inv'
  BY <1>7 DEF Lock, Goto
<1>8. ASSUME NEW s \in Stores, ReadCounter(s) PROVE Inv'
  BY <1>8 DEF ReadCounter, Goto
<1>9. ASSUME NEW s \in Stores, Alarm(s) PROVE Inv'
  BY <1>9 DEF Alarm
<1>10. ASSUME NEW s \in Stores, Advance(s) PROVE Inv'
  BY <1>10 DEF Advance, Goto, Larger
<1>11. ASSUME NEW s \in Stores, CommitCounter(s) PROVE Inv'
  BY <1>11 DEF CommitCounter, Goto
<1>12. ASSUME NEW s \in Stores, Repair(s) PROVE Inv'
  BY <1>12 DEF Repair, Goto
<1>13. ASSUME NEW s \in Stores, Agree(s) PROVE Inv'
  <2>1. /\ op[s].pc = "compare" /\ op[s].kind # "consume"
        /\ UNCHANGED <<db, sidecar, alarm, backup, restored>>
    BY <1>13 DEF Agree
  <2>2. /\ lock' = None /\ UNCHANGED uses
        /\ \A t \in Stores \ {s} : op'[t] = op[t]
        /\ op'[s].pc \in {"idle", "insert"} /\ op'[s].kind # "consume"
    <3>1. Passed(s) /\ op[s].kind \in {"check", "save"}
      BY <1>13, <2>1, PassedStep DEF Agree, Kinds
    <3>2. lock' = None /\ \A t \in Stores \ {s} : op'[t] = op[t]
      BY <3>1, PassedStep
    <3>3. CASE op[s].kind = "check"
      <4>1. op'[s] = Idle /\ UNCHANGED uses
        BY <3>1, <3>3, PassedStep
      <4> QED
        BY <3>2, <4>1
    <3>4. CASE op[s].kind = "save"
      <4>1. op'[s].pc = "insert" /\ op'[s].kind = "save" /\ UNCHANGED uses
        BY <3>1, <3>4, PassedStep
      <4> QED
        BY <3>2, <4>1
    <3> QED
      BY <3>1, <3>3, <3>4
  <2>3. lock = s
    BY <2>1
  <2>4. LockInv' /\ SeenInv' /\ MirrorInv'
    BY <2>1, <2>2, <2>3
  <2>5. ConsumeInv'
    BY <2>1, <2>2
  <2>6. BackupInv' /\ ForgottenUseIsNoticed' /\ SingleUseAcrossRestores'
    BY <2>1, <2>2
  <2> QED
    BY <2>4, <2>5, <2>6
<1>14. ASSUME NEW s \in Stores, WriteMirror(s) PROVE Inv'
  <2>1. /\ op[s].pc = "mirror" /\ sidecar' = op[s].counter
        /\ UNCHANGED <<db, alarm, backup, restored>>
    BY <1>14 DEF WriteMirror
  <2>2. op[s].counter = db.counter /\ sidecar <= db.counter /\ lock = s
    BY <2>1
  <2>3. lock' = None /\ \A t \in Stores \ {s} : op'[t] = op[t]
    BY <1>14, PassedStep DEF WriteMirror
  <2>4. CASE op[s].kind # "consume"
    <3>1. op'[s].pc \in {"idle", "insert"} /\ op'[s].kind # "consume" /\ UNCHANGED uses
      BY <1>14, <2>4, PassedStep DEF WriteMirror, Kinds
    <3> QED
      BY <2>1, <2>2, <2>3, <3>1
  <2>5. CASE op[s].kind = "consume"
    <3>1. /\ op'[s].pc = "idle"
          /\ uses' = [uses EXCEPT ![op[s].id] = @ + 1]
      BY <1>14, <2>5, PassedStep DEF WriteMirror
    <3>2. PICK a \in Approvals : a = op[s].id
      BY <2>1, <2>5
    <3>3. db.row[a] = "CONSUMED" /\ uses[a] = 0
      BY <2>1, <2>2, <2>5, <3>2
    <3>4. \A b \in Approvals : uses'[b] = IF b = a THEN 1 ELSE uses[b]
      BY <3>1, <3>2, <3>3
    <3>5. LockInv' /\ SeenInv' /\ MirrorInv'
      BY <2>1, <2>2, <2>3, <3>1
    <3>6. ConsumeInv'
      BY <2>1, <2>2, <2>3, <2>5, <3>1, <3>2, <3>3, <3>4
    <3>7. BackupInv'
      BY <2>1, <2>2, <2>3, <2>5, <3>1, <3>2, <3>3, <3>4
    <3>8. ForgottenUseIsNoticed' /\ SingleUseAcrossRestores'
      BY <2>1, <2>2, <2>3, <3>2, <3>3, <3>4
    <3> QED
      BY <3>5, <3>6, <3>7, <3>8
  <2> QED
    BY <2>4, <2>5
<1>15. ASSUME NEW s \in Stores, Crash(s) PROVE Inv'
  BY <1>15 DEF Crash
<1>16. ASSUME NEW s \in Stores, NEW a \in Approvals, NEW v \in {"APPROVED", "REJECTED"},
           Decide(s, a, v)
    PROVE  Inv'
  BY <1>16 DEF Decide, SetRow
<1>17. ASSUME NEW s \in Stores, NEW a \in Approvals, Consume(s, a)
    PROVE  Inv'
  BY <1>17 DEF Consume, SetRow, Begin
<1> QED
  BY <1>1, <1>2, <1>3, <1>4, <1>5, <1>6, <1>7, <1>8, <1>9, <1>10, <1>11, <1>12, <1>13, <1>14, <1>15, <1>16, <1>17 DEF Next, Call, Step

-----------------------------------------------------------------------------
THEOREM InvHolds == Spec => []Inv
BY InitInv, InvStep, PTL DEF Spec

\* The counter of the database, the number in the .epoch file and what an operation has read
\* are numbers throughout, the lock is that of an instance, and no row leaves its states.
THEOREM CounterTypesHold == Spec => []TypeOK
<1>1. Inv => TypeOK
  BY DEF Inv
<1>. QED BY <1>1, InvHolds, PTL

\* No rollback is reported unless the database file was replaced: crashes and
\* interleavings of any number of instances never look like one.
THEOREM AlarmsAreTrue == Spec => []NoFalseAlarm
BY InvHolds, PTL DEF Inv, MirrorInv

\* A call executes at most once per approval, also across restores of the
\* database file.
THEOREM SingleUseSurvivesRestores == Spec => []SingleUseAcrossRestores
BY InvHolds, PTL DEF Inv

\* While a returned consumption is missing from the database every check fails.
THEOREM ForgottenUsesAreNoticed == Spec => []ForgottenUseIsNoticed
BY InvHolds, PTL DEF Inv

\* Operations that pass the check leave the two files in agreement.
THEOREM ChecksRepairTheMirror == Spec => PassedCheckLeavesMirrorEqual
<1>1. Inv /\ [Next]_vars =>
          [\A s \in Stores :
               op[s].pc \in {"compare", "mirror"} /\ (uses' # uses \/ op'[s].pc = "insert")
                   => sidecar' = db'.counter]_vars
  <2> SUFFICES ASSUME Inv, Next, NEW s \in Stores, op[s].pc \in {"compare", "mirror"},
                      uses' # uses \/ op'[s].pc = "insert"
               PROVE  sidecar' = db'.counter
    BY DEF vars
  <2>1. lock = s /\ \A t \in Stores \ {s} : lock # t /\ op[t].pc \notin Locked
    BY DEF Inv, LockInv, Locked
  <2>2. Agree(s) \/ WriteMirror(s)
    BY <2>1 DEF Next, Call, Step, Check, Save, Decide, Consume, Begin, Lock, ReadCounter,
       Alarm, Advance, CommitCounter, Repair, Agree, WriteMirror, Insert, Crash, Backup,
       Restore, Goto, Idle, Inv, TypeOK, Locked
  <2> QED
    BY <2>2 DEF Agree, WriteMirror, Inv, SeenInv
<1> QED
  BY <1>1, InvHolds, PTL DEF Spec, PassedCheckLeavesMirrorEqual
=============================================================================
