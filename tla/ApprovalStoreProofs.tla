------------------------- MODULE ApprovalStoreProofs --------------------------
(***************************************************************************)
(* Theorems about ApprovalStore, for every set of instances, approvals,    *)
(* requests and policies, every lifetime, quota and clock.                 *)
(***************************************************************************)
EXTENDS ApprovalStore, FiniteSetTheorems, TLAPS

SavePhases == {"cleanup", "dedup", "reuse", "count", "insert"}
RowPhases  == {"reuse", "approve", "reject", "invalidate", "consume", "bump"}

\* What a call carries from its first step to the ones that use it.
CallOK ==
    \A s \in Stores :
        /\ call[s].phase \in SavePhases =>
               call[s].fp \in Fingerprints /\ call[s].policy \in Policies
        /\ call[s].phase \in RowPhases => call[s].id \in Approvals
        /\ call[s].phase = "consume" => call[s].cred \in Assertion
        /\ call[s].phase \in {"consume", "bump"} => call[s].fp \in Fingerprints

TypeInv == TypeOK /\ CallOK

-----------------------------------------------------------------------------
\* A row in one of the lifecycle's states is a whole record.
LEMMA PresentIsRecord ==
    ASSUME NEW r \in Record \cup {Unborn, Deleted}, r.state \in States
    PROVE  r \in Record
BY DEF Unborn, Deleted, Absent, States

\* A fresh record and a record after a transition are records.
LEMMA CreatedIsRecord ==
    ASSUME NEW f \in Fingerprints, NEW p \in Policies, NEW t \in Nat
    PROVE  Created(f, p, t, TTL) \in Record
BY StoreAssumption DEF Created, Record, States, NoTime

LEMMA NextIsRecord ==
    ASSUME NEW r \in Record, NEW st \in States, NEW t \in Nat,
           NEW d \in Nat \cup {NoTime}, NEW c \in Nat \cup {NoTime}
    PROVE  NextRecord(r, st, t, d, c) \in Record
BY DEF NextRecord, Record, NoTime

LEMMA IssuedIsAssertion ==
    ASSUME NEW a \in Approvals, NEW r \in Record, NEW t \in Nat
    PROVE  Issued(a, r, t) \in Assertion
BY DEF Issued, Assertion, Record

LEMMA IdleIsCall == Idle \in Call
BY DEF Idle, Call, Phases

-----------------------------------------------------------------------------
LEMMA TypeInit == Init => TypeInv
BY IdleIsCall DEF Init, TypeInv, TypeOK, CallOK, Idle, SavePhases, RowPhases

LEMMA TypeSave ==
    ASSUME TypeInv, NEW s \in Stores,
           \/ \E f \in Fingerprints, p \in Policies : SaveBegin(s, f, p)
           \/ SaveCleanup(s) \/ SaveDedup(s) \/ SaveReuse(s) \/ SaveCount(s)
           \/ SaveInsert(s)
    PROVE  TypeInv'
<1>1. CASE \E f \in Fingerprints, p \in Policies : SaveBegin(s, f, p)
  BY <1>1 DEF SaveBegin, Start, TypeInv, TypeOK, CallOK, Call, Phases,
                 Idle, SavePhases, RowPhases
<1>2. CASE SaveCleanup(s)
  BY <1>2 DEF SaveCleanup, Goto, TypeInv, TypeOK, CallOK, Call, Phases,
              SavePhases, RowPhases
<1>3. CASE SaveDedup(s)
  <2>1. ClockOf(s) \in Nat
    BY DEF ClockOf, TypeInv, TypeOK, Call
  <2>2. SamePending(call[s].fp, ClockOf(s)) \subseteq Approvals
    BY DEF SamePending, PendingAt
  <2> DEFINE Miss    == [call[s] EXCEPT !.phase = "count", !.ts = ClockOf(s)]
             Hit(a)  == [call[s] EXCEPT !.phase = "reuse", !.ts = ClockOf(s), !.id = a]
  <2>3. call[s] \in Call /\ call[s].fp \in Fingerprints /\ call[s].policy \in Policies
    BY <1>3 DEF SaveDedup, TypeInv, TypeOK, CallOK, SavePhases
  <2>4. /\ Miss \in Call /\ Miss.phase = "count"
        /\ Miss.fp = call[s].fp /\ Miss.policy = call[s].policy
    BY <2>1, <2>3 DEF Call, Phases
  <2>5. \A a \in Approvals :
            /\ Hit(a) \in Call /\ Hit(a).phase = "reuse" /\ Hit(a).id = a
            /\ Hit(a).fp = call[s].fp /\ Hit(a).policy = call[s].policy
    BY <2>1, <2>3 DEF Call, Phases
  <2>6. \/ call' = [call EXCEPT ![s] = Miss]
        \/ \E a \in Approvals : call' = [call EXCEPT ![s] = Hit(a)]
    BY <1>3, <2>2 DEF SaveDedup
  <2> HIDE DEF Miss, Hit
  <2>7. PICK d \in Call :
            /\ call' = [call EXCEPT ![s] = d]
            /\ d.phase = "count" \/ (d.phase = "reuse" /\ d.id \in Approvals)
            /\ d.fp \in Fingerprints /\ d.policy \in Policies
    BY <2>3, <2>4, <2>5, <2>6
  <2>8. UNCHANGED <<now, rows, assertions, uses, served>>
    BY <1>3 DEF SaveDedup
  <2> QED
    BY <2>7, <2>8 DEF TypeInv, TypeOK, CallOK, SavePhases, RowPhases
<1>4. CASE SaveReuse(s)
  BY <1>4, IdleIsCall DEF SaveReuse, Goto, Return, TypeInv, TypeOK, CallOK, Call, Phases,
              Idle, SavePhases, RowPhases
<1>5. CASE SaveCount(s)
  BY <1>5 DEF SaveCount, Goto, TypeInv, TypeOK, CallOK, Call, Phases,
              SavePhases, RowPhases
<1>6. CASE SaveInsert(s)
  <2>1. Created(call[s].fp, call[s].policy, call[s].at, TTL) \in Record
    BY <1>6, CreatedIsRecord DEF SaveInsert, TypeInv, TypeOK, CallOK, Call, SavePhases
  <2> QED
    BY <1>6, <2>1, IdleIsCall DEF SaveInsert, Return, TypeInv, TypeOK, CallOK,
                 Idle, SavePhases, RowPhases
<1> QED
  BY <1>1, <1>2, <1>3, <1>4, <1>5, <1>6

LEMMA TypeDecide ==
    ASSUME TypeInv, NEW s \in Stores,
           \/ \E a \in Approvals, v \in {"approve", "reject"} : DecideBegin(s, a, v)
           \/ Approve(s) \/ Reject(s)
    PROVE  TypeInv'
<1>1. CASE \E a \in Approvals, v \in {"approve", "reject"} : DecideBegin(s, a, v)
  BY <1>1 DEF DecideBegin, Start, TypeInv, TypeOK, CallOK, Call, Phases,
                 Idle, SavePhases, RowPhases
<1>2. CASE Approve(s) \/ Reject(s)
  <2> DEFINE a == call[s].id
             t == call[s].at
  <2>1. a \in Approvals /\ t \in Nat
    BY <1>2 DEF Approve, Reject, TypeInv, TypeOK, CallOK, Call, RowPhases
  <2>2. rows[a] \in Record
    BY <1>2, <2>1, PresentIsRecord DEF Approve, Reject, CanDecide, TypeInv, TypeOK, States
  <2>3. Approved(rows[a], t) \in Record /\ Rejected(rows[a], t) \in Record
    BY <2>1, <2>2, NextIsRecord DEF Approved, Rejected, States, NoTime
  <2>4. Issued(a, rows[a], t) \in Assertion
    BY <2>1, <2>2, IssuedIsAssertion
  <2>5. CASE Approve(s)
    BY <2>1, <2>3, <2>4, <2>5, IdleIsCall DEF Approve, Return, TypeInv, TypeOK,
          CallOK, Idle, SavePhases, RowPhases
  <2>6. CASE Reject(s)
    BY <2>1, <2>3, <2>6, IdleIsCall DEF Reject, Return, TypeInv, TypeOK,
          CallOK, Idle, SavePhases, RowPhases
  <2> QED BY <1>2, <2>5, <2>6
<1> QED
  BY <1>1, <1>2

LEMMA TypeInvalidate ==
    ASSUME TypeInv, NEW s \in Stores,
           \/ \E a \in Approvals : InvalidateBegin(s, a)
           \/ Invalidate(s)
    PROVE  TypeInv'
<1>1. CASE \E a \in Approvals : InvalidateBegin(s, a)
  BY <1>1 DEF InvalidateBegin, Start, TypeInv, TypeOK, CallOK, Call, Phases,
                 Idle, SavePhases, RowPhases
<1>2. CASE Invalidate(s)
  <2> DEFINE a == call[s].id
             t == call[s].at
  <2>1. a \in Approvals /\ t \in Nat
    BY <1>2 DEF Invalidate, TypeInv, TypeOK, CallOK, Call, RowPhases
  <2>2. rows[a] \in Record
    BY <1>2, <2>1, PresentIsRecord DEF Invalidate, TypeInv, TypeOK, States
  <2>3. Invalidated(rows[a], t) \in Record
    BY <2>1, <2>2, NextIsRecord DEF Invalidated, States, NoTime, Record
  <2> QED
    BY <1>2, <2>1, <2>3, IdleIsCall DEF Invalidate, Return, TypeInv, TypeOK,
          CallOK, Idle, SavePhases, RowPhases
<1> QED
  BY <1>1, <1>2

LEMMA CredentialsAreAssertions == TypeInv => Credentials \subseteq Assertion
<1> SUFFICES ASSUME TypeInv, NEW a \in Approvals, rows[a].state \in Granted,
                    NEW t \in 0..now
             PROVE  Issued(a, rows[a], t) \in Assertion
  BY DEF Credentials, TypeInv, TypeOK
<1>1. rows[a] \in Record
  BY PresentIsRecord DEF Granted, States, TypeInv, TypeOK
<1> QED
  BY <1>1, IssuedIsAssertion DEF TypeInv, TypeOK

LEMMA TypeConsume ==
    ASSUME TypeInv, NEW s \in Stores,
           \/ \E a \in Approvals, c \in Credentials, f \in Fingerprints :
                  ConsumeBegin(s, a, c, f)
           \/ Consume(s) \/ ConsumeReturn(s) \/ Abort(s)
    PROVE  TypeInv'
<1>1. CASE \E a \in Approvals, c \in Credentials, f \in Fingerprints :
               ConsumeBegin(s, a, c, f)
  BY <1>1, CredentialsAreAssertions DEF ConsumeBegin, Start, TypeInv, TypeOK,
                 CallOK, Call, Phases, Idle, SavePhases, RowPhases
<1>2. CASE Consume(s)
  <2> DEFINE a == call[s].id
             t == call[s].at
  <2>1. a \in Approvals /\ t \in Nat
    BY <1>2 DEF Consume, TypeInv, TypeOK, CallOK, Call, RowPhases
  <2>2. rows[a] \in Record
    BY <1>2, <2>1, PresentIsRecord DEF Consume, CanConsume, TypeInv, TypeOK, States
  <2>3. Consumed(rows[a], t) \in Record
    BY <2>1, <2>2, NextIsRecord DEF Consumed, States, NoTime, Record
  <2> QED
    BY <1>2, <2>1, <2>3 DEF Consume, Goto, TypeInv, TypeOK, CallOK, Call, Phases,
          SavePhases, RowPhases
<1>3. CASE ConsumeReturn(s)
  BY <1>3, IdleIsCall DEF ConsumeReturn, Return, TypeInv, TypeOK, CallOK,
        Idle, SavePhases, RowPhases
<1>4. CASE Abort(s)
  BY <1>4, IdleIsCall DEF Abort, Return, TypeInv, TypeOK, CallOK,
        Idle, SavePhases, RowPhases
<1> QED
  BY <1>1, <1>2, <1>3, <1>4

LEMMA TypeStep == TypeInv /\ [Next]_vars => TypeInv'
<1> SUFFICES ASSUME TypeInv, [Next]_vars PROVE TypeInv'
  OBVIOUS
<1>1. CASE UNCHANGED vars
  BY <1>1 DEF vars, TypeInv, TypeOK, CallOK
<1>2. CASE Tick
  BY <1>2 DEF Tick, TypeInv, TypeOK, CallOK
<1>3. CASE \E s \in Stores : Begin(s) \/ Continue(s)
  BY <1>3, TypeSave, TypeDecide, TypeInvalidate, TypeConsume DEF Begin, Continue
<1> QED
  BY <1>1, <1>2, <1>3 DEF Next

\* Type correctness: whatever the instances do, the tables hold whole records
\* and assertions.
THEOREM TypeCorrect == Spec => []TypeOK
<1>1. TypeInv => TypeOK
  BY DEF TypeInv
<1> QED
  BY <1>1, TypeInit, TypeStep, PTL DEF Spec

-----------------------------------------------------------------------------
(***************************************************************************)
(* Single use.  The argument: consuming moves the row out of APPROVED for  *)
(* good, and only the instance that moved it is at "bump"; so at any time  *)
(* an approval has been returned once, or one instance is about to return  *)
(* it, or neither, and in the first two cases its row is CONSUMED.         *)
(***************************************************************************)
Claims(s, a) == call[s].phase = "bump" /\ call[s].id = a

UseInv ==
    /\ \A a \in Approvals : uses[a] \in {0, 1}
    /\ \A a \in Approvals : uses[a] = 1 =>
           rows[a].state = "CONSUMED" /\ \A s \in Stores : ~Claims(s, a)
    /\ \A a \in Approvals, s \in Stores : Claims(s, a) =>
           rows[a].state = "CONSUMED" /\ \A s2 \in Stores : Claims(s2, a) => s2 = s

Inv == TypeInv /\ UseInv

LEMMA UseInit == Init => UseInv
BY DEF Init, UseInv, Claims, Idle

\* A step that adds no claim, no use, and leaves consumed rows alone keeps UseInv.
LEMMA UseFrame ==
    ASSUME UseInv,
           UNCHANGED uses,
           \A a \in Approvals : rows[a].state = "CONSUMED" => rows'[a].state = "CONSUMED",
           \A s \in Stores, a \in Approvals : Claims(s, a)' => Claims(s, a)
    PROVE  UseInv'
BY DEF UseInv, Claims

LEMMA UseStep == Inv /\ [Next]_vars => UseInv'
<1> SUFFICES ASSUME Inv, [Next]_vars PROVE UseInv'
  OBVIOUS
<1> USE DEF Inv
<1>1. CASE UNCHANGED vars \/ Tick
  BY <1>1, UseFrame DEF vars, Tick, Claims
<1>2. ASSUME NEW s \in Stores, Begin(s) PROVE UseInv'
  <2>1. UNCHANGED <<rows, uses>>
    BY <1>2 DEF Begin, SaveBegin, DecideBegin, InvalidateBegin, ConsumeBegin
  <2>2. \A s2 \in Stores, a \in Approvals : Claims(s2, a)' => Claims(s2, a)
    BY <1>2 DEF Begin, SaveBegin, DecideBegin, InvalidateBegin, ConsumeBegin,
          Start, Claims, TypeInv, TypeOK
  <2> QED
    BY <2>1, <2>2, UseFrame
<1>3. ASSUME NEW s \in Stores,
             \/ SaveCleanup(s) \/ SaveDedup(s) \/ SaveReuse(s) \/ SaveCount(s)
             \/ SaveInsert(s)
      PROVE  UseInv'
  <2>1. \A a \in Approvals : rows[a].state = "CONSUMED" => rows'[a].state = "CONSUMED"
    <3>1. CASE SaveCleanup(s)
      BY <3>1 DEF SaveCleanup, TypeInv, TypeOK
    <3>2. CASE SaveInsert(s)
      BY <3>2 DEF SaveInsert, TypeInv, TypeOK, Unborn, Absent
    <3>3. CASE SaveDedup(s) \/ SaveReuse(s) \/ SaveCount(s)
      BY <3>3 DEF SaveDedup, SaveReuse, SaveCount
    <3> QED BY <1>3, <3>1, <3>2, <3>3
  <2>2. \A s2 \in Stores, a \in Approvals : Claims(s2, a)' => Claims(s2, a)
    <3>1. CASE SaveDedup(s)
      BY <3>1 DEF SaveDedup, Claims, TypeInv, TypeOK, Call
    <3>2. CASE SaveCleanup(s) \/ SaveCount(s)
      BY <3>2 DEF SaveCleanup, SaveCount, Goto, Claims, TypeInv, TypeOK, Call
    <3>3. CASE SaveReuse(s) \/ SaveInsert(s)
      BY <3>3 DEF SaveReuse, SaveInsert, Goto, Return, Idle, Claims, TypeInv, TypeOK, Call
    <3> QED BY <1>3, <3>1, <3>2, <3>3
  <2>3. UNCHANGED uses
    BY <1>3 DEF SaveCleanup, SaveDedup, SaveReuse, SaveCount, SaveInsert
  <2> QED
    BY <2>1, <2>2, <2>3, UseFrame
<1>4. ASSUME NEW s \in Stores, Approve(s) \/ Reject(s) \/ Invalidate(s) \/ Abort(s)
      PROVE  UseInv'
  <2>1. \A a \in Approvals : rows[a].state = "CONSUMED" => rows'[a].state = "CONSUMED"
    BY <1>4 DEF Approve, Reject, Invalidate, Abort, CanDecide, TypeInv, TypeOK
  <2>2. \A s2 \in Stores, a \in Approvals : Claims(s2, a)' => Claims(s2, a)
    BY <1>4 DEF Approve, Reject, Invalidate, Abort, Return, Idle, Claims, TypeInv, TypeOK
  <2>3. UNCHANGED uses
    BY <1>4 DEF Approve, Reject, Invalidate, Abort
  <2> QED
    BY <2>1, <2>2, <2>3, UseFrame
<1>5. ASSUME NEW s \in Stores, Consume(s) PROVE UseInv'
  <2> DEFINE b == call[s].id
  <2>1. b \in Approvals
    BY <1>5 DEF Consume, TypeInv, CallOK, RowPhases
  <2>2. rows[b].state = "APPROVED"
    BY <1>5 DEF Consume, CanConsume
  <2>3. uses[b] = 0 /\ \A s2 \in Stores : ~Claims(s2, b)
    BY <2>1, <2>2 DEF UseInv
  <2>4. rows'[b].state = "CONSUMED"
    BY <1>5, <2>1 DEF Consume, Consumed, NextRecord, TypeInv, TypeOK
  <2>5. \A a \in Approvals : a # b => rows'[a] = rows[a]
    BY <1>5 DEF Consume, TypeInv, TypeOK
  <2>6. \A s2 \in Stores, a \in Approvals :
            Claims(s2, a)' <=> (Claims(s2, a) \/ (s2 = s /\ a = b))
    BY <1>5 DEF Consume, Goto, Claims, TypeInv, TypeOK, Call
  <2>7. UNCHANGED uses
    BY <1>5 DEF Consume
  <2> HIDE DEF b
  <2> QED
    BY <2>1, <2>3, <2>4, <2>5, <2>6, <2>7 DEF UseInv
<1>6. ASSUME NEW s \in Stores, ConsumeReturn(s) PROVE UseInv'
  <2> DEFINE b == call[s].id
  <2>1. b \in Approvals /\ Claims(s, b)
    BY <1>6 DEF ConsumeReturn, Claims, TypeInv, CallOK, RowPhases
  <2>2. /\ rows[b].state = "CONSUMED" /\ uses[b] = 0
        /\ \A s2 \in Stores : Claims(s2, b) => s2 = s
    BY <2>1 DEF UseInv
  <2>3. uses' = [uses EXCEPT ![b] = 1] /\ UNCHANGED rows
    BY <1>6, <2>2 DEF ConsumeReturn
  <2>4. \A s2 \in Stores, a \in Approvals : Claims(s2, a)' => Claims(s2, a) /\ s2 # s
    BY <1>6 DEF ConsumeReturn, Return, Idle, Claims, TypeInv, TypeOK
  <2>5. uses \in [Approvals -> Nat]
    BY DEF TypeInv, TypeOK
  <2> HIDE DEF b
  <2> QED
    BY <2>1, <2>2, <2>3, <2>4, <2>5 DEF UseInv
<1>7. ASSUME NEW s \in Stores, Continue(s) PROVE UseInv'
  BY <1>3, <1>4, <1>5, <1>6, <1>7 DEF Continue
<1> QED
  BY <1>1, <1>2, <1>7 DEF Next

LEMMA InvHolds == Spec => []Inv
<1>1. Init => Inv
  BY TypeInit, UseInit DEF Inv
<1>2. Inv /\ [Next]_vars => Inv'
  BY TypeStep, UseStep DEF Inv
<1> QED
  BY <1>1, <1>2, PTL DEF Spec

\* However many instances try to consume an approval at once, and wherever
\* they fail, it is returned for execution at most once.
THEOREM SingleUseHolds == Spec => []SingleUse
<1>1. ASSUME Inv, NEW a \in Approvals PROVE uses[a] <= 1
  <2>1. uses[a] = 0 \/ uses[a] = 1
    BY <1>1 DEF Inv, UseInv
  <2> QED BY <2>1
<1>2. Inv => SingleUse
  BY <1>1 DEF SingleUse
<1> QED
  BY <1>2, InvHolds, PTL

-----------------------------------------------------------------------------
(***************************************************************************)
(* Refinement: every step of the store is a step of ApprovalLifecycle or   *)
(* leaves the lifecycle of every approval and its uses as they are.        *)
(***************************************************************************)
life == [a \in Approvals |-> rows[a].state]

\* Rewriting one row moves one approval.
LEMMA MoveOne ==
    ASSUME TypeOK, NEW a \in Approvals, NEW r,
           rows' = [rows EXCEPT ![a] = r]
    PROVE  life' = [life EXCEPT ![a] = r.state]
BY DEF life, TypeOK

LEMMA LifecycleInit == Init => Lifecycle!Init
BY DEF Init, Lifecycle!Init, Unborn, Absent

LEMMA LifecycleStep == Inv /\ [Next]_vars => [Lifecycle!Next]_(Lifecycle!vars)
<1> SUFFICES ASSUME Inv, [Next]_vars
             PROVE  Lifecycle!Next \/ UNCHANGED <<life, uses>>
  BY DEF Lifecycle!vars, life
<1> USE DEF Inv
<1>1. CASE UNCHANGED vars \/ Tick
  BY <1>1 DEF vars, Tick, life
<1>2. ASSUME NEW s \in Stores, Begin(s) PROVE UNCHANGED <<life, uses>>
  BY <1>2 DEF Begin, SaveBegin, DecideBegin, InvalidateBegin, ConsumeBegin, life
<1>3. ASSUME NEW s \in Stores, SaveDedup(s) \/ SaveReuse(s) \/ SaveCount(s) \/ Abort(s)
      PROVE  UNCHANGED <<life, uses>>
  BY <1>3 DEF SaveDedup, SaveReuse, SaveCount, Abort, life
<1>4. ASSUME NEW s \in Stores, SaveCleanup(s) PROVE Lifecycle!Next
  <2> DEFINE S == {a \in Approvals : rows[a].state = "PENDING"
                                      /\ rows[a].expiresAt <= ClockOf(s)}
  <2>1. life' = [a \in Approvals |-> IF a \in S THEN "DELETED" ELSE life[a]]
    BY <1>4 DEF SaveCleanup, life, Deleted, Absent
  <2>2. PICK T \in SUBSET Approvals : T = S
    OBVIOUS
  <2>3. Lifecycle!Forget(T)
    BY <1>4, <2>1, <2>2 DEF Lifecycle!Forget, SaveCleanup, life
  <2> QED
    BY <2>3 DEF Lifecycle!Next
<1>5. ASSUME NEW s \in Stores, SaveInsert(s) PROVE Lifecycle!Next
  <2>1. PICK a \in Approvals :
            /\ rows[a] = Unborn
            /\ rows' = [rows EXCEPT ![a] =
                           Created(call[s].fp, call[s].policy, call[s].at, TTL)]
    BY <1>5 DEF SaveInsert
  <2>2. life[a] = "UNBORN"
    BY <2>1 DEF life, Unborn, Absent
  <2> DEFINE r == Created(call[s].fp, call[s].policy, call[s].at, TTL)
  <2>3. life' = [life EXCEPT ![a] = "PENDING"]
    <3>1. life' = [life EXCEPT ![a] = r.state]
      BY <2>1, MoveOne DEF TypeInv
    <3> QED BY <3>1 DEF Created
  <2>4. Lifecycle!Submit(a)
    BY <1>5, <2>2, <2>3 DEF SaveInsert, Lifecycle!Submit, Lifecycle!Move, life
  <2> QED
    BY <2>4 DEF Lifecycle!Next
<1>6. ASSUME NEW s \in Stores, Approve(s) \/ Reject(s) PROVE Lifecycle!Next
  <2>0. PICK a \in Approvals : a = call[s].id
    BY <1>6 DEF Approve, Reject, CanDecide, TypeInv, CallOK, RowPhases
  <2>1. life[a] = "PENDING" /\ UNCHANGED uses
    BY <1>6, <2>0 DEF Approve, Reject, CanDecide, life
  <2>2. \/ life' = [life EXCEPT ![a] = "APPROVED"]
        \/ life' = [life EXCEPT ![a] = "REJECTED"]
    BY <1>6, <2>0, MoveOne DEF Approve, Reject, Approved, Rejected, NextRecord, TypeInv
  <2>3. Lifecycle!Approve(a) \/ Lifecycle!Reject(a)
    BY <2>1, <2>2 DEF Lifecycle!Approve, Lifecycle!Reject, Lifecycle!Move, life
  <2>4. CASE Lifecycle!Approve(a)
    BY <2>4 DEF Lifecycle!Next
  <2>5. CASE Lifecycle!Reject(a)
    BY <2>5 DEF Lifecycle!Next
  <2> QED
    BY <2>3, <2>4, <2>5
<1>7. ASSUME NEW s \in Stores, Invalidate(s) \/ Consume(s) PROVE Lifecycle!Next
  <2>0. PICK a \in Approvals : a = call[s].id
    BY <1>7 DEF Invalidate, Consume, CanConsume, TypeInv, CallOK, RowPhases
  <2>1. life[a] = "APPROVED" /\ UNCHANGED uses
    BY <1>7, <2>0 DEF Invalidate, Consume, CanConsume, life
  <2>2. \/ life' = [life EXCEPT ![a] = "POLICY_INVALIDATED"]
        \/ life' = [life EXCEPT ![a] = "CONSUMED"]
    BY <1>7, <2>0, MoveOne DEF Invalidate, Consume, Invalidated, Consumed, NextRecord, TypeInv
  <2>3. Lifecycle!Invalidate(a) \/ Lifecycle!Consume(a)
    BY <2>1, <2>2 DEF Lifecycle!Invalidate, Lifecycle!Consume, Lifecycle!Move, life
  <2>4. CASE Lifecycle!Invalidate(a)
    BY <2>4 DEF Lifecycle!Next
  <2>5. CASE Lifecycle!Consume(a)
    BY <2>5 DEF Lifecycle!Next
  <2> QED
    BY <2>3, <2>4, <2>5
<1>8. ASSUME NEW s \in Stores, ConsumeReturn(s) PROVE Lifecycle!Next
  <2> DEFINE a == call[s].id
  <2>1. a \in Approvals /\ Claims(s, a)
    BY <1>8 DEF ConsumeReturn, Claims, TypeInv, CallOK, RowPhases
  <2>2. rows[a].state = "CONSUMED" /\ uses[a] = 0
    BY <2>1 DEF UseInv
  <2>3. Lifecycle!Use(a)
    BY <1>8, <2>1, <2>2 DEF ConsumeReturn, Lifecycle!Use
  <2> QED
    BY <2>1, <2>3 DEF Lifecycle!Next
<1>9. ASSUME NEW s \in Stores, Continue(s) PROVE Lifecycle!Next \/ UNCHANGED <<life, uses>>
  BY <1>3, <1>4, <1>5, <1>6, <1>7, <1>8, <1>9 DEF Continue
<1> QED
  BY <1>1, <1>2, <1>9 DEF Next

\* The store, with all its instances and failures, implements the lifecycle
\* that ApprovalLifecycle promises for every approval.
THEOREM StoreImplementsLifecycle == Spec => ImplementsLifecycle
  BY InvHolds, LifecycleInit, LifecycleStep, PTL DEF Spec, ImplementsLifecycle, Lifecycle!Spec

-----------------------------------------------------------------------------
(***************************************************************************)
(* What an approval was used for: the binding of rows and assertions, on   *)
(* top of the invariant Inv.                                               *)
(***************************************************************************)

(***************************************************************************)
(* Rows.  Every step either leaves a row alone or moves it one transition. *)
(***************************************************************************)
\* No call was begun in the future.
ClockInv == \A s \in Stores : call[s].at <= now

LEMMA ClockInit == Init => ClockInv
BY DEF Init, ClockInv, Idle

LEMMA ClockStep == Inv /\ ClockInv /\ [Next]_vars => ClockInv'
<1> SUFFICES ASSUME Inv, ClockInv, [Next]_vars PROVE ClockInv'
  OBVIOUS
<1> USE DEF Inv, TypeInv, TypeOK
<1>1. CASE UNCHANGED vars
  BY <1>1 DEF vars, ClockInv
<1>2. CASE Tick
  BY <1>2 DEF Tick, ClockInv, Call
<1>3. ASSUME NEW s \in Stores, Begin(s) PROVE ClockInv'
  BY <1>3 DEF Begin, SaveBegin, DecideBegin, InvalidateBegin, ConsumeBegin, Start, ClockInv
<1>4. ASSUME NEW s \in Stores, SaveCleanup(s) \/ SaveReuse(s) \/ SaveCount(s) \/ Consume(s)
      PROVE  ClockInv'
  BY <1>4 DEF SaveCleanup, SaveReuse, SaveCount, Consume, Goto, Return, Idle, ClockInv, Call
<1>5. ASSUME NEW s \in Stores, SaveDedup(s) PROVE ClockInv'
  BY <1>5 DEF SaveDedup, ClockInv, Call
<1>6. ASSUME NEW s \in Stores, \/ SaveInsert(s) \/ Approve(s) \/ Reject(s)
                               \/ Invalidate(s) \/ ConsumeReturn(s) \/ Abort(s)
      PROVE  ClockInv'
  BY <1>6 DEF SaveInsert, Approve, Reject, Invalidate, ConsumeReturn, Abort,
        Return, Idle, ClockInv
<1>7. ASSUME NEW s \in Stores, Continue(s) PROVE ClockInv'
  BY <1>4, <1>5, <1>6, <1>7 DEF Continue
<1> QED
  BY <1>1, <1>2, <1>3, <1>7 DEF Next

LEMMA RowStep ==
    ASSUME Inv, ClockInv, [Next]_vars, NEW a \in Approvals, rows'[a] # rows[a]
    PROVE  Moves(rows[a], rows'[a])
<1> USE DEF Inv, TypeInv
<1>1. PICK s \in Stores : \/ SaveCleanup(s) \/ SaveInsert(s) \/ Approve(s)
                          \/ Reject(s) \/ Invalidate(s) \/ Consume(s)
  BY DEF Next, vars, Tick, Begin, Continue, SaveBegin, DecideBegin, InvalidateBegin,
     ConsumeBegin, SaveDedup, SaveReuse, SaveCount, ConsumeReturn, Abort
<1>2. call[s].at <= now /\ call[s].at \in Nat /\ now \in Nat
  BY DEF ClockInv, TypeOK, Call
<1>3. CASE SaveCleanup(s)
  <2>1. rows[a].state = "PENDING" /\ rows[a].expiresAt <= ClockOf(s) /\ rows'[a] = Deleted
    BY <1>3 DEF SaveCleanup
  <2>2. rows[a].expiresAt \in Nat
    BY <2>1, PresentIsRecord DEF TypeOK, States, Record
  <2>3. rows[a].expiresAt <= now
    BY <1>2, <2>1, <2>2 DEF ClockOf
  <2> QED BY <2>1, <2>3 DEF Moves
<1>4. CASE SaveInsert(s)
  BY <1>4 DEF SaveInsert, TypeOK, Created, Moves
<1>5. CASE Approve(s) \/ Reject(s)
  <2>1. /\ a = call[s].id /\ rows[a].state = "PENDING"
        /\ \/ rows'[a] = Approved(rows[a], call[s].at)
           \/ rows'[a] = Rejected(rows[a], call[s].at)
    BY <1>5 DEF Approve, Reject, CanDecide, TypeOK
  <2> QED BY <2>1 DEF Moves, Approved, Rejected, NextRecord, Binding
<1>6. CASE Invalidate(s) \/ Consume(s)
  <2>1. /\ a = call[s].id /\ rows[a].state = "APPROVED"
        /\ \/ rows'[a] = Invalidated(rows[a], call[s].at)
           \/ rows'[a] = Consumed(rows[a], call[s].at)
    BY <1>6 DEF Invalidate, Consume, CanConsume, TypeOK
  <2> QED BY <2>1 DEF Moves, Invalidated, Consumed, NextRecord, Binding
<1> QED
  BY <1>1, <1>3, <1>4, <1>5, <1>6

\* No statement of any instance rewrites a decision or what it binds: rows only
\* take the transitions of the record class.
THEOREM RowsOnlyMoveForward == Spec => RowsMoveForward
<1>1. Inv /\ ClockInv /\ [Next]_vars =>
          [\A a \in Approvals : rows'[a] # rows[a] => Moves(rows[a], rows'[a])]_vars
  BY RowStep
<1>2. Spec => []ClockInv
  BY InvHolds, ClockInit, ClockStep, PTL DEF Spec
<1> QED
  BY <1>1, <1>2, InvHolds, PTL DEF Spec, RowsMoveForward

-----------------------------------------------------------------------------
(***************************************************************************)
(* Grants.  What a granted row says of its decision never changes, so the  *)
(* assertions keep matching the rows and a consumption keeps its window.   *)
(***************************************************************************)
RowInv(a) ==
    /\ rows[a].state \in States => rows[a].createdAt <= now
    /\ rows[a].state \in Granted => rows[a].createdAt <= rows[a].decisionAt
    /\ rows[a].state = "CONSUMED" =>
           rows[a].decisionAt <= rows[a].consumedAt /\ rows[a].consumedAt < rows[a].expiresAt

\* A decision was begun on a row that was there, a consumption with a credential
\* issued from a granted one.
CallInv(s) ==
    /\ call[s].phase = "approve" =>
           /\ rows[call[s].id] # Unborn
           /\ rows[call[s].id].state \in States => rows[call[s].id].createdAt <= call[s].at
    /\ call[s].phase = "consume" =>
           /\ rows[call[s].cred.id].state \in Granted
           /\ rows[call[s].cred.id].decisionAt <= call[s].cred.issuedAt

GrantInv ==
    /\ Inv /\ ClockInv
    /\ \A a \in Approvals : RowInv(a)
    /\ \A s \in Stores : CallInv(s)
    /\ AssertionsMatchRows

\* The statements that change a row, and how.
Deletes(a)       == rows[a].state = "PENDING" /\ rows'[a] = Deleted
Inserts(s, a)    == /\ rows[a] = Unborn /\ SaveInsert(s)
                    /\ rows'[a] = Created(call[s].fp, call[s].policy, call[s].at, TTL)
Approves(s, a)   == /\ Approve(s) /\ a = call[s].id /\ rows[a].state = "PENDING"
                    /\ rows'[a] = Approved(rows[a], call[s].at)
Rejects(s, a)    == rows[a].state = "PENDING" /\ rows'[a] = Rejected(rows[a], call[s].at)
Invalidates(s, a) == rows[a].state = "APPROVED" /\ rows'[a] = Invalidated(rows[a], call[s].at)
Consumes(s, a)   == /\ Consume(s) /\ a = call[s].id /\ rows[a].state = "APPROVED"
                    /\ rows'[a] = Consumed(rows[a], call[s].at)

LEMMA RowForms ==
    ASSUME Inv, [Next]_vars, NEW a \in Approvals, rows'[a] # rows[a]
    PROVE  \/ Deletes(a)
           \/ \E s \in Stores : \/ Inserts(s, a) \/ Approves(s, a) \/ Rejects(s, a)
                                \/ Invalidates(s, a) \/ Consumes(s, a)
<1> USE DEF Inv, TypeInv
<1>1. PICK s \in Stores : \/ SaveCleanup(s) \/ SaveInsert(s) \/ Approve(s)
                          \/ Reject(s) \/ Invalidate(s) \/ Consume(s)
  BY DEF Next, vars, Tick, Begin, Continue, SaveBegin, DecideBegin, InvalidateBegin,
     ConsumeBegin, SaveDedup, SaveReuse, SaveCount, ConsumeReturn, Abort
<1>2. CASE SaveCleanup(s)
  BY <1>2 DEF SaveCleanup, Deletes
<1>3. CASE SaveInsert(s)
  <2>1. rows[a] = Unborn /\ rows'[a] = Created(call[s].fp, call[s].policy, call[s].at, TTL)
    BY <1>3 DEF SaveInsert, TypeOK
  <2> QED
    BY <1>3, <2>1 DEF Inserts
<1>4. CASE Approve(s)
  <2>1. a = call[s].id /\ rows[a].state = "PENDING" /\ rows'[a] = Approved(rows[a], call[s].at)
    BY <1>4 DEF Approve, CanDecide, TypeOK
  <2> QED
    BY <1>4, <2>1 DEF Approves
<1>5. CASE Reject(s)
  <2>1. rows[a].state = "PENDING" /\ rows'[a] = Rejected(rows[a], call[s].at)
    BY <1>5 DEF Reject, CanDecide, TypeOK
  <2> QED
    BY <2>1 DEF Rejects
<1>6. CASE Invalidate(s)
  <2>1. rows[a].state = "APPROVED" /\ rows'[a] = Invalidated(rows[a], call[s].at)
    BY <1>6 DEF Invalidate, TypeOK
  <2> QED
    BY <2>1 DEF Invalidates
<1>7. CASE Consume(s)
  <2>1. a = call[s].id /\ rows[a].state = "APPROVED" /\ rows'[a] = Consumed(rows[a], call[s].at)
    BY <1>7 DEF Consume, CanConsume, TypeOK
  <2> QED
    BY <1>7, <2>1 DEF Consumes
<1> QED
  BY <1>1, <1>2, <1>3, <1>4, <1>5, <1>6, <1>7

\* What the state of a row tells of the others it has.
LEMMA StateOfAbsent ==
    /\ Unborn.state = "UNBORN" /\ Deleted.state = "DELETED"
    /\ Granted \subseteq States
    /\ "UNBORN" \notin States /\ "DELETED" \notin States /\ "PENDING" \notin Granted
    /\ "REJECTED" \notin Granted /\ "CONSUMED" \in Granted /\ "APPROVED" \in Granted
    /\ "POLICY_INVALIDATED" \in Granted
BY DEF Unborn, Deleted, Absent, Granted, States

\* A granted row stays granted, with its decision and what it binds.
LEMMA GrantedStays ==
    ASSUME Inv, [Next]_vars, NEW a \in Approvals, rows[a].state \in Granted
    PROVE  /\ rows'[a].state \in Granted
           /\ rows'[a].decisionAt = rows[a].decisionAt
           /\ Binding(rows'[a]) = Binding(rows[a])
<1>1. CASE rows'[a] = rows[a]
  BY <1>1
<1>2. CASE rows'[a] # rows[a]
  <2>1. rows[a].state # "PENDING" /\ rows[a] # Unborn
    BY StateOfAbsent
  <2>2. PICK s \in Stores : Invalidates(s, a) \/ Consumes(s, a)
    BY <1>2, <2>1, RowForms DEF Deletes, Inserts, Approves, Rejects
  <2> QED
    BY <2>2 DEF Invalidates, Consumes, Invalidated, Consumed, NextRecord, Binding, Granted
<1> QED
  BY <1>1, <1>2

\* A row that was once inserted is not inserted again.
LEMMA BornStays ==
    ASSUME Inv, [Next]_vars, NEW a \in Approvals, rows[a] # Unborn
    PROVE  /\ rows'[a] # Unborn
           /\ rows'[a].state \in States =>
                  rows[a].state \in States /\ rows'[a].createdAt = rows[a].createdAt
<1>1. CASE rows'[a] = rows[a]
  BY <1>1
<1>2. CASE Deletes(a)
  BY <1>2, StateOfAbsent DEF Deletes
<1>3. CASE \E s \in Stores : \/ Approves(s, a) \/ Rejects(s, a) \/ Invalidates(s, a) \/ Consumes(s, a)
  <2>1. rows'[a].createdAt = rows[a].createdAt
    BY <1>3 DEF Approves, Rejects, Invalidates, Consumes, Approved, Rejected, Invalidated,
                Consumed, NextRecord
  <2>2. rows'[a].state \in States /\ rows[a].state \in States
    BY <1>3 DEF Approves, Rejects, Invalidates, Consumes, Approved, Rejected, Invalidated,
                Consumed, NextRecord, States
  <2> QED
    BY <2>1, <2>2, StateOfAbsent
<1> QED
  BY <1>1, <1>2, <1>3, RowForms DEF Inserts

\* A granted row without the fields of the others.
LEMMA RecordTimes ==
    ASSUME TypeOK, NEW a \in Approvals, rows[a].state \in States
    PROVE  /\ rows[a].createdAt \in Nat /\ rows[a].expiresAt \in Nat
           /\ rows[a].decisionAt \in Nat \cup {NoTime}
BY PresentIsRecord DEF TypeOK, Record

LEMMA RowInvStep ==
    ASSUME GrantInv, [Next]_vars, NEW a \in Approvals
    PROVE  RowInv(a)'
<1>1. TypeOK /\ TypeOK' /\ Inv /\ RowInv(a)
  BY TypeStep DEF GrantInv, Inv, TypeInv
<1>2. now \in Nat /\ now' \in Nat /\ now' >= now
  <2>1. now' = now \/ now' = now + 1
    BY DEF Next, vars, Tick, Begin, Continue, SaveBegin, DecideBegin, InvalidateBegin,
       ConsumeBegin, SaveCleanup, SaveDedup, SaveReuse, SaveCount, SaveInsert, Approve, Reject,
       Invalidate, Consume, ConsumeReturn, Abort
  <2> QED
    BY <1>1, <2>1 DEF TypeOK
<1>3. CASE rows'[a] = rows[a]
  <2>1. rows[a].state \in States => rows[a].createdAt <= now'
    BY <1>1, <1>2, RecordTimes DEF RowInv
  <2> QED
    BY <1>1, <1>3, <2>1 DEF RowInv
<1>4. CASE Deletes(a)
  BY <1>4, StateOfAbsent DEF Deletes, RowInv
<1>5. ASSUME NEW s \in Stores, Inserts(s, a) PROVE RowInv(a)'
  <2>1. call[s].at <= now /\ call[s].at \in Nat
    BY <1>1 DEF GrantInv, ClockInv, TypeOK, Call
  <2>2. rows'[a].state = "PENDING" /\ rows'[a].createdAt = call[s].at
    BY <1>5 DEF Inserts, Created
  <2> QED
    BY <1>2, <2>1, <2>2, StateOfAbsent DEF RowInv
<1>6. ASSUME NEW s \in Stores, Approves(s, a) PROVE RowInv(a)'
  <2>1. /\ call[s].at \in Nat /\ call[s].phase = "approve" /\ rows[a].state \in States
        /\ rows[a].createdAt \in Nat /\ rows[a].createdAt <= now
    BY <1>1, <1>6, RecordTimes DEF Approves, Approve, TypeOK, Call, States, RowInv
  <2>2. rows[a].createdAt <= call[s].at
    BY <1>6, <2>1 DEF GrantInv, CallInv, Approves
  <2>3. /\ rows'[a].state = "APPROVED" /\ rows'[a].createdAt = rows[a].createdAt
        /\ rows'[a].decisionAt = call[s].at
    BY <1>6 DEF Approves, Approved, NextRecord
  <2> QED
    BY <1>2, <2>1, <2>2, <2>3 DEF RowInv
<1>7. ASSUME NEW s \in Stores, Rejects(s, a) \/ Invalidates(s, a) PROVE RowInv(a)'
  <2>1. /\ rows[a].state \in States /\ rows[a].createdAt \in Nat /\ rows[a].createdAt <= now
        /\ rows'[a].createdAt = rows[a].createdAt
    <3>1. rows[a].state \in States
      BY <1>7 DEF Rejects, Invalidates, States
    <3> QED
      BY <1>1, <1>7, <3>1, RecordTimes DEF Rejects, Invalidates, Rejected, Invalidated, NextRecord, RowInv
  <2>2. CASE Rejects(s, a)
    BY <1>2, <2>1, <2>2, StateOfAbsent DEF Rejects, Rejected, NextRecord, RowInv
  <2>3. CASE Invalidates(s, a)
    <3>1. rows[a].state \in Granted /\ rows'[a].state = "POLICY_INVALIDATED"
          /\ rows'[a].decisionAt = rows[a].decisionAt
      BY <2>3, StateOfAbsent DEF Invalidates, Invalidated, NextRecord
    <3> QED
      BY <1>1, <1>2, <2>1, <3>1 DEF RowInv
  <2> QED
    BY <1>7, <2>2, <2>3
<1>8. ASSUME NEW s \in Stores, Consumes(s, a) PROVE RowInv(a)'
  <2> DEFINE c == call[s].cred
             t == call[s].at
  <2>1. /\ rows[a].state \in Granted /\ rows[a].state \in States
        /\ rows[a].createdAt \in Nat /\ rows[a].createdAt <= now
        /\ rows[a].expiresAt \in Nat /\ rows[a].decisionAt \in Nat \cup {NoTime}
    BY <1>1, <1>8, RecordTimes, StateOfAbsent DEF Consumes, RowInv
  <2>2. /\ call[s].phase = "consume" /\ Verifies(c, a, rows[a], t) /\ CanConsume(rows[a], t)
        /\ t \in Nat /\ c \in Assertion
    BY <1>8 DEF Consumes, Consume, GrantInv, Inv, TypeInv, TypeOK, Call, CallOK
  <2>3. c.id = a /\ c.issuedAt <= t /\ c.issuedAt \in Nat /\ t < rows[a].expiresAt
    BY <2>2 DEF Verifies, CanConsume, NotExpired, Assertion
  <2>4. rows[a].decisionAt <= c.issuedAt
    BY <2>2, <2>3 DEF GrantInv, CallInv
  <2>5. /\ rows'[a].state = "CONSUMED" /\ rows'[a].createdAt = rows[a].createdAt
        /\ rows'[a].decisionAt = rows[a].decisionAt /\ rows'[a].consumedAt = t
        /\ rows'[a].expiresAt = rows[a].expiresAt
    BY <1>8 DEF Consumes, Consumed, NextRecord
  <2>6. rows[a].decisionAt <= t
    BY <2>1, <2>2, <2>3, <2>4 DEF NoTime
  <2>7. rows[a].createdAt <= rows[a].decisionAt
    BY <1>1, <2>1 DEF RowInv
  <2> HIDE DEF c, t
  <2> QED
    BY <1>2, <2>1, <2>3, <2>5, <2>6, <2>7 DEF RowInv
<1> QED
  BY <1>1, <1>3, <1>4, <1>5, <1>6, <1>7, <1>8, RowForms

\* Every credential comes from a granted row and was issued after its decision.
LEMMA CredentialsAreOfGranted ==
    ASSUME Inv, AssertionsMatchRows, NEW c \in Credentials
    PROVE  rows[c.id].state \in Granted /\ rows[c.id].decisionAt <= c.issuedAt
<1>1. CASE c \in assertions
  <2>1. rows[c.id].state \in Granted /\ c = Issued(c.id, rows[c.id], rows[c.id].decisionAt)
    BY <1>1 DEF AssertionsMatchRows
  <2>2. c.issuedAt = rows[c.id].decisionAt /\ c.id \in Approvals
    BY <1>1, <2>1 DEF Issued, Inv, TypeInv, TypeOK, Assertion
  <2>3. rows[c.id].decisionAt \in Nat \cup {NoTime}
    BY <2>1, <2>2, StateOfAbsent, RecordTimes DEF Inv, TypeInv
  <2> QED
    BY <2>1, <2>2, <2>3 DEF NoTime
<1>2. CASE c \notin assertions
  <2>1. PICK a \in Approvals, t \in 0 .. now :
           rows[a].state \in Granted /\ rows[a].decisionAt <= t /\ c = Issued(a, rows[a], t)
    BY <1>2 DEF Credentials
  <2> QED
    BY <2>1 DEF Issued
<1> QED
  BY <1>1, <1>2

\* Where a call in these phases comes from.
LEMMA PhaseOrigins ==
    ASSUME Inv, [Next]_vars, NEW s \in Stores, call'[s].phase \in {"approve", "consume"}
    PROVE  \/ call'[s] = call[s]
           \/ /\ call'[s].phase = "approve" /\ Present(call'[s].id) /\ call'[s].at = now
              /\ UNCHANGED <<rows, now>>
           \/ call'[s].phase = "consume" /\ call'[s].cred \in Credentials /\ UNCHANGED rows
<1> USE DEF Inv, TypeInv, TypeOK
<1>1. CASE UNCHANGED vars \/ Tick
  BY <1>1 DEF vars, Tick
<1>2. ASSUME NEW t \in Stores, t # s, Begin(t) \/ Continue(t) PROVE call'[s] = call[s]
  BY <1>2 DEF Begin, Continue, SaveBegin, DecideBegin, InvalidateBegin,
     ConsumeBegin, SaveCleanup, SaveDedup, SaveReuse, SaveCount, SaveInsert, Approve, Reject,
     Invalidate, Consume, ConsumeReturn, Abort, Start, Goto, Return
<1>3. CASE Continue(s)
  <2>1. call'[s].phase \in {"dedup", "count", "reuse", "insert", "bump", "idle"}
    <3>1. CASE SaveCleanup(s) \/ SaveCount(s) \/ SaveReuse(s) \/ Consume(s)
      BY <3>1 DEF SaveCleanup, SaveCount, SaveReuse, Consume, Goto, Return, Idle, Call
    <3>2. CASE SaveDedup(s)
      <4>1. call[s] \in Call
        OBVIOUS
      <4>2. \/ call'[s] = [call[s] EXCEPT !.phase = "count", !.ts = ClockOf(s)]
            \/ \E a : call'[s] = [call[s] EXCEPT !.phase = "reuse", !.ts = ClockOf(s), !.id = a]
        BY <3>2 DEF SaveDedup
      <4>3. ASSUME call'[s] = [call[s] EXCEPT !.phase = "count", !.ts = ClockOf(s)]
            PROVE  call'[s].phase = "count"
        BY <4>1, <4>3 DEF Call
      <4>4. ASSUME NEW a, call'[s] = [call[s] EXCEPT !.phase = "reuse", !.ts = ClockOf(s), !.id = a]
            PROVE  call'[s].phase = "reuse"
        BY <4>1, <4>4 DEF Call
      <4> QED
        BY <4>2, <4>3, <4>4
    <3>3. CASE \/ SaveInsert(s) \/ Approve(s) \/ Reject(s) \/ Invalidate(s)
               \/ ConsumeReturn(s) \/ Abort(s)
      BY <3>3 DEF SaveInsert, Approve, Reject, Invalidate, ConsumeReturn, Abort, Return, Idle
    <3> QED
      BY <1>3, <3>1, <3>2, <3>3 DEF Continue
  <2> QED
    BY <2>1
<1>4. CASE Begin(s)
  <2>1. CASE \E f \in Fingerprints, p \in Policies : SaveBegin(s, f, p)
    BY <2>1 DEF SaveBegin, Start
  <2>2. ASSUME NEW a \in Approvals, NEW v \in {"approve", "reject"}, DecideBegin(s, a, v)
        PROVE  \/ call'[s].phase = "reject"
               \/ /\ call'[s].phase = "approve" /\ Present(call'[s].id) /\ call'[s].at = now
                  /\ UNCHANGED <<rows, now>>
    BY <2>2 DEF DecideBegin, Start
  <2>3. CASE \E a \in Approvals : InvalidateBegin(s, a)
    BY <2>3 DEF InvalidateBegin, Start
  <2>4. ASSUME NEW a \in Approvals, NEW c \in Credentials, NEW f \in Fingerprints,
               ConsumeBegin(s, a, c, f)
        PROVE  call'[s].phase = "consume" /\ call'[s].cred \in Credentials /\ UNCHANGED rows
    BY <2>4 DEF ConsumeBegin, Start
  <2> QED
    BY <1>4, <2>1, <2>2, <2>3, <2>4 DEF Begin
<1> QED
  BY <1>1, <1>2, <1>3, <1>4 DEF Next

LEMMA CallInvStep ==
    ASSUME GrantInv, [Next]_vars, NEW s \in Stores
    PROVE  CallInv(s)'
<1>1. Inv /\ CallInv(s) /\ AssertionsMatchRows
  BY DEF GrantInv
<1>2. CASE call'[s].phase \notin {"approve", "consume"}
  BY <1>2 DEF CallInv
<1>3. CASE call'[s] = call[s] /\ call[s].phase = "approve"
  <2>1. call[s].id \in Approvals
    BY <1>1, <1>3 DEF Inv, TypeInv, CallOK, RowPhases
  <2> QED
    BY <1>1, <1>3, <2>1, BornStays DEF CallInv
<1>4. CASE call'[s] = call[s] /\ call[s].phase = "consume"
  <2>1. call[s].cred.id \in Approvals
    BY <1>1, <1>4 DEF Inv, TypeInv, CallOK, Assertion
  <2> QED
    BY <1>1, <1>4, <2>1, GrantedStays DEF CallInv
<1>5. CASE call'[s].phase = "approve" /\ Present(call'[s].id) /\ call'[s].at = now
           /\ UNCHANGED <<rows, now>>
  <2>1. call'[s].id \in Approvals
    BY <1>1, <1>5, TypeStep DEF Inv, TypeInv, CallOK, RowPhases
  <2>2. rows[call'[s].id] # Unborn /\ rows[call'[s].id].createdAt <= now
    BY <1>5, <2>1, StateOfAbsent DEF Present, GrantInv, RowInv
  <2> QED
    BY <1>5, <2>2 DEF CallInv
<1>6. CASE call'[s].phase = "consume" /\ call'[s].cred \in Credentials /\ UNCHANGED rows
  BY <1>1, <1>6, CredentialsAreOfGranted DEF CallInv
<1> QED
  BY <1>1, <1>2, <1>3, <1>4, <1>5, <1>6, PhaseOrigins

\* The table of assertions changes only when an approval is granted.
LEMMA AssertionForms ==
    ASSUME Inv, [Next]_vars, assertions' # assertions
    PROVE  \E s \in Stores : Approves(s, call[s].id)
               /\ call[s].id \in Approvals /\ call[s].at \in Nat
               /\ rows' = [rows EXCEPT ![call[s].id] = Approved(rows[call[s].id], call[s].at)]
               /\ assertions' = {c \in assertions : c.id # call[s].id}
                                    \cup {Issued(call[s].id, rows[call[s].id], call[s].at)}
<1> USE DEF Inv, TypeInv
<1>1. PICK s \in Stores : Approve(s)
  BY DEF Next, vars, Tick, Begin, Continue, SaveBegin, DecideBegin, InvalidateBegin,
     ConsumeBegin, SaveCleanup, SaveDedup, SaveReuse, SaveCount, SaveInsert, Reject, Invalidate,
     Consume, ConsumeReturn, Abort
<1>2. call[s].id \in Approvals /\ call[s].at \in Nat
  BY <1>1 DEF Approve, CallOK, RowPhases, TypeOK, Call
<1>3. rows' = [rows EXCEPT ![call[s].id] = Approved(rows[call[s].id], call[s].at)]
  BY <1>1 DEF Approve
<1>4. Approves(s, call[s].id)
  BY <1>1, <1>2, <1>3 DEF Approve, Approves, CanDecide, TypeOK
<1> QED
  BY <1>1, <1>2, <1>3, <1>4 DEF Approve

LEMMA MatchStep == GrantInv /\ [Next]_vars => AssertionsMatchRows'
<1> SUFFICES ASSUME GrantInv, [Next]_vars PROVE AssertionsMatchRows'
  OBVIOUS
<1>1. Inv /\ AssertionsMatchRows /\ \A c \in assertions : c.id \in Approvals
  BY DEF GrantInv, Inv, TypeInv, TypeOK, Assertion
\* An assertion that stays still signs its row.
<1>2. ASSUME NEW c \in assertions
      PROVE  /\ rows'[c.id].state \in Granted
             /\ c = Issued(c.id, rows'[c.id], rows'[c.id].decisionAt)
  <2>1. rows[c.id].state \in Granted /\ c = Issued(c.id, rows[c.id], rows[c.id].decisionAt)
    BY <1>1 DEF AssertionsMatchRows
  <2>2. /\ rows'[c.id].state \in Granted /\ rows'[c.id].decisionAt = rows[c.id].decisionAt
        /\ Binding(rows'[c.id]) = Binding(rows[c.id])
    BY <1>1, <2>1, GrantedStays
  <2> QED
    BY <2>1, <2>2 DEF Issued, Binding
<1>3. CASE assertions' = assertions
  <2>1. ASSUME NEW a \in Approvals, rows'[a].state \in Granted PROVE rows[a].state \in Granted
    <3>1. CASE rows'[a] = rows[a]
      BY <2>1, <3>1
    <3>2. CASE rows'[a] # rows[a]
      <4>1. ASSUME NEW s \in Stores, Approves(s, a) PROVE FALSE
        <5>1. Issued(a, rows[a], call[s].at) \in assertions /\ rows[a].state = "PENDING"
          BY <1>3, <4>1 DEF Approves, Approve
        <5>2. Issued(a, rows[a], call[s].at).id = a
          BY DEF Issued
        <5> QED
          BY <1>1, <5>1, <5>2, StateOfAbsent DEF AssertionsMatchRows
      <4>2. ~Deletes(a) /\ \A s \in Stores : ~Inserts(s, a) /\ ~Rejects(s, a)
        BY <2>1, StateOfAbsent DEF Deletes, Inserts, Rejects, Created, Rejected, NextRecord
      <4>3. PICK s \in Stores : Invalidates(s, a) \/ Consumes(s, a)
        BY <1>1, <3>2, <4>1, <4>2, RowForms
      <4> QED
        BY <4>3, StateOfAbsent DEF Invalidates, Consumes
    <3> QED
      BY <3>1, <3>2
  <2> QED
    BY <1>1, <1>2, <1>3, <2>1 DEF AssertionsMatchRows
<1>4. CASE assertions' # assertions
  <2>1. PICK s \in Stores :
           /\ Approves(s, call[s].id) /\ call[s].id \in Approvals /\ call[s].at \in Nat
           /\ rows' = [rows EXCEPT ![call[s].id] = Approved(rows[call[s].id], call[s].at)]
           /\ assertions' = {c \in assertions : c.id # call[s].id}
                                \cup {Issued(call[s].id, rows[call[s].id], call[s].at)}
    BY <1>1, <1>4, AssertionForms
  <2> DEFINE a == call[s].id
             new == Issued(a, rows[a], call[s].at)
  <2>2. /\ rows'[a].state = "APPROVED" /\ rows'[a].decisionAt = call[s].at
        /\ Binding(rows'[a]) = Binding(rows[a])
    BY <2>1 DEF Approves, Approved, NextRecord, Binding
  <2>3. new.id = a /\ new = Issued(a, rows'[a], rows'[a].decisionAt)
    BY <2>2 DEF Issued, Binding
  <2>4. \A b \in Approvals : b # a => rows'[b] = rows[b]
    BY <1>1, <2>1 DEF Inv, TypeInv, TypeOK
  <2>5. ASSUME NEW c \in assertions'
        PROVE  /\ rows'[c.id].state \in Granted
               /\ c = Issued(c.id, rows'[c.id], rows'[c.id].decisionAt)
    <3> HIDE DEF new
    <3> QED
      BY <1>2, <2>1, <2>2, <2>3, StateOfAbsent DEF new
  <2>6. ASSUME NEW b \in Approvals, rows'[b].state \in Granted
        PROVE  \E c \in assertions' : c.id = b
    <3>1. CASE b = a
      BY <2>1, <2>3, <3>1
    <3>2. CASE b # a
      <4>1. rows[b].state \in Granted
        BY <2>4, <2>6, <3>2
      <4>2. PICK c \in assertions : c.id = b
        BY <1>1, <4>1 DEF AssertionsMatchRows
      <4> QED
        BY <2>1, <3>2, <4>2
    <3> QED
      BY <3>1, <3>2
  <2> HIDE DEF new, a
  <2> QED
    BY <2>5, <2>6 DEF AssertionsMatchRows
<1> QED
  BY <1>3, <1>4

LEMMA GrantInit == Init => GrantInv
<1> SUFFICES ASSUME Init PROVE GrantInv
  OBVIOUS
<1>1. Inv /\ ClockInv
  BY TypeInit, UseInit, ClockInit DEF Inv
<1>2. \A a \in Approvals : RowInv(a) /\ rows[a].state \notin Granted
  BY StateOfAbsent DEF Init, RowInv
<1>3. \A s \in Stores : CallInv(s)
  BY DEF Init, CallInv, Idle
<1>4. AssertionsMatchRows
  BY <1>2 DEF Init, AssertionsMatchRows
<1> QED
  BY <1>1, <1>2, <1>3, <1>4 DEF GrantInv

LEMMA GrantHolds == Spec => []GrantInv
<1>1. GrantInv /\ [Next]_vars => GrantInv'
  <2> SUFFICES ASSUME GrantInv, [Next]_vars PROVE GrantInv'
    OBVIOUS
  <2>1. Inv' /\ ClockInv'
    BY TypeStep, UseStep, ClockStep DEF GrantInv, Inv
  <2>2. \A a \in Approvals : RowInv(a)'
    BY RowInvStep
  <2>3. \A s \in Stores : CallInv(s)'
    BY CallInvStep
  <2> QED
    BY <2>1, <2>2, <2>3, MatchStep DEF GrantInv
<1> QED
  BY <1>1, GrantInit, PTL DEF Spec

\* The two tables agree after every statement of every instance: each granted row has
\* the one assertion that signs it, and no other row has any.
THEOREM TablesAgree == Spec => []AssertionsMatchRows
<1>1. GrantInv => AssertionsMatchRows
  BY DEF GrantInv
<1> QED
  BY <1>1, GrantHolds, PTL

(***************************************************************************)
(* Requests.  An instance that consumed a row still holds the request it    *)
(* compared with it, and the row keeps what it binds.                       *)
(***************************************************************************)
ServedInv ==
    /\ \A a \in Approvals, s \in Stores : Claims(s, a) => call[s].fp = rows[a].fp
    /\ \A a \in Approvals : served[a] = IF uses[a] = 0 THEN {} ELSE {rows[a].fp}

\* Only a consumption makes a claim, and it is for the request of the row.
LEMMA ClaimOrigins ==
    ASSUME Inv, [Next]_vars, NEW s \in Stores, NEW a \in Approvals, Claims(s, a)'
    PROVE  \/ call'[s] = call[s]
           \/ /\ rows'[a].fp = rows[a].fp /\ call'[s].fp = rows[a].fp
<1> USE DEF Inv, TypeInv, TypeOK
<1>1. CASE UNCHANGED vars \/ Tick
  BY <1>1 DEF vars, Tick
<1>2. ASSUME NEW t \in Stores, t # s, Begin(t) \/ Continue(t) PROVE call'[s] = call[s]
  BY <1>2 DEF Begin, Continue, SaveBegin, DecideBegin, InvalidateBegin,
     ConsumeBegin, SaveCleanup, SaveDedup, SaveReuse, SaveCount, SaveInsert, Approve, Reject,
     Invalidate, Consume, ConsumeReturn, Abort, Start, Goto, Return
<1>3. CASE Begin(s)
  BY <1>3 DEF Begin, SaveBegin, DecideBegin, InvalidateBegin, ConsumeBegin, Start, Claims
<1>4. CASE Consume(s)
  <2>1. /\ call'[s].id = call[s].id /\ call'[s].fp = call[s].fp
        /\ call[s].fp = rows[call[s].id].fp
        /\ rows' = [rows EXCEPT ![call[s].id] = Consumed(rows[call[s].id], call[s].at)]
    BY <1>4 DEF Consume, Goto, Call
  <2>2. rows'[a].fp = rows[a].fp /\ call[s].id = a
    BY <2>1 DEF Claims, Consumed, NextRecord
  <2> QED
    BY <2>1, <2>2
<1>5. CASE SaveCleanup(s) \/ SaveCount(s) \/ SaveReuse(s)
  BY <1>5 DEF SaveCleanup, SaveCount, SaveReuse, Goto, Return, Idle, Call, Claims
<1>6. CASE SaveDedup(s)
  <2>1. call[s] \in Call /\ call'[s].phase = "bump"
    BY <1>6 DEF Claims
  <2>2. \/ call'[s] = [call[s] EXCEPT !.phase = "count", !.ts = ClockOf(s)]
        \/ \E b : call'[s] = [call[s] EXCEPT !.phase = "reuse", !.ts = ClockOf(s), !.id = b]
    BY <1>6 DEF SaveDedup
  <2>3. call'[s].phase \in {"count", "reuse"}
    BY <2>1, <2>2 DEF Call
  <2> QED
    BY <2>1, <2>3
<1>7. CASE \/ SaveInsert(s) \/ Approve(s) \/ Reject(s) \/ Invalidate(s)
           \/ ConsumeReturn(s) \/ Abort(s)
  BY <1>7 DEF SaveInsert, Approve, Reject, Invalidate, ConsumeReturn, Abort, Return, Idle, Claims
<1> QED
  BY <1>1, <1>2, <1>3, <1>4, <1>5, <1>6, <1>7 DEF Next, Continue

\* What the observations of a step are.
LEMMA UseForms ==
    ASSUME Inv, [Next]_vars
    PROVE  \/ UNCHANGED <<uses, served>>
           \/ \E s \in Stores :
                  /\ Claims(s, call[s].id) /\ call[s].id \in Approvals /\ UNCHANGED rows
                  /\ uses' = [uses EXCEPT ![call[s].id] = @ + 1]
                  /\ served' = [served EXCEPT ![call[s].id] = @ \cup {call[s].fp}]
<1>1. CASE UNCHANGED vars \/ Tick
  BY <1>1 DEF vars, Tick
<1>2. ASSUME NEW s \in Stores, Begin(s) PROVE UNCHANGED <<uses, served>>
  BY <1>2 DEF Begin, SaveBegin, DecideBegin, InvalidateBegin, ConsumeBegin
<1>3. ASSUME NEW s \in Stores, Continue(s), ~ConsumeReturn(s) PROVE UNCHANGED <<uses, served>>
  BY <1>3 DEF Continue, SaveCleanup, SaveDedup, SaveReuse, SaveCount, SaveInsert, Approve,
     Reject, Invalidate, Consume, Abort
<1>4. ASSUME NEW s \in Stores, ConsumeReturn(s)
      PROVE  /\ Claims(s, call[s].id) /\ call[s].id \in Approvals /\ UNCHANGED rows
             /\ uses' = [uses EXCEPT ![call[s].id] = @ + 1]
             /\ served' = [served EXCEPT ![call[s].id] = @ \cup {call[s].fp}]
  BY <1>4 DEF ConsumeReturn, Claims, Inv, TypeInv, CallOK, RowPhases
<1> QED
  BY <1>1, <1>2, <1>3, <1>4 DEF Next

LEMMA ServedStep == Inv /\ ServedInv /\ [Next]_vars => ServedInv'
<1> SUFFICES ASSUME Inv, ServedInv, [Next]_vars PROVE ServedInv'
  OBVIOUS
<1>1. ASSUME NEW a \in Approvals, rows[a].state = "CONSUMED" PROVE rows'[a].fp = rows[a].fp
  BY <1>1, GrantedStays DEF Granted, Binding
<1>2. ASSUME NEW a \in Approvals, NEW s \in Stores, Claims(s, a)'
      PROVE  call'[s].fp = rows'[a].fp
  <2>1. CASE call'[s] = call[s]
    <3>1. Claims(s, a)
      BY <1>2, <2>1 DEF Claims
    <3>2. rows[a].state = "CONSUMED"
      BY <3>1 DEF Inv, UseInv
    <3> QED
      BY <1>1, <2>1, <3>1, <3>2 DEF ServedInv
  <2> QED
    BY <1>2, <2>1, ClaimOrigins
<1>3. \A a \in Approvals : uses[a] \in {0, 1}
  BY DEF Inv, UseInv
<1>4. ASSUME NEW a \in Approvals, UNCHANGED <<uses, served>>
      PROVE  served'[a] = IF uses'[a] = 0 THEN {} ELSE {rows'[a].fp}
  <2>1. uses[a] # 0 => rows[a].state = "CONSUMED"
    BY <1>3 DEF Inv, UseInv
  <2> QED
    BY <1>1, <1>4, <2>1 DEF ServedInv
<1>5. ASSUME NEW a \in Approvals, NEW s \in Stores,
             Claims(s, call[s].id), call[s].id \in Approvals, UNCHANGED rows,
             uses' = [uses EXCEPT ![call[s].id] = @ + 1],
             served' = [served EXCEPT ![call[s].id] = @ \cup {call[s].fp}]
      PROVE  served'[a] = IF uses'[a] = 0 THEN {} ELSE {rows'[a].fp}
  <2> DEFINE b == call[s].id
  <2>1. uses[b] = 0 /\ call[s].fp = rows[b].fp /\ served[b] = {}
    BY <1>3, <1>5 DEF Inv, UseInv, ServedInv
  <2>2. uses \in [Approvals -> Nat] /\ served \in [Approvals -> SUBSET Fingerprints]
    BY DEF Inv, TypeInv, TypeOK
  <2>3. uses' = [uses EXCEPT ![b] = 1] /\ served' = [served EXCEPT ![b] = {rows[b].fp}]
    BY <1>5, <2>1, <2>2
  <2>4. b \in Approvals /\ rows' = rows
    BY <1>5
  <2> HIDE DEF b
  <2>5. CASE a = b
    BY <2>2, <2>3, <2>4, <2>5
  <2>6. CASE a # b
    BY <2>2, <2>3, <2>4, <2>6 DEF ServedInv
  <2> QED
    BY <2>5, <2>6
<1>6. \A a \in Approvals : served'[a] = IF uses'[a] = 0 THEN {} ELSE {rows'[a].fp}
  BY <1>4, <1>5, UseForms
<1> QED
  BY <1>2, <1>6 DEF ServedInv

LEMMA ServedHolds == Spec => []ServedInv
<1>1. Init => ServedInv
  BY DEF Init, ServedInv, Claims, Idle
<1> QED
  BY <1>1, ServedStep, InvHolds, PTL DEF Spec

\* Every request that an execution presented is the one its approval was granted for
\* and signed, with the policy of the row, within the lifetime of the row, before it was
\* consumed and while it was valid.
THEOREM ExecutionsWereApproved == Spec => []UsedOnlyAsApproved
<1>1. ASSUME GrantInv, ServedInv, NEW a \in Approvals, uses[a] > 0
      PROVE  /\ rows[a].state = "CONSUMED"
             /\ rows[a].createdAt <= rows[a].decisionAt
             /\ rows[a].decisionAt <= rows[a].consumedAt
             /\ rows[a].consumedAt < rows[a].expiresAt
             /\ \E c \in assertions :
                    c.id = a /\ served[a] = {c.fp} /\ c.policy = rows[a].policy
  <2>0. uses[a] = 1
    <3>1. uses[a] = 0 \/ uses[a] = 1
      BY <1>1 DEF GrantInv, Inv, UseInv
    <3> QED
      BY <1>1, <3>1
  <2>1. rows[a].state = "CONSUMED" /\ served[a] = {rows[a].fp}
    <3>1. rows[a].state = "CONSUMED"
      BY <1>1, <2>0 DEF GrantInv, Inv, UseInv
    <3>2. served[a] = IF uses[a] = 0 THEN {} ELSE {rows[a].fp}
      BY <1>1 DEF ServedInv
    <3>3. uses[a] # 0
      BY <2>0
    <3> QED
      BY <3>1, <3>2, <3>3
  <2>2. PICK c \in assertions : c.id = a
    BY <1>1, <2>1, StateOfAbsent DEF GrantInv, AssertionsMatchRows
  <2>3. c.fp = rows[a].fp /\ c.policy = rows[a].policy
    BY <1>1, <2>2 DEF GrantInv, AssertionsMatchRows, Issued
  <2> QED
    BY <1>1, <2>1, <2>2, <2>3, StateOfAbsent DEF GrantInv, RowInv
<1>2. GrantInv /\ ServedInv => UsedOnlyAsApproved
  BY <1>1 DEF UsedOnlyAsApproved
<1> QED
  BY <1>2, GrantHolds, ServedHolds, PTL

(***************************************************************************)
(* The quota.  An instance that has counted and not yet inserted takes a   *)
(* place as well.                                                          *)
(***************************************************************************)
Inserting(p) == {s \in Stores : call[s].phase = "insert" /\ PrincipalOf[call[s].fp] = p}
Born         == {a \in Approvals : rows[a] # Unborn}

\* The table is finite, what was counted was counted at a reading of the past, and the
\* places of a principal are all in use by its requests and by such instances.
QuotaInv ==
    /\ IsFiniteSet(Born)
    /\ \A s \in Stores : call[s].phase \in {"reuse", "count"} => call[s].ts <= now
    /\ \A p \in Principals :
           Cardinality(PrincipalPending(p, now)) + Cardinality(Inserting(p))
               <= MaxPending + Cardinality(Stores) - 1

LEMMA SmallerSet ==
    ASSUME NEW T, IsFiniteSet(T), NEW S \in SUBSET T
    PROVE  /\ IsFiniteSet(S) /\ Cardinality(S) \in Nat /\ Cardinality(T) \in Nat
           /\ Cardinality(S) <= Cardinality(T)
BY FS_Subset, FS_CardinalityType

LEMMA FiniteQueries ==
    ASSUME IsFiniteSet(Born), NEW p, NEW t
    PROVE  /\ IsFiniteSet(PrincipalPending(p, t)) /\ Cardinality(PrincipalPending(p, t)) \in Nat
           /\ IsFiniteSet(Inserting(p)) /\ Cardinality(Inserting(p)) \in Nat
           /\ Cardinality(Stores) \in Nat /\ Cardinality(Inserting(p)) <= Cardinality(Stores)
<1>1. PrincipalPending(p, t) \in SUBSET Born
  BY DEF PrincipalPending, PendingAt, Born, Unborn, Absent
<1>2. Inserting(p) \in SUBSET Stores /\ IsFiniteSet(Stores)
  BY StoreAssumption DEF Inserting
<1>. QED BY <1>1, <1>2, SmallerSet

\* A statement that makes no request pending and lets no instance insert keeps the count.
LEMMA QuotaKeeps ==
    ASSUME TypeOK, TypeOK', QuotaInv, now <= now', NEW p \in Principals,
           \A a \in Approvals : rows'[a] = rows[a] \/ rows'[a].state # "PENDING",
           \A s \in Stores : call'[s].phase = "insert" /\ PrincipalOf[call'[s].fp] = p =>
                                 call[s].phase = "insert" /\ call[s].fp = call'[s].fp
    PROVE  Cardinality(PrincipalPending(p, now)') + Cardinality(Inserting(p)')
               <= MaxPending + Cardinality(Stores) - 1
<1>1. PrincipalPending(p, now)' \in SUBSET PrincipalPending(p, now)
  <2>. SUFFICES ASSUME NEW a \in PrincipalPending(p, now)'
                PROVE  a \in PrincipalPending(p, now)
    OBVIOUS
  <2>1. a \in Approvals /\ rows'[a].state = "PENDING" /\ now' < rows'[a].expiresAt
        /\ PrincipalOf[rows'[a].fp] = p
    BY DEF PrincipalPending, PendingAt
  <2>2. rows'[a] = rows[a]
    BY <2>1
  <2>3. rows[a].expiresAt \in Nat
    BY <2>1, <2>2, PresentIsRecord DEF TypeOK, Record, States
  <2>4. now \in Nat /\ now' \in Nat
    BY DEF TypeOK
  <2>5. now < rows[a].expiresAt
    BY <2>1, <2>2, <2>3, <2>4
  <2>. QED BY <2>1, <2>2, <2>5 DEF PrincipalPending, PendingAt
<1>2. Inserting(p)' \in SUBSET Inserting(p)
  BY DEF Inserting
<1>3. /\ Cardinality(PrincipalPending(p, now)') \in Nat
      /\ Cardinality(PrincipalPending(p, now)') <= Cardinality(PrincipalPending(p, now))
  BY <1>1, FiniteQueries, SmallerSet DEF QuotaInv
<1>4. Cardinality(Inserting(p)') \in Nat /\ Cardinality(Inserting(p)') <= Cardinality(Inserting(p))
  BY <1>2, FiniteQueries, SmallerSet DEF QuotaInv
<1>5. Cardinality(PrincipalPending(p, now)) + Cardinality(Inserting(p)) <= MaxPending + Cardinality(Stores) - 1
  BY DEF QuotaInv
<1>6. Cardinality(PrincipalPending(p, now)) \in Nat /\ Cardinality(Inserting(p)) \in Nat
      /\ Cardinality(Stores) \in Nat /\ MaxPending \in Nat
  BY FiniteQueries, StoreAssumption DEF QuotaInv
<1>. QED BY <1>3, <1>4, <1>5, <1>6

\* A store's step leaves the calls of the others alone.
LEMMA OthersKeep ==
    ASSUME TypeOK, NEW s \in Stores, Begin(s) \/ Continue(s), NEW t \in Stores, s # t
    PROVE  call'[t] = call[t]
<1>1. \E c : call' = [call EXCEPT ![s] = c]
  <2>1. CASE SaveDedup(s)
    BY <2>1 DEF SaveDedup
  <2>2. CASE SaveReuse(s)
    BY <2>2 DEF SaveReuse, Return, Goto
  <2>3. CASE Begin(s)
    BY <2>3 DEF Begin, SaveBegin, DecideBegin, InvalidateBegin, ConsumeBegin, Start
  <2>. QED
    BY <2>1, <2>2, <2>3 DEF Continue, SaveCleanup, SaveCount, SaveInsert, Approve, Reject,
       Invalidate, Consume, ConsumeReturn, Abort, Goto, Return
<1>. QED BY <1>1 DEF TypeOK

\* How an instance comes to be in the later part of save_pending.
LEMMA SavingStep ==
    ASSUME TypeOK, [Next]_vars, NEW t \in Stores, call'[t].phase \in {"reuse", "count", "insert"}
    PROVE  \/ call'[t] = call[t]
           \/ call[t].phase = "dedup" /\ call'[t].phase # "insert" /\ call'[t].ts = ClockOf(t)
           \/ call[t].phase = "reuse" /\ call'[t].phase = "count" /\ call'[t].ts = call[t].ts
           \/ SaveCount(t)
<1>1. CASE UNCHANGED vars
  BY <1>1 DEF vars
<1>2. CASE Tick
  BY <1>2 DEF Tick
<1>3. ASSUME NEW s \in Stores, Begin(s) \/ Continue(s), s # t
      PROVE  call'[t] = call[t]
  BY <1>3, OthersKeep
<1>4. CASE Begin(t)
  BY <1>4 DEF Begin, SaveBegin, DecideBegin, InvalidateBegin, ConsumeBegin, Start, TypeOK
<1>5. CASE SaveDedup(t)
  <2>1. call[t] \in Call /\ call \in [Stores -> Call] /\ call[t].phase = "dedup"
    BY <1>5 DEF TypeOK, SaveDedup
  <2>2. CASE call' = [call EXCEPT ![t] = [@ EXCEPT !.phase = "count", !.ts = ClockOf(t)]]
    BY <2>1, <2>2 DEF Call
  <2>3. ASSUME NEW a, call' = [call EXCEPT ![t] = [@ EXCEPT !.phase = "reuse", !.ts = ClockOf(t), !.id = a]]
        PROVE  call'[t].phase = "reuse" /\ call'[t].ts = ClockOf(t)
    BY <2>1, <2>3 DEF Call
  <2>. QED BY <1>5, <2>1, <2>2, <2>3 DEF SaveDedup
<1>6. CASE SaveReuse(t)
  BY <1>6 DEF SaveReuse, Return, Goto, Idle, TypeOK, Call
<1>7. CASE SaveCleanup(t) \/ SaveInsert(t) \/ Approve(t) \/ Reject(t) \/ Invalidate(t) \/ Consume(t)
           \/ ConsumeReturn(t) \/ Abort(t)
  BY <1>7 DEF SaveCleanup, SaveInsert, Approve, Reject, Invalidate, Consume, ConsumeReturn, Abort,
       Goto, Return, Idle, TypeOK, Call
<1>. QED BY <1>1, <1>2, <1>3, <1>4, <1>5, <1>6, <1>7 DEF Next, Continue

LEMMA ClockMoves ==
    ASSUME now \in Nat, [Next]_vars
    PROVE  now' \in {now, now + 1} /\ now' \in Nat /\ now <= now'
<1>1. now' \in {now, now + 1}
  <2>1. CASE Tick
    BY <2>1 DEF Tick
  <2>2. CASE UNCHANGED vars
    BY <2>2 DEF vars
  <2>3. ASSUME NEW s \in Stores, Begin(s) \/ Continue(s) PROVE now' = now
    BY <2>3 DEF Begin, Continue, SaveBegin, DecideBegin, InvalidateBegin, ConsumeBegin, SaveCleanup,
         SaveDedup, SaveReuse, SaveCount, SaveInsert, Approve, Reject, Invalidate, Consume,
         ConsumeReturn, Abort
  <2>. QED BY <2>1, <2>2, <2>3 DEF Next
<1>. QED BY <1>1

LEMMA QuotaInit == Init => QuotaInv
<1>. SUFFICES ASSUME Init PROVE QuotaInv
  OBVIOUS
<1>1. Born = {} /\ \A p \in Principals : PrincipalPending(p, now) = {} /\ Inserting(p) = {}
  BY DEF Init, Born, PrincipalPending, PendingAt, Inserting, Unborn, Absent, Idle
<1>2. IsFiniteSet({}) /\ Cardinality({}) = 0 /\ Cardinality(Stores) \in Nat
  BY StoreAssumption, FS_EmptySet, FS_CardinalityType
<1>3. \A s \in Stores : call[s].phase \notin {"reuse", "count"}
  BY DEF Init, Idle
<1>4. ASSUME NEW p \in Principals
      PROVE  Cardinality(PrincipalPending(p, now)) + Cardinality(Inserting(p)) <= MaxPending + Cardinality(Stores) - 1
  <2>1. Cardinality(PrincipalPending(p, now)) = 0 /\ Cardinality(Inserting(p)) = 0
    BY <1>1, <1>2
  <2>2. Cardinality(Stores) \in Nat /\ MaxPending \in Nat \ {0}
    BY <1>2, StoreAssumption
  <2>. QED BY <2>1, <2>2
<1>5. IsFiniteSet(Born)
  BY <1>1, <1>2
<1>. QED BY <1>3, <1>4, <1>5 DEF QuotaInv

LEMMA QuotaStep == Inv /\ Inv' /\ ClockInv /\ QuotaInv /\ [Next]_vars => QuotaInv'
<1>. SUFFICES ASSUME Inv, Inv', ClockInv, QuotaInv, [Next]_vars PROVE QuotaInv'
  OBVIOUS
<1>. USE DEF Inv, TypeInv
<1>1. IsFiniteSet(Born')
  <2>1. CASE \E s \in Stores : SaveInsert(s)
    <3>1. PICK s \in Stores, a \in Approvals : rows' = [rows EXCEPT ![a] = Created(call[s].fp, call[s].policy, call[s].at, TTL)]
      BY <2>1 DEF SaveInsert
    <3>2. Born' \in SUBSET (Born \cup {a})
      BY <3>1 DEF Born, TypeOK
    <3>3. IsFiniteSet(Born \cup {a})
      BY FS_AddElement DEF QuotaInv
    <3>. QED BY <3>2, <3>3, SmallerSet
  <2>2. CASE ~\E s \in Stores : SaveInsert(s)
    <3>1. ASSUME NEW a \in Approvals, rows'[a] # rows[a] PROVE rows[a] # Unborn
      <4>1. PICK s \in Stores : \/ SaveCleanup(s) \/ Approve(s) \/ Reject(s) \/ Invalidate(s) \/ Consume(s)
        BY <2>2, <3>1 DEF Next, vars, Tick, Begin, Continue, SaveBegin, DecideBegin, InvalidateBegin,
             ConsumeBegin, SaveDedup, SaveReuse, SaveCount, ConsumeReturn, Abort
      <4>2. rows[a].state \in {"PENDING", "APPROVED"}
        BY <3>1, <4>1 DEF SaveCleanup, Approve, Reject, Invalidate, Consume, CanDecide, CanConsume, TypeOK
      <4>. QED BY <4>2 DEF Unborn, Absent
    <3>2. Born' \in SUBSET Born
      BY <3>1 DEF Born
    <3>. QED BY <3>2, SmallerSet DEF QuotaInv
  <2>. QED BY <2>1, <2>2
<1>2. ASSUME NEW s \in Stores, call'[s].phase \in {"reuse", "count"} PROVE call'[s].ts <= now'
  <2>1. now \in Nat /\ now' \in Nat /\ now <= now'
    BY ClockMoves DEF TypeOK
  <2>2. \/ call'[s].ts = call[s].ts /\ call[s].phase \in {"reuse", "count"}
        \/ call'[s].ts = ClockOf(s)
    <3>1. CASE SaveCount(s)
      BY <1>2, <3>1 DEF SaveCount, Goto, TypeOK, Call
    <3>. QED BY <1>2, <3>1, SavingStep
  <2>3. ClockOf(s) <= now /\ ClockOf(s) \in Nat
    BY <2>1 DEF ClockOf, ClockInv, TypeOK, Call
  <2>4. call[s].ts \in Nat
    BY DEF TypeOK, Call
  <2>. QED BY <2>1, <2>2, <2>3, <2>4 DEF QuotaInv
<1>3. ASSUME NEW p \in Principals
      PROVE  Cardinality(PrincipalPending(p, now)') + Cardinality(Inserting(p)')
                 <= MaxPending + Cardinality(Stores) - 1
  <2>0. now \in Nat /\ MaxPending \in Nat \ {0}
    BY StoreAssumption DEF TypeOK
  <2>1. CASE \E s \in Stores : SaveInsert(s)
    <3>1. PICK s \in Stores : SaveInsert(s)
      BY <2>1
    <3>2. PICK a \in Approvals : rows' = [rows EXCEPT ![a] = Created(call[s].fp, call[s].policy, call[s].at, TTL)]
      BY <3>1 DEF SaveInsert
    <3>3. now' = now /\ call' = [call EXCEPT ![s] = Idle] /\ call[s].phase = "insert"
      BY <3>1 DEF SaveInsert, Return
    <3>4. CASE PrincipalOf[call[s].fp] = p
      <4>1. PrincipalPending(p, now)' \in SUBSET (PrincipalPending(p, now) \cup {a})
        BY <3>2, <3>3 DEF PrincipalPending, PendingAt, TypeOK
      <4>2. Inserting(p)' = Inserting(p) \ {s} /\ s \in Inserting(p)
        BY <3>3, <3>4 DEF Inserting, TypeOK, Idle
      <4>. DEFINE A == PrincipalPending(p, now)  B == Inserting(p)
      <4>3. IsFiniteSet(A) /\ IsFiniteSet(B) /\ Cardinality(A) \in Nat /\ Cardinality(B) \in Nat /\ Cardinality(Stores) \in Nat
        BY FiniteQueries DEF QuotaInv
      <4>4. Cardinality(A) + Cardinality(B) <= MaxPending + Cardinality(Stores) - 1
        BY DEF QuotaInv
      <4>. HIDE DEF A, B
      <4>5. IsFiniteSet(A \cup {a}) /\ Cardinality(A \cup {a}) \in Nat /\ Cardinality(A \cup {a}) <= Cardinality(A) + 1
        <5>1. a \in A => A \cup {a} = A
          OBVIOUS
        <5>2. a \notin A => Cardinality(A \cup {a}) = Cardinality(A) + 1
          BY <4>3, FS_AddElement
        <5>3. IsFiniteSet(A \cup {a})
          BY <4>3, FS_AddElement
        <5>. QED BY <4>3, <5>1, <5>2, <5>3
      <4>6. s \in B => Cardinality(B \ {s}) = Cardinality(B) - 1
        BY <4>3, FS_RemoveElement
      <4>7. \A S \in SUBSET (A \cup {a}) : Cardinality(S) \in Nat /\ Cardinality(S) <= Cardinality(A \cup {a})
        BY <4>5, SmallerSet
      <4>8. Cardinality(PrincipalPending(p, now)') \in Nat
            /\ Cardinality(PrincipalPending(p, now)') <= Cardinality(A \cup {a})
        BY <4>1, <4>7 DEF A
      <4>9. Cardinality(Inserting(p)') = Cardinality(B) - 1
        BY <4>2, <4>6 DEF B
      <4>. QED BY <2>0, <4>3, <4>4, <4>5, <4>8, <4>9
    <3>5. CASE PrincipalOf[call[s].fp] # p
      <4>1. PrincipalPending(p, now)' \in SUBSET PrincipalPending(p, now)
        <5>1. rows'[a].fp = call[s].fp /\ \A b \in Approvals : b # a => rows'[b] = rows[b]
          BY <3>2 DEF TypeOK, Created
        <5>. QED BY <3>3, <3>5, <5>1 DEF PrincipalPending, PendingAt
      <4>2. Inserting(p)' \in SUBSET Inserting(p)
        BY <3>3 DEF Inserting, TypeOK, Idle
      <4>3. /\ Cardinality(PrincipalPending(p, now)') \in Nat
            /\ Cardinality(PrincipalPending(p, now)') <= Cardinality(PrincipalPending(p, now))
            /\ Cardinality(Inserting(p)') \in Nat /\ Cardinality(Inserting(p)') <= Cardinality(Inserting(p))
        BY <4>1, <4>2, FiniteQueries, SmallerSet DEF QuotaInv
      <4>4. /\ Cardinality(PrincipalPending(p, now)) \in Nat /\ Cardinality(Inserting(p)) \in Nat
            /\ Cardinality(Stores) \in Nat
            /\ Cardinality(PrincipalPending(p, now)) + Cardinality(Inserting(p)) <= MaxPending + Cardinality(Stores) - 1
        BY FiniteQueries DEF QuotaInv
      <4>. QED BY <2>0, <4>3, <4>4
    <3>. QED BY <3>4, <3>5
  <2>2. CASE \E s \in Stores : SaveCount(s) /\ PrincipalOf[call[s].fp] = p
    <3>1. PICK s \in Stores : SaveCount(s) /\ PrincipalOf[call[s].fp] = p
      BY <2>2
    <3>2. now' = now /\ rows' = rows /\ call[s].phase = "count"
          /\ Cardinality(PrincipalPending(p, call[s].ts)) < MaxPending
      BY <3>1 DEF SaveCount
    <3>3. PrincipalPending(p, now) \in SUBSET PrincipalPending(p, call[s].ts)
      <4>1. call[s].ts <= now /\ call[s].ts \in Nat
        BY <3>2 DEF QuotaInv, TypeOK, Call
      <4>2. \A a \in Approvals : rows[a].state = "PENDING" => rows[a].expiresAt \in Nat
        BY PresentIsRecord DEF TypeOK, Record, States
      <4>. QED BY <2>0, <4>1, <4>2 DEF PrincipalPending, PendingAt
    <3>4. PrincipalPending(p, now)' = PrincipalPending(p, now)
      BY <3>2 DEF PrincipalPending, PendingAt
    <3>5. Inserting(p)' \in SUBSET Stores /\ IsFiniteSet(Stores)
      BY StoreAssumption DEF Inserting
    <3>6. /\ Cardinality(PrincipalPending(p, now)) \in Nat /\ Cardinality(PrincipalPending(p, call[s].ts)) \in Nat
          /\ Cardinality(PrincipalPending(p, now)) <= Cardinality(PrincipalPending(p, call[s].ts))
      BY <3>3, FiniteQueries, SmallerSet DEF QuotaInv
    <3>7. Cardinality(Inserting(p)') \in Nat /\ Cardinality(Stores) \in Nat
          /\ Cardinality(Inserting(p)') <= Cardinality(Stores)
      BY <3>5, SmallerSet
    <3>. QED BY <2>0, <3>2, <3>4, <3>6, <3>7
  <2>3. CASE /\ ~\E s \in Stores : SaveInsert(s)
             /\ ~\E s \in Stores : SaveCount(s) /\ PrincipalOf[call[s].fp] = p
    <3>1. now <= now'
      BY ClockMoves DEF TypeOK
    <3>2. ASSUME NEW a \in Approvals, rows'[a] # rows[a] PROVE rows'[a].state # "PENDING"
      <4>1. Moves(rows[a], rows'[a]) /\ rows[a] # Unborn
        <5>1. PICK s \in Stores : \/ SaveCleanup(s) \/ Approve(s) \/ Reject(s) \/ Invalidate(s) \/ Consume(s)
          BY <2>3, <3>2 DEF Next, vars, Tick, Begin, Continue, SaveBegin, DecideBegin, InvalidateBegin,
             ConsumeBegin, SaveDedup, SaveReuse, SaveCount, ConsumeReturn, Abort
        <5>2. rows[a].state \in {"PENDING", "APPROVED"}
          BY <3>2, <5>1 DEF SaveCleanup, Approve, Reject, Invalidate, Consume, CanDecide, CanConsume, TypeOK
        <5>. QED BY <3>2, <5>2, RowStep DEF Unborn, Absent
      <4>. QED BY <4>1 DEF Moves, Deleted, Absent
    <3>3. ASSUME NEW s \in Stores, call'[s].phase = "insert", PrincipalOf[call'[s].fp] = p
          PROVE  call[s].phase = "insert" /\ call[s].fp = call'[s].fp
      <4>1. CASE SaveCount(s)
        <5>1. call'[s].fp = call[s].fp
          BY <4>1 DEF SaveCount, Goto, TypeOK, Call
        <5>. QED BY <2>3, <3>3, <4>1, <5>1
      <4>2. CASE call'[s] = call[s]
        BY <3>3, <4>2
      <4>. QED BY <3>3, <4>1, <4>2, SavingStep
    <3>. QED BY <3>1, <3>2, <3>3, QuotaKeeps
  <2>. QED BY <2>1, <2>2, <2>3
<1>. QED BY <1>1, <1>2, <1>3 DEF QuotaInv

\* A principal never has more pending requests than its quota and one for each other
\* instance that counted at the same time (save_pending), however long they take.
THEOREM QuotaHolds == Spec => []QuotaOvershootBounded
<1>1. Inv /\ QuotaInv => QuotaOvershootBounded
  <2>. SUFFICES ASSUME QuotaInv, NEW p \in Principals
                PROVE  Cardinality(PrincipalPending(p, now)) <= MaxPending + Cardinality(Stores) - 1
    BY DEF QuotaOvershootBounded
  <2>1. Cardinality(PrincipalPending(p, now)) + Cardinality(Inserting(p)) <= MaxPending + Cardinality(Stores) - 1
    BY DEF QuotaInv
  <2>2. Cardinality(PrincipalPending(p, now)) \in Nat /\ Cardinality(Inserting(p)) \in Nat
        /\ Cardinality(Stores) \in Nat /\ MaxPending \in Nat
    BY FiniteQueries, StoreAssumption DEF QuotaInv
  <2>. QED BY <2>1, <2>2
<1>. DEFINE All == Inv /\ ClockInv /\ QuotaInv
<1>2. Init => All
  BY TypeInit, UseInit, ClockInit, QuotaInit DEF Inv
<1>3. All /\ [Next]_vars => All'
  BY TypeStep, UseStep, ClockStep, QuotaStep DEF Inv
<1>. QED BY <1>1, <1>2, <1>3, PTL DEF Spec

-----------------------------------------------------------------------------
(***************************************************************************)
(* Duplicates of one request f, for two stores at most.  A live pending row *)
(* takes a place, and so does a store that has found none and has not yet  *)
(* inserted, or that found one which is gone since.                        *)
(***************************************************************************)
Row(a)     == <<"row", a>>
Place(s)   == <<"store", s>>
RowsOf(S)  == {Row(a) : a \in S}
Places(S)  == {Place(s) : s \in S}
Live(f)    == SamePending(f, now)

Looks(f, s) == call[s].fp = f /\ call[s].phase \in {"cleanup", "dedup"}
Late(f, s)  == call[s].fp = f /\ \/ call[s].phase \in {"count", "insert"}
                                 \/ call[s].phase = "reuse" /\ ~Present(call[s].id)
Taken(f)    == RowsOf(Live(f)) \cup Places({s \in Stores : Late(f, s)})

\* Row a may be the identical one that s finds, or it is the one it has found.
Finds(f, s, a) ==
    \/ Looks(f, s) /\ a \in SamePending(f, ClockOf(s))
    \/ call[s].fp = f /\ call[s].phase = "reuse" /\ a = call[s].id /\ Present(a)

\* There are as many places as stores.  One is left for a store that finds row a should a
\* be deleted, since it then goes on to insert.  A store with a frozen clock may find a row
\* that has expired; to another one that began after the expiry and may delete it, fewer
\* rows than there are places are live.
DupInv(f) ==
    /\ Cardinality(Taken(f)) <= Cardinality(Stores)
    /\ \A s \in Stores, a \in Approvals :
          Finds(f, s, a) => Cardinality(Taken(f) \ {Row(a)}) < Cardinality(Stores)
    /\ \A s, o \in Stores, a \in Approvals :
          o # s /\ Looks(f, s) /\ Finds(f, o, a) /\ rows[a].expiresAt <= call[s].at
              => Cardinality(RowsOf(SamePending(f, call[s].at))) < Cardinality(Stores)

\* The id a store has found is that of a row that was inserted.
FoundIsBorn == \A s \in Stores : call[s].phase = "reuse" => rows[call[s].id] # Unborn

DupHolds == FoundIsBorn /\ (Cardinality(Stores) <= 2 => \A f \in Fingerprints : DupInv(f))

-----------------------------------------------------------------------------
LEMMA TagsDiffer ==
    /\ \A a, b : Row(a) = Row(b) <=> a = b
    /\ \A s, t : Place(s) = Place(t) <=> s = t
    /\ \A a, s : Row(a) # Place(s)
BY DEF Row, Place

LEMMA RowsCount ==
    ASSUME NEW S, IsFiniteSet(S)
    PROVE  /\ IsFiniteSet(RowsOf(S)) /\ Cardinality(S) \in Nat /\ Cardinality(RowsOf(S)) \in Nat
           /\ Cardinality(RowsOf(S)) = Cardinality(S)
<1>. DEFINE g == [x \in RowsOf(S) |-> x[2]]
            h == [a \in S |-> Row(a)]
<1>1. g \in Injection(RowsOf(S), S)
  BY DEF Injection, IsInjective, RowsOf, Row
<1>2. IsFiniteSet(RowsOf(S)) /\ Cardinality(RowsOf(S)) <= Cardinality(S)
  BY <1>1, FS_Injection
<1>3. h \in Injection(S, RowsOf(S))
  BY DEF Injection, IsInjective, RowsOf, Row
<1>4. Cardinality(S) <= Cardinality(RowsOf(S))
  BY <1>2, <1>3, FS_Injection
<1>. QED BY <1>2, <1>4, FS_CardinalityType

LEMMA PlacesCount ==
    ASSUME NEW S, IsFiniteSet(S)
    PROVE  /\ IsFiniteSet(Places(S)) /\ Cardinality(S) \in Nat /\ Cardinality(Places(S)) \in Nat
           /\ Cardinality(Places(S)) <= Cardinality(S)
<1>. DEFINE g == [x \in Places(S) |-> x[2]]
<1>1. g \in Injection(Places(S), S)
  BY DEF Injection, IsInjective, Places, Place
<1>. QED BY <1>1, FS_Injection, FS_CardinalityType

LEMMA OneLess ==
    ASSUME NEW T, IsFiniteSet(T), NEW x \in T
    PROVE  /\ IsFiniteSet(T \ {x}) /\ Cardinality(T) \in Nat /\ Cardinality(T \ {x}) \in Nat
           /\ Cardinality(T \ {x}) = Cardinality(T) - 1
BY FS_RemoveElement, FS_CardinalityType

LEMMA OneMore ==
    ASSUME NEW T, IsFiniteSet(T), NEW y
    PROVE  /\ IsFiniteSet(T \cup {y}) /\ Cardinality(T) \in Nat /\ Cardinality(T \cup {y}) \in Nat
           /\ Cardinality(T \cup {y}) <= Cardinality(T) + 1
BY FS_AddElement, FS_CardinalityType

LEMMA NoThirdStore ==
    ASSUME Cardinality(Stores) <= 2, NEW r \in Stores, NEW s \in Stores, NEW t \in Stores
    PROVE  r = s \/ r = t \/ s = t
<1>. SUFFICES ASSUME r # s, r # t, s # t PROVE FALSE
  OBVIOUS
<1>1. IsFiniteSet({r}) /\ Cardinality({r}) = 1
  BY FS_Singleton
<1>2. IsFiniteSet({r} \cup {s}) /\ Cardinality({r} \cup {s}) = 2
  BY <1>1, FS_AddElement
<1>3. Cardinality(({r} \cup {s}) \cup {t}) = 3
  BY <1>2, FS_AddElement
<1>4. Cardinality(({r} \cup {s}) \cup {t}) <= Cardinality(Stores) /\ Cardinality(Stores) \in Nat
  BY StoreAssumption, SmallerSet
<1>. QED BY <1>3, <1>4

LEMMA TakenIsFinite ==
    ASSUME IsFiniteSet(Born), NEW f
    PROVE  /\ IsFiniteSet(Taken(f)) /\ Cardinality(Taken(f)) \in Nat /\ Cardinality(Stores) \in Nat
           /\ \A t : IsFiniteSet(RowsOf(SamePending(f, t))) /\ Cardinality(RowsOf(SamePending(f, t))) \in Nat
<1>1. ASSUME NEW t PROVE IsFiniteSet(SamePending(f, t))
  <2>1. SamePending(f, t) \in SUBSET Born
    BY DEF SamePending, PendingAt, Born, Unborn, Absent
  <2>. QED BY <2>1, SmallerSet
<1>2. ASSUME NEW t PROVE IsFiniteSet(RowsOf(SamePending(f, t))) /\ Cardinality(RowsOf(SamePending(f, t))) \in Nat
  BY <1>1, RowsCount
<1>3. IsFiniteSet({s \in Stores : Late(f, s)}) /\ Cardinality(Stores) \in Nat
  <2>1. {s \in Stores : Late(f, s)} \in SUBSET Stores
    OBVIOUS
  <2>. QED BY <2>1, StoreAssumption, SmallerSet
<1>4. IsFiniteSet(Taken(f))
  BY <1>2, <1>3, PlacesCount, FS_Union DEF Taken, Live
<1>. QED BY <1>2, <1>3, <1>4, FS_CardinalityType

-----------------------------------------------------------------------------
LEMMA ClockTypes ==
    ASSUME TypeOK, ClockInv
    PROVE  /\ now \in Nat /\ \A a \in Approvals : rows[a].expiresAt \in Nat
           /\ \A s \in Stores : /\ call[s].at \in Nat /\ ClockOf(s) \in Nat
                                /\ call[s].at <= ClockOf(s) /\ ClockOf(s) <= now
<1>1. now \in Nat /\ \A a \in Approvals : rows[a].expiresAt \in Nat
  BY DEF TypeOK, Record, Unborn, Deleted, Absent
<1>2. \A s \in Stores : call[s].at \in Nat /\ call[s].at <= now
  BY DEF TypeOK, Call, ClockInv
<1>. QED BY <1>1, <1>2 DEF ClockOf

\* Later queries select fewer rows.
LEMMA LaterIsLess ==
    ASSUME TypeOK, NEW f, NEW t \in Nat, NEW u \in Nat, t <= u
    PROVE  /\ SamePending(f, u) \subseteq SamePending(f, t)
           /\ RowsOf(SamePending(f, u)) \subseteq RowsOf(SamePending(f, t))
<1>1. \A a \in Approvals : rows[a].expiresAt \in Nat
  BY DEF TypeOK, Record, Unborn, Deleted, Absent
<1>2. SamePending(f, u) \subseteq SamePending(f, t)
  BY <1>1 DEF SamePending, PendingAt
<1>. QED BY <1>2 DEF RowsOf

\* How a row comes to be pending for f: it was, or it is inserted.
LEMMA NewRows ==
    ASSUME Inv, [Next]_vars, NEW f, NEW t, NEW a \in SamePending(f, t)'
    PROVE  \/ a \in SamePending(f, t) /\ rows'[a] = rows[a]
           \/ \E s \in Stores : SaveInsert(s) /\ call[s].fp = f
<1>1. a \in Approvals /\ rows'[a].state = "PENDING" /\ rows'[a].fp = f /\ t' < rows'[a].expiresAt
  BY DEF SamePending, PendingAt
<1>2. CASE rows'[a] = rows[a]
  BY <1>1, <1>2 DEF SamePending, PendingAt
<1>3. CASE rows'[a] # rows[a]
  <2>1. ~Deletes(a)
    BY <1>1 DEF Deletes, Deleted, Absent
  <2>2. PICK s \in Stores : \/ Inserts(s, a) \/ Approves(s, a) \/ Rejects(s, a)
                           \/ Invalidates(s, a) \/ Consumes(s, a)
    BY <1>1, <1>3, <2>1, RowForms
  <2>3. Inserts(s, a)
    BY <1>1, <2>2 DEF Approves, Rejects, Invalidates, Consumes, Approved, Rejected, Invalidated,
         Consumed, NextRecord
  <2>. QED BY <1>1, <2>3 DEF Inserts, Created
<1>. QED BY <1>2, <1>3

\* A row that was there stays, with its expiry, or is deleted while it is pending.
LEMMA PresentRows ==
    ASSUME Inv, [Next]_vars, NEW a \in Approvals, rows[a] # Unborn
    PROVE  /\ Present(a)' => Present(a) /\ rows'[a].expiresAt = rows[a].expiresAt
           /\ Present(a) /\ ~Present(a)' => Deletes(a)
<1>1. CASE rows'[a] = rows[a]
  BY <1>1 DEF Present
<1>2. CASE rows'[a] # rows[a]
  <2>1. CASE Deletes(a)
    BY <2>1, StateOfAbsent DEF Deletes, Present
  <2>2. CASE ~Deletes(a)
    <3>1. PICK s \in Stores : \/ Inserts(s, a) \/ Approves(s, a) \/ Rejects(s, a)
                             \/ Invalidates(s, a) \/ Consumes(s, a)
      BY <1>2, <2>2, RowForms
    <3>2. /\ rows[a].state \in States /\ rows'[a].state \in States
          /\ rows'[a].expiresAt = rows[a].expiresAt
      BY <3>1 DEF Inserts, Approves, Rejects, Invalidates, Consumes, Approved, Rejected, Invalidated,
           Consumed, NextRecord, States
    <3>. QED BY <3>2 DEF Present
  <2>. QED BY <2>1, <2>2
<1>. QED BY <1>1, <1>2

\* How a call comes to be in save_pending for f, other than by beginning it or by
\* having found no identical request.
LEMMA SavingKeeps ==
    ASSUME TypeOK, [Next]_vars, NEW f, NEW s \in Stores,
           ~\E p \in Policies : SaveBegin(s, f, p),
           ~(SaveDedup(s) /\ call[s].fp = f /\ call'[s].phase = "count")
    PROVE  /\ Looks(f, s)' => Looks(f, s) /\ call'[s].at = call[s].at
           /\ call'[s].fp = f /\ call'[s].phase = "reuse" =>
                  \/ call'[s] = call[s]
                  \/ SaveDedup(s) /\ Looks(f, s) /\ call'[s].id \in SamePending(f, ClockOf(s))
           /\ call'[s].fp = f /\ call'[s].phase \in {"count", "insert"} => Late(f, s)
<1>1. CASE call'[s] = call[s]
  BY <1>1 DEF Looks, Late
<1>2. CASE call'[s] # call[s]
  <2>1. Begin(s) \/ Continue(s)
    <3>1. ~UNCHANGED vars /\ ~Tick
      BY <1>2 DEF vars, Tick
    <3>2. PICK t \in Stores : Begin(t) \/ Continue(t)
      BY <3>1 DEF Next
    <3>3. t # s => call'[s] = call[s]
      BY <3>2, OthersKeep
    <3>. QED BY <1>2, <3>2, <3>3
  <2>2. CASE Begin(s)
    <3>1. ASSUME NEW g \in Fingerprints, NEW p \in Policies, SaveBegin(s, g, p)
          PROVE  call'[s].phase = "cleanup" /\ call'[s].fp = g /\ g # f
      BY <3>1 DEF SaveBegin, Start, TypeOK
    <3>2. CASE ~\E g \in Fingerprints, p \in Policies : SaveBegin(s, g, p)
      BY <2>2, <3>2 DEF Begin, DecideBegin, InvalidateBegin, ConsumeBegin, Start, Looks, TypeOK
    <3>. QED BY <3>1, <3>2 DEF Looks
  <2>3. CASE SaveDedup(s)
    <3>1. call[s] \in Call /\ call \in [Stores -> Call] /\ call[s].phase = "dedup"
      BY <2>3 DEF TypeOK, SaveDedup
    <3>2. CASE call' = [call EXCEPT ![s] = [@ EXCEPT !.phase = "count", !.ts = ClockOf(s)]]
      <4>1. call'[s].phase = "count" /\ call'[s].fp = call[s].fp
        BY <3>1, <3>2 DEF Call
      <4>. QED BY <2>3, <4>1 DEF Looks
    <3>3. ASSUME NEW a \in SamePending(call[s].fp, ClockOf(s)),
                 call' = [call EXCEPT ![s] = [@ EXCEPT !.phase = "reuse", !.ts = ClockOf(s), !.id = a]]
          PROVE  /\ call'[s].phase = "reuse" /\ call'[s].fp = call[s].fp /\ call'[s].id = a
      BY <3>1, <3>3 DEF Call
    <3>4. CASE \E a \in SamePending(call[s].fp, ClockOf(s)) :
                 call' = [call EXCEPT ![s] = [@ EXCEPT !.phase = "reuse", !.ts = ClockOf(s), !.id = a]]
      BY <2>3, <3>1, <3>3, <3>4 DEF Looks
    <3>. QED BY <2>3, <3>2, <3>4 DEF SaveDedup
  <2>4. CASE SaveCleanup(s)
    BY <2>4 DEF SaveCleanup, Goto, Looks, TypeOK, Call
  <2>5. CASE SaveReuse(s)
    BY <2>5 DEF SaveReuse, Return, Goto, Idle, Looks, Late, TypeOK, Call
  <2>6. CASE SaveCount(s)
    BY <2>6 DEF SaveCount, Goto, Looks, Late, TypeOK, Call
  <2>7. CASE SaveInsert(s) \/ Approve(s) \/ Reject(s) \/ Invalidate(s) \/ Consume(s)
             \/ ConsumeReturn(s) \/ Abort(s)
    BY <2>7 DEF SaveInsert, Approve, Reject, Invalidate, Consume, ConsumeReturn, Abort, Goto, Return,
         Idle, Looks, TypeOK, Call
  <2>. QED BY <2>1, <2>2, <2>3, <2>4, <2>5, <2>6, <2>7 DEF Continue
<1>. QED BY <1>1, <1>2

\* Only a cleanup deletes, and only what its clock says has expired.
LEMMA OnlyCleanupDeletes ==
    ASSUME TypeOK, [Next]_vars, NEW a \in Approvals, Deletes(a)
    PROVE  \E x \in Stores : SaveCleanup(x) /\ rows[a].expiresAt <= ClockOf(x)
<1>1. rows'[a] # rows[a] /\ rows'[a].state = "DELETED" /\ rows[a].state = "PENDING"
  BY DEF Deletes, Deleted, Absent
<1>2. PICK x \in Stores : \/ SaveCleanup(x) \/ SaveInsert(x) \/ Approve(x)
                          \/ Reject(x) \/ Invalidate(x) \/ Consume(x)
  BY <1>1 DEF Next, vars, Tick, Begin, Continue, SaveBegin, DecideBegin, InvalidateBegin,
     ConsumeBegin, SaveDedup, SaveReuse, SaveCount, ConsumeReturn, Abort
<1>3. SaveCleanup(x)
  BY <1>1, <1>2 DEF SaveInsert, Approve, Reject, Invalidate, Consume, Created, Approved, Rejected,
     Invalidated, Consumed, NextRecord, TypeOK
<1>. QED BY <1>1, <1>3 DEF SaveCleanup

\* What a store finds it found before, unless it begins or the row is new.
LEMMA FindsKeep ==
    ASSUME Inv, ClockInv, FoundIsBorn, [Next]_vars, NEW f, NEW s \in Stores, NEW a \in Approvals,
           ~\E p \in Policies : SaveBegin(s, f, p),
           ~\E x \in Stores : SaveInsert(x) /\ call[x].fp = f,
           Finds(f, s, a)'
    PROVE  Finds(f, s, a) /\ rows'[a].expiresAt = rows[a].expiresAt
<1>1. TypeOK /\ TypeOK'
  BY TypeStep DEF Inv, TypeInv
<1>2. now \in Nat /\ now' \in Nat /\ now <= now'
  BY <1>1, ClockMoves DEF TypeOK
<1>3. CASE Looks(f, s)' /\ a \in SamePending(f, ClockOf(s))'
  <2>1. call'[s].phase # "count"
    BY <1>3 DEF Looks
  <2>2. Looks(f, s) /\ call'[s].at = call[s].at
    BY <1>1, <1>3, <2>1, SavingKeeps
  <2>3. PICK t : t = ClockOf(s)'
    OBVIOUS
  <2>4. a \in SamePending(f, t)'
    BY <1>3, <2>3 DEF SamePending, PendingAt
  <2>5. a \in SamePending(f, t) /\ rows'[a] = rows[a]
    BY <2>4, NewRows
  <2>6. t \in Nat /\ ClockOf(s) \in Nat /\ ClockOf(s) <= t
    BY <1>1, <1>2, <2>2, <2>3, ClockTypes DEF ClockOf
  <2>7. a \in SamePending(f, ClockOf(s))
    BY <1>1, <2>5, <2>6, LaterIsLess
  <2>. QED BY <2>2, <2>5, <2>7 DEF Finds
<1>4. CASE call'[s].fp = f /\ call'[s].phase = "reuse" /\ a = call'[s].id /\ Present(a)'
  <2>1. \/ call'[s] = call[s]
        \/ SaveDedup(s) /\ Looks(f, s) /\ call'[s].id \in SamePending(f, ClockOf(s))
    BY <1>1, <1>4, SavingKeeps
  <2>2. CASE call'[s] = call[s]
    <3>1. rows[a] # Unborn
      BY <1>4, <2>2 DEF FoundIsBorn
    <3>2. Present(a) /\ rows'[a].expiresAt = rows[a].expiresAt
      BY <1>4, <3>1, PresentRows
    <3>. QED BY <1>4, <2>2, <3>2 DEF Finds
  <2>3. CASE SaveDedup(s) /\ Looks(f, s) /\ call'[s].id \in SamePending(f, ClockOf(s))
    BY <1>4, <2>3 DEF Finds, SaveDedup
  <2>. QED BY <2>1, <2>2, <2>3
<1>. QED BY <1>3, <1>4 DEF Finds

\* A store takes a place when it finds none, or when the row that it found is deleted.
LEMMA LateKeeps ==
    ASSUME Inv, FoundIsBorn, [Next]_vars, NEW f, NEW s \in Stores,
           ~\E p \in Policies : SaveBegin(s, f, p),
           ~(SaveDedup(s) /\ call[s].fp = f /\ call'[s].phase = "count"),
           Late(f, s)'
    PROVE  \/ Late(f, s)
           \/ /\ call[s].fp = f /\ call[s].phase = "reuse" /\ call[s].id \in Approvals
              /\ Present(call[s].id) /\ Deletes(call[s].id)
<1>1. TypeOK
  BY DEF Inv, TypeInv
<1>2. CASE call'[s].fp = f /\ call'[s].phase \in {"count", "insert"}
  BY <1>1, <1>2, SavingKeeps
<1>3. CASE call'[s].fp = f /\ call'[s].phase = "reuse" /\ ~Present(call[s].id)'
  <2>1. CASE call'[s] = call[s]
    <3>1. call[s].id \in Approvals /\ rows[call[s].id] # Unborn
      BY <1>3, <2>1 DEF Inv, TypeInv, CallOK, RowPhases, FoundIsBorn
    <3>2. PICK b \in Approvals : b = call[s].id
      BY <3>1
    <3>3. ~Present(b)' /\ rows[b] # Unborn
      BY <1>3, <2>1, <3>1, <3>2 DEF Present
    <3>4. Present(b) => Deletes(b)
      BY <3>3, PresentRows
    <3>. QED BY <1>3, <2>1, <3>2, <3>4 DEF Late
  <2>2. CASE SaveDedup(s) /\ Looks(f, s) /\ call'[s].id \in SamePending(f, ClockOf(s))
    <3>1. rows' = rows /\ rows[call'[s].id].state = "PENDING"
      BY <2>2 DEF SaveDedup, SamePending, PendingAt
    <3>. QED BY <1>3, <3>1 DEF Present, States
  <2>. QED BY <1>1, <1>3, <2>1, <2>2, SavingKeeps
<1>. QED BY <1>2, <1>3 DEF Late

-----------------------------------------------------------------------------
\* A step after which nothing new is found and no place taken.
LEMMA DupFrame ==
    ASSUME TypeOK, TypeOK', ClockInv, ClockInv', IsFiniteSet(Born), NEW f, DupInv(f),
           Taken(f)' \subseteq Taken(f),
           \A s \in Stores, a \in Approvals :
               Finds(f, s, a)' => Finds(f, s, a) /\ rows'[a].expiresAt = rows[a].expiresAt,
           \A s \in Stores : Looks(f, s)' => Looks(f, s) /\ call'[s].at = call[s].at,
           \A t \in Nat : RowsOf(SamePending(f, t))' \subseteq RowsOf(SamePending(f, t))
    PROVE  DupInv(f)'
<1>1. IsFiniteSet(Taken(f)) /\ Cardinality(Taken(f)) \in Nat /\ Cardinality(Stores) \in Nat
      /\ \A t : IsFiniteSet(RowsOf(SamePending(f, t))) /\ Cardinality(RowsOf(SamePending(f, t))) \in Nat
  BY TakenIsFinite
<1>2. Cardinality(Taken(f)') <= Cardinality(Stores)
  <2>1. Cardinality(Taken(f)') \in Nat /\ Cardinality(Taken(f)') <= Cardinality(Taken(f))
    BY <1>1, SmallerSet
  <2>. QED BY <1>1, <2>1 DEF DupInv
<1>3. ASSUME NEW s \in Stores, NEW a \in Approvals, Finds(f, s, a)'
      PROVE  Cardinality(Taken(f)' \ {Row(a)}) < Cardinality(Stores)
  <2>1. Cardinality(Taken(f) \ {Row(a)}) < Cardinality(Stores)
    BY <1>3 DEF DupInv
  <2>2. IsFiniteSet(Taken(f) \ {Row(a)})
    BY <1>1, SmallerSet
  <2>3. Taken(f)' \ {Row(a)} \in SUBSET (Taken(f) \ {Row(a)})
    OBVIOUS
  <2>4. /\ Cardinality(Taken(f)' \ {Row(a)}) \in Nat /\ Cardinality(Taken(f) \ {Row(a)}) \in Nat
        /\ Cardinality(Taken(f)' \ {Row(a)}) <= Cardinality(Taken(f) \ {Row(a)})
    BY <2>2, <2>3, SmallerSet
  <2>. QED BY <1>1, <2>1, <2>4
<1>4. ASSUME NEW s \in Stores, NEW o \in Stores, NEW a \in Approvals, o # s, Looks(f, s)',
             Finds(f, o, a)', rows'[a].expiresAt <= call'[s].at
      PROVE  Cardinality(RowsOf(SamePending(f, call[s].at))') < Cardinality(Stores)
  <2>1. PICK t \in Nat : t = call[s].at
    BY ClockTypes
  <2>2. Looks(f, s) /\ call'[s].at = t /\ Finds(f, o, a) /\ rows[a].expiresAt <= t
    BY <1>4, <2>1
  <2>3. Cardinality(RowsOf(SamePending(f, t))) < Cardinality(Stores)
    BY <1>4, <2>1, <2>2 DEF DupInv
  <2>4. /\ Cardinality(RowsOf(SamePending(f, t))') \in Nat
        /\ Cardinality(RowsOf(SamePending(f, t))') <= Cardinality(RowsOf(SamePending(f, t)))
    BY <1>1, SmallerSet
  <2>5. RowsOf(SamePending(f, call[s].at))' = RowsOf(SamePending(f, t))'
    BY <2>2
  <2>. QED BY <1>1, <2>3, <2>4, <2>5
<1>. QED BY <1>2, <1>3, <1>4 DEF DupInv, Row

\* A save that begins finds the live ones only.
LEMMA DupBegin ==
    ASSUME TypeOK, TypeOK', ClockInv, IsFiniteSet(Born), NEW f, DupInv(f),
           NEW x \in Stores, NEW p \in Policies, SaveBegin(x, f, p)
    PROVE  DupInv(f)'
<1>1. /\ call[x].phase = "idle" /\ call'[x].phase = "cleanup" /\ call'[x].fp = f /\ call'[x].at = now
      /\ \A s \in Stores : s # x => call'[s] = call[s]
      /\ rows' = rows /\ now' = now
  BY DEF SaveBegin, Start, TypeOK
<1>2. IsFiniteSet(Taken(f)) /\ Cardinality(Taken(f)) \in Nat /\ Cardinality(Stores) \in Nat
      /\ \A t : IsFiniteSet(RowsOf(SamePending(f, t))) /\ Cardinality(RowsOf(SamePending(f, t))) \in Nat
  BY TakenIsFinite
<1>3. Taken(f)' = Taken(f)
  <2>1. \A s \in Stores : Late(f, s)' <=> Late(f, s)
    BY <1>1 DEF Late, Present
  <2>2. Live(f)' = Live(f)
    BY <1>1 DEF Live, SamePending, PendingAt
  <2>. QED BY <2>1, <2>2 DEF Taken, RowsOf, Places, Row, Place
<1>4. ASSUME NEW s \in Stores, NEW a \in Approvals, Finds(f, s, a)'
      PROVE  IF s = x THEN a \in Live(f) ELSE Finds(f, s, a)
  <2>1. CASE s = x
    BY <1>1, <1>4, <2>1 DEF Finds, Live, ClockOf, SamePending, PendingAt
  <2>2. CASE s # x
    BY <1>1, <1>4, <2>2 DEF Finds, Looks, Present, ClockOf, SamePending, PendingAt
  <2>. QED BY <2>1, <2>2
<1>5. Cardinality(Taken(f)) <= Cardinality(Stores)
  BY DEF DupInv
<1>6. ASSUME NEW s \in Stores, NEW a \in Approvals, Finds(f, s, a)'
      PROVE  Cardinality(Taken(f) \ {Row(a)}) < Cardinality(Stores)
  <2>1. CASE s # x
    BY <1>4, <1>6, <2>1 DEF DupInv
  <2>2. CASE s = x
    <3>1. Row(a) \in Taken(f)
      BY <1>4, <1>6, <2>2 DEF Taken, RowsOf
    <3>2. Cardinality(Taken(f) \ {Row(a)}) \in Nat /\ Cardinality(Taken(f) \ {Row(a)}) = Cardinality(Taken(f)) - 1
      BY <1>2, <3>1, OneLess
    <3>. QED BY <1>2, <1>5, <3>2
  <2>. QED BY <2>1, <2>2
<1>7. ASSUME NEW s \in Stores, NEW o \in Stores, NEW a \in Approvals, o # s, Looks(f, s)',
             Finds(f, o, a)', rows'[a].expiresAt <= call'[s].at
      PROVE  Cardinality(RowsOf(SamePending(f, call[s].at))') < Cardinality(Stores)
  <2>1. PICK t \in Nat : t = call'[s].at
    BY DEF TypeOK, Call
  <2>2. RowsOf(SamePending(f, call[s].at))' = RowsOf(SamePending(f, t))
    BY <1>1, <2>1 DEF RowsOf, SamePending, PendingAt, Row
  <2>3. rows[a].expiresAt <= t /\ rows[a].expiresAt \in Nat /\ now \in Nat
    BY <1>1, <1>7, <2>1, ClockTypes
  <2>4. CASE s = x
    <3>1. t = now /\ Finds(f, o, a)
      BY <1>1, <1>4, <1>7, <2>1, <2>4
    <3>2. a \notin Live(f)
      BY <2>3, <3>1 DEF Live, SamePending, PendingAt
    <3>3. Row(a) \notin Taken(f)
      BY <3>2, TagsDiffer DEF Taken, RowsOf, Places
    <3>4. Cardinality(Taken(f)) < Cardinality(Stores)
      <4>1. Taken(f) \ {Row(a)} = Taken(f)
        BY <3>3
      <4>. QED BY <1>6, <1>7, <4>1
    <3>5. RowsOf(SamePending(f, t)) \in SUBSET Taken(f)
      BY <3>1 DEF Taken, Live
    <3>6. Cardinality(RowsOf(SamePending(f, t))) <= Cardinality(Taken(f))
      BY <1>2, <3>5, SmallerSet
    <3>. QED BY <1>2, <2>2, <3>4, <3>6
  <2>5. CASE o = x
    <3>1. a \in Live(f) /\ t = call[s].at
      BY <1>1, <1>4, <1>7, <2>1, <2>5
    <3>2. now < rows[a].expiresAt /\ t <= now
      BY <3>1 DEF Live, SamePending, PendingAt, ClockInv
    <3>. QED BY <2>3, <3>2
  <2>6. CASE s # x /\ o # x
    <3>1. Looks(f, s) /\ Finds(f, o, a) /\ t = call[s].at
      BY <1>1, <1>4, <1>7, <2>1, <2>6 DEF Looks
    <3>. QED BY <1>7, <2>2, <2>3, <3>1 DEF DupInv
  <2>. QED BY <2>4, <2>5, <2>6
<1>8. Cardinality(Taken(f)') <= Cardinality(Stores)
  BY <1>3, <1>5
<1>9. ASSUME NEW s \in Stores, NEW a \in Approvals, Finds(f, s, a)'
      PROVE  Cardinality(Taken(f)' \ {Row(a)}) < Cardinality(Stores)
  BY <1>3, <1>6, <1>9
<1>. QED BY <1>7, <1>8, <1>9 DEF DupInv, Row

\* An insertion puts a row in the place of its store.
LEMMA DupInsert ==
    ASSUME TypeOK, IsFiniteSet(Born), Cardinality(Stores) <= 2, NEW f, DupInv(f),
           NEW x \in Stores, SaveInsert(x), call[x].fp = f
    PROVE  DupInv(f)'
<1>1. PICK b \in Approvals : /\ rows[b] = Unborn
                             /\ rows' = [rows EXCEPT ![b] = Created(call[x].fp, call[x].policy, call[x].at, TTL)]
  BY DEF SaveInsert
<1>2. /\ call'[x].phase = "idle" /\ call[x].phase = "insert" /\ now' = now
      /\ \A s \in Stores : s # x => call'[s] = call[s]
      /\ \A a \in Approvals : a # b => rows'[a] = rows[a]
  BY <1>1 DEF SaveInsert, Return, Idle, TypeOK
<1>3. IsFiniteSet(Taken(f)) /\ Cardinality(Taken(f)) \in Nat /\ Cardinality(Stores) \in Nat
  BY TakenIsFinite
<1>4. Place(x) \in Taken(f)
  BY <1>2 DEF Taken, Places, Late
<1>5. Taken(f)' \subseteq (Taken(f) \ {Place(x)}) \cup {Row(b)}
  <2>1. ASSUME NEW a \in Live(f)' PROVE a = b \/ a \in Live(f)
    BY <1>2, <2>1 DEF Live, SamePending, PendingAt
  <2>2. ASSUME NEW s \in Stores, Late(f, s)' PROVE s # x /\ (Late(f, s) \/ s = x)
    <3>1. s # x
      BY <1>2, <2>2 DEF Late
    <3>2. CASE call[s].phase \in {"count", "insert"}
      BY <1>2, <2>2, <3>1, <3>2 DEF Late
    <3>3. CASE call[s].phase = "reuse"
      <4>1. call[s].fp = f /\ ~Present(call[s].id)'
        BY <1>2, <2>2, <3>1, <3>3 DEF Late
      <4>2. ~Present(call[s].id)
        <5>1. rows[call[s].id] = rows'[call[s].id] \/ call[s].id = b \/ call[s].id \notin Approvals
          BY <1>2
        <5>2. call'[s].id = call[s].id
          BY <1>2, <3>1
        <5>3. ~Present(b)
          BY <1>1, StateOfAbsent DEF Present
        <5>4. CASE call[s].id \notin Approvals
          <6>1. rows'[call[s].id] = rows[call[s].id]
            BY <1>1, <5>4 DEF TypeOK
          <6>. QED BY <4>1, <5>2, <6>1 DEF Present
        <5>. QED BY <4>1, <5>1, <5>2, <5>3, <5>4 DEF Present
      <4>. QED BY <3>1, <3>3, <4>1, <4>2 DEF Late
    <3>. QED BY <1>2, <2>2, <3>1, <3>2, <3>3 DEF Late
  <2>. QED BY <2>1, <2>2, TagsDiffer DEF Taken, RowsOf, Places, Row, Place
<1>6. Cardinality(Taken(f)') <= Cardinality(Stores)
  <2>1. IsFiniteSet(Taken(f) \ {Place(x)}) /\ Cardinality(Taken(f) \ {Place(x)}) = Cardinality(Taken(f)) - 1
    BY <1>3, <1>4, OneLess
  <2>2. /\ IsFiniteSet((Taken(f) \ {Place(x)}) \cup {Row(b)})
        /\ Cardinality((Taken(f) \ {Place(x)}) \cup {Row(b)}) <= Cardinality(Taken(f) \ {Place(x)}) + 1
    BY <2>1, OneMore
  <2>3. /\ Cardinality(Taken(f)') \in Nat /\ Cardinality((Taken(f) \ {Place(x)}) \cup {Row(b)}) \in Nat
        /\ Cardinality(Taken(f)') <= Cardinality((Taken(f) \ {Place(x)}) \cup {Row(b)})
    BY <1>5, <2>2, SmallerSet
  <2>4. Cardinality(Taken(f)) <= Cardinality(Stores)
    BY DEF DupInv
  <2>. QED BY <1>3, <2>1, <2>2, <2>3, <2>4
<1>7. ASSUME NEW s \in Stores, NEW a \in Approvals, Finds(f, s, a)'
      PROVE  s # x /\ (a = b \/ Finds(f, s, a))
  <2>1. s # x
    BY <1>2, <1>7 DEF Finds, Looks
  <2>2. a # b => Finds(f, s, a)
    BY <1>2, <1>7, <2>1 DEF Finds, Looks, Present, ClockOf, SamePending, PendingAt
  <2>. QED BY <2>1, <2>2
<1>8. ASSUME NEW s \in Stores, NEW a \in Approvals, Finds(f, s, a)'
      PROVE  Cardinality(Taken(f)' \ {Row(a)}) < Cardinality(Stores)
  <2>1. CASE a = b
    <3>1. IsFiniteSet(Taken(f) \ {Place(x)}) /\ Cardinality(Taken(f) \ {Place(x)}) = Cardinality(Taken(f)) - 1
      BY <1>3, <1>4, OneLess
    <3>2. Taken(f)' \ {Row(a)} \in SUBSET (Taken(f) \ {Place(x)})
      BY <1>5, <2>1
    <3>3. /\ Cardinality(Taken(f)' \ {Row(a)}) \in Nat
          /\ Cardinality(Taken(f)' \ {Row(a)}) <= Cardinality(Taken(f) \ {Place(x)})
      BY <3>1, <3>2, SmallerSet
    <3>4. Cardinality(Taken(f)) <= Cardinality(Stores)
      BY DEF DupInv
    <3>. QED BY <1>3, <3>1, <3>3, <3>4
  <2>2. CASE a # b
    <3>. DEFINE T == Taken(f) \ {Row(a)}
    <3>1. Cardinality(T) < Cardinality(Stores)
      BY <1>7, <1>8, <2>2 DEF DupInv
    <3>2. IsFiniteSet(T) /\ Cardinality(T) \in Nat /\ Place(x) \in T
      BY <1>3, <1>4, SmallerSet, TagsDiffer
    <3>3. Taken(f)' \ {Row(a)} \in SUBSET ((T \ {Place(x)}) \cup {Row(b)})
      BY <1>5
    <3>. HIDE DEF T
    <3>4. IsFiniteSet(T \ {Place(x)}) /\ Cardinality(T \ {Place(x)}) = Cardinality(T) - 1
      BY <3>2, OneLess
    <3>5. /\ IsFiniteSet((T \ {Place(x)}) \cup {Row(b)})
          /\ Cardinality((T \ {Place(x)}) \cup {Row(b)}) <= Cardinality(T \ {Place(x)}) + 1
      BY <3>4, OneMore
    <3>6. /\ Cardinality(Taken(f)' \ {Row(a)}) \in Nat /\ Cardinality((T \ {Place(x)}) \cup {Row(b)}) \in Nat
          /\ Cardinality(Taken(f)' \ {Row(a)}) <= Cardinality((T \ {Place(x)}) \cup {Row(b)})
      BY <3>3, <3>5, SmallerSet
    <3>. QED BY <1>3, <3>1, <3>2, <3>4, <3>5, <3>6
  <2>. QED BY <2>1, <2>2
<1>9. ASSUME NEW s \in Stores, NEW o \in Stores, NEW a \in Approvals, o # s, Looks(f, s)', Finds(f, o, a)'
      PROVE  FALSE
  <2>1. s # x /\ o # x
    BY <1>2, <1>7, <1>9 DEF Looks
  <2>. QED BY <1>9, <2>1, NoThirdStore
<1>. QED BY <1>6, <1>8, <1>9 DEF DupInv, Row

\* A store that finds none has its place: there are no live ones.
LEMMA DupMiss ==
    ASSUME TypeOK, ClockInv, IsFiniteSet(Born), Cardinality(Stores) <= 2, NEW f,
           NEW x \in Stores, SaveDedup(x), call[x].fp = f, call'[x].phase = "count"
    PROVE  DupInv(f)'
<1>1. call[x] \in Call /\ call[x].phase = "dedup"
  BY DEF TypeOK, SaveDedup
<1>2. /\ rows' = rows /\ now' = now /\ \A s \in Stores : s # x => call'[s] = call[s]
      /\ SamePending(f, ClockOf(x)) = {}
  <2>1. \A a : call' # [call EXCEPT ![x] = [@ EXCEPT !.phase = "reuse", !.ts = ClockOf(x), !.id = a]]
    BY <1>1 DEF TypeOK, Call
  <2>. QED BY <2>1 DEF SaveDedup, TypeOK
<1>3. Live(f)' = {}
  <2>1. SamePending(f, now) \subseteq SamePending(f, ClockOf(x))
    BY ClockTypes, LaterIsLess
  <2>2. Live(f)' = Live(f)
    BY <1>2 DEF Live, SamePending, PendingAt
  <2>. QED BY <1>2, <2>1, <2>2 DEF Live
<1>4. IsFiniteSet(Stores) /\ Cardinality(Stores) \in Nat
  BY StoreAssumption, FS_CardinalityType
<1>. DEFINE L == {s \in Stores : Late(f, s)'}
<1>5. Taken(f)' = Places(L)
  BY <1>3 DEF Taken, RowsOf, Places, Place
<1>. HIDE DEF L
<1>6. ASSUME NEW S \in SUBSET Stores
      PROVE  IsFiniteSet(Places(S)) /\ Cardinality(Places(S)) \in Nat /\ Cardinality(Places(S)) <= Cardinality(S)
             /\ Cardinality(S) \in Nat /\ Cardinality(S) <= Cardinality(Stores)
  BY <1>4, SmallerSet, PlacesCount
<1>7. Cardinality(Taken(f)') <= Cardinality(Stores)
  BY <1>4, <1>5, <1>6 DEF L
<1>8. ASSUME NEW s \in Stores, NEW a \in Approvals, Finds(f, s, a)'
      PROVE  s # x /\ ~Late(f, s)'
  BY <1>8 DEF Finds, Looks, Late
<1>9. ASSUME NEW s \in Stores, NEW a \in Approvals, Finds(f, s, a)'
      PROVE  Cardinality(Taken(f)' \ {Row(a)}) < Cardinality(Stores)
  <2>1. L \in SUBSET (Stores \ {s}) /\ L \in SUBSET Stores
    BY <1>8, <1>9 DEF L
  <2>2. IsFiniteSet(Stores \ {s}) /\ Cardinality(Stores \ {s}) = Cardinality(Stores) - 1
    BY <1>4, OneLess
  <2>3. Cardinality(L) <= Cardinality(Stores \ {s}) /\ Cardinality(Places(L)) <= Cardinality(L)
        /\ Cardinality(L) \in Nat /\ Cardinality(Places(L)) \in Nat /\ IsFiniteSet(Places(L))
    BY <1>6, <2>1, <2>2, SmallerSet
  <2>4. /\ Cardinality(Places(L) \ {Row(a)}) \in Nat
        /\ Cardinality(Places(L) \ {Row(a)}) <= Cardinality(Places(L))
    BY <2>3, SmallerSet
  <2>. QED BY <1>4, <1>5, <2>2, <2>3, <2>4
<1>10. ASSUME NEW s \in Stores, NEW o \in Stores, NEW a \in Approvals, o # s, Looks(f, s)', Finds(f, o, a)'
       PROVE  FALSE
  <2>1. s # x /\ o # x
    BY <1>8, <1>10 DEF Looks
  <2>. QED BY <1>10, <2>1, NoThirdStore
<1>. QED BY <1>7, <1>9, <1>10 DEF DupInv, Row

\* A cleanup that deletes a row another store has found: that one goes on, and takes a place.
LEMMA DupDelete ==
    ASSUME Inv, ClockInv, FoundIsBorn, IsFiniteSet(Born), Cardinality(Stores) <= 2, [Next]_vars,
           NEW f, DupInv(f), NEW x \in Stores, SaveCleanup(x),
           NEW o \in Stores, call[o].fp = f, call[o].phase = "reuse", NEW b \in Approvals,
           b = call[o].id, Present(b), Deletes(b), rows[b].expiresAt <= ClockOf(x)
    PROVE  DupInv(f)'
<1>1. TypeOK /\ TypeOK' /\ IsFiniteSet(Taken(f)) /\ Cardinality(Taken(f)) \in Nat
      /\ Cardinality(Stores) \in Nat
      /\ \A t : IsFiniteSet(RowsOf(SamePending(f, t))) /\ Cardinality(RowsOf(SamePending(f, t))) \in Nat
  BY TypeStep, TakenIsFinite DEF Inv, TypeInv
<1>2. /\ call[x].phase = "cleanup" /\ call'[x] = [call[x] EXCEPT !.phase = "dedup"] /\ now' = now
      /\ \A s \in Stores : s # x => call'[s] = call[s]
      /\ o # x
  BY <1>1 DEF SaveCleanup, Goto, TypeOK
<1>3. call'[x].phase = "dedup" /\ call'[x].fp = call[x].fp /\ call'[x].at = call[x].at
  BY <1>1, <1>2 DEF TypeOK, Call
<1>4. \A s \in Stores : /\ ~\E p \in Policies : SaveBegin(s, f, p)
                        /\ ~(SaveInsert(s) /\ call[s].fp = f)
                        /\ ~(SaveDedup(s) /\ call[s].fp = f /\ call'[s].phase = "count")
  <2>1. \A s \in Stores : s = x \/ s = o
    BY <1>2, NoThirdStore
  <2>2. call'[o] = call[o] /\ call[o].phase = "reuse"
    BY <1>2
  <2>. QED BY <1>2, <2>1, <2>2 DEF SaveBegin, Start, SaveInsert, SaveDedup
<1>5. Finds(f, o, b)
  BY DEF Finds
<1>6. \A s \in Stores, a \in Approvals : Finds(f, s, a)' => s = x /\ Looks(f, x) /\ Finds(f, x, a)
  <2>. SUFFICES ASSUME NEW s \in Stores, NEW a \in Approvals, Finds(f, s, a)'
                PROVE  s = x /\ Looks(f, x) /\ Finds(f, x, a)
    OBVIOUS
  <2>1. ~Finds(f, o, a)'
    <3>1. call'[o].phase = "reuse" /\ call'[o].id = b
      BY <1>2
    <3>2. ~Present(b)'
      BY StateOfAbsent DEF Present, Deletes
    <3>3. CASE a = b
      BY <3>1, <3>2, <3>3 DEF Finds, Looks
    <3>4. CASE a # b
      BY <3>1, <3>4 DEF Finds, Looks
    <3>. QED BY <3>3, <3>4
  <2>2. s = x
    BY <1>2, <2>1, NoThirdStore
  <2>3. Finds(f, x, a)
    BY <1>4, <2>2, FindsKeep
  <2>. QED BY <1>2, <2>2, <2>3 DEF Finds, Looks
<1>7. Live(f)' \subseteq Live(f)
  <2>1. PICK t \in Nat : t = now
    BY <1>1 DEF TypeOK
  <2>2. Live(f)' = SamePending(f, t)' /\ Live(f) = SamePending(f, t)
    BY <1>2, <2>1 DEF Live, SamePending, PendingAt
  <2>. QED BY <1>4, <2>2, NewRows
<1>8. Taken(f)' \subseteq RowsOf(Live(f)') \cup (Taken(f) \cap Places(Stores)) \cup {Place(o)}
  <2>1. ASSUME NEW s \in Stores, Late(f, s)' PROVE s = o \/ Late(f, s)
    BY <1>3, <2>1, NoThirdStore, <1>2 DEF Late
  <2>. QED BY <2>1, TagsDiffer DEF Taken, RowsOf, Places, Row, Place
<1>9. Row(b) \notin Taken(f)'
  <2>1. b \notin Live(f)'
    BY DEF Live, SamePending, PendingAt, Deletes, Deleted, Absent
  <2>. QED BY <2>1, TagsDiffer DEF Taken, RowsOf, Places, Row, Place
<1>10. ASSUME NEW T, IsFiniteSet(T), Cardinality(T) \in Nat, Cardinality(T) < Cardinality(Stores),
              NEW U, U \subseteq T \cup {Place(o)}
       PROVE  Cardinality(U) <= Cardinality(Stores)
  <2>1. IsFiniteSet(T \cup {Place(o)}) /\ Cardinality(T \cup {Place(o)}) \in Nat
        /\ Cardinality(T \cup {Place(o)}) <= Cardinality(T) + 1
    BY <1>10, OneMore
  <2>2. Cardinality(U) \in Nat /\ Cardinality(U) <= Cardinality(T \cup {Place(o)})
    BY <1>10, <2>1, SmallerSet
  <2>. QED BY <1>1, <1>10, <2>1, <2>2
<1>11. Cardinality(Taken(f)') <= Cardinality(Stores)
  <2>1. /\ IsFiniteSet(Taken(f) \ {Row(b)}) /\ Cardinality(Taken(f) \ {Row(b)}) \in Nat
        /\ Cardinality(Taken(f) \ {Row(b)}) < Cardinality(Stores)
    BY <1>1, <1>5, SmallerSet DEF DupInv
  <2>2. Taken(f)' \subseteq (Taken(f) \ {Row(b)}) \cup {Place(o)}
    <3>1. RowsOf(Live(f)') \subseteq Taken(f)
      BY <1>7 DEF Taken, RowsOf
    <3>. QED BY <1>8, <1>9, <3>1
  <2>. QED BY <1>10, <2>1, <2>2
\* The other store sees rows that are not taken by this one.
<1>12. ASSUME NEW a \in Approvals, Looks(f, x), Finds(f, x, a)
       PROVE  Cardinality(Taken(f)' \ {Row(a)}) < Cardinality(Stores)
  <2>1. PICK t \in Nat : t = ClockOf(x)
    BY <1>1, ClockTypes
  <2>2. a \in SamePending(f, t)
    BY <1>2, <1>12, <2>1 DEF Finds
  <2>. DEFINE S == RowsOf(SamePending(f, t))
  <2>3. Cardinality(S) < Cardinality(Stores)
    <3>1. CASE x \in Frozen
      BY <1>2, <1>5, <1>12, <2>1, <3>1 DEF DupInv, ClockOf
    <3>2. CASE x \notin Frozen
      <4>1. t = now /\ rows[b].expiresAt <= now
        BY <2>1, <3>2 DEF ClockOf
      <4>2. rows[b].expiresAt \in Nat /\ now \in Nat
        BY <1>1, ClockTypes
      <4>3. b \notin Live(f)
        BY <4>1, <4>2 DEF Live, SamePending, PendingAt
      <4>4. Taken(f) \ {Row(b)} = Taken(f)
        BY <4>3, TagsDiffer DEF Taken, RowsOf, Places
      <4>5. Cardinality(Taken(f)) < Cardinality(Stores)
        BY <1>5, <4>4 DEF DupInv
      <4>6. S \in SUBSET Taken(f)
        BY <4>1 DEF Taken, Live
      <4>7. Cardinality(S) <= Cardinality(Taken(f)) /\ Cardinality(S) \in Nat
        BY <1>1, <4>6, SmallerSet
      <4>. QED BY <1>1, <4>5, <4>7
    <3>. QED BY <3>1, <3>2
  <2>4. IsFiniteSet(S) /\ Row(a) \in S
    BY <1>1, <2>2 DEF RowsOf
  <2>5. /\ IsFiniteSet(S \ {Row(a)}) /\ Cardinality(S) \in Nat /\ Cardinality(S \ {Row(a)}) \in Nat
        /\ Cardinality(S \ {Row(a)}) = Cardinality(S) - 1
    BY <2>4, OneLess
  <2>6. Taken(f)' \ {Row(a)} \subseteq (S \ {Row(a)}) \cup {Place(o)}
    <3>1. SamePending(f, now) \subseteq SamePending(f, t)
      BY <1>1, <2>1, ClockTypes, LaterIsLess
    <3>2. RowsOf(Live(f)') \subseteq S
      BY <1>7, <3>1 DEF RowsOf, Live
    <3>3. ASSUME NEW s \in Stores, Late(f, s)' PROVE s = o
      BY <1>2, <1>3, <3>3, NoThirdStore DEF Late
    <3>. QED BY <3>2, <3>3 DEF Taken, RowsOf, Places, Row, Place
  <2>. HIDE DEF S
  <2>7. /\ IsFiniteSet((S \ {Row(a)}) \cup {Place(o)})
        /\ Cardinality((S \ {Row(a)}) \cup {Place(o)}) <= Cardinality(S \ {Row(a)}) + 1
    BY <2>5, OneMore
  <2>8. /\ Cardinality(Taken(f)' \ {Row(a)}) \in Nat /\ Cardinality((S \ {Row(a)}) \cup {Place(o)}) \in Nat
        /\ Cardinality(Taken(f)' \ {Row(a)}) <= Cardinality((S \ {Row(a)}) \cup {Place(o)})
    BY <2>6, <2>7, SmallerSet
  <2>. QED BY <1>1, <2>3, <2>5, <2>7, <2>8
<1>13. \A s \in Stores, a \in Approvals :
          Finds(f, s, a)' => Cardinality(Taken(f)' \ {Row(a)}) < Cardinality(Stores)
  BY <1>6, <1>12
<1>14. ASSUME NEW s \in Stores, NEW q \in Stores, NEW a \in Approvals, q # s, Looks(f, s)', Finds(f, q, a)'
       PROVE  FALSE
  <2>1. q = x
    BY <1>6, <1>14
  <2>2. s # x /\ s # o
    BY <1>2, <1>14, <2>1 DEF Looks
  <2>. QED BY <1>2, <2>2, NoThirdStore
<1>. QED BY <1>11, <1>13, <1>14 DEF DupInv, Row

-----------------------------------------------------------------------------
LEMMA DupStep ==
    ASSUME Inv, Inv', ClockInv, ClockInv', FoundIsBorn, IsFiniteSet(Born), Cardinality(Stores) <= 2,
           [Next]_vars, NEW f, DupInv(f)
    PROVE  DupInv(f)'
<1>1. TypeOK /\ TypeOK' /\ now \in Nat /\ now' \in Nat /\ now <= now'
  BY ClockMoves DEF Inv, TypeInv, TypeOK
<1>2. CASE \E x \in Stores, p \in Policies : SaveBegin(x, f, p)
  BY <1>1, <1>2, DupBegin
<1>3. CASE \E x \in Stores : SaveInsert(x) /\ call[x].fp = f
  BY <1>1, <1>3, DupInsert
<1>4. CASE \E x \in Stores : SaveDedup(x) /\ call[x].fp = f /\ call'[x].phase = "count"
  BY <1>1, <1>4, DupMiss
<1>5. CASE \E o \in Stores : /\ call[o].fp = f /\ call[o].phase = "reuse" /\ call[o].id \in Approvals
                            /\ Present(call[o].id) /\ Deletes(call[o].id)
  <2>1. PICK o \in Stores, b \in Approvals :
            /\ call[o].fp = f /\ call[o].phase = "reuse" /\ b = call[o].id
            /\ Present(b) /\ Deletes(b)
    BY <1>5
  <2>2. PICK x \in Stores : SaveCleanup(x) /\ rows[b].expiresAt <= ClockOf(x)
    BY <1>1, <2>1, OnlyCleanupDeletes
  <2>. QED BY <2>1, <2>2, DupDelete
<1>6. CASE /\ ~\E x \in Stores, p \in Policies : SaveBegin(x, f, p)
           /\ ~\E x \in Stores : SaveInsert(x) /\ call[x].fp = f
           /\ ~\E x \in Stores : SaveDedup(x) /\ call[x].fp = f /\ call'[x].phase = "count"
           /\ ~\E o \in Stores : /\ call[o].fp = f /\ call[o].phase = "reuse" /\ call[o].id \in Approvals
                                 /\ Present(call[o].id) /\ Deletes(call[o].id)
  <2>1. \A s \in Stores : Late(f, s)' => Late(f, s)
    BY <1>6, LateKeeps
  <2>2. \A t : SamePending(f, t)' \subseteq SamePending(f, t)
    BY <1>6, NewRows
  <2>3. Live(f)' \subseteq Live(f)
    <3>1. PICK t \in Nat : t = now'
      BY <1>1
    <3>2. Live(f)' = SamePending(f, t)'
      BY <3>1 DEF Live, SamePending, PendingAt
    <3>3. SamePending(f, t) \subseteq Live(f)
      BY <1>1, <3>1, LaterIsLess DEF Live
    <3>. QED BY <2>2, <3>2, <3>3
  <2>4. Taken(f)' \subseteq Taken(f)
    BY <2>1, <2>3 DEF Taken, RowsOf, Places, Row, Place
  <2>5. \A s \in Stores, a \in Approvals :
            Finds(f, s, a)' => Finds(f, s, a) /\ rows'[a].expiresAt = rows[a].expiresAt
    BY <1>6, FindsKeep
  <2>6. \A s \in Stores : Looks(f, s)' => Looks(f, s) /\ call'[s].at = call[s].at
    BY <1>1, <1>6, SavingKeeps
  <2>7. \A t \in Nat : RowsOf(SamePending(f, t))' \subseteq RowsOf(SamePending(f, t))
    BY <2>2 DEF RowsOf, Row
  <2>. QED BY <1>1, <2>4, <2>5, <2>6, <2>7, DupFrame
<1>. QED BY <1>2, <1>3, <1>4, <1>5, <1>6

LEMMA FoundStep ==
    ASSUME Inv, FoundIsBorn, [Next]_vars
    PROVE  FoundIsBorn'
<1>. SUFFICES ASSUME NEW s \in Stores, call'[s].phase = "reuse" PROVE rows'[call'[s].id] # Unborn
  BY DEF FoundIsBorn, Unborn, Absent
<1>1. PICK f : f = call'[s].fp
  OBVIOUS
<1>2. TypeOK
  BY DEF Inv, TypeInv
<1>3. \/ call'[s] = call[s]
      \/ SaveDedup(s) /\ Looks(f, s) /\ call'[s].id \in SamePending(f, ClockOf(s))
  <2>1. ~\E p \in Policies : SaveBegin(s, f, p)
    BY <1>2 DEF SaveBegin, Start, TypeOK
  <2>. QED BY <1>1, <1>2, <2>1, SavingKeeps
<1>4. CASE call'[s] = call[s]
  <2>1. PICK b \in Approvals : b = call[s].id
    BY <1>4 DEF Inv, TypeInv, CallOK, RowPhases
  <2>2. rows[b] # Unborn
    BY <1>4, <2>1 DEF FoundIsBorn
  <2>. QED BY <1>4, <2>1, <2>2, BornStays
<1>5. CASE SaveDedup(s) /\ Looks(f, s) /\ call'[s].id \in SamePending(f, ClockOf(s))
  <2>1. rows' = rows /\ rows[call'[s].id].state = "PENDING"
    BY <1>5 DEF SaveDedup, SamePending, PendingAt
  <2>. QED BY <2>1 DEF Unborn, Absent
<1>. QED BY <1>3, <1>4, <1>5

LEMMA DupStart == Init => DupHolds
<1>. SUFFICES ASSUME Init PROVE DupHolds
  OBVIOUS
<1>1. FoundIsBorn
  BY DEF Init, FoundIsBorn, Idle
<1>2. ASSUME NEW f PROVE DupInv(f)
  <2>1. \A s \in Stores : ~Late(f, s) /\ ~Looks(f, s) /\ \A a : ~Finds(f, s, a)
    BY DEF Init, Idle, Late, Looks, Finds
  <2>2. Taken(f) = {}
    BY <2>1 DEF Init, Taken, Live, SamePending, PendingAt, RowsOf, Places, Unborn, Absent
  <2>3. Cardinality(Taken(f)) <= Cardinality(Stores)
    BY <2>2, StoreAssumption, FS_EmptySet, FS_CardinalityType
  <2>. QED BY <2>1, <2>3 DEF DupInv
<1>. QED BY <1>1, <1>2 DEF DupHolds

\* An identical request is pending at most once when one instance saves, and at most twice
\* when two do: save_pending deduplicates and inserts in two statements, and what it found
\* may be deleted between them.
THEOREM DuplicatesAreBounded == Spec => []DuplicatesBounded
<1>1. Inv /\ Inv' /\ ClockInv /\ ClockInv' /\ QuotaInv /\ DupHolds /\ [Next]_vars => DupHolds'
  BY FoundStep, DupStep DEF DupHolds, QuotaInv
<1>2. QuotaInv /\ DupHolds => DuplicatesBounded
  <2>. SUFFICES ASSUME QuotaInv, DupHolds, Cardinality(Stores) <= 2, NEW f \in Fingerprints
                PROVE  Cardinality(SamePending(f, now)) <= Cardinality(Stores)
    BY DEF DuplicatesBounded
  <2>1. /\ IsFiniteSet(Taken(f)) /\ Cardinality(Taken(f)) \in Nat /\ Cardinality(Stores) \in Nat
        /\ IsFiniteSet(SamePending(f, now))
    <3>1. IsFiniteSet(Born)
      BY DEF QuotaInv
    <3>2. SamePending(f, now) \in SUBSET Born
      BY DEF SamePending, PendingAt, Born, Unborn, Absent
    <3>. QED BY <3>1, <3>2, TakenIsFinite, SmallerSet
  <2>2. Cardinality(RowsOf(Live(f))) <= Cardinality(Taken(f))
    BY <2>1, SmallerSet DEF Taken
  <2>3. /\ Cardinality(RowsOf(Live(f))) \in Nat
        /\ Cardinality(RowsOf(Live(f))) = Cardinality(SamePending(f, now))
    BY <2>1, RowsCount DEF Live
  <2>4. Cardinality(Taken(f)) <= Cardinality(Stores)
    BY DEF DupHolds, DupInv
  <2>. QED BY <2>1, <2>2, <2>3, <2>4
<1>. QED BY <1>1, <1>2, InvHolds, ClockInit, ClockStep, QuotaInit, QuotaStep, DupStart, PTL DEF Spec
=============================================================================
