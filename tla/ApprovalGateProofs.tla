-------------------------- MODULE ApprovalGateProofs ---------------------------
(***************************************************************************)
(* Theorems about ApprovalGate, for any number of gates, threads, hooks,   *)
(* approvals and policies.                                                 *)
(***************************************************************************)
EXTENDS ApprovalGate, TLAPS

-----------------------------------------------------------------------------
(***************************************************************************)
(* What the helpers do to call.                                            *)
(***************************************************************************)
Calls == [Workers -> Call]

LEMMA GotoMoves ==
    ASSUME NEW w \in Workers, NEW pc \in Phases, call \in Calls, Goto(w, pc)
    PROVE  /\ call' \in Calls
           /\ call'[w].pc = pc
           /\ call'[w].id = call[w].id
           /\ \A v \in Workers \ {w} : call'[v] = call[v]
<1>1. call[w] \in Call
  BY DEF Calls
<1>2. call' = [call EXCEPT ![w] = [call[w] EXCEPT !.pc = pc]]
  BY DEF Goto, Calls
<1>3. [call[w] EXCEPT !.pc = pc] \in Call
  BY <1>1 DEF Call
<1> QED
  BY <1>1, <1>2, <1>3 DEF Calls, Call

LEMMA IdleIsCall == Idle \in Call
  BY DEF Idle, Call, Phases, Store!Stages

LEMMA LeaveMoves ==
    ASSUME NEW w \in Workers, call \in Calls, Leave(w)
    PROVE  /\ call' \in Calls
           /\ call'[w] = Idle
           /\ \A v \in Workers \ {w} : call'[v] = call[v]
  BY IdleIsCall DEF Leave, Calls

LEMMA PublishTypes ==
    ASSUME NEW w, NEW p \in Policies \cup {None}, quiet \subseteq Workers, Publish(w, p)
    PROVE  storePolicy' \in Policies \cup {None} /\ quiet' \subseteq Workers
  BY DEF Publish

-----------------------------------------------------------------------------
(***************************************************************************)
(* A step is one of these.                                                 *)
(***************************************************************************)
\* The store's steps keep its types.
LEMMA StoreTypes ==
    ASSUME Store!TypeOK, NEW a \in Approvals,
           \/ Store!Submit(a) \/ Store!Approve(a) \/ Store!Reject(a)
           \/ Store!Invalidate(a) \/ Store!Consume(a) \/ Store!Use(a)
    PROVE  Store!TypeOK'
  BY DEF Store!TypeOK, Store!Submit, Store!Approve, Store!Reject, Store!Invalidate,
         Store!Consume, Store!Use, Store!Move, Store!Stages

\* A worker at one of these phases works on an approval.
Bound == {"get", "shared", "own", "invalidate", "consume", "return", "run", "digest"}

HasApproval == \A w \in Workers : call[w].pc \in Bound => call[w].id \in Approvals

Types == TypeOK /\ HasApproval

LEMMA InitTypes == Init => Types
<1> SUFFICES ASSUME Init PROVE Types
  OBVIOUS
<1>1. call \in Calls
  BY IdleIsCall DEF Init, Calls
<1>2. gate \in [Gates -> Gate]
  BY DEF Init, Down, Gate, Statuses
<1>3. Store!TypeOK
  BY DEF Init, Store!Init, Store!TypeOK, Store!Stages
<1> QED
  BY <1>1, <1>2, <1>3 DEF Init, Types, TypeOK, HasApproval, Bound, Idle, Calls

\* What a step of worker w that moves only w's phase must show.
LEMMA PhaseMoves ==
    ASSUME Types, NEW w \in Workers, NEW pc \in Phases, Goto(w, pc),
           pc \in Bound => call[w].pc \in Bound
    PROVE  call' \in Calls /\ HasApproval'
<1>1. call' \in Calls /\ call'[w].pc = pc /\ call'[w].id = call[w].id
      /\ \A v \in Workers \ {w} : call'[v] = call[v]
  BY GotoMoves DEF Types, TypeOK, Calls
<1> QED
  BY <1>1 DEF Types, HasApproval

LEMMA LeaveKeeps ==
    ASSUME Types, NEW w \in Workers, Leave(w)
    PROVE  call' \in Calls /\ HasApproval'
<1>1. call' \in Calls /\ call'[w] = Idle /\ \A v \in Workers \ {w} : call'[v] = call[v]
  BY LeaveMoves DEF Types, TypeOK, Calls
<1>2. Idle.pc \notin Bound
  BY DEF Idle, Bound
<1> QED
  BY <1>1, <1>2 DEF Types, HasApproval

LEMMA BecomesKeeps ==
    ASSUME Types, NEW w \in Workers, NEW c \in Call, call' = [call EXCEPT ![w] = c],
           c.pc \in Bound => c.id \in Approvals
    PROVE  call' \in Calls /\ HasApproval'
<1>1. /\ call' \in Calls /\ call'[w] = c
      /\ \A v \in Workers \ {w} : call'[v] = call[v]
  BY DEF Types, TypeOK, Calls
<1> QED
  BY <1>1 DEF Types, HasApproval

LEMMA GateTypes ==
    ASSUME Types, NEW g \in Gates
    PROVE  /\ gate[g].policy \in Policies \cup {None}
           /\ gate[g].prov \in Policies \cup {None}
           /\ \A s \in Statuses : [gate EXCEPT ![g].status = s] \in [Gates -> Gate]
           /\ \A p \in Policies \cup {None} : /\ [gate EXCEPT ![g].policy = p] \in [Gates -> Gate]
                                               /\ [gate EXCEPT ![g].prov = p] \in [Gates -> Gate]
  BY DEF Types, TypeOK, Gate

LEMMA WorkerPolicies ==
    ASSUME Types, NEW w \in Workers
    PROVE  ProvOf(w) \in Policies \cup {None}
  BY GateTypes, GateAssumption DEF ProvOf, Types, TypeOK, Call, Workers

(***************************************************************************)
(* Types, action by action.                                                *)
(***************************************************************************)
LEMMA GateStep ==
    ASSUME Types, NEW g \in Gates, Start(g) \/ Sync(g) \/ Seed(g) \/ Stop(g)
    PROVE  Types'
<1> USE DEF Types, TypeOK
<1>1. CASE Start(g)
  <2>1. gate' \in [Gates -> Gate]
    BY <1>1 DEF Start, Gate, Statuses
  <2> QED
    BY <1>1, <2>1 DEF Start, store, HasApproval, Store!TypeOK
<1>2. CASE Sync(g)
  <2>1. gate' \in [Gates -> Gate]
    BY <1>2, GateTypes DEF Sync, Statuses
  <2>2. storePolicy' \in Policies \cup {None} /\ quiet' \subseteq Workers
    BY <1>2, GateTypes, PublishTypes DEF Sync
  <2> QED
    BY <1>2, <2>1, <2>2 DEF Sync, store, HasApproval, Store!TypeOK
<1>3. CASE Seed(g)
  <2>1. gate' \in [Gates -> Gate]
    BY <1>3, GateTypes DEF Seed, Statuses
  <2>2. storePolicy' \in Policies \cup {None} /\ quiet' \subseteq Workers
    BY <1>3, GateTypes, PublishTypes DEF Seed
  <2> QED
    BY <1>3, <2>1, <2>2 DEF Seed, store, HasApproval, Store!TypeOK
<1>4. CASE Stop(g)
  <2>1. gate' \in [Gates -> Gate]
    BY <1>4 DEF Stop, Down, Gate, Statuses
  <2>2. call' \in [Workers -> Call]
    BY <1>4, IdleIsCall DEF Stop
  <2>3. HasApproval'
    BY <1>4 DEF Stop, HasApproval, Idle, Bound
  <2> QED
    BY <1>4, <2>1, <2>2, <2>3 DEF Stop, store, Store!TypeOK
<1> QED
  BY <1>1, <1>2, <1>3, <1>4

LEMMA ReloadStep ==
    ASSUME Types, NEW w \in Threads, Reload(w)
    PROVE  Types'
<1> USE DEF Types, TypeOK
<1> DEFINE g == GateOf[w]
<1>0. w \in Workers /\ g \in Gates
  BY GateAssumption DEF Workers
<1>1. CASE ReloadPolicy(w)
  <2>1. gate' \in [Gates -> Gate]
    BY <1>0, <1>1, GateTypes DEF ReloadPolicy
  <2> DEFINE c == [Idle EXCEPT !.pc = "reloadProvenance", !.policy = file]
  <2>2. c \in Call /\ c.pc \notin Bound
    BY DEF Idle, Call, Phases, Store!Stages, Bound
  <2>3. call' = [call EXCEPT ![w] = c]
    BY <1>1 DEF ReloadPolicy
  <2>4. call' \in Calls /\ HasApproval'
    <3> HIDE DEF c
    <3> QED BY <1>0, <2>2, <2>3, BecomesKeeps
  <2> QED
    BY <1>1, <2>1, <2>4 DEF ReloadPolicy, store, Calls, Store!TypeOK
<1>2. CASE ReloadProvenance(w)
  <2>1. call[w].policy \in Policies \cup {None}
    BY <1>0 DEF Call
  <2>2. gate' \in [Gates -> Gate]
    BY <1>0, <1>2, <2>1, GateTypes DEF ReloadProvenance
  <2>3. call' \in Calls /\ HasApproval'
    BY <1>0, <1>2, PhaseMoves, LeaveKeeps DEF ReloadProvenance, Phases, Bound
  <2> QED
    BY <1>2, <2>2, <2>3 DEF ReloadProvenance, store, Calls, Store!TypeOK
<1>3. CASE ReloadStore(w)
  <2>1. call[w].policy \in Policies \cup {None}
    BY <1>0 DEF Call
  <2>2. storePolicy' \in Policies \cup {None} /\ quiet' \subseteq Workers
    BY <1>3, <2>1, PublishTypes DEF ReloadStore
  <2>3. call' \in Calls /\ HasApproval'
    BY <1>0, <1>3, LeaveKeeps DEF ReloadStore
  <2> QED
    BY <1>3, <2>2, <2>3 DEF ReloadStore, store, Calls, Store!TypeOK
<1> QED
  BY <1>1, <1>2, <1>3 DEF Reload

LEMMA EnterStep ==
    ASSUME Types, NEW w \in Workers, NEW f \in Fingerprints,
           \/ Request(w, f) \/ HookBegin(w, f)
           \/ \E a \in Approvals : Retry(w, f, a)
    PROVE  Types'
<1>1. PICK c \in Call : Enter(w, c) /\ (c.pc \in Bound => c.id \in Approvals)
  <2> DEFINE save  == [Idle EXCEPT !.pc = "save", !.fp = f]
             got(a) == [Idle EXCEPT !.pc = "get", !.fp = f, !.id = a]
             begun == [Idle EXCEPT !.pc = "publish", !.fp = f, !.policy = file]
  <2>1. save \in Call /\ save.pc \notin Bound
    BY DEF Phases, Bound, Idle, Call, Store!Stages
  <2>2. \A a \in Approvals : got(a) \in Call /\ got(a).id = a
    BY DEF Phases, Idle, Call, Store!Stages
  <2>3. begun \in Call /\ begun.pc \notin Bound
    BY DEF Phases, Bound, Idle, Call, Store!Stages, Types, TypeOK
  <2>4. \/ Enter(w, save) \/ Enter(w, begun)
        \/ \E a \in Approvals : Enter(w, got(a))
    BY DEF Request, HookBegin, Retry, Granted
  <2> HIDE DEF save, got, begun
  <2> QED
    BY <2>1, <2>2, <2>3, <2>4
<1>2. call' \in Calls /\ HasApproval'
  BY <1>1, BecomesKeeps DEF Enter
<1>3. quiet' \subseteq Workers
  BY <1>1 DEF Enter, Types, TypeOK
<1>4. UNCHANGED <<store, bound, storePolicy, file, gate, runs, kindOf>>
  BY DEF Request, HookBegin, Retry
<1> QED
  BY <1>2, <1>3, <1>4 DEF Types, TypeOK, Calls, store, Store!TypeOK

\* The store operations, each on the approval the worker has.
LEMMA StoreStep ==
    ASSUME Types, NEW w \in Workers,
           Save(w) \/ Invalidate(w) \/ Consume(w) \/ Returned(w)
    PROVE  Types'
<1> USE DEF Types, TypeOK
<1>1. CASE Save(w)
  <2>1. call' \in Calls /\ HasApproval'
    BY <1>1, LeaveKeeps DEF Save
  <2>2. Store!TypeOK'
    BY <1>1, StoreTypes DEF Save, store, Store!TypeOK
  <2>3. bound' \in [Approvals -> [fp : Fingerprints \cup {None}, policy : Policies \cup {None}]]
    <3>1. call[w].fp \in Fingerprints \cup {None}
      BY DEF Call
    <3> QED
      BY <1>1, <3>1, WorkerPolicies DEF Save
  <2> QED
    BY <1>1, <2>1, <2>2, <2>3 DEF Save, Calls
<1>2. ASSUME call[w].pc \in {"invalidate", "consume", "return"} PROVE call[w].id \in Approvals
  BY <1>2 DEF HasApproval, Bound
<1>3. CASE Invalidate(w)
  <2>1. call' \in Calls /\ HasApproval'
    BY <1>3, LeaveKeeps, PhaseMoves DEF Invalidate, Phases, Bound
  <2>2. Store!TypeOK'
    BY <1>2, <1>3, StoreTypes DEF Invalidate, store, Store!TypeOK
  <2> QED
    BY <1>3, <2>1, <2>2 DEF Invalidate, Calls
<1>4. CASE Consume(w)
  <2>1. call' \in Calls /\ HasApproval'
    BY <1>4, PhaseMoves DEF Consume, Phases, Bound
  <2>2. Store!TypeOK'
    BY <1>2, <1>4, StoreTypes DEF Consume
  <2> QED
    BY <1>4, <2>1, <2>2 DEF Consume, Calls
<1>5. CASE Returned(w)
  <2>1. call' \in Calls /\ HasApproval'
    BY <1>5, PhaseMoves DEF Returned, Phases, Bound
  <2>2. Store!TypeOK'
    BY <1>2, <1>5, StoreTypes DEF Returned
  <2> QED
    BY <1>5, <2>1, <2>2 DEF Returned, Calls
<1> QED
  BY <1>1, <1>3, <1>4, <1>5

\* The steps that move a worker's phase and no more.
LEMMA CheckStep ==
    ASSUME Types, NEW w \in Workers,
           \/ Get(w) \/ CheckShared(w) \/ CheckOwn(w) \/ LoseRace(w)
           \/ Fail(w) \/ HookLookup(w) \/ HookDigest(w)
    PROVE  Types'
<1>1. call' \in Calls /\ HasApproval'
  <2>1. CASE Leave(w)
    BY <2>1, LeaveKeeps
  <2>2. CASE CheckShared(w)
    BY <2>1, <2>2, PhaseMoves DEF CheckShared, Refuse, Phases, Bound
  <2>3. CASE CheckOwn(w)
    BY <2>1, <2>3, PhaseMoves DEF CheckOwn, Refuse, Phases, Bound
  <2>4. CASE LoseRace(w)
    BY <2>4, PhaseMoves DEF LoseRace, Phases, Bound
  <2>5. CASE HookDigest(w)
    BY <2>5, PhaseMoves DEF HookDigest, Phases, Bound
  <2>6. CASE Get(w)
    <3> DEFINE c == [call[w] EXCEPT !.pc = "shared", !.seen = life[call[w].id]]
    <3>1. call[w] \in Call /\ call[w].id \in Approvals
      BY <2>6 DEF Get, Types, TypeOK, HasApproval, Bound
    <3>2. c \in Call /\ c.id = call[w].id
      BY <3>1 DEF Call, Phases, Types, TypeOK, Store!TypeOK, Store!Stages
    <3>3. Leave(w) \/ call' = [call EXCEPT ![w] = c]
      BY <2>6 DEF Get, Types, TypeOK
    <3> HIDE DEF c
    <3> QED
      BY <2>1, <3>1, <3>2, <3>3, BecomesKeeps
  <2>7. CASE HookLookup(w)
    <3> DEFINE c(a) == [call[w] EXCEPT !.pc = "digest", !.id = a, !.seen = "APPROVED"]
    <3>1. \A a \in Approvals : c(a) \in Call /\ c(a).id \in Approvals
      BY DEF Call, Phases, Types, TypeOK, Store!Stages
    <3>2. \/ Goto(w, "save")
          \/ \E a \in Approvals : call' = [call EXCEPT ![w] = c(a)]
      BY <2>7 DEF HookLookup, Granted, Types, TypeOK
    <3> HIDE DEF c
    <3>3. CASE Goto(w, "save")
      BY <3>3, PhaseMoves DEF Phases, Bound
    <3> QED
      BY <3>1, <3>2, <3>3, BecomesKeeps
  <2> QED
    BY <2>1, <2>2, <2>3, <2>4, <2>5, <2>6, <2>7 DEF Fail
<1>2. UNCHANGED <<store, bound, storePolicy, file, gate, runs, quiet, kindOf>>
  BY DEF Get, CheckShared, CheckOwn, LoseRace, Fail, HookLookup, HookDigest
<1> QED
  BY <1>1, <1>2 DEF Types, TypeOK, Calls, store, Store!TypeOK

LEMMA OtherStep ==
    ASSUME Types,
           \/ \E p \in Policies : Edit(p)
           \/ \E a \in Approvals : Decide(a)
           \/ \E S \in SUBSET Approvals : Expire(S)
           \/ \E w \in Workers : Run(w) \/ HookPublish(w)
           \/ UNCHANGED vars
    PROVE  Types'
<1> USE DEF Types, TypeOK
<1>1. ASSUME NEW p \in Policies, Edit(p) PROVE Types'
  BY <1>1 DEF Edit, store, HasApproval, Store!TypeOK
<1>2. ASSUME NEW a \in Approvals, Decide(a) PROVE Types'
  BY <1>2, StoreTypes DEF Decide, HasApproval
<1>3. ASSUME NEW S \in SUBSET Approvals, Expire(S) PROVE Types'
  BY <1>3 DEF Expire, HasApproval, Store!Forget, Store!TypeOK, Store!Stages
<1>4. ASSUME NEW w \in Workers, Run(w) PROVE Types'
  <2>1. call' \in Calls /\ HasApproval'
    BY <1>4, LeaveKeeps DEF Run
  <2>2. runs' \in [Approvals -> Nat]
    <3>1. call[w].id \in Approvals
      BY <1>4 DEF Run, HasApproval, Bound
    <3> QED
      BY <1>4, <3>1 DEF Run
  <2> QED
    BY <1>4, <2>1, <2>2 DEF Run, Calls, store, Store!TypeOK
<1>5. ASSUME NEW w \in Workers, HookPublish(w) PROVE Types'
  <2>1. call' \in Calls /\ HasApproval'
    BY <1>5, PhaseMoves DEF HookPublish, Phases, Bound
  <2>2. call[w].policy \in Policies \cup {None}
    BY DEF Call
  <2>3. storePolicy' \in Policies \cup {None} /\ quiet' \subseteq Workers
    BY <1>5, <2>2, PublishTypes DEF HookPublish
  <2> QED
    BY <1>5, <2>1, <2>3 DEF HookPublish, Calls, store, Store!TypeOK
<1>6. CASE UNCHANGED vars
  BY <1>6 DEF vars, store, HasApproval, Store!TypeOK
<1> QED
  BY <1>1, <1>2, <1>3, <1>4, <1>5, <1>6

LEMMA TypeStep == Types /\ [Next]_vars => Types'
<1> SUFFICES ASSUME Types, [Next]_vars PROVE Types'
  OBVIOUS
<1>1. ASSUME NEW w \in Workers, Work(w) PROVE Types'
  BY <1>1, EnterStep, StoreStep, CheckStep, OtherStep DEF Work
<1> QED
  BY <1>1, GateStep, ReloadStep, OtherStep DEF Next

\* Every variable of the gates keeps to its type, and a worker that checks,
\* consumes or executes always has an approval to do it with.
THEOREM GateTypeCorrect == Spec => []TypeOK
<1>1. Spec => []Types
  BY InitTypes, TypeStep, PTL DEF Spec
<1> QED
  BY <1>1, PTL DEF Types

-----------------------------------------------------------------------------
(***************************************************************************)
(* No approval executes twice.                                             *)
(***************************************************************************)
\* An approval handed out by the store is in at most one pair of hands until it
\* is executed, and then in none.
Running(w) == call[w].pc = "run"

RunInv ==
    /\ \A a \in Approvals : uses[a] = 1 => life[a] = "CONSUMED"
    /\ \A a \in Approvals : runs[a] <= uses[a]
    /\ \A w \in Workers : Running(w) => uses[call[w].id] = 1 /\ runs[call[w].id] = 0
    /\ \A v, w \in Workers :
           Running(v) /\ Running(w) /\ call[v].id = call[w].id => v = w

\* A step disturbs RunInv only by handing out, executing or reviving an approval.
LEMMA RunInvKept ==
    ASSUME Types, Types', RunInv, UNCHANGED <<uses, runs>>,
           \A a \in Approvals : life[a] = "CONSUMED" => life'[a] = "CONSUMED",
           \A w \in Workers : Running(w)' => Running(w) /\ call'[w].id = call[w].id
    PROVE  RunInv'
<1> QED
  BY DEF RunInv, Running

\* A worker that goes to a phase other than "run" hands nothing out.
LEMMA NotRunning ==
    ASSUME Types, NEW w \in Workers,
           \/ \E pc \in Phases \ {"run"} : Goto(w, pc)
           \/ \E c \in Call : c.pc # "run" /\ call' = [call EXCEPT ![w] = c]
           \/ Leave(w)
    PROVE  \A v \in Workers : Running(v)' => Running(v) /\ call'[v].id = call[v].id
<1> USE DEF Running
<1>1. ASSUME NEW pc \in Phases \ {"run"}, Goto(w, pc)
      PROVE  \A v \in Workers : Running(v)' => Running(v) /\ call'[v].id = call[v].id
  BY <1>1, GotoMoves DEF Types, TypeOK, Calls
<1>2. ASSUME NEW c \in Call, c.pc # "run", call' = [call EXCEPT ![w] = c]
      PROVE  \A v \in Workers : Running(v)' => Running(v) /\ call'[v].id = call[v].id
  BY <1>2 DEF Types, TypeOK
<1>3. ASSUME Leave(w)
      PROVE  \A v \in Workers : Running(v)' => Running(v) /\ call'[v].id = call[v].id
  BY <1>3, IdleIsCall, <1>2 DEF Leave, Idle
<1> QED
  BY <1>1, <1>2, <1>3

\* What the store's steps, Use apart, do to an approval that was consumed.
LEMMA ConsumedStays ==
    ASSUME Types,
           \/ UNCHANGED store
           \/ \E a \in Approvals :
                  \/ Store!Submit(a) \/ Store!Approve(a) \/ Store!Reject(a)
                  \/ Store!Invalidate(a) \/ Store!Consume(a)
           \/ \E S \in SUBSET Approvals : Store!Forget(S)
    PROVE  /\ UNCHANGED uses
           /\ \A a \in Approvals : life[a] = "CONSUMED" => life'[a] = "CONSUMED"
  BY DEF Types, TypeOK, Store!TypeOK, store, Store!Submit, Store!Approve, Store!Reject,
         Store!Invalidate, Store!Consume, Store!Move, Store!Forget

LEMMA WorkRuns ==
    ASSUME Types, Types', RunInv, NEW w \in Workers, Work(w)
    PROVE  RunInv'
<1> DEFINE Quietly == \A v \in Workers : Running(v)' => Running(v) /\ call'[v].id = call[v].id
<1>0. call[w] \in Call
  BY DEF Types, TypeOK
<1>1. ASSUME NEW f \in Fingerprints,
             Request(w, f) \/ HookBegin(w, f) \/ \E a \in Approvals : Retry(w, f, a)
      PROVE  RunInv'
  <2>1. PICK c : c.pc # "run" /\ call' = [call EXCEPT ![w] = c]
    BY <1>1 DEF Request, HookBegin, Retry, Enter, Idle
  <2>2. Quietly
    BY <2>1 DEF Types, TypeOK, Running
  <2> QED
    BY <1>1, <2>2, RunInvKept DEF Request, HookBegin, Retry, store
<1>2. CASE Save(w) \/ Invalidate(w) \/ Consume(w)
  <2>1. Quietly
    BY <1>2, NotRunning DEF Save, Invalidate, Consume, Phases
  <2>2. call[w].pc \in {"invalidate", "consume"} => call[w].id \in Approvals
    BY DEF Types, HasApproval, Bound
  <2>3. /\ UNCHANGED uses
        /\ \A a \in Approvals : life[a] = "CONSUMED" => life'[a] = "CONSUMED"
    BY <1>2, <2>2, ConsumedStays DEF Save, Invalidate, Consume, store
  <2> QED
    BY <1>2, <2>1, <2>3, RunInvKept DEF Save, Invalidate, Consume
<1>3. CASE \/ Get(w) \/ CheckShared(w) \/ CheckOwn(w) \/ LoseRace(w)
           \/ Fail(w) \/ HookLookup(w) \/ HookDigest(w) \/ HookPublish(w)
  <2>1. Quietly
    <3>1. CASE Get(w)
      <4>1. \A v \in Workers \ {w} : call'[v] = call[v]
        BY <3>1 DEF Get, Leave, Types, TypeOK
      <4>2. call'[w].pc # "run"
        BY <3>1, <1>0 DEF Get, Leave, Idle, Types, TypeOK, Call
      <4> QED
        BY <4>1, <4>2 DEF Running
    <3>2. CASE HookLookup(w)
      <4>1. \A v \in Workers \ {w} : call'[v] = call[v]
        BY <3>2 DEF HookLookup, Goto, Types, TypeOK
      <4>2. call'[w].pc # "run"
        <5>1. CASE Goto(w, "save")
          BY <5>1, GotoMoves DEF Phases, Types, TypeOK, Calls
        <5>2. CASE \E a \in Granted(call[w].fp) :
                       call' = [call EXCEPT ![w].pc = "digest", ![w].id = a, ![w].seen = "APPROVED"]
          BY <5>2, <1>0 DEF Types, TypeOK, Call
        <5> QED
          BY <3>2, <5>1, <5>2 DEF HookLookup
      <4> QED
        BY <4>1, <4>2 DEF Running
    <3> QED
      BY <1>3, <3>1, <3>2, NotRunning
         DEF CheckShared, CheckOwn, Refuse, LoseRace, Fail, HookDigest, HookPublish, Phases
  <2>2. UNCHANGED <<store, runs>>
    BY <1>3 DEF Get, CheckShared, CheckOwn, LoseRace, Fail, HookLookup, HookDigest, HookPublish
  <2> QED
    BY <2>1, <2>2, RunInvKept DEF store
<1>4. CASE Returned(w)
  <2>1. PICK a \in Approvals : a = call[w].id
    BY <1>4 DEF Returned, Types, HasApproval, Bound
  <2>2. /\ life[a] = "CONSUMED" /\ uses[a] = 0
        /\ uses' = [uses EXCEPT ![a] = 1] /\ UNCHANGED <<life, runs>>
    BY <1>4, <2>1 DEF Returned, Store!Use
  <2>3. /\ call'[w].id = a
        /\ \A v \in Workers \ {w} : call'[v] = call[v]
    BY <1>4, <2>1, GotoMoves DEF Returned, Phases, Types, TypeOK, Calls
  <2>4. runs[a] = 0
    BY <2>2 DEF RunInv, Types, TypeOK
  <2>5. \A v \in Workers : Running(v) => call[v].id # a
    BY <2>2 DEF RunInv
  <2>6. uses'[a] = 1 /\ \A b \in Approvals \ {a} : uses'[b] = uses[b]
    BY <2>2 DEF Types, TypeOK, Store!TypeOK
  <2>7. /\ \A b \in Approvals : uses'[b] = 1 => life'[b] = "CONSUMED"
        /\ \A b \in Approvals : runs'[b] <= uses'[b]
    BY <2>2, <2>4, <2>6 DEF RunInv
  <2>8. \A v \in Workers \ {w} : Running(v)' =>
            /\ Running(v) /\ call'[v].id = call[v].id
            /\ call[v].id \in Approvals \ {a}
    BY <2>3, <2>5 DEF Running, Types, HasApproval, Bound
  <2>9. \A v \in Workers : Running(v)' => uses'[call'[v].id] = 1 /\ runs'[call'[v].id] = 0
    BY <2>2, <2>3, <2>4, <2>6, <2>8 DEF RunInv
  <2>10. \A v, u \in Workers :
            Running(v)' /\ Running(u)' /\ call'[v].id = call'[u].id => v = u
    BY <2>3, <2>8 DEF RunInv
  <2> QED
    BY <2>7, <2>9, <2>10 DEF RunInv
<1>5. CASE Run(w)
  <2>1. PICK a \in Approvals : a = call[w].id
    BY <1>5 DEF Run, Types, HasApproval, Bound
  <2>2. /\ uses[a] = 1 /\ runs[a] = 0
        /\ runs' = [runs EXCEPT ![a] = 1] /\ UNCHANGED <<life, uses>>
    <3>1. uses[a] = 1 /\ runs[a] = 0
      BY <1>5, <2>1 DEF Run, RunInv, Running
    <3>2. runs' = [runs EXCEPT ![a] = runs[a] + 1] /\ UNCHANGED <<life, uses>>
      BY <1>5, <2>1 DEF Run, store
    <3> QED
      BY <3>1, <3>2
  <2>3. /\ call'[w] = Idle
        /\ \A v \in Workers \ {w} : call'[v] = call[v]
    BY <1>5, LeaveMoves DEF Run, Types, TypeOK, Calls
  <2>4. \A v \in Workers \ {w} : Running(v) => call[v].id # a
    BY <1>5, <2>1 DEF RunInv, Running, Run
  <2>5. runs'[a] = 1 /\ \A b \in Approvals \ {a} : runs'[b] = runs[b]
    BY <2>2 DEF Types, TypeOK
  <2>6. /\ \A b \in Approvals : uses'[b] = 1 => life'[b] = "CONSUMED"
        /\ \A b \in Approvals : runs'[b] <= uses'[b]
    BY <2>2, <2>5 DEF RunInv
  <2>7. \A v \in Workers : Running(v)' =>
            /\ Running(v) /\ call'[v].id = call[v].id
            /\ call[v].id \in Approvals \ {a}
    BY <2>3, <2>4 DEF Running, Idle, Types, HasApproval, Bound
  <2>8. \A v \in Workers : Running(v)' => uses'[call'[v].id] = 1 /\ runs'[call'[v].id] = 0
    BY <2>2, <2>5, <2>7 DEF RunInv
  <2>9. \A v, u \in Workers :
            Running(v)' /\ Running(u)' /\ call'[v].id = call'[u].id => v = u
    BY <2>7 DEF RunInv
  <2> QED
    BY <2>6, <2>8, <2>9 DEF RunInv
<1> QED
  BY <1>1, <1>2, <1>3, <1>4, <1>5 DEF Work

LEMMA RunStep == Types /\ RunInv /\ [Next]_vars => RunInv'
<1> SUFFICES ASSUME Types, RunInv, [Next]_vars PROVE RunInv'
  OBVIOUS
<1>0. Types'
  BY TypeStep
<1>1. CASE \E w \in Workers : Work(w)
  BY <1>0, <1>1, WorkRuns
<1>2. CASE \E w \in Threads : Reload(w)
  <2> PICK w \in Threads : Reload(w)
    BY <1>2
  <2>1. \A v \in Workers : Running(v)' => Running(v) /\ call'[v].id = call[v].id
    <3>1. w \in Workers
      BY DEF Workers
    <3>2. CASE ReloadPolicy(w)
      BY <3>2 DEF ReloadPolicy, Running, Idle, Types, TypeOK
    <3> QED
      BY <3>1, <3>2, NotRunning DEF Reload, ReloadProvenance, ReloadStore, Phases
  <2> QED
    BY <1>0, <2>1, RunInvKept DEF Reload, ReloadPolicy, ReloadProvenance, ReloadStore, store
<1>3. CASE \E g \in Gates : Stop(g)
  <2>1. \A v \in Workers : Running(v)' => Running(v) /\ call'[v].id = call[v].id
    BY <1>3 DEF Stop, Running, Idle, Types, TypeOK
  <2> QED
    BY <1>0, <1>3, <2>1, RunInvKept DEF Stop, store
<1>4. CASE \/ \E p \in Policies : Edit(p)
           \/ \E g \in Gates : Start(g) \/ Sync(g) \/ Seed(g)
           \/ UNCHANGED vars
  <2>1. UNCHANGED <<store, runs, call>>
    BY <1>4 DEF Edit, Start, Sync, Seed, vars, store
  <2> QED
    BY <1>0, <2>1, RunInvKept DEF Running, store
<1>5. CASE (\E a \in Approvals : Decide(a)) \/ (\E S \in SUBSET Approvals : Expire(S))
  <2>1. UNCHANGED <<runs, call>>
    BY <1>5 DEF Decide, Expire
  <2>2. /\ UNCHANGED uses
        /\ \A a \in Approvals : life[a] = "CONSUMED" => life'[a] = "CONSUMED"
    BY <1>5, ConsumedStays DEF Decide, Expire
  <2> QED
    BY <1>0, <2>1, <2>2, RunInvKept DEF Running
<1> QED
  BY <1>1, <1>2, <1>3, <1>4, <1>5 DEF Next

\* Whatever gates, threads and hooks race for an approval, crash with it, or find
\* the policy changed: it executes the protected tool at most once, and only
\* after the store recorded it CONSUMED.
THEOREM GateExecutesAtMostOnce == Spec => []ExecutedAtMostOnce
<1>1. Init => RunInv
  BY DEF Init, RunInv, Running, Idle, Store!Init
<1>2. Types /\ RunInv => ExecutedAtMostOnce
  <2> SUFFICES ASSUME Types, RunInv, NEW a \in Approvals
               PROVE  runs[a] <= 1 /\ (runs[a] = 1 => life[a] = "CONSUMED")
    BY DEF ExecutedAtMostOnce
  <2>1. runs[a] \in Nat /\ uses[a] \in 0..1
    BY DEF Types, TypeOK, Store!TypeOK
  <2>2. runs[a] <= uses[a] /\ (uses[a] = 1 => life[a] = "CONSUMED")
    BY DEF RunInv
  <2> QED
    BY <2>1, <2>2
<1> QED
  BY InitTypes, TypeStep, RunStep, <1>1, <1>2, PTL DEF Spec

-----------------------------------------------------------------------------
(***************************************************************************)
(* What an approval is spent and destroyed under: the policies that a      *)
(* retry compares, one after the other, while the policy file, the shared  *)
(* policy and the gates change around it.                                  *)
(***************************************************************************)

\* The shared policy, and the worker's own, find no fault.
SharedAgrees(w) ==
    storePolicy # None =>
        bound[call[w].id].policy = storePolicy /\ Verdict[storePolicy][call[w].fp] # "DENY"
OwnAgrees(w) ==
    bound[call[w].id].policy = ProvOf(w) /\ Verdict[PolicyOf(w)][call[w].fp] # "DENY"

\* Who can be where: threads run the retry of a gate that is up, hooks their own.
Place(w) ==
    /\ w \in Threads /\ call[w].pc # "idle" => gate[GateOf[w]].status = "up"
    /\ w \in Hooks => call[w].pc \notin {"get", "shared", "own"}
    /\ w \in Threads => call[w].pc \notin {"publish", "lookup", "digest"}
    /\ call[w].pc \in Bound => life[call[w].id] # "UNBORN"

\* What a worker that no policy change overtook knows, phase by phase.
Known(w) ==
    /\ call[w].pc = "own" => SharedAgrees(w)
    /\ call[w].pc = "consume" => SharedAgrees(w) /\ OwnAgrees(w)
    /\ call[w].pc = "invalidate" => Faulted(w, call[w].id, call[w].fp)
    /\ call[w].pc \in {"publish", "lookup", "digest"} =>
           call[w].policy \in Policies /\ Verdict[call[w].policy][call[w].fp] = "ASK"
    /\ call[w].pc \in {"lookup", "digest"} => storePolicy = call[w].policy

Places    == \A w \in Workers : Place(w)
Knowledge == \A w \in quiet : Known(w)
PolicyInv == Types /\ Places /\ Knowledge

-----------------------------------------------------------------------------
(***************************************************************************)
(* What others do.                                                         *)
(***************************************************************************)
\* Rows that are there stay, and keep what they bind.
BornKept == \A a \in Approvals : life[a] # "UNBORN" => life'[a] # "UNBORN" /\ bound'[a] = bound[a]

LEMMA StoreKeepsBorn ==
    ASSUME Types, UNCHANGED bound,
           \/ UNCHANGED store
           \/ \E a \in Approvals : \/ Store!Approve(a) \/ Store!Reject(a) \/ Store!Invalidate(a)
                                   \/ Store!Consume(a) \/ Store!Use(a)
           \/ \E S \in SUBSET Approvals : Store!Forget(S)
    PROVE  BornKept
  BY DEF Types, TypeOK, Store!TypeOK, store, BornKept, Store!Approve, Store!Reject,
         Store!Invalidate, Store!Consume, Store!Use, Store!Move, Store!Forget

LEMMA SaveKeepsBorn ==
    ASSUME Types, NEW w \in Workers, Save(w)
    PROVE  BornKept
<1>1. CASE UNCHANGED <<store, bound>>
  BY <1>1, StoreKeepsBorn
<1>2. ASSUME NEW a \in Approvals, Store!Submit(a),
             bound' = [bound EXCEPT ![a] = [fp |-> call[w].fp, policy |-> ProvOf(w)]]
      PROVE  BornKept
  BY <1>2 DEF Types, TypeOK, Store!TypeOK, BornKept, Store!Submit, Store!Move
<1> QED
  BY <1>1, <1>2 DEF Save

\* The policies that v goes by are the same.
GroundKept(v) ==
    /\ storePolicy' = storePolicy
    /\ v \in Threads => /\ gate'[GateOf[v]].policy = gate[GateOf[v]].policy
                        /\ gate'[GateOf[v]].prov = gate[GateOf[v]].prov

\* A worker that does not move stays where it is and knows what it knew.
LEMMA OthersStay ==
    ASSUME PolicyInv, NEW v \in Workers, call'[v] = call[v], BornKept,
           v \in Threads /\ call[v].pc # "idle" => gate'[GateOf[v]].status = "up",
           v \in quiet' /\ call[v].pc # "idle" => v \in quiet /\ GroundKept(v)
    PROVE  Place(v)' /\ (v \in quiet' => Known(v)')
<1>1. call[v].pc \in Bound => call[v].id \in Approvals
  BY DEF PolicyInv, Types, HasApproval
<1>2. Place(v)
  BY DEF PolicyInv, Places
<1>3. Place(v)'
  BY <1>1, <1>2 DEF Place, BornKept
<1>4. ASSUME v \in quiet' PROVE Known(v)'
  <2>1. CASE call[v].pc = "idle"
    BY <2>1 DEF Known
  <2>2. CASE call[v].pc # "idle"
    <3>1. Known(v) /\ GroundKept(v)
      BY <1>4, <2>2 DEF PolicyInv, Knowledge
    <3>2. v \in Hooks \/ v \in Threads
      BY DEF Workers
    <3>3. PolicyOf(v)' = PolicyOf(v) /\ ProvOf(v)' = ProvOf(v)
      BY <3>1, <3>2 DEF PolicyOf, ProvOf, GroundKept
    <3>4. call[v].pc \in Bound => bound'[call[v].id] = bound[call[v].id]
      BY <1>1, <1>2 DEF Place, BornKept
    <3>5. storePolicy' = storePolicy
      BY <3>1 DEF GroundKept
    <3>6. call[v].pc \in {"own", "consume"} => (SharedAgrees(v) => SharedAgrees(v)')
      BY <3>4, <3>5 DEF SharedAgrees, Bound
    <3>7. call[v].pc = "consume" => (OwnAgrees(v) => OwnAgrees(v)')
      BY <3>3, <3>4 DEF OwnAgrees, Bound
    <3>8. call[v].pc = "invalidate" =>
              (Faulted(v, call[v].id, call[v].fp) => Faulted(v, call[v].id, call[v].fp)')
      BY <3>3, <3>4, <3>5 DEF Faulted, Bound
    <3> QED
      BY <3>1, <3>5, <3>6, <3>7, <3>8 DEF Known
  <2> QED
    BY <2>1, <2>2
<1> QED
  BY <1>3, <1>4

\* A step of w that is a store operation or a check: nobody else notices.
LEMMA WorkStep ==
    ASSUME PolicyInv, NEW w \in Workers, BornKept,
           \A v \in Workers \ {w} : call'[v] = call[v],
           UNCHANGED <<storePolicy, gate, quiet>>,
           Place(w)', w \in quiet => Known(w)'
    PROVE  Places' /\ Knowledge'
<1>1. ASSUME NEW v \in Workers, v # w PROVE Place(v)' /\ (v \in quiet' => Known(v)')
  <2>1. v \in Threads /\ call[v].pc # "idle" => gate'[GateOf[v]].status = "up"
    BY DEF PolicyInv, Places, Place
  <2> QED
    BY <1>1, <2>1, OthersStay DEF GroundKept
<1>2. quiet' \subseteq Workers
  BY DEF PolicyInv, Types, TypeOK
<1> QED
  BY <1>1, <1>2 DEF Places, Knowledge

\* The same with w done.
LEMMA IdleKnows ==
    ASSUME NEW w \in Workers, call'[w] = Idle
    PROVE  Place(w)' /\ Known(w)'
  BY DEF Idle, Place, Known, Bound

LEMMA LeaveStep ==
    ASSUME PolicyInv, NEW w \in Workers, BornKept, Leave(w),
           UNCHANGED <<storePolicy, gate, quiet>>
    PROVE  Places' /\ Knowledge'
<1>1. call'[w] = Idle /\ \A v \in Workers \ {w} : call'[v] = call[v]
  BY LeaveMoves DEF PolicyInv, Types, TypeOK, Calls
<1> QED
  BY <1>1, IdleKnows, WorkStep

-----------------------------------------------------------------------------
(***************************************************************************)
(* The steps of a worker.                                                  *)
(***************************************************************************)
\* Moving a phase leaves what the phase is about.
LEMMA PhaseMovesOnly ==
    ASSUME Types, NEW w \in Workers, NEW pc \in Phases, Goto(w, pc)
    PROVE  /\ call'[w] = [call[w] EXCEPT !.pc = pc]
           /\ call'[w].pc = pc /\ call'[w].id = call[w].id
           /\ call'[w].fp = call[w].fp /\ call'[w].policy = call[w].policy
           /\ \A v \in Workers \ {w} : call'[v] = call[v]
<1>1. call[w] \in Call
  BY DEF Types, TypeOK
<1>2. call' = [call EXCEPT ![w] = [call[w] EXCEPT !.pc = pc]]
  BY DEF Goto, Types, TypeOK
<1> QED
  BY <1>1, <1>2 DEF Call, Types, TypeOK

\* Going to one of these phases takes no knowledge.
LEMMA GotoStep ==
    ASSUME PolicyInv, NEW w \in Workers, BornKept,
           UNCHANGED <<storePolicy, gate, quiet>>,
           call[w].pc # "idle",
           NEW pc \in {"save", "return", "run"}, Goto(w, pc),
           pc # "save" => call[w].pc \in Bound
    PROVE  Places' /\ Knowledge'
<1>1. pc \in Phases
  BY DEF Phases
<1>2. /\ call'[w].pc = pc /\ call'[w].id = call[w].id
      /\ \A v \in Workers \ {w} : call'[v] = call[v]
  BY <1>1, PhaseMovesOnly DEF PolicyInv
<1>3. Place(w)'
  <2>1. Place(w)
    BY DEF PolicyInv, Places
  <2>2. call[w].pc \in Bound => call[w].id \in Approvals
    BY DEF PolicyInv, Types, HasApproval
  <2> QED
    BY <1>2, <2>1, <2>2 DEF Place, BornKept, Bound
<1>4. Known(w)'
  BY <1>2 DEF Known
<1> QED
  BY <1>2, <1>3, <1>4, WorkStep

LEMMA EnterKnows ==
    ASSUME PolicyInv, NEW w \in Workers, NEW f \in Fingerprints,
           \/ Request(w, f) \/ HookBegin(w, f)
           \/ \E a \in Approvals : Retry(w, f, a)
    PROVE  Places' /\ Knowledge'
<1> DEFINE Fresh(c) ==
        \/ c.pc = "save" /\ w \in Threads
        \/ c.pc = "get" /\ w \in Threads /\ c.id \in Approvals /\ life[c.id] # "UNBORN"
        \/ /\ c.pc = "publish" /\ w \in Hooks
           /\ c.policy \in Policies /\ Verdict[c.policy][c.fp] = "ASK"
<1> DEFINE save   == [Idle EXCEPT !.pc = "save", !.fp = f]
           got(a) == [Idle EXCEPT !.pc = "get", !.fp = f, !.id = a]
           begun  == [Idle EXCEPT !.pc = "publish", !.fp = f, !.policy = file]
<1>a. w \in Threads => Fresh(save)
  BY DEF Idle
<1>b. w \in Threads => \A a \in Approvals : life[a] # "UNBORN" => Fresh(got(a))
  BY DEF Idle
<1>c. w \in Hooks /\ file \in Policies /\ Verdict[file][f] = "ASK" => Fresh(begun)
  BY DEF Idle
<1>d. \/ Enter(w, save) /\ w \in Threads
      \/ Enter(w, begun) /\ w \in Hooks /\ Verdict[file][f] = "ASK"
      \/ w \in Threads /\ \E a \in Approvals : life[a] # "UNBORN" /\ Enter(w, got(a))
  BY DEF Request, HookBegin, Retry, Granted
<1>e. file \in Policies
  BY DEF PolicyInv, Types, TypeOK
<1> HIDE DEF save, got, begun, Fresh
<1>1. PICK c : Enter(w, c) /\ Fresh(c)
  BY <1>a, <1>b, <1>c, <1>d, <1>e
<1> USE DEF Fresh
<1>2. /\ call[w].pc = "idle" /\ call'[w] = c
      /\ \A v \in Workers \ {w} : call'[v] = call[v]
      /\ quiet' = quiet \cup {w}
  BY <1>1 DEF Enter, PolicyInv, Types, TypeOK
<1>3. UNCHANGED <<life, bound, storePolicy, gate>>
  BY DEF Request, HookBegin, Retry, store
<1>4. BornKept
  BY <1>3 DEF BornKept
<1>5. w \in Threads => gate[GateOf[w]].status = "up"
  BY GateAssumption DEF Request, HookBegin, Retry, Serves
<1>6. Place(w)' /\ Known(w)'
  BY <1>1, <1>2, <1>3, <1>5, GateAssumption DEF Place, Known, Bound
<1>7. ASSUME NEW v \in Workers, v # w PROVE Place(v)' /\ (v \in quiet' => Known(v)')
  <2>1. v \in Threads /\ call[v].pc # "idle" => gate'[GateOf[v]].status = "up"
    BY <1>3 DEF PolicyInv, Places, Place
  <2> QED
    BY <1>2, <1>3, <1>4, <1>7, <2>1, OthersStay DEF GroundKept
<1>8. quiet' \subseteq Workers
  BY <1>2 DEF PolicyInv, Types, TypeOK
<1> QED
  BY <1>6, <1>7, <1>8 DEF Places, Knowledge

\* The operations on the store.
LEMMA StoreKnows ==
    ASSUME PolicyInv, NEW w \in Workers,
           Save(w) \/ Invalidate(w) \/ Consume(w) \/ Returned(w) \/ Run(w) \/ Fail(w) \/ LoseRace(w)
    PROVE  Places' /\ Knowledge'
<1>0. UNCHANGED <<storePolicy, gate, quiet>>
  BY DEF Save, Invalidate, Consume, Returned, Run, Fail, LoseRace
<1>1. CASE Save(w)
  BY <1>0, <1>1, SaveKeepsBorn, LeaveStep DEF Save, PolicyInv
<1>2. ASSUME ~Save(w) PROVE BornKept
  <2>1. call[w].pc \in {"invalidate", "consume", "return"} => call[w].id \in Approvals
    BY DEF PolicyInv, Types, HasApproval, Bound
  <2> QED
    BY <1>2, <2>1, StoreKeepsBorn
       DEF PolicyInv, Invalidate, Consume, Returned, Run, Fail, LoseRace
<1>3. CASE ~Save(w) /\ (Invalidate(w) \/ Run(w) \/ Fail(w) \/ LoseRace(w))
  BY <1>0, <1>2, <1>3, GotoStep, LeaveStep DEF Invalidate, Run, Fail, LoseRace
<1>4. CASE ~Save(w) /\ (Consume(w) \/ Returned(w))
  BY <1>0, <1>2, <1>4, GotoStep DEF Consume, Returned, Bound
<1> QED
  BY <1>1, <1>3, <1>4

-----------------------------------------------------------------------------
(***************************************************************************)
(* The comparisons.                                                        *)
(***************************************************************************)
\* A comparison of w that is on its way with an approval, to phase pc.
LEMMA ComparedStep ==
    ASSUME PolicyInv, NEW w \in Workers, UNCHANGED <<store, bound, storePolicy, gate, quiet>>,
           call[w].pc \in Bound,
           NEW pc \in {"own", "consume", "invalidate"}, Goto(w, pc),
           pc = "own" => w \in Threads,
           w \in quiet => /\ pc = "own" => SharedAgrees(w)
                          /\ pc = "consume" => SharedAgrees(w) /\ OwnAgrees(w)
                          /\ pc = "invalidate" => Faulted(w, call[w].id, call[w].fp)
    PROVE  Places' /\ Knowledge'
<1>1. pc \in Phases
  BY DEF Phases
<1>2. /\ call'[w].pc = pc /\ call'[w].id = call[w].id
      /\ call'[w].fp = call[w].fp /\ call'[w].policy = call[w].policy
      /\ \A v \in Workers \ {w} : call'[v] = call[v]
  BY <1>1, PhaseMovesOnly DEF PolicyInv
<1>3. BornKept
  BY DEF BornKept, store
<1>4. Place(w)'
  <2>1. Place(w)
    BY DEF PolicyInv, Places
  <2> QED
    BY <1>2, <2>1, GateAssumption DEF Place, store, Bound
<1>5. PolicyOf(w)' = PolicyOf(w) /\ ProvOf(w)' = ProvOf(w)
  BY <1>2 DEF PolicyOf, ProvOf
<1>6. ASSUME w \in quiet PROVE Known(w)'
  BY <1>2, <1>5, <1>6 DEF Known, SharedAgrees, OwnAgrees, Faulted
<1> QED
  BY <1>2, <1>3, <1>4, <1>6, WorkStep

LEMMA RefuseStep ==
    ASSUME PolicyInv, NEW w \in Workers, UNCHANGED <<store, bound, storePolicy, gate, quiet>>,
           call[w].pc \in Bound, Refuse(w), Faulted(w, call[w].id, call[w].fp)
    PROVE  Places' /\ Knowledge'
<1>1. BornKept
  BY DEF BornKept, store
<1> QED
  BY <1>1, ComparedStep, LeaveStep DEF Refuse

LEMMA GetKnows == ASSUME PolicyInv, NEW w \in Workers, Get(w) PROVE Places' /\ Knowledge'
<1>0. BornKept /\ UNCHANGED <<storePolicy, gate, quiet>>
  BY DEF Get, BornKept, store
<1>1. CASE Leave(w)
  BY <1>0, <1>1, LeaveStep
<1>2. CASE call' = [call EXCEPT ![w].pc = "shared", ![w].seen = life[call[w].id]]
  <2>1. call[w] \in Call /\ call \in [Workers -> Call]
    BY DEF PolicyInv, Types, TypeOK
  <2>2. /\ call'[w].pc = "shared" /\ call'[w].id = call[w].id
        /\ \A v \in Workers \ {w} : call'[v] = call[v]
    BY <1>2, <2>1 DEF Call
  <2>3. Place(w)
    BY DEF PolicyInv, Places
  <2>4. Place(w)' /\ Known(w)'
    BY <2>2, <2>3 DEF Place, Known, Get, Bound, store
  <2> QED
    BY <1>0, <2>2, <2>4, WorkStep
<1> QED
  BY <1>1, <1>2 DEF Get

LEMMA CheckSharedKnows ==
    ASSUME PolicyInv, NEW w \in Workers, CheckShared(w)
    PROVE  Places' /\ Knowledge'
<1>0. UNCHANGED <<store, bound, storePolicy, gate, quiet>> /\ call[w].pc \in Bound
  BY DEF CheckShared, Bound
<1>1. CASE SharedAgrees(w)
  <2>1. Goto(w, "own")
    BY <1>1 DEF CheckShared, SharedAgrees
  <2>2. w \in Threads
    BY DEF CheckShared, PolicyInv, Places, Place, Workers
  <2> QED
    BY <1>0, <1>1, <2>1, <2>2, ComparedStep
<1>2. CASE ~SharedAgrees(w)
  <2>1. Refuse(w)
    BY <1>2 DEF CheckShared, SharedAgrees
  <2>2. Faulted(w, call[w].id, call[w].fp)
    BY <1>2 DEF SharedAgrees, Faulted
  <2> QED
    BY <1>0, <2>1, <2>2, RefuseStep
<1> QED
  BY <1>1, <1>2

LEMMA CheckOwnKnows ==
    ASSUME PolicyInv, NEW w \in Workers, CheckOwn(w)
    PROVE  Places' /\ Knowledge'
<1>0. UNCHANGED <<store, bound, storePolicy, gate, quiet>> /\ call[w].pc \in Bound
  BY DEF CheckOwn, Bound
<1>1. CASE OwnAgrees(w)
  <2>1. Goto(w, "consume")
    BY <1>1 DEF CheckOwn, OwnAgrees
  <2>2. w \in quiet => SharedAgrees(w)
    BY DEF CheckOwn, PolicyInv, Knowledge, Known
  <2> QED
    BY <1>0, <1>1, <2>1, <2>2, ComparedStep
<1>2. CASE ~OwnAgrees(w)
  <2>1. Refuse(w)
    BY <1>2 DEF CheckOwn, OwnAgrees
  <2>2. Faulted(w, call[w].id, call[w].fp)
    BY <1>2 DEF OwnAgrees, Faulted
  <2> QED
    BY <1>0, <2>1, <2>2, RefuseStep
<1> QED
  BY <1>1, <1>2

\* A hook's own policy is the shared one, which it published.
LEMMA HookDigestKnows ==
    ASSUME PolicyInv, NEW w \in Workers, HookDigest(w)
    PROVE  Places' /\ Knowledge'
<1>0. UNCHANGED <<store, bound, storePolicy, gate, quiet>> /\ call[w].pc \in Bound
  BY DEF HookDigest, Bound
<1>1. w \in Hooks
  BY DEF HookDigest, PolicyInv, Places, Place, Workers
<1>2. PolicyOf(w) = call[w].policy /\ ProvOf(w) = call[w].policy
  BY <1>1 DEF PolicyOf, ProvOf
<1>3. w \in quiet => /\ storePolicy = call[w].policy
                     /\ Verdict[call[w].policy][call[w].fp] = "ASK"
  BY DEF HookDigest, PolicyInv, Knowledge, Known
<1>4. CASE bound[call[w].id].policy = call[w].policy
  <2>1. Goto(w, "consume")
    BY <1>4 DEF HookDigest
  <2>2. w \in quiet => SharedAgrees(w) /\ OwnAgrees(w)
    BY <1>2, <1>3, <1>4 DEF SharedAgrees, OwnAgrees
  <2> QED
    BY <1>0, <2>1, <2>2, ComparedStep
<1>5. CASE bound[call[w].id].policy # call[w].policy
  <2>1. Goto(w, "invalidate")
    BY <1>5 DEF HookDigest
  <2>2. Faulted(w, call[w].id, call[w].fp)
    BY <1>2, <1>5 DEF Faulted
  <2> QED
    BY <1>0, <2>1, <2>2, ComparedStep
<1> QED
  BY <1>4, <1>5

LEMMA HookLookupKnows ==
    ASSUME PolicyInv, NEW w \in Workers, HookLookup(w)
    PROVE  Places' /\ Knowledge'
<1>0. BornKept /\ UNCHANGED <<life, bound, storePolicy, gate, quiet>>
  BY DEF HookLookup, BornKept, store
<1>1. CASE Goto(w, "save")
  BY <1>0, <1>1, GotoStep DEF HookLookup
<1>2. ASSUME NEW a \in Granted(call[w].fp),
             call' = [call EXCEPT ![w].pc = "digest", ![w].id = a, ![w].seen = "APPROVED"]
      PROVE  Places' /\ Knowledge'
  <2>1. call[w] \in Call /\ call \in [Workers -> Call]
    BY DEF PolicyInv, Types, TypeOK
  <2>2. /\ call'[w].pc = "digest" /\ call'[w].id = a
        /\ call'[w].fp = call[w].fp /\ call'[w].policy = call[w].policy
        /\ \A v \in Workers \ {w} : call'[v] = call[v]
    BY <1>2, <2>1 DEF Call
  <2>3. Place(w) /\ (w \in quiet => Known(w))
    BY DEF PolicyInv, Places, Knowledge
  <2>4. Place(w)'
    BY <1>0, <1>2, <2>2, <2>3 DEF Place, HookLookup, Granted
  <2>5. w \in quiet => Known(w)'
    BY <1>0, <2>2, <2>3 DEF Known, HookLookup
  <2> QED
    BY <1>0, <2>2, <2>4, <2>5, WorkStep
<1> QED
  BY <1>1, <1>2 DEF HookLookup

-----------------------------------------------------------------------------
(***************************************************************************)
(* The steps that change policies.                                         *)
(***************************************************************************)
\* Who publishes takes the ground from everybody else, unless it is the same policy.
LEMMA PublishTells ==
    ASSUME NEW w, NEW p, Publish(w, p), NEW v, v # w, v \in quiet'
    PROVE  v \in quiet /\ storePolicy' = storePolicy
  BY DEF Publish

LEMMA HookPublishKnows ==
    ASSUME PolicyInv, NEW w \in Workers, HookPublish(w)
    PROVE  Places' /\ Knowledge'
<1>0. BornKept /\ UNCHANGED <<life, bound, gate>>
  BY DEF HookPublish, BornKept, store
<1>1. /\ call'[w].pc = "lookup"
      /\ call'[w].fp = call[w].fp /\ call'[w].policy = call[w].policy
      /\ \A v \in Workers \ {w} : call'[v] = call[v]
  BY PhaseMovesOnly DEF HookPublish, Phases, PolicyInv
<1>2. Place(w) /\ (w \in quiet => Known(w)) /\ quiet \subseteq Workers
  BY DEF PolicyInv, Places, Knowledge, Types, TypeOK
<1>3. storePolicy' = call[w].policy /\ quiet' \subseteq quiet
  BY DEF HookPublish, Publish
<1>4. Place(w)'
  BY <1>0, <1>1, <1>2 DEF Place, HookPublish, Bound
<1>5. w \in quiet' => Known(w)'
  BY <1>1, <1>2, <1>3 DEF Known, HookPublish
<1>6. ASSUME NEW v \in Workers, v # w PROVE Place(v)' /\ (v \in quiet' => Known(v)')
  <2>1. v \in quiet' => v \in quiet /\ GroundKept(v)
    BY <1>0, <1>6, PublishTells DEF HookPublish, GroundKept
  <2>2. v \in Threads /\ call[v].pc # "idle" => gate'[GateOf[v]].status = "up"
    BY <1>0 DEF PolicyInv, Places, Place
  <2> QED
    BY <1>0, <1>1, <1>6, <2>1, <2>2, OthersStay
<1> QED
  BY <1>2, <1>3, <1>4, <1>5, <1>6 DEF Places, Knowledge

LEMMA ReloadKnows ==
    ASSUME PolicyInv, NEW w \in Threads, Reload(w)
    PROVE  Places' /\ Knowledge'
<1> DEFINE g == GateOf[w]
<1>0. /\ w \in Workers /\ g \in Gates /\ w \notin Hooks
      /\ gate \in [Gates -> Gate] /\ call \in [Workers -> Call] /\ quiet \subseteq Workers
      /\ \A v \in Threads : GateOf[v] \in Gates
  BY GateAssumption DEF Workers, PolicyInv, Types, TypeOK
<1>1. BornKept
  BY DEF Reload, ReloadPolicy, ReloadProvenance, ReloadStore, BornKept, store
<1>2. Place(w)
  BY <1>0 DEF PolicyInv, Places
\* While policy or provenance of the gate is assigned, none of its threads is quiet.
<1>3. ASSUME ReloadPolicy(w) \/ ReloadProvenance(w),
             NEW c \in Call, call' = [call EXCEPT ![w] = c],
             c.pc \in {"reloadProvenance", "reloadStore", "idle"}
      PROVE  Places' /\ Knowledge'
  <2>1. /\ quiet' = {v \in quiet : v \in Hooks \/ GateOf[v] # g}
        /\ storePolicy' = storePolicy /\ gate[g].status = "up"
    BY <1>0, <1>2, <1>3 DEF ReloadPolicy, ReloadProvenance, Place
  <2>2. /\ gate'[g].status = "up"
        /\ \A h \in Gates \ {g} : gate'[h] = gate[h]
    BY <1>0, <1>3, <2>1 DEF ReloadPolicy, ReloadProvenance, Gate
  <2>3. call'[w] = c /\ \A v \in Workers \ {w} : call'[v] = call[v]
    BY <1>0, <1>3
  <2>4. Place(w)' /\ Known(w)'
    BY <1>0, <1>3, <2>2, <2>3 DEF Place, Known, Bound
  <2>5. ASSUME NEW v \in Workers, v # w PROVE Place(v)' /\ (v \in quiet' => Known(v)')
    <3>1. v \in Threads /\ call[v].pc # "idle" => gate'[GateOf[v]].status = "up"
      BY <1>0, <2>2 DEF PolicyInv, Places, Place
    <3>2. v \in quiet' => v \in quiet /\ GroundKept(v)
      BY <1>0, <2>1, <2>2, GateAssumption DEF GroundKept
    <3> QED
      BY <1>1, <2>3, <2>5, <3>1, <3>2, OthersStay
  <2> QED
    BY <1>0, <2>1, <2>4, <2>5 DEF Places, Knowledge
<1>4. CASE ReloadPolicy(w)
  <2> DEFINE c == [Idle EXCEPT !.pc = "reloadProvenance", !.policy = file]
  <2>1. c \in Call /\ c.pc = "reloadProvenance"
    BY DEF Idle, Call, Phases, Store!Stages, PolicyInv, Types, TypeOK
  <2>2. call' = [call EXCEPT ![w] = c]
    BY <1>4 DEF ReloadPolicy
  <2> HIDE DEF c
  <2> QED
    BY <1>3, <1>4, <2>1, <2>2
<1>5. CASE ReloadProvenance(w)
  <2> DEFINE c == IF kindOf[g] = "sdk" THEN [call[w] EXCEPT !.pc = "reloadStore"] ELSE Idle
  <2>1. c \in Call /\ c.pc \in {"reloadStore", "idle"}
    BY <1>0 DEF Call, Phases, Idle, Store!Stages
  <2>2. call' = [call EXCEPT ![w] = c]
    BY <1>0, <1>5 DEF ReloadProvenance, Goto, Leave
  <2> HIDE DEF c
  <2> QED
    BY <1>3, <1>5, <2>1, <2>2
<1>6. CASE ReloadStore(w)
  <2>1. call'[w] = Idle /\ \A v \in Workers \ {w} : call'[v] = call[v]
    BY <1>0, <1>6, LeaveMoves DEF ReloadStore, Calls
  <2>2. Place(w)' /\ Known(w)'
    BY <1>0, <2>1, IdleKnows
  <2>3. UNCHANGED gate /\ quiet' \subseteq quiet
    BY <1>6 DEF ReloadStore, Publish
  <2>4. ASSUME NEW v \in Workers, v # w PROVE Place(v)' /\ (v \in quiet' => Known(v)')
    <3>1. v \in Threads /\ call[v].pc # "idle" => gate'[GateOf[v]].status = "up"
      BY <2>3 DEF PolicyInv, Places, Place
    <3>2. v \in quiet' => v \in quiet /\ GroundKept(v)
      BY <1>6, <2>3, <2>4, PublishTells DEF ReloadStore, GroundKept
    <3> QED
      BY <1>1, <2>1, <2>4, <3>1, <3>2, OthersStay
  <2> QED
    BY <1>0, <2>2, <2>3, <2>4 DEF Places, Knowledge
<1> QED
  BY <1>4, <1>5, <1>6 DEF Reload

LEMMA GateKnows ==
    ASSUME PolicyInv, NEW g \in Gates, Start(g) \/ Sync(g) \/ Seed(g) \/ Stop(g)
    PROVE  Places' /\ Knowledge'
<1>0. /\ gate \in [Gates -> Gate] /\ call \in [Workers -> Call] /\ quiet \subseteq Workers
      /\ \A v \in Threads : GateOf[v] \in Gates
      /\ None \notin Workers
  BY GateAssumption DEF Workers, PolicyInv, Types, TypeOK
<1>1. BornKept
  BY DEF Start, Sync, Seed, Stop, BornKept, store
<1>2. CASE Start(g) \/ Sync(g) \/ Seed(g)
  <2>1. UNCHANGED call
    BY <1>2 DEF Start, Sync, Seed
  <2>2. /\ gate[g].status # "up"
        /\ \A h \in Gates \ {g} : gate'[h] = gate[h]
    BY <1>0, <1>2 DEF Start, Sync, Seed
  <2>3. quiet' \subseteq quiet /\ \A v \in quiet' : storePolicy' = storePolicy
    BY <1>0, <1>2 DEF Start, Sync, Seed, Publish
  <2>4. ASSUME NEW v \in Workers PROVE Place(v)' /\ (v \in quiet' => Known(v)')
    <3>1. v \in Threads /\ call[v].pc # "idle" => GateOf[v] \in Gates \ {g}
      BY <1>0, <2>2 DEF PolicyInv, Places, Place
    <3>2. v \in Threads /\ call[v].pc # "idle" => gate'[GateOf[v]].status = "up"
      BY <2>2, <3>1 DEF PolicyInv, Places, Place
    <3>3. v \in quiet' /\ call[v].pc # "idle" => v \in quiet /\ GroundKept(v)
      BY <2>2, <2>3, <3>1 DEF GroundKept
    <3> QED
      BY <1>1, <2>1, <3>2, <3>3, OthersStay
  <2> QED
    BY <1>0, <2>3, <2>4 DEF Places, Knowledge
<1>3. CASE Stop(g)
  <2>1. UNCHANGED <<storePolicy, quiet>> /\ \A h \in Gates \ {g} : gate'[h] = gate[h]
    BY <1>0, <1>3 DEF Stop
  <2>2. ASSUME NEW v \in Workers PROVE Place(v)' /\ (v \in quiet' => Known(v)')
    <3>1. CASE v \in Threads /\ GateOf[v] = g
      BY <1>3, <3>1, IdleKnows DEF Stop
    <3>2. CASE ~(v \in Threads /\ GateOf[v] = g)
      <4>1. call'[v] = call[v]
        BY <1>3, <3>2 DEF Stop
      <4>2. v \in Threads => gate'[GateOf[v]] = gate[GateOf[v]]
        BY <1>0, <2>1, <3>2
      <4>3. v \in Threads /\ call[v].pc # "idle" => gate'[GateOf[v]].status = "up"
        BY <4>2 DEF PolicyInv, Places, Place
      <4> QED
        BY <1>1, <2>1, <4>1, <4>2, <4>3, OthersStay DEF GroundKept
    <3> QED
      BY <3>1, <3>2
  <2> QED
    BY <1>0, <2>1, <2>2 DEF Places, Knowledge
<1> QED
  BY <1>2, <1>3

LEMMA OtherKnows ==
    ASSUME PolicyInv,
           \/ \E p \in Policies : Edit(p)
           \/ \E a \in Approvals : Decide(a)
           \/ \E S \in SUBSET Approvals : Expire(S)
           \/ UNCHANGED vars
    PROVE  Places' /\ Knowledge'
<1>1. UNCHANGED <<bound, storePolicy, gate, call, quiet>>
  BY DEF Edit, Decide, Expire, vars
<1>2. BornKept
  <2>1. Types /\ UNCHANGED bound
    BY <1>1 DEF PolicyInv
  <2>2. \/ UNCHANGED store
        \/ \E a \in Approvals : Store!Approve(a) \/ Store!Reject(a)
        \/ \E S \in SUBSET Approvals : Store!Forget(S)
    BY DEF Edit, Decide, Expire, vars, store
  <2> QED
    BY <2>1, <2>2, StoreKeepsBorn
<1>3. ASSUME NEW v \in Workers PROVE Place(v)' /\ (v \in quiet' => Known(v)')
  <2>1. v \in Threads /\ call[v].pc # "idle" => gate'[GateOf[v]].status = "up"
    BY <1>1 DEF PolicyInv, Places, Place
  <2> QED
    BY <1>1, <1>2, <2>1, OthersStay DEF GroundKept
<1>4. quiet' \subseteq Workers
  BY <1>1 DEF PolicyInv, Types, TypeOK
<1> QED
  BY <1>3, <1>4 DEF Places, Knowledge

LEMMA PolicyInvInit == Init => PolicyInv
<1> SUFFICES ASSUME Init PROVE PolicyInv
  OBVIOUS
<1>1. Types
  BY InitTypes
<1>2. Places /\ Knowledge
  BY DEF Init, Places, Place, Knowledge, Idle, Bound
<1> QED
  BY <1>1, <1>2 DEF PolicyInv

LEMMA PolicyInvStep == PolicyInv /\ [Next]_vars => PolicyInv'
<1> SUFFICES ASSUME PolicyInv, [Next]_vars PROVE PolicyInv'
  OBVIOUS
<1>1. Types'
  BY TypeStep DEF PolicyInv
<1>2. ASSUME NEW w \in Workers, Work(w) PROVE Places' /\ Knowledge'
  BY <1>2, EnterKnows, StoreKnows, GetKnows, CheckSharedKnows, CheckOwnKnows,
     HookPublishKnows, HookLookupKnows, HookDigestKnows DEF Work
<1>3. Places' /\ Knowledge'
  BY <1>2, ReloadKnows, GateKnows, OtherKnows DEF Next
<1> QED
  BY <1>1, <1>3 DEF PolicyInv

-----------------------------------------------------------------------------
(***************************************************************************)
(* Spending and destroying.                                                *)
(***************************************************************************)
\* An approval that goes from APPROVED to CONSUMED is consumed by the worker that moves.
LEMMA OnlyConsume ==
    ASSUME Types, Next, NEW w \in Workers, NEW a \in Approvals,
           call'[w] # call[w], life[a] = "APPROVED", life'[a] = "CONSUMED"
    PROVE  Consume(w)
<1> USE DEF Types, TypeOK, Store!TypeOK
<1>1. ~UNCHANGED life
  OBVIOUS
<1>2. PICK v \in Workers : Work(v)
  <2>1. \A p \in Policies : ~Edit(p)
    BY <1>1 DEF Edit, store
  <2>2. \A g \in Gates : ~(Start(g) \/ Sync(g) \/ Seed(g) \/ Stop(g))
    BY <1>1 DEF Start, Sync, Seed, Stop, store
  <2>3. \A v \in Threads : ~Reload(v)
    BY <1>1 DEF Reload, ReloadPolicy, ReloadProvenance, ReloadStore, store
  <2>4. \A b \in Approvals : ~Decide(b)
    BY DEF Decide
  <2>5. \A S \in SUBSET Approvals : ~Expire(S)
    BY DEF Expire
  <2> QED
    BY <2>1, <2>2, <2>3, <2>4, <2>5 DEF Next
<1>3. \/ Save(v) \/ Invalidate(v) \/ Consume(v)
  BY <1>1, <1>2 DEF Work, Request, HookBegin, Retry, Get, CheckShared, CheckOwn, LoseRace, Run,
                    Fail, HookPublish, HookLookup, HookDigest, Returned, Store!Use, store
<1>4. ~Save(v)
  BY <1>1 DEF Save, Store!Submit, Store!Move, store
<1>5. ~Invalidate(v)
  BY <1>1 DEF Invalidate, Store!Invalidate, Store!Move, store
<1>6. Consume(v) /\ \A u \in Workers \ {v} : call'[u] = call[u]
  BY <1>3, <1>4, <1>5, GotoMoves DEF Consume, Phases, Calls
<1> QED
  BY <1>6

\* A retry that no policy change overtook spends an approval only for its exact request,
\* while neither the shared policy nor its gate's finds a fault with it, in whatever order
\* the comparisons of any number of gates, threads and hooks interleave.
THEOREM SpentUnderCurrentPolicy == Spec => ConsumedUnderCurrentPolicy
<1>1. ASSUME PolicyInv, [Next]_vars, NEW w \in quiet, NEW a \in Approvals,
             Moves(w, a, "consume", "CONSUMED")
      PROVE  bound[a].fp = call[w].fp /\ ~Faulted(w, a, bound[a].fp)
  <2>1. w \in Workers /\ Next
    BY <1>1 DEF PolicyInv, Types, TypeOK, Moves, vars
  <2>2. Consume(w) /\ call[w].id = a
    BY <1>1, <2>1, OnlyConsume DEF PolicyInv, Moves
  <2>3. bound[a].fp = call[w].fp
    BY <2>2 DEF Consume
  <2>4. SharedAgrees(w) /\ OwnAgrees(w)
    BY <1>1, <2>2 DEF Consume, PolicyInv, Knowledge, Known
  <2> QED
    BY <2>2, <2>3, <2>4 DEF SharedAgrees, OwnAgrees, Faulted
<1>2. PolicyInv /\ [Next]_vars =>
          [\A w \in quiet, a \in Approvals :
               Moves(w, a, "consume", "CONSUMED")
                   => bound[a].fp = call[w].fp /\ ~Faulted(w, a, bound[a].fp)]_vars
  BY <1>1
<1> QED
  BY <1>2, PolicyInvInit, PolicyInvStep, PTL DEF Spec, ConsumedUnderCurrentPolicy

\* A retry that no policy change overtook invalidates an approval only when one of the
\* policies in force finds a fault with it or denies what is retried.
THEOREM DestroyedForAReason == Spec => InvalidatedForAReason
<1>1. ASSUME PolicyInv, NEW w \in quiet, NEW a \in Approvals,
             Moves(w, a, "invalidate", "POLICY_INVALIDATED")
      PROVE  Faulted(w, a, call[w].fp)
  BY <1>1 DEF PolicyInv, Knowledge, Known, Moves
<1>2. PolicyInv =>
          [\A w \in quiet, a \in Approvals :
               Moves(w, a, "invalidate", "POLICY_INVALIDATED")
                   => Faulted(w, a, call[w].fp)]_vars
  BY <1>1
<1> QED
  BY <1>2, PolicyInvInit, PolicyInvStep, PTL DEF Spec, InvalidatedForAReason
=============================================================================
