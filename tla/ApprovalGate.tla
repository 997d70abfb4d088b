----------------------------- MODULE ApprovalGate ------------------------------
(***************************************************************************)
(* The gates that ask for an approval, and the retry that spends it:       *)
(* Dmint.retry (core/enforcement.py), MCPProxyGate.route_call and          *)
(* retry_call (mcp/proxy.py) and the harness hook (cli/hooks.py), on one   *)
(* shared approval store.                                                  *)
(*                                                                         *)
(* The store is used through what ApprovalLifecycle promises: each store   *)
(* operation is one of its steps, taken jointly with a step of the gate.   *)
(* ApprovalStore implements that lifecycle with several statements per     *)
(* operation.  What an approval binds besides (request, policy digest)     *)
(* never changes once it is submitted, and is in bound.                    *)
(*                                                                         *)
(* A gate holds its policy in memory next to the provenance (the digest)   *)
(* it stamps on requests; the store holds a policy that all share.  A      *)
(* policy stands for its digest, and Verdict for Policy.evaluate.          *)
(***************************************************************************)
EXTENDS Naturals

CONSTANTS
    Approvals,      \* approval ids
    Fingerprints,   \* exact requests, their integration included
    Policies,       \* policies, by digest
    Verdict,        \* the decision of a policy on a request
    Gates,          \* long-running gates: SDK instances and MCP gateways
    Threads,        \* threads or tasks that call a gate
    GateOf,         \* the gate a thread calls
    Hooks,          \* hook processes; each run loads its policy afresh
    None

ASSUME GateAssumption ==
    /\ None \notin Approvals \cup Fingerprints \cup Policies \cup Threads \cup Hooks
    /\ Verdict \in [Policies -> [Fingerprints -> {"ALLOW", "DENY", "ASK"}]]
    /\ GateOf \in [Threads -> Gates]
    /\ Threads \cap Hooks = {}

Workers == Threads \cup Hooks

VARIABLES
    life, uses,     \* the store, as ApprovalLifecycle has it
    bound,          \* the request and the policy digest in each row
    storePolicy,    \* table store_policy
    file,           \* external: the policy file an operator edits
    gate,           \* the long-running gates
    kindOf,         \* what each gate is; it stays that
    call,           \* what each worker is doing
    runs,           \* observation: executions of the tool per approval
    quiet           \* observation: workers that no policy changed under since
                    \* they began

store == <<life, uses>>
vars == <<life, uses, bound, storePolicy, file, gate, call, runs, quiet, kindOf>>

Store == INSTANCE ApprovalLifecycle

-----------------------------------------------------------------------------
Kinds    == {"sdk", "local", "mcp"}     \* Dmint, Dmint.local, EnforcementGate
Statuses == {"down", "sync", "seed", "up"}

Phases ==
    {"idle", "save",                                        \* _persist_pending
     "get", "shared", "own", "invalidate",                  \* retry
     "consume", "return", "run",
     "publish", "lookup", "digest",                         \* hook
     "reloadProvenance", "reloadStore"}                     \* reload_policy

Gate == [status : Statuses, policy : Policies \cup {None}, prov : Policies \cup {None}]
Call == [pc : Phases, fp : Fingerprints \cup {None}, id : Approvals \cup {None},
         seen : Store!Stages, policy : Policies \cup {None}]

Down == [status |-> "down", policy |-> None, prov |-> None]
Idle == [pc |-> "idle", fp |-> None, id |-> None, seen |-> "UNBORN", policy |-> None]

\* The policy a worker evaluates, and the digest it stamps and compares.
PolicyOf(w) == IF w \in Hooks THEN call[w].policy ELSE gate[GateOf[w]].policy
ProvOf(w)   == IF w \in Hooks THEN call[w].policy ELSE gate[GateOf[w]].prov

Serves(w) == w \in Hooks \/ gate[GateOf[w]].status = "up"

Enter(w, c) == call[w].pc = "idle" /\ call' = [call EXCEPT ![w] = c] /\ quiet' = quiet \cup {w}
Goto(w, pc) == call' = [call EXCEPT ![w].pc = pc]
Leave(w)    == call' = [call EXCEPT ![w] = Idle]

\* The approvals that could serve request f: granted, and not used yet.
Granted(f) == {a \in Approvals : life[a] = "APPROVED" /\ bound[a].fp = f}

\* w writes p into the shared table, or its gate: the others' ground moves.
Publish(w, p) ==
    /\ storePolicy' = p
    /\ quiet' = IF p = storePolicy THEN quiet ELSE quiet \cap {w}

-----------------------------------------------------------------------------
Init ==
    /\ Store!Init
    /\ bound = [a \in Approvals |-> [fp |-> None, policy |-> None]]
    /\ storePolicy = None
    /\ file \in Policies
    /\ gate = [g \in Gates |-> Down]
    /\ kindOf \in [Gates -> Kinds]
    /\ call = [w \in Workers |-> Idle]
    /\ runs = [a \in Approvals |-> 0]
    /\ quiet = {}

\* External: the policy file is edited.
Edit(p) ==
    /\ file' = p
    /\ UNCHANGED <<store, bound, storePolicy, gate, call, runs, quiet, kindOf>>

(***************************************************************************)
(* A gate starts, and stops at any time.                                   *)
(***************************************************************************)
Start(g) ==
    /\ gate[g].status = "down"
    /\ gate' = [gate EXCEPT ![g] = [status |-> "sync", policy |-> file, prov |-> file]]
    /\ UNCHANGED <<store, bound, storePolicy, file, call, runs, quiet, kindOf>>

\* Dmint.local publishes its policy; the others call sync_authoritative_policy,
\* which reads the shared policy and seeds it only when there is none.
Sync(g) ==
    /\ gate[g].status = "sync"
    /\ IF kindOf[g] = "local"
       THEN /\ Publish(None, gate[g].policy)
            /\ gate' = [gate EXCEPT ![g].status = "up"]
       ELSE /\ gate' = [gate EXCEPT ![g].status = IF storePolicy = None THEN "seed" ELSE "up"]
            /\ UNCHANGED <<storePolicy, quiet>>
    /\ UNCHANGED <<store, bound, file, call, runs, kindOf>>

Seed(g) ==
    /\ gate[g].status = "seed"
    /\ Publish(None, gate[g].policy)
    /\ gate' = [gate EXCEPT ![g].status = "up"]
    /\ UNCHANGED <<store, bound, file, call, runs, kindOf>>

Stop(g) ==
    /\ gate[g].status # "down"
    /\ gate' = [gate EXCEPT ![g] = Down]
    /\ call' = [w \in Workers |-> IF w \in Threads /\ GateOf[w] = g THEN Idle ELSE call[w]]
    /\ UNCHANGED <<store, bound, storePolicy, file, runs, quiet, kindOf>>

(***************************************************************************)
(* Dmint.reload_policy: three assignments that other threads can see apart.*)
(* MCPGateway.reload_policy leaves out the last: the shared policy stays.  *)
(***************************************************************************)
ReloadPolicy(w) ==
    LET g == GateOf[w]
    IN /\ gate[g].status = "up" /\ kindOf[g] \in {"sdk", "mcp"}
       /\ call[w].pc = "idle"
       /\ gate' = [gate EXCEPT ![g].policy = file]
       /\ call' = [call EXCEPT ![w] = [Idle EXCEPT !.pc = "reloadProvenance", !.policy = file]]
       /\ quiet' = {v \in quiet : v \in Hooks \/ GateOf[v] # g}
       /\ UNCHANGED <<store, bound, storePolicy, file, runs, kindOf>>

ReloadProvenance(w) ==
    LET g == GateOf[w]
    IN /\ call[w].pc = "reloadProvenance"
       /\ gate' = [gate EXCEPT ![g].prov = call[w].policy]
       /\ IF kindOf[g] = "sdk" THEN Goto(w, "reloadStore") ELSE Leave(w)
       /\ quiet' = {v \in quiet : v \in Hooks \/ GateOf[v] # g}
       /\ UNCHANGED <<store, bound, storePolicy, file, runs, kindOf>>

ReloadStore(w) ==
    /\ call[w].pc = "reloadStore"
    /\ Publish(w, call[w].policy)
    /\ Leave(w)
    /\ UNCHANGED <<store, bound, file, gate, runs, kindOf>>

(***************************************************************************)
(* A call that the policy sends to a human.  (A call it allows or denies   *)
(* changes nothing here.)  The MCP gateway first looks for an approval of  *)
(* the same request and retries with it; one that has expired is not found.*)
(***************************************************************************)
Request(w, f) ==
    /\ w \in Threads /\ Serves(w)
    /\ Verdict[PolicyOf(w)][f] = "ASK"
    /\ \/ Enter(w, [Idle EXCEPT !.pc = "save", !.fp = f])
       \/ /\ kindOf[GateOf[w]] = "mcp"
          /\ \E a \in Granted(f) : Enter(w, [Idle EXCEPT !.pc = "get", !.fp = f, !.id = a])
    /\ UNCHANGED <<store, bound, storePolicy, file, gate, runs, kindOf>>

\* _persist_pending: save_pending stores a request stamped with the worker's
\* provenance, or returns the identical one that is pending, whatever policy
\* that one was stamped with.
Save(w) ==
    /\ call[w].pc = "save"
    /\ IF \E a \in Approvals : life[a] = "PENDING" /\ bound[a].fp = call[w].fp
       THEN UNCHANGED <<store, bound>>
       ELSE \E a \in Approvals :
                /\ Store!Submit(a)
                /\ bound' = [bound EXCEPT ![a] = [fp |-> call[w].fp, policy |-> ProvOf(w)]]
    /\ Leave(w)
    /\ UNCHANGED <<storePolicy, file, gate, runs, quiet, kindOf>>

(***************************************************************************)
(* The retry: read the record, compare with the shared policy, then with   *)
(* the gate's own, consume, execute.                                       *)
(***************************************************************************)
\* The caller presents a credential of approval a, or has it looked up.
Retry(w, f, a) ==
    /\ w \in Threads /\ Serves(w)
    /\ life[a] \in {"APPROVED", "CONSUMED", "POLICY_INVALIDATED"}
    /\ Enter(w, [Idle EXCEPT !.pc = "get", !.fp = f, !.id = a])
    /\ UNCHANGED <<store, bound, storePolicy, file, gate, runs, kindOf>>

\* The state read here is what the checks below go by.  The MCP gateway compares
\* the request now, the SDK leaves it to consume_approved.
Get(w) ==
    /\ call[w].pc = "get"
    /\ IF kindOf[GateOf[w]] = "mcp" /\ bound[call[w].id].fp # call[w].fp
       THEN Leave(w)
       ELSE call' = [call EXCEPT ![w].pc = "shared", ![w].seen = life[call[w].id]]
    /\ UNCHANGED <<store, bound, storePolicy, file, gate, runs, quiet, kindOf>>

\* Mutant of Refuse: it ends in a phase nothing leaves.
RefuseStuck(w) == Goto(w, "refused")

\* A stale approval is invalidated, when it was APPROVED as read, and refused.
Refuse(w) == IF call[w].seen = "APPROVED" THEN Goto(w, "invalidate") ELSE Leave(w)

CheckShared(w) ==
    /\ call[w].pc = "shared"
    /\ IF \/ storePolicy = None
          \/ /\ bound[call[w].id].policy = storePolicy
             /\ Verdict[storePolicy][call[w].fp] # "DENY"
       THEN Goto(w, "own")
       ELSE Refuse(w)
    /\ UNCHANGED <<store, bound, storePolicy, file, gate, runs, quiet, kindOf>>

\* Mutants of CheckOwn: the digest is not compared; only ALLOW will do.
CheckOwnVerdict(w) ==
    /\ call[w].pc = "own"
    /\ IF Verdict[PolicyOf(w)][call[w].fp] # "DENY" THEN Goto(w, "consume") ELSE Refuse(w)
    /\ UNCHANGED <<store, bound, storePolicy, file, gate, runs, quiet, kindOf>>

CheckOwnAllow(w) ==
    /\ call[w].pc = "own"
    /\ IF /\ bound[call[w].id].policy = ProvOf(w)
          /\ Verdict[PolicyOf(w)][call[w].fp] = "ALLOW"
       THEN Goto(w, "consume")
       ELSE Refuse(w)
    /\ UNCHANGED <<store, bound, storePolicy, file, gate, runs, quiet, kindOf>>

\* The provenance and the policy are read one after the other; a reload writes
\* the policy first, so a read in between gives what one read after its first
\* write gives.
CheckOwn(w) ==
    /\ call[w].pc = "own"
    /\ IF /\ bound[call[w].id].policy = ProvOf(w)
          /\ Verdict[PolicyOf(w)][call[w].fp] # "DENY"
       THEN Goto(w, "consume")
       ELSE Refuse(w)
    /\ UNCHANGED <<store, bound, storePolicy, file, gate, runs, quiet, kindOf>>

\* invalidate_approved; when another operation was first it raises (Fail).  A
\* hook goes on to ask for a new approval either way.
Invalidate(w) ==
    /\ call[w].pc = "invalidate"
    /\ \/ Store!Invalidate(call[w].id)
       \/ w \in Hooks /\ life[call[w].id] # "APPROVED" /\ UNCHANGED store
    /\ IF w \in Hooks THEN Goto(w, "save") ELSE Leave(w)
    /\ UNCHANGED <<bound, storePolicy, file, gate, runs, quiet, kindOf>>

\* consume_approved, its commit and its return.
Consume(w) ==
    /\ call[w].pc = "consume"
    /\ bound[call[w].id].fp = call[w].fp
    /\ Store!Consume(call[w].id)
    /\ Goto(w, "return")
    /\ UNCHANGED <<bound, storePolicy, file, gate, runs, quiet, kindOf>>

\* A hook that finds the approval consumed asks for a new one.
LoseRace(w) ==
    /\ w \in Hooks
    /\ call[w].pc = "consume"
    /\ life[call[w].id] = "CONSUMED"
    /\ Goto(w, "save")
    /\ UNCHANGED <<store, bound, storePolicy, file, gate, runs, quiet, kindOf>>

Returned(w) ==
    /\ call[w].pc = "return"
    /\ Store!Use(call[w].id)
    /\ Goto(w, "run")
    /\ UNCHANGED <<bound, storePolicy, file, gate, runs, quiet, kindOf>>

\* Mutant of Run: an execution that seems to have failed is tried again.
RunAgain(w) ==
    /\ call[w].pc = "run"
    /\ runs' = [runs EXCEPT ![call[w].id] = @ + 1]
    /\ UNCHANGED <<store, bound, storePolicy, file, gate, call, quiet, kindOf>>

\* The function, the downstream tool or the harness executes.
Run(w) ==
    /\ call[w].pc = "run"
    /\ runs' = [runs EXCEPT ![call[w].id] = @ + 1]
    /\ Leave(w)
    /\ UNCHANGED <<store, bound, storePolicy, file, gate, quiet, kindOf>>

\* Any check or store operation raises, or the process dies.
Fail(w) ==
    /\ call[w].pc # "idle"
    /\ Leave(w)
    /\ UNCHANGED <<store, bound, storePolicy, file, gate, runs, quiet, kindOf>>

(***************************************************************************)
(* A hook run: load the policy, publish it, look for an approval.          *)
(***************************************************************************)
HookBegin(w, f) ==
    /\ w \in Hooks
    /\ Verdict[file][f] = "ASK"
    /\ Enter(w, [Idle EXCEPT !.pc = "publish", !.fp = f, !.policy = file])
    /\ UNCHANGED <<store, bound, storePolicy, file, gate, runs, kindOf>>

HookPublish(w) ==
    /\ call[w].pc = "publish"
    /\ Publish(w, call[w].policy)
    /\ Goto(w, "lookup")
    /\ UNCHANGED <<store, bound, file, gate, runs, kindOf>>

HookLookup(w) ==
    /\ call[w].pc = "lookup"
    /\ \/ Goto(w, "save")
       \/ \E a \in Granted(call[w].fp) :
             call' = [call EXCEPT ![w].pc = "digest", ![w].id = a, ![w].seen = "APPROVED"]
    /\ UNCHANGED <<store, bound, storePolicy, file, gate, runs, quiet, kindOf>>

\* Mutants of HookDigest: the digest is not compared; that of the file is.
HookDigestSkipped(w) ==
    /\ call[w].pc = "digest"
    /\ Goto(w, "consume")
    /\ UNCHANGED <<store, bound, storePolicy, file, gate, runs, quiet, kindOf>>

HookDigestOfFile(w) ==
    /\ call[w].pc = "digest"
    /\ Goto(w, IF bound[call[w].id].policy = file THEN "consume" ELSE "invalidate")
    /\ UNCHANGED <<store, bound, storePolicy, file, gate, runs, quiet, kindOf>>

HookDigest(w) ==
    /\ call[w].pc = "digest"
    /\ Goto(w, IF bound[call[w].id].policy = call[w].policy THEN "consume" ELSE "invalidate")
    /\ UNCHANGED <<store, bound, storePolicy, file, gate, runs, quiet, kindOf>>

(***************************************************************************)
(* The store's other users.  The dashboard decides without asking a policy;*)
(* the CLI's approve decides the same way or refuses.  Expired requests    *)
(* are cleaned up.                                                         *)
(***************************************************************************)
Decide(a) ==
    /\ Store!Approve(a) \/ Store!Reject(a)
    /\ UNCHANGED <<bound, storePolicy, file, gate, call, runs, quiet, kindOf>>

Expire(S) ==
    /\ S # {}
    /\ Store!Forget(S)
    /\ UNCHANGED <<bound, storePolicy, file, gate, call, runs, quiet, kindOf>>

-----------------------------------------------------------------------------
Work(w) ==
    \/ \E f \in Fingerprints : Request(w, f) \/ HookBegin(w, f)
    \/ \E f \in Fingerprints, a \in Approvals : Retry(w, f, a)
    \/ Save(w) \/ Get(w) \/ CheckShared(w) \/ CheckOwn(w)
    \/ Invalidate(w) \/ Consume(w) \/ LoseRace(w) \/ Returned(w) \/ Run(w) \/ Fail(w)
    \/ HookPublish(w) \/ HookLookup(w) \/ HookDigest(w)

Reload(w) == ReloadPolicy(w) \/ ReloadProvenance(w) \/ ReloadStore(w)

Next ==
    \/ \E p \in Policies : Edit(p)
    \/ \E g \in Gates : Start(g) \/ Sync(g) \/ Seed(g) \/ Stop(g)
    \/ \E w \in Workers : Work(w)
    \/ \E w \in Threads : Reload(w)
    \/ \E a \in Approvals : Decide(a)
    \/ \E S \in SUBSET Approvals : Expire(S)

Spec == Init /\ [][Next]_vars
-----------------------------------------------------------------------------
TypeOK ==
    /\ Store!TypeOK
    /\ bound \in [Approvals -> [fp : Fingerprints \cup {None}, policy : Policies \cup {None}]]
    /\ storePolicy \in Policies \cup {None}
    /\ file \in Policies
    /\ gate \in [Gates -> Gate]
    /\ kindOf \in [Gates -> Kinds]
    /\ call \in [Workers -> Call]
    /\ runs \in [Approvals -> Nat]
    /\ quiet \subseteq Workers

\* Whatever fails or restarts between consuming and executing, and whoever
\* races: no approval executes the tool twice, and none executes it that a human
\* did not grant and the store did not mark CONSUMED first.
ExecutedAtMostOnce ==
    \A a \in Approvals :
        /\ runs[a] <= 1
        /\ runs[a] = 1 => life[a] = "CONSUMED"

\* The policies w must go by find a fault with approval a for request f: the
\* shared one or its own has another digest, or denies the request.
Faulted(w, a, f) ==
    \/ bound[a].policy # ProvOf(w)
    \/ Verdict[PolicyOf(w)][f] = "DENY"
    \/ /\ storePolicy # None
       /\ \/ bound[a].policy # storePolicy
          \/ Verdict[storePolicy][f] = "DENY"

\* w, at phase from, moves approval a from APPROVED.
Moves(w, a, from, to) ==
    /\ call[w].pc = from /\ call[w].id = a /\ call'[w] # call[w]
    /\ life[a] = "APPROVED" /\ life'[a] = to

\* A retry that no policy change overtook spends an approval only for the exact
\* request it was given for, under the digest of every policy in force, when none
\* of them denies it; checks and consumption are separate steps, and other
\* workers run in between.
ConsumedUnderCurrentPolicy ==
    [][\A w \in quiet, a \in Approvals :
            Moves(w, a, "consume", "CONSUMED")
                => bound[a].fp = call[w].fp /\ ~Faulted(w, a, bound[a].fp)]_vars

\* A retry that no policy change overtook destroys a human's approval only when
\* one of the policies in force finds a fault with it or denies what is retried.
InvalidatedForAReason ==
    [][\A w \in quiet, a \in Approvals :
            Moves(w, a, "invalidate", "POLICY_INVALIDATED")
                => Faulted(w, a, call[w].fp)]_vars

\* What docs/reference/errors.mdx says of DMT_APPROVAL_POLICY_INVALID: "Policy
\* provenance changed or now denies the request. Request a new approval under the
\* current policy."  So an approval asked for under the policy that the file and
\* the gate both have, and that does not deny it, is not invalidated.
CurrentApprovalsStayValid ==
    [][\A w \in quiet, a \in Approvals :
            Moves(w, a, "invalidate", "POLICY_INVALIDATED")
                => \/ bound[a].policy # file \/ ProvOf(w) # file
                   \/ Verdict[file][bound[a].fp] = "DENY"]_vars

\* What Dmint.retry says when it invalidates: "current policy denies the approved
\* request".  So an approval is invalidated only for a fault the policies find
\* with the request it was given for, whatever request it is presented with.
InvalidatedForItsOwnRequest ==
    [][\A w \in quiet, a \in Approvals :
            Moves(w, a, "invalidate", "POLICY_INVALIDATED")
                => Faulted(w, a, bound[a].fp)]_vars
=============================================================================
