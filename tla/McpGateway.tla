------------------------------ MODULE McpGateway -------------------------------
(***************************************************************************)
(* The MCP gateway over one downstream server: connecting, and the requests  *)
(* of several agents that share one session (mcp/gateway.py, mcp/proxy.py,   *)
(* mcp/client.py, ClientSession of mcp/_stdlib_mcp.py).                      *)
(*                                                                         *)
(* Requests are tasks of one event loop; what lies between two awaits is     *)
(* one action.  An answer is waited for under the session's lock, a timeout  *)
(* cancels the wait and leaves the answer to come.  The server may answer    *)
(* late, in any order or never, may write lines that are no answers, may     *)
(* stop, and may change the declaration of the tool.  The policy may be      *)
(* loaded anew while requests wait.                                        *)
(***************************************************************************)
EXTENDS Naturals, Sequences, FiniteSets

CONSTANTS
    Calls,       \* requests of agents, with their tasks
    Boot,        \* the task that connects
    Versions,    \* declarations of the tool, by schema hash
    Policies,    \* [pin, effect]: the schema hash demanded, or None, and the decision
    ApprovedFor, \* per call, the policy an approval for it was given under, or None
    MaxChanges,  \* bound on changes of the declaration, of the policy, and on stray lines
    None

Tasks == Calls \cup {Boot}

\* How a request may end that has no result of its own.
Outcomes == {"refused", "approval required", "listed", "timeout", "connection error"}

\* What has different meanings has different names.
ASSUME GatewayAssumption ==
    /\ Boot \notin Calls /\ None \notin Tasks \cup Versions \cup Outcomes
    /\ Calls \cap Outcomes = {}

VARIABLES
    gateway,    \* "new", "booting", "serving", "closed"
    alive,      \* the downstream process runs and its streams are open
    version,    \* its declaration of the tool
    policy,     \* the policy of the gate
    changes,    \* bound counter
    nextId,     \* _next_id of the session
    holder,     \* who has the session's lock
    wire,       \* requests on their way: [id, kind, by]
    answers,    \* lines not read yet: [id, kind, value]
    pc,         \* per task, what it waits for
    mode,       \* per task, "list", "call" or "retry"
    waitId,     \* per task, id of its request
    pinned,     \* per task, the schema hash it compares with
    listed,     \* per task, the declaration it was given
    result,     \* per task, its outcome
    inForce,    \* history: per task, declarations while it was in the gateway
    ruled,      \* history: per task, policies while it was in the gateway
    spent,      \* history: approvals consumed, by call
    ran         \* history: how often the server executed a call

downstream == <<alive, version>>
session    == <<nextId, holder, wire, answers>>
mine       == <<mode, pinned, listed>>
history    == <<inForce, ruled, spent, ran>>
vars == <<gateway, downstream, policy, changes, session, pc, waitId, result, mine, history>>

-----------------------------------------------------------------------------
Init ==
    /\ gateway = "new" /\ alive = FALSE /\ version \in Versions
    /\ policy \in Policies /\ changes = 0
    /\ nextId = 0 /\ holder = None /\ wire = {} /\ answers = <<>>
    /\ pc = [t \in Tasks |-> "idle"] /\ waitId = [t \in Tasks |-> 0]
    /\ mode = [t \in Tasks |-> None] /\ pinned = [t \in Tasks |-> None]
    /\ listed = [t \in Tasks |-> None] /\ result = [t \in Tasks |-> None]
    /\ inForce = [t \in Tasks |-> {}] /\ ruled = [t \in Tasks |-> {}]
    /\ spent = {} /\ ran = [t \in Calls |-> 0]

\* What a task waits for is also the kind of its request.
Kinds      == {"initialize", "list", "call"}
Waiting(t) == pc[t] \in Kinds
InRpc(t)   == Waiting(t) /\ waitId[t] # 0

\* A task goes on to its next request, or ends; either way the lock is given back.
GoTo(t, place) ==
    /\ pc' = [pc EXCEPT ![t] = place]
    /\ waitId' = [waitId EXCEPT ![t] = 0]
    /\ holder' = IF holder = t THEN None ELSE holder

Goes(t, place) == GoTo(t, place) /\ UNCHANGED result
Ends(t, outcome) == GoTo(t, "done") /\ result' = [result EXCEPT ![t] = outcome]

-----------------------------------------------------------------------------
(***************************************************************************)
(* The session: _rpc.                                                      *)
(***************************************************************************)
\* The lock is taken, the next id used, the request written.
Send(t) ==
    /\ Waiting(t) /\ waitId[t] = 0 /\ holder = None /\ alive
    /\ holder' = t
    /\ nextId' = nextId + 1
    /\ waitId' = [waitId EXCEPT ![t] = nextId + 1]
    /\ wire' = wire \cup {[id |-> nextId + 1, kind |-> pc[t], by |-> t]}
    /\ UNCHANGED <<gateway, downstream, policy, changes, answers, pc, result, mine, history>>

\* The server takes a request, sooner or later or never, and answers with a result or an error.
Serve(r, how) ==
    /\ alive
    /\ wire' = wire \ {r}
    /\ answers' = Append(answers, [id |-> r.id, kind |-> r.kind, value |->
                                   IF how = "error" THEN None
                                   ELSE IF r.kind = "list" THEN version ELSE r.by])
    /\ ran' = IF r.kind = "call" THEN [ran EXCEPT ![r.by] = @ + 1] ELSE ran
    /\ UNCHANGED <<gateway, downstream, policy, changes, nextId, holder, pc, waitId, result, mine,
                   inForce, ruled, spent>>

\* A notification, or a line of its log, between the answers.
Noise(kind) ==
    /\ alive /\ changes < MaxChanges
    /\ answers' = Append(answers, [id |-> 0, kind |-> kind, value |-> None])
    /\ changes' = changes + 1
    /\ UNCHANGED <<gateway, downstream, policy, nextId, holder, wire, pc, waitId, result, mine, history>>

\* What is no answer to the request is skipped.
Skip(t) ==
    /\ InRpc(t) /\ answers # <<>>
    /\ Head(answers).id # waitId[t] /\ Head(answers).kind # "no JSON"
    /\ answers' = Tail(answers)
    /\ UNCHANGED <<gateway, downstream, policy, changes, nextId, holder, wire, pc, waitId, result,
                   mine, history>>

\* Mutant of Answer: any answer of the kind asked for is taken.
AnswerAny(t, kind) ==
    /\ InRpc(t) /\ pc[t] = kind
    /\ answers # <<>> /\ Head(answers).kind = kind
    /\ answers' = Tail(answers)
    /\ UNCHANGED <<nextId, wire>>

\* A task reads the answer to its request.
Answer(t, kind) ==
    /\ InRpc(t) /\ pc[t] = kind
    /\ answers # <<>> /\ Head(answers).id = waitId[t]
    /\ answers' = Tail(answers)
    /\ UNCHANGED <<nextId, wire>>

-----------------------------------------------------------------------------
(***************************************************************************)
(* Requests of agents.                                                     *)
(***************************************************************************)
Asks(as) == policy.effect = "ask" /\ as = "call"

\* The decision on the policy as it is now: to list again, to call, or the outcome.
Verdict(t, as) ==
    IF policy.effect = "deny" THEN "refused"
    ELSE IF Asks(as) /\ ApprovedFor[t] = None THEN "approval required"
    ELSE IF Asks(as) /\ policy.pin # None THEN "list"
    ELSE IF (Asks(as) \/ as = "retry") /\ ApprovedFor[t] # policy THEN "refused"
    ELSE "call"

\* An approved call goes the same way once more, as a retry, before its approval is
\* consumed; the approval must be of this policy.
Decide(t, as) ==
    /\ mode' = [mode EXCEPT ![t] = IF Asks(as) /\ ApprovedFor[t] # None THEN "retry" ELSE as]
    /\ pinned' = [pinned EXCEPT ![t] = policy.pin]
    /\ IF Verdict(t, as) \in {"list", "call"} THEN Goes(t, Verdict(t, as)) ELSE Ends(t, Verdict(t, as))
    /\ spent' = IF Verdict(t, as) = "call" /\ (Asks(as) \/ as = "retry") THEN spent \cup {t} ELSE spent

\* A request comes in: the hash to compare with is read before the tools are listed;
\* without one nothing is listed.
Arrive(t, as) ==
    /\ t \in Calls /\ pc[t] = "idle" /\ gateway = "serving"
    /\ IF as = "call" /\ policy.pin = None THEN Decide(t, as)
       ELSE /\ mode' = [mode EXCEPT ![t] = as]
            /\ pinned' = [pinned EXCEPT ![t] = policy.pin]
            /\ Goes(t, "list") /\ UNCHANGED spent
    /\ inForce' = [inForce EXCEPT ![t] = {version}]
    /\ ruled' = [ruled EXCEPT ![t] = {policy}]
    /\ UNCHANGED <<gateway, downstream, policy, changes, nextId, wire, answers, listed, ran>>

\* verify_tool_schema.
Verified(t) ==
    /\ t \in Calls /\ mode[t] # "list" /\ Answer(t, "list")
    /\ listed' = [listed EXCEPT ![t] = Head(answers).value]
    /\ IF Head(answers).value \in {pinned[t]} \ {None} THEN Decide(t, mode[t])
       ELSE /\ Ends(t, IF Head(answers).value = None THEN "connection error" ELSE "refused")
            /\ UNCHANGED <<mode, pinned, spent>>
    /\ UNCHANGED <<gateway, downstream, policy, changes, inForce, ruled, ran>>

\* Every declaration listed is compared with the policy as it is then.
Matches(value) == value # None /\ policy.pin \in {None, value}

Listed(t) ==
    /\ t \in Calls /\ mode[t] = "list" /\ Answer(t, "list")
    /\ listed' = [listed EXCEPT ![t] = Head(answers).value]
    /\ Ends(t, IF Matches(Head(answers).value) THEN "listed" ELSE "refused")
    /\ UNCHANGED <<gateway, downstream, policy, changes, mode, pinned, history>>

Finished(t) ==
    /\ t \in Calls /\ Answer(t, "call")
    /\ Ends(t, Head(answers).value)
    /\ UNCHANGED <<gateway, downstream, policy, changes, mine, history>>

\* asyncio.wait_for also counts the time the lock is waited for.
TimeOut(t) ==
    /\ t \in Calls /\ Waiting(t)
    /\ Ends(t, "timeout")
    /\ UNCHANGED <<gateway, downstream, policy, changes, nextId, wire, answers, mine, history>>

\* The stream has ended, the line read is no JSON, or there is no session.
Broken(t) ==
    \/ InRpc(t) /\ answers = <<>> /\ ~alive
    \/ InRpc(t) /\ answers # <<>> /\ Head(answers).kind = "no JSON"
    \/ Waiting(t) /\ waitId[t] = 0 /\ ~alive

Fail(t) ==
    /\ t \in Calls /\ Broken(t)
    /\ Ends(t, "connection error")
    /\ answers' = IF InRpc(t) /\ answers # <<>> THEN Tail(answers) ELSE answers
    /\ UNCHANGED <<gateway, downstream, policy, changes, nextId, wire, mine, history>>

-----------------------------------------------------------------------------
(***************************************************************************)
(* Connecting and disconnecting, the policy, the server.                   *)
(***************************************************************************)
Connect ==
    /\ gateway = "new"
    /\ gateway' = "booting" /\ alive' = TRUE
    /\ Goes(Boot, "initialize")
    /\ UNCHANGED <<version, policy, changes, nextId, wire, answers, mine, history>>

Initialized ==
    /\ Answer(Boot, "initialize") /\ Head(answers).value # None
    /\ Goes(Boot, "list")
    /\ UNCHANGED <<gateway, downstream, policy, changes, mine, history>>

\* verify_all_tool_schemas, then the handlers are registered.
Ready ==
    /\ Answer(Boot, "list") /\ Matches(Head(answers).value)
    /\ gateway' = "serving"
    /\ Goes(Boot, "done")
    /\ UNCHANGED <<downstream, policy, changes, mine, history>>

\* A timeout, an error or a mismatch: what was opened is closed again.
BootFails ==
    /\ Waiting(Boot)
    /\ gateway' = "closed" /\ alive' = FALSE /\ wire' = {} /\ UNCHANGED answers
    /\ Goes(Boot, "done")
    /\ UNCHANGED <<version, policy, changes, nextId, mine, history>>

Disconnect ==
    /\ gateway = "serving"
    /\ gateway' = "closed" /\ alive' = FALSE /\ wire' = {}
    /\ UNCHANGED <<version, policy, changes, nextId, holder, answers, pc, waitId, result, mine, history>>

\* The process ends; the gateway does not notice before it reads.
Stop ==
    /\ alive
    /\ alive' = FALSE /\ wire' = {}
    /\ UNCHANGED <<gateway, version, policy, changes, nextId, holder, answers, pc, waitId, result,
                   mine, history>>

Inside(t) == pc[t] \notin {"idle", "done"}

Redeclare(v) ==
    /\ v # version /\ changes < MaxChanges
    /\ version' = v /\ changes' = changes + 1
    /\ inForce' = [t \in Tasks |-> IF Inside(t) THEN inForce[t] \cup {v} ELSE inForce[t]]
    /\ UNCHANGED <<gateway, alive, policy, session, pc, waitId, result, mine, ruled, spent, ran>>

reload_policy(p) ==
    /\ p # policy /\ changes < MaxChanges
    /\ policy' = p /\ changes' = changes + 1
    /\ ruled' = [t \in Tasks |-> IF Inside(t) THEN ruled[t] \cup {p} ELSE ruled[t]]
    /\ UNCHANGED <<gateway, downstream, session, pc, waitId, result, mine, inForce, spent, ran>>

Next ==
    \/ \E t \in Tasks : Send(t) \/ Skip(t)
    \/ \E t \in Calls : \/ \E as \in {"list", "call"} : Arrive(t, as)
                        \/ Verified(t) \/ Listed(t) \/ Finished(t)
                        \/ TimeOut(t) \/ Fail(t)
    \/ \E r \in wire, how \in {"result", "error"} : Serve(r, how)
    \/ \E kind \in {"notification", "no JSON"} : Noise(kind)
    \/ Connect \/ Initialized \/ Ready \/ BootFails \/ Disconnect \/ Stop
    \/ \E v \in Versions : Redeclare(v)
    \/ \E p \in Policies : reload_policy(p)

Spec == Init /\ [][Next]_vars
-----------------------------------------------------------------------------
\* Whatever requests, timeouts, late answers and stray lines meet on one session, a
\* caller that gets a result gets the result of its own call (_rpc).  A call the server
\* executed, it executed once, under a declaration that a policy in force since the call
\* came in demands and that the server had since then (verify_tool_schema, route_call);
\* and an approved one only after its approval was consumed.
AnswerIsOwn ==
    \A t \in Calls :
        /\ result[t] \in Calls => result[t] = t /\ ran[t] = 1
        /\ ran[t] <= 1
        /\ result[t] = "listed" => listed[t] \in inForce[t]
        /\ ran[t] > 0 =>
              /\ \E p \in ruled[t] : p.effect # "deny"
              /\ \E p \in ruled[t] : p.pin # None => listed[t] = p.pin /\ listed[t] \in inForce[t]
              /\ mode[t] = "retry" <=> t \in spent
=============================================================================
