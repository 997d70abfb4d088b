---------------------------- MODULE MCApprovalGate -----------------------------
(***************************************************************************)
(* Small instances of ApprovalGate: one gate, the second policy denies the *)
(* request f1; or two policies that both ask for approval, or both deny    *)
(* f2.                                                                     *)
(***************************************************************************)
EXTENDS ApprovalGate

CONSTANTS f1, f2, p1, p2, g1, t1, t2, h1, a1, a2

BothAsk   == [p \in Policies |-> [f \in Fingerprints |-> "ASK"]]
SecondDenies ==
    [p \in Policies |-> [f \in Fingerprints |-> IF p = p2 /\ f = f1 THEN "DENY" ELSE "ASK"]]
\* Both policies ask about f1 and deny f2.
FirstOnly ==
    [p \in Policies |-> [f \in Fingerprints |-> IF f = f2 THEN "DENY" ELSE "ASK"]]

OneGate    == [t \in Threads |-> g1]

\* What a gate of one kind is looked at with: two threads of an SDK gate, one
\* approval; two clients of an MCP gateway, two approvals; one thread of a
\* Dmint.local gate and a hook, the request that both policies ask about.
OneFront ==
    /\ kindOf[g1] = "sdk" => life'[a2] = life[a2]
    /\ kindOf[g1] = "local" =>
           /\ call'[t2] = call[t2]
           /\ \A w \in Workers : call'[w].fp # f1
    /\ kindOf[g1] # "local" => call'[h1] = call[h1]

\* The gates whose findings the runs with one kind of gate show.
GatewayInit == Init /\ kindOf[g1] = "mcp"
GatewaySpec == GatewayInit /\ [][Next]_vars
SdkInit == Init /\ kindOf[g1] = "sdk"
SdkSpec == SdkInit /\ [][Next]_vars
=============================================================================
