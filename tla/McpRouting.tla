------------------------------ MODULE McpRouting -------------------------------
(***************************************************************************)
(* A tools/call request on its way through the gateway: the identity of the  *)
(* agent (mcp/auth.py), the name of the tool (mcp/gateway.py list_tools and   *)
(* resolve_tool), the approval among the arguments (_handle_call_tool), and    *)
(* the request that is decided on (mcp/mapper.py).                           *)
(*                                                                         *)
(* A name is the sequence of its parts, with "." and "/" parts of their own.  *)
(***************************************************************************)
EXTENDS Naturals, Sequences, FiniteSets

CONSTANTS
    Gateways,     \* configurations: [tools, default, tokens], see Bound and Agent
    Names,        \* names an agent calls
    Tokens,       \* bearer tokens, known or not
    Agents,       \* the agents of tokens, and the default one
    DefaultAgent,
    ArgumentSets, \* arguments: functions from keys to values
    None

VARIABLES
    gw,     \* the configuration
    asked,  \* the last request: [name, token, claims, arguments]
    reached \* where it went: [home, tool, agent, resource, arguments, approval], or None

vars == <<gw, asked, reached>>

Ids        == DOMAIN gw.tools
\* gw.tools[id].bound: tool |-> [exposed, key]; gw.tools[id].offered: what the server declares.
Bound(id)  == DOMAIN gw.tools[id].bound
Binding(id, tool) == gw.tools[id].bound[tool]

-----------------------------------------------------------------------------
(***************************************************************************)
(* Names.                                                                  *)
(***************************************************************************)
\* _is_visible
Visible(id, tool) == IF tool \in Bound(id) THEN Binding(id, tool).exposed ELSE gw.default

\* tool_counts: how many integrations bind the name.
Holders(tool) == {id \in Ids : tool \in Bound(id)}

\* list_tools: a name that several bind is listed under the integration's id.
Offers(id) == {tool \in gw.tools[id].offered \cap Names : Visible(id, tool)}
Listing ==
    UNION { { [home |-> id, tool |-> tool,
               name |-> IF Cardinality(Holders(tool)) > 1 THEN <<id, ".">> \o tool ELSE tool] :
              tool \in Offers(id) } : id \in Ids }

\* str.partition at the first separator, when what comes before it is an integration.
Spaced(name, sep) == Len(name) > 2 /\ name[2] = sep /\ name[1] \in Ids
After(name)       == SubSeq(name, 3, Len(name))

Home(id, tool) == [home |-> id, tool |-> tool]

\* Mutant of resolve_tool: of several integrations any one is taken.
resolve_any(name) ==
    IF Holders(name) # {} THEN Home(CHOOSE id \in Holders(name) : TRUE, name) ELSE None

\* resolve_tool: after ".", after "/", then bare; what is found in no or in several is refused.
resolve_tool(name) ==
    IF Spaced(name, ".") \/ Spaced(name, "/")
    THEN IF After(name) \in Bound(name[1]) THEN Home(name[1], After(name)) ELSE None
    ELSE IF Cardinality(Holders(name)) = 1
         THEN Home(CHOOSE id \in Holders(name) : TRUE, name)
         ELSE None

-----------------------------------------------------------------------------
(***************************************************************************)
(* Requests.                                                               *)
(***************************************************************************)
\* AgentAuthMiddleware: with tokens configured an unknown one is refused.
Agent(token) ==
    IF gw.tokens = <<>> THEN DefaultAgent
    ELSE IF token \in DOMAIN gw.tokens THEN gw.tokens[token] ELSE None

\* agent_id among the arguments or the parameters must be the authenticated one.
Spoofed(r, agent) ==
    \/ r.claims \notin {None, agent}
    \/ "agent_id" \in DOMAIN r.arguments /\ r.arguments["agent_id"] # agent

\* The first of these keys holds the approval; it does not belong to the arguments.
CredentialKeys == <<"_dmint_approval", "dmint_approval", "approval_credential">>
Credentials(r) == {i \in DOMAIN CredentialKeys : CredentialKeys[i] \in DOMAIN r.arguments}
CredentialKey(r) ==
    IF Credentials(r) = {} THEN None
    ELSE CredentialKeys[CHOOSE i \in Credentials(r) : \A j \in Credentials(r) : i <= j]
Arguments(r) == [k \in DOMAIN r.arguments \ {CredentialKey(r)} |-> r.arguments[k]]

\* _resolve_resource: the argument the binding names, which must be a text.
HasResource(key, args) == key = None \/ (key \in DOMAIN args /\ args[key] # None)

\* MCPRequestMapper.map
Mapped(r, at) ==
    [home |-> at.home, tool |-> at.tool, agent |-> Agent(r.token), arguments |-> Arguments(r),
     resource |-> IF Binding(at.home, at.tool).key = None THEN None
                  ELSE Arguments(r)[Binding(at.home, at.tool).key],
     approval |-> IF CredentialKey(r) = None THEN None ELSE r.arguments[CredentialKey(r)]]

\* _handle_call_tool, until the policy is asked.
Outcome(r) ==
    LET at == resolve_tool(r.name)
    IN  IF \/ Agent(r.token) = None \/ Spoofed(r, Agent(r.token))
           \/ at = None
        THEN None
        ELSE IF HasResource(Binding(at.home, at.tool).key, Arguments(r)) THEN Mapped(r, at) ELSE None

Requests == [name : Names, token : Tokens, claims : Agents \cup {None}, arguments : ArgumentSets]

Init == gw \in Gateways /\ asked = None /\ reached = None

Handle(r) == /\ asked' = r
             /\ reached' = Outcome(r)
             /\ UNCHANGED gw

Next == asked = None /\ \E r \in Requests : Handle(r)
Spec == Init /\ [][Next]_vars
-----------------------------------------------------------------------------
\* What makes names ambiguous, and the code does not rule out: a tool listed without a
\* binding, and a tool whose own name starts like that of an integration.
Plain(entry) == entry.tool \in Bound(entry.home) /\ ~Spaced(entry.tool, ".") /\ ~Spaced(entry.tool, "/")

\* A name the gateway listed for a tool reaches, when it is called, that tool of that
\* integration or nothing; it does so for the agent whose token was sent, and without
\* the approval in the arguments that are decided on and forwarded.
CallsReachTheirTool ==
    asked # None =>
        /\ \A entry \in Listing :
              asked.name = entry.name /\ Plain(entry) =>
                  /\ reached # None => reached.home = entry.home /\ reached.tool = entry.tool
                  /\ (Agent(asked.token) # None /\ ~Spoofed(asked, Agent(asked.token))
                      /\ Binding(entry.home, entry.tool).key = None) => reached # None
        /\ reached # None =>
              /\ gw.tokens # <<>> => asked.token \in DOMAIN gw.tokens
                                     /\ reached.agent = gw.tokens[asked.token]
              /\ reached.approval # None => "_dmint_approval" \notin DOMAIN reached.arguments
              /\ \A k \in DOMAIN reached.arguments : reached.arguments[k] = asked.arguments[k]
=============================================================================
