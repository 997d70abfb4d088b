--------------------------- MODULE ServicesProofs ---------------------------
(***************************************************************************)
(* Proofs about the services: for each of McpRouting, CredentialStore,       *)
(* ThreadStores, WebhookDelivery, OAuthFlow, Dashboard and LoginLimiter an invariant that *)
(* its steps keep, then the theorems about ServicesSpec; and last the        *)
(* invariant of a session of McpGateway and the theorem about it.          *)
(***************************************************************************)
EXTENDS Services, FiniteSetTheorems, TLAPS

\* The sizes of the instances are those that the theorems about finite sets speak of.
LEMMA SameSizes ==
    \A S : /\ Routing!Cardinality(S) = Cardinality(S)
          /\ Posts!Cardinality(S) = Cardinality(S)
          /\ Board!Cardinality(S) = Cardinality(S)
          /\ Limiter!Cardinality(S) = Cardinality(S)
<1>1. \A S : Routing!Cardinality(S) = Cardinality(S)
  BY Zenon DEF Routing!Cardinality, Cardinality
<1>2. \A S : Posts!Cardinality(S) = Cardinality(S)
  BY Zenon DEF Posts!Cardinality, Cardinality
<1>3. \A S : Board!Cardinality(S) = Cardinality(S)
  BY Zenon DEF Board!Cardinality, Cardinality
<1>4. \A S : Limiter!Cardinality(S) = Cardinality(S)
  BY Zenon DEF Limiter!Cardinality, Cardinality
<1>. QED BY <1>1, <1>2, <1>3, <1>4

(***************************************************************************)
(* Routing: where a call arrives.                                          *)
(***************************************************************************)
RoutingInv ==
    /\ gw \in Gateways
    /\ asked # None => asked \in Routing!Requests /\ reached = Routing!Outcome(asked)

LEMMA RoutingInit == Routing!Init => RoutingInv
BY DEF Routing!Init, RoutingInv

\* What a request comes to depends on the configuration alone.
LEMMA OutcomeKeeps ==
    ASSUME gw' = gw, NEW r
    PROVE  Routing!Outcome(r)' = Routing!Outcome(r)
<1>1. /\ Routing!Ids' = Routing!Ids /\ \A id : Routing!Bound(id)' = Routing!Bound(id)
      /\ \A id, tool : Routing!Binding(id, tool)' = Routing!Binding(id, tool)
  BY DEF Routing!Ids, Routing!Bound, Routing!Binding
<1>2. \A tool : Routing!Holders(tool)' = Routing!Holders(tool)
  BY <1>1 DEF Routing!Holders
<1>3. Routing!resolve_tool(r.name)' = Routing!resolve_tool(r.name)
  <2>1. (CHOOSE id \in Routing!Holders(r.name) : TRUE)' = CHOOSE id \in Routing!Holders(r.name) : TRUE
    BY DEF Routing!Holders, Routing!Ids, Routing!Bound
  <2>2. Routing!Spaced(r.name, ".")' = Routing!Spaced(r.name, ".")
              /\ Routing!Spaced(r.name, "/")' = Routing!Spaced(r.name, "/")
    BY <1>1 DEF Routing!Spaced
  <2>3. Routing!Bound(r.name[1])' = Routing!Bound(r.name[1])
              /\ Routing!Holders(r.name)' = Routing!Holders(r.name)
    BY <1>1, <1>2
  <2>. QED BY <2>1, <2>2, <2>3 DEF Routing!resolve_tool, Routing!Home, Routing!After
<1>4. Routing!Agent(r.token)' = Routing!Agent(r.token)
  BY DEF Routing!Agent
<1>. DEFINE place == Routing!resolve_tool(r.name)
<1>5. Routing!Binding(place.home, place.tool)' = Routing!Binding(place.home, place.tool) /\ place' = place
  BY <1>1, <1>3
<1>6. Routing!Mapped(r, place)' = Routing!Mapped(r, place)
  BY <1>4, <1>5 DEF Routing!Mapped, Routing!Arguments, Routing!CredentialKey, Routing!Credentials
<1>7. Routing!HasResource(Routing!Binding(place.home, place.tool).key, Routing!Arguments(r))'
      = Routing!HasResource(Routing!Binding(place.home, place.tool).key, Routing!Arguments(r))
  BY <1>5 DEF Routing!HasResource, Routing!Arguments, Routing!CredentialKey, Routing!Credentials
<1>8. Routing!Spoofed(r, Routing!Agent(r.token))' = Routing!Spoofed(r, Routing!Agent(r.token))
  BY <1>4 DEF Routing!Spoofed
<1>. QED BY <1>4, <1>5, <1>6, <1>7, <1>8 DEF Routing!Outcome

LEMMA RoutingStep == RoutingInv /\ (Routing!Next \/ UNCHANGED Routing!vars) => RoutingInv'
<1>. SUFFICES ASSUME RoutingInv, (Routing!Next \/ UNCHANGED Routing!vars) PROVE RoutingInv'
  OBVIOUS
<1>1. ASSUME NEW r \in Routing!Requests, Routing!Handle(r) PROVE RoutingInv'
  <2>1. asked' = r /\ reached' = Routing!Outcome(r) /\ gw' = gw
    BY <1>1 DEF Routing!Handle
  <2>2. Routing!Outcome(r)' = Routing!Outcome(r)
    BY <2>1, OutcomeKeeps
  <2>. QED BY <2>1, <2>2 DEF RoutingInv
<1>2. CASE UNCHANGED Routing!vars
  <2>1. asked' = asked /\ reached' = reached /\ gw' = gw
    BY <1>2 DEF Routing!vars
  <2>2. Routing!Outcome(asked)' = Routing!Outcome(asked)
    BY <2>1 DEF Routing!Outcome, Routing!resolve_tool, Routing!Mapped, Routing!Agent,
           Routing!Spoofed, Routing!Home, Routing!Spaced, Routing!After, Routing!Holders,
           Routing!Bound, Routing!Ids, Routing!Binding,
             Routing!HasResource, Routing!Arguments, Routing!CredentialKey, Routing!Credentials
  <2>. QED BY <2>1, <2>2 DEF RoutingInv
<1>. QED BY <1>1, <1>2 DEF Routing!Next

\* A listed name is the name of its tool again.
LEMMA ListedResolves ==
    ASSUME gw \in Gateways, NEW entry \in Routing!Listing, Routing!Plain(entry)
    PROVE  /\ Routing!resolve_tool(entry.name) = Routing!Home(entry.home, entry.tool)
           /\ entry.home \in NamePieces /\ entry.tool \in Names
<1>. DEFINE entryOf(id, tool) ==
                [home |-> id, tool |-> tool,
                 name |-> IF Routing!Cardinality(Routing!Holders(tool)) > 1 THEN <<id, ".">> \o tool ELSE tool]
            offered(id) == {entryOf(id, tool) : tool \in Routing!Offers(id)}
<1>6. entry \in UNION {offered(id) : id \in Routing!Ids}
  BY DEF Routing!Listing
<1>7. PICK id \in Routing!Ids : entry \in offered(id)
  <2>. HIDE DEF offered
  <2>. QED BY <1>6
<1>8. PICK tool \in Routing!Offers(id) : entry = entryOf(id, tool)
  <2>. HIDE DEF entryOf
  <2>. QED BY <1>7
<1>1. /\ id \in Routing!Ids /\ tool \in Routing!Offers(id)
      /\ entry = [home |-> id, tool |-> tool,
                  name |-> IF Cardinality(Routing!Holders(tool)) > 1 THEN <<id, ".">> \o tool ELSE tool]
  BY <1>7, <1>8, SameSizes
<1>. HIDE DEF offered, entryOf
<1>2. id \in NamePieces /\ tool \in Names /\ tool \in Seq(NamePieces) /\ Len(tool) > 0 /\ entry.home = id
            /\ entry.tool = tool
  <2>1. Routing!Ids \subseteq NamePieces
    BY DEF Routing!Ids, NamePieces
  <2>. QED BY <1>1, <2>1, RoutingAssumption DEF Routing!Offers
<1>3. id \in Routing!Holders(tool) /\ IsFiniteSet(Routing!Holders(tool)) /\ ~Routing!Spaced(tool, ".")
            /\ ~Routing!Spaced(tool, "/")
      /\ tool \in Routing!Bound(id)
  <2>1. Routing!Holders(tool) \subseteq Routing!Ids /\ IsFiniteSet(Routing!Ids)
    BY RoutingAssumption DEF Routing!Holders, Routing!Ids
  <2>. QED BY <1>1, <1>2, <2>1, FS_Subset DEF Routing!Plain, Routing!Holders
<1>4. CASE Cardinality(Routing!Holders(tool)) > 1
  <2>. DEFINE name == <<id, ".">> \o tool
  <2>1. entry.name = name
    BY <1>1, <1>4
  <2>5. <<id, ".">> \in Seq(NamePieces) /\ Len(<<id, ".">>) = 2 /\ <<id, ".">>[1] = id /\ <<id, ".">>[2] = "."
    <3>1. id \in NamePieces /\ "." \in NamePieces
      BY <1>2 DEF NamePieces
    <3>2. <<id, ".">> \in Seq(NamePieces)
      BY <3>1
    <3>. QED BY <3>2
  <2>2. name \in Seq(NamePieces) /\ Len(name) = Len(tool) + 2 /\ name[1] = id /\ name[2] = "."
        /\ \A i \in 1 .. Len(tool) : name[i + 2] = tool[i]
    BY <1>2, <2>5
  <2>. HIDE DEF name
  <2>3. SubSeq(name, 3, Len(name)) = tool
    <3>1. SubSeq(name, 3, Len(name)) \in Seq(NamePieces) /\ Len(SubSeq(name, 3, Len(name))) = Len(tool)
          /\ \A i \in 1 .. Len(tool) : SubSeq(name, 3, Len(name))[i] = name[i + 2]
      BY <1>2, <2>2
    <3>. QED BY <1>2, <2>2, <3>1
  <2>4. Routing!Spaced(name, ".") /\ Routing!After(name) = tool
    BY <1>2, <2>2, <2>3 DEF Routing!Spaced, Routing!After
  <2>. QED BY <1>2, <1>3, <2>1, <2>2, <2>4 DEF Routing!resolve_tool
<1>5. CASE ~(Cardinality(Routing!Holders(tool)) > 1)
  <2>1. entry.name = tool
    BY <1>1, <1>5
  <2>2. Cardinality(Routing!Holders(tool)) = 1
    <3>1. Cardinality(Routing!Holders(tool)) \in Nat /\ Cardinality(Routing!Holders(tool)) # 0
      BY <1>3, FS_CardinalityType, FS_EmptySet
    <3>. QED BY <1>5, <3>1
  <2>3. Routing!Holders(tool) = {id}
    BY <1>3, <2>2, FS_Singleton
  <2>. QED BY <1>2, <1>3, <2>1, <2>2, <2>3, SameSizes DEF Routing!resolve_tool
<1>. QED BY <1>2, <1>4, <1>5

\* The key of the approval is one of the arguments, and the first.
LEMMA CredentialIsTaken ==
    ASSUME NEW r
    PROVE  /\ Routing!Credentials(r) # {} => Routing!CredentialKey(r) \in DOMAIN r.arguments
           /\ "_dmint_approval" \notin DOMAIN Routing!Arguments(r)
           /\ DOMAIN Routing!Arguments(r) \subseteq DOMAIN r.arguments
           /\ \A k \in DOMAIN Routing!Arguments(r) : Routing!Arguments(r)[k] = r.arguments[k]
<1>1. DOMAIN Routing!CredentialKeys = {1, 2, 3} /\ Routing!CredentialKeys[1] = "_dmint_approval"
  BY DEF Routing!CredentialKeys
<1>2. Routing!Credentials(r) \subseteq {1, 2, 3}
            /\ \A i \in Routing!Credentials(r) : Routing!CredentialKeys[i] \in DOMAIN r.arguments
  BY <1>1 DEF Routing!Credentials
<1>. DEFINE first == CHOOSE i \in Routing!Credentials(r) : \A j \in Routing!Credentials(r) : i <= j
<1>3. Routing!Credentials(r) # {} => first \in Routing!Credentials(r)
            /\ \A j \in Routing!Credentials(r) : first <= j
  <2>1. Routing!Credentials(r) # {} => \E i \in Routing!Credentials(r) : \A j \in Routing!Credentials(r) :
              i <= j
    <3>1. CASE 1 \in Routing!Credentials(r)
      BY <1>2, <3>1
    <3>2. CASE 1 \notin Routing!Credentials(r) /\ 2 \in Routing!Credentials(r)
      BY <1>2, <3>2
    <3>3. CASE 1 \notin Routing!Credentials(r) /\ 2 \notin Routing!Credentials(r)
      BY <1>2, <3>3
    <3>. QED BY <3>1, <3>2, <3>3
  <2>. QED BY <2>1
<1>4. Routing!Credentials(r) # {} => Routing!CredentialKey(r) = Routing!CredentialKeys[first]
  BY DEF Routing!CredentialKey
<1>. HIDE DEF first
<1>5. "_dmint_approval" \in DOMAIN r.arguments => Routing!CredentialKey(r) = "_dmint_approval"
  <2>. SUFFICES ASSUME "_dmint_approval" \in DOMAIN r.arguments
                             PROVE Routing!CredentialKey(r) = "_dmint_approval"
    OBVIOUS
  <2>1. 1 \in Routing!Credentials(r)
    BY <1>1 DEF Routing!Credentials
  <2>2. first = 1
    BY <1>2, <1>3, <2>1
  <2>. QED BY <1>1, <1>4, <2>1, <2>2
<1>. QED BY <1>2, <1>3, <1>4, <1>5 DEF Routing!Arguments

LEMMA RoutingGoal == RoutingInv => Routing!CallsReachTheirTool
<1>. SUFFICES ASSUME RoutingInv, asked # None PROVE Routing!CallsReachTheirTool
  BY DEF Routing!CallsReachTheirTool
<1>. DEFINE place == Routing!resolve_tool(asked.name)
<1>1. gw \in Gateways /\ asked \in Routing!Requests /\ reached = Routing!Outcome(asked)
  BY DEF RoutingInv
<1>2. reached # None => /\ Routing!Agent(asked.token) # None
            /\ ~Routing!Spoofed(asked, Routing!Agent(asked.token)) /\ place # None
                        /\ reached = Routing!Mapped(asked, place)
  BY <1>1 DEF Routing!Outcome
<1>3. ASSUME NEW entry \in Routing!Listing, asked.name = entry.name, Routing!Plain(entry)
      PROVE  /\ reached # None => reached.home = entry.home /\ reached.tool = entry.tool
             /\ (Routing!Agent(asked.token) # None /\ ~Routing!Spoofed(asked, Routing!Agent(asked.token))
                 /\ Routing!Binding(entry.home, entry.tool).key = None) => reached # None
  <2>1. place = Routing!Home(entry.home, entry.tool)
    BY <1>1, <1>3, ListedResolves
  <2>2. place.home = entry.home /\ place.tool = entry.tool
    BY <2>1 DEF Routing!Home
  <2>3. entry.home \in NamePieces /\ entry.tool \in Names
    BY <1>1, <1>3, ListedResolves
  <2>4. place # None
    BY <2>1, <2>3, RoutingAssumption DEF Routing!Home, ToolPlaces
  <2>5. ASSUME Routing!Agent(asked.token) # None, ~Routing!Spoofed(asked, Routing!Agent(asked.token)),
               Routing!Binding(entry.home, entry.tool).key = None
        PROVE  reached # None
    <3>1. reached = Routing!Mapped(asked, place)
      BY <1>1, <2>2, <2>4, <2>5 DEF Routing!Outcome, Routing!HasResource
    <3>2. Routing!Agent(asked.token) \in Agents
      BY <1>1, <2>5, RoutingAssumption DEF Routing!Agent
    <3>3. asked.arguments \in ArgumentSets
      BY <1>1 DEF Routing!Requests
    <3>4. Routing!Arguments(asked) \in UNION {[D -> ArgumentValues] : D \in SUBSET ArgumentKeys}
      <4>. DEFINE D == DOMAIN asked.arguments \ {Routing!CredentialKey(asked)}
      <4>1. D \in SUBSET ArgumentKeys /\ \A k \in D : asked.arguments[k] \in ArgumentValues
        BY <3>3 DEF ArgumentKeys, ArgumentValues
      <4>2. Routing!Arguments(asked) \in [D -> ArgumentValues]
        BY <4>1 DEF Routing!Arguments
      <4>. QED BY <4>1, <4>2
    <3>5. (IF Routing!CredentialKey(asked) = None
                THEN None ELSE asked.arguments[Routing!CredentialKey(asked)]) \in ArgumentValues \cup {None}
      <4>1. Routing!CredentialKey(asked) # None => Routing!CredentialKey(asked) \in DOMAIN asked.arguments
        BY CredentialIsTaken DEF Routing!CredentialKey
      <4>2. \A k \in DOMAIN asked.arguments : asked.arguments[k] \in ArgumentValues
        BY <3>3 DEF ArgumentValues
      <4>. QED BY <4>1, <4>2
    <3>6. Routing!Mapped(asked, place) \in ForwardedCalls
      BY <2>2, <2>3, <2>5, <3>2, <3>4, <3>5 DEF Routing!Mapped, ForwardedCalls
    <3>. QED BY <3>1, <3>6, RoutingAssumption
  <2>6. reached # None => reached.home = entry.home /\ reached.tool = entry.tool
    BY <1>2, <2>2 DEF Routing!Mapped
  <2>. QED BY <2>5, <2>6
<1>4. ASSUME reached # None
      PROVE  /\ gw.tokens # <<>> => asked.token \in DOMAIN gw.tokens
                                     /\ reached.agent = gw.tokens[asked.token]
             /\ reached.approval # None => "_dmint_approval" \notin DOMAIN reached.arguments
             /\ \A k \in DOMAIN reached.arguments : reached.arguments[k] = asked.arguments[k]
  <2>1. reached.agent = Routing!Agent(asked.token) /\ reached.arguments = Routing!Arguments(asked)
              /\ Routing!Agent(asked.token) # None
    BY <1>2, <1>4 DEF Routing!Mapped
  <2>. QED BY <2>1, CredentialIsTaken DEF Routing!Agent
<1>. QED BY <1>3, <1>4 DEF Routing!CallsReachTheirTool

(***************************************************************************)
(* Stored credentials: which token a load finds.                           *)
(***************************************************************************)
TokenOrNone == (1 .. issued) \cup {None}
TokenRecords == [Accounts -> TokenOrNone]

CredTypes ==
    /\ issued \in Nat /\ good \subseteq 1 .. issued /\ late \subseteq 1 .. issued
    /\ keyring \in [Accounts -> TokenOrNone] /\ file \in [Accounts -> TokenOrNone]
    /\ lock \in Procs \cup {None}
    /\ doing \in [Procs -> [op : {None, "save", "delete", "clear"}, server : Accounts \cup {None},
                            token : TokenOrNone]]
    /\ at \in [Procs -> {"idle", "sent", "answered", "keyring", "lock", "read", "write"}]
    /\ read \in [Procs -> [Accounts -> TokenOrNone]]

\* What a process does, by its next step; and what it has read is the file while it holds
\* the lock.
CredSteps ==
    \A p \in Procs :
        /\ at[p] = "idle" <=> doing[p].op = None
        /\ doing[p].server # None <=> doing[p].op \in {"save", "delete"}
        /\ doing[p].op = "save" => doing[p].token # None
        /\ at[p] \in {"sent", "answered"} => doing[p].op = "save"
        /\ doing[p].op = "clear" => at[p] # "keyring"
        /\ at[p] \in {"read", "write"} => lock = p
        /\ at[p] = "write" => read[p] = file

\* A process is about to store a token the authorization server has just given it.
Saving(p) == doing[p].op = "save" /\ at[p] # "sent"

\* Such a token is good, on its way to nobody, and nobody else has it; a stored token is that
\* of one server.
TokensInOrder ==
    /\ \A p \in Procs :
          Saving(p) => /\ doing[p].token \in good \ late
                       /\ \A s \in Accounts : keyring[s] # doing[p].token /\ file[s] # doing[p].token
                       /\ \A q \in Procs \ {p} : doing[q].op = "save" => doing[q].token # doing[p].token
    /\ \A p \in Procs, s \in Accounts :
          at[p] = "sent" /\ doing[p].token \in {keyring[s], file[s]} => s = doing[p].server
    /\ \A s, u \in Accounts : keyring[s] # None /\ keyring[s] = keyring[u] => s = u
    /\ \A s, u \in Accounts : keyring[s] # None /\ keyring[s] = file[u] => s = u
    /\ \A s, u \in Accounts : file[s] # None /\ file[s] = file[u] => s = u

\* Of a server that no fault is open of, what is loaded is good, or about to be replaced;
\* with the keyring in use nothing is in the file.
LoadsGood ==
    \A s \in Accounts \ lost :
        /\ Credentials!Loaded(s) \in (good \ late) \cup {None} \/ \E p \in Procs : Saving(p) /\ doing[p].server = s
        /\ Credentials!UsesKeyring => /\ file[s] = None
                          /\ \A p \in Procs : doing[p].op = "save" /\ doing[p].server = s
                                              => at[p] \notin {"lock", "read", "write"}

\* No saving overlaps a quiet logout, nor follows one that is over.
LogoutsInOrder ==
    /\ \A p \in quiet \cap Procs :
          doing[p].op = "delete" =>
              /\ Credentials!Busy("save", doing[p].server) = {}
              /\ Credentials!UsesKeyring /\ doing[p].server \notin lost /\ at[p] \in {"lock", "read", "write"}
                 => keyring[doing[p].server] = None
    /\ \A s \in out \cap Accounts : Credentials!Busy("save", s) = {}
             /\ (s \notin lost => Credentials!Loaded(s) = None)

CredInv == CredTypes /\ CredSteps /\ TokensInOrder /\ LoadsGood /\ LogoutsInOrder

LEMMA CredInit == Credentials!Init => CredInv
BY CredentialsAssumption DEF Credentials!Init, Credentials!NoRecords, Credentials!Nothing, CredInv,
       CredTypes, TokenOrNone, CredSteps, TokensInOrder, Saving,
   LoadsGood, Credentials!Loaded, Credentials!UsesKeyring, LogoutsInOrder, Credentials!Busy

\* The tokens stay in order when records are only removed and no process takes a new one.
LEMMA TokensKeep ==
    ASSUME CredTypes, CredSteps, TokensInOrder, good' = good, late' = late,
           \A s \in Accounts : keyring'[s] \in {keyring[s], None} /\ file'[s] = file[s],
           \A q \in Procs : /\ at'[q] # at[q] => at'[q] # "sent" /\ at[q] # "sent"
                            /\ doing'[q] # doing[q] => at'[q] # "sent" /\ doing'[q].op # "save"
    PROVE  TokensInOrder'
<1>1. \A q \in Procs : /\ doing'[q].op = "save" => doing'[q] = doing[q]
                       /\ Saving(q)' => Saving(q)
                       /\ at'[q] = "sent" => at[q] = "sent" /\ doing'[q] = doing[q]
  BY DEF Saving
<1>2. \A q \in Procs : /\ at[q] = "sent" => doing[q].token # None
                       /\ Saving(q) => doing[q].token # None
  BY CredentialsAssumption DEF CredTypes, TokenOrNone, CredSteps, Saving
<1>. USE DEF TokensInOrder
<1>3. ASSUME NEW q \in Procs, Saving(q)'
      PROVE  /\ doing'[q].token \in good' \ late'
             /\ \A s \in Accounts : keyring'[s] # doing'[q].token /\ file'[s] # doing'[q].token
             /\ \A r \in Procs \ {q} : doing'[r].op = "save" => doing'[r].token # doing'[q].token
  <2>1. Saving(q) /\ doing'[q] = doing[q]
    BY <1>1, <1>3 DEF Saving
  <2>. QED BY <1>1, <1>2, <2>1
<1>4. ASSUME NEW q \in Procs, NEW s \in Accounts, at'[q] = "sent", doing'[q].token \in {keyring'[s], file'[s]}
      PROVE  s = doing'[q].server
  BY <1>1, <1>2, <1>4
<1>5. ASSUME NEW s \in Accounts, NEW u \in Accounts
      PROVE  /\ keyring'[s] # None /\ keyring'[s] = keyring'[u] => s = u
             /\ keyring'[s] # None /\ keyring'[s] = file'[u] => s = u
             /\ file'[s] # None /\ file'[s] = file'[u] => s = u
  <2>1. file'[s] = file[s] /\ file'[u] = file[u] /\ keyring'[s] \in {keyring[s], None}
        /\ keyring'[u] \in {keyring[u], None}
    OBVIOUS
  <2>2. /\ keyring[s] # None /\ keyring[s] = keyring[u] => s = u
        /\ keyring[s] # None /\ keyring[s] = file[u] => s = u
        /\ file[s] # None /\ file[s] = file[u] => s = u
    OBVIOUS
  <2>3. file[s] # None /\ file[s] = file[u] => s = u
    BY <2>2
  <2>4. file'[s] # None /\ file'[s] = file'[u] => s = u
    BY <2>1, <2>3
  <2>. QED BY <2>1, <2>2, <2>4
<1>. QED BY <1>3, <1>4, <1>5

LEMMA TokenStep ==
    ASSUME NEW p \in Procs, NEW s \in Accounts, Credentials!Login(p, s), CredInv
    PROVE  CredInv'
<1>. USE CredentialsAssumption DEF CredInv, CredTypes, TokenOrNone, Credentials!Goes, Credentials!Does,
                                   Credentials!stored
<1>1. CredTypes'
  BY DEF Credentials!Login, CredSteps, Credentials!Loaded
<1>2. CredSteps'
  BY DEF Credentials!Login, CredSteps, Credentials!Loaded
<1>3. TokensInOrder'
  <2>1. issued + 1 \notin TokenOrNone
    OBVIOUS
  <2>2. \A q \in Procs, u \in Accounts : doing[q].token # issued + 1 /\ keyring[u] # issued + 1
              /\ file[u] # issued + 1
    BY <2>1
  <2>3. /\ doing'[p].op = "save" /\ doing'[p].token = issued + 1 /\ at'[p] = "keyring"
        /\ \A q \in Procs \ {p} : doing'[q] = doing[q] /\ at'[q] = at[q]
        /\ UNCHANGED <<keyring, file, late>> /\ good' = good \cup {issued + 1}
        /\ issued + 1 \notin late
    BY DEF Credentials!Login
  <2>. HIDE DEF TokenOrNone, CredTypes
  <2>. QED BY <2>2, <2>3 DEF TokensInOrder, Saving
<1>4. LoadsGood'
  BY DEF Credentials!Login, CredSteps, TokensInOrder, LoadsGood, Saving, Credentials!Loaded,
         Credentials!UsesKeyring
<1>5. LogoutsInOrder'
  BY DEF Credentials!Login, CredSteps, LoadsGood, LogoutsInOrder, Credentials!LoggingOut,
         Credentials!Busy, Credentials!Loaded, Credentials!UsesKeyring
<1>. QED BY <1>1, <1>2, <1>3, <1>4, <1>5

LEMMA RefreshStep ==
    ASSUME NEW p \in Procs, NEW s \in Accounts, Credentials!Refresh(p, s), CredInv
    PROVE  CredInv'
<1>. USE CredentialsAssumption DEF CredInv, CredTypes, TokenOrNone, Credentials!Goes, Credentials!Does,
                                   Credentials!stored
<1>1. CredTypes'
  BY DEF Credentials!Refresh, CredSteps, Credentials!Loaded
<1>2. CredSteps'
  BY DEF Credentials!Refresh, CredSteps, Credentials!Loaded
<1>3. TokensInOrder'
  <2>1. /\ at' = [at EXCEPT ![p] = "sent"] /\ UNCHANGED <<keyring, file, good, late>>
        /\ doing' = [doing EXCEPT ![p] = [op |-> "save", server |-> s, token |-> Credentials!Loaded(s)]]
    BY DEF Credentials!Refresh
  <2>2. Credentials!Loaded(s) # None /\ Credentials!Loaded(s) \in {keyring[s], file[s]}
    BY DEF Credentials!Refresh, Credentials!Loaded
  <2>3. ASSUME NEW q \in Procs, Saving(q)'
        PROVE  /\ doing'[q].token \in good' \ late'
               /\ \A u \in Accounts : keyring'[u] # doing'[q].token /\ file'[u] # doing'[q].token
               /\ \A r \in Procs \ {q} : doing'[r].op = "save" => doing'[r].token # doing'[q].token
    <3>1. q # p /\ Saving(q) /\ doing'[q] = doing[q] /\ \A r \in Procs \ {p} : doing'[r] = doing[r]
      BY <2>1, <2>3 DEF Saving
    <3>2. doing'[p].token \in {keyring[s], file[s]}
      BY <2>1, <2>2
    <3>. QED BY <2>1, <3>1, <3>2 DEF TokensInOrder
  <2>4. ASSUME NEW q \in Procs, NEW u \in Accounts, at'[q] = "sent", doing'[q].token \in {keyring'[u], file'[u]}
        PROVE  u = doing'[q].server
    <3>1. CASE q = p
      <4>1. /\ keyring[s] # None /\ keyring[s] = keyring[u] => s = u
            /\ keyring[s] # None /\ keyring[s] = file[u] => s = u
            /\ (keyring[u] # None /\ keyring[u] = file[s] => s = u)
            /\ file[s] # None /\ file[s] = file[u] => s = u
        BY DEF TokensInOrder
      <4>2. doing'[q].token = Credentials!Loaded(s) /\ doing'[q].server = s
        BY <2>1, <3>1
      <4>. HIDE DEF TokensInOrder
      <4>. QED BY <2>1, <2>2, <2>4, <4>1, <4>2
    <3>2. CASE q # p
      BY <2>1, <2>4, <3>2 DEF TokensInOrder
    <3>. QED BY <3>1, <3>2
  <2>5. /\ \A v, u \in Accounts : keyring'[v] # None /\ keyring'[v] = keyring'[u] => v = u
        /\ \A v, u \in Accounts : keyring'[v] # None /\ keyring'[v] = file'[u] => v = u
        /\ \A v, u \in Accounts : file'[v] # None /\ file'[v] = file'[u] => v = u
    BY <2>1 DEF TokensInOrder
  <2>. QED BY <2>3, <2>4, <2>5 DEF TokensInOrder
<1>4. LoadsGood'
  BY DEF Credentials!Refresh, CredSteps, TokensInOrder, LoadsGood, Saving, Credentials!Loaded,
         Credentials!UsesKeyring
<1>5. LogoutsInOrder'
  BY DEF Credentials!Refresh, CredSteps, LoadsGood, LogoutsInOrder, Credentials!LoggingOut,
         Credentials!Busy, Credentials!Loaded, Credentials!UsesKeyring
<1>. QED BY <1>1, <1>2, <1>3, <1>4, <1>5

LEMMA RotateStep ==
    ASSUME NEW p \in Procs, Credentials!Rotate(p), CredInv
    PROVE  CredInv'
<1>. USE CredentialsAssumption DEF CredInv, CredTypes, TokenOrNone, Credentials!Goes, Credentials!Does,
                                   Credentials!stored
<1>0. doing[p].op = "save" /\ doing[p].server \in Accounts /\ doing[p].token \in 1 .. issued
  BY DEF Credentials!Rotate, CredSteps
<1>1. CASE doing[p].token \notin good
  <2>1. /\ doing' = [doing EXCEPT ![p] = [op |-> None, server |-> None, token |-> None]]
        /\ at' = [at EXCEPT ![p] = "idle"] /\ at[p] = "sent"
        /\ UNCHANGED <<kept, keyring, file, lock, read, issued, good, faults, late, out, quiet, lost>>
    BY <1>1 DEF Credentials!Rotate
  <2>2. CredTypes'
    BY <2>1
  <2>3. CredSteps'
    BY <1>0, <2>1 DEF CredSteps
  <2>4. /\ doing'[p].op # "save" /\ doing'[p].op # "delete" /\ at'[p] = "idle" /\ ~Saving(p)
        /\ \A q \in Procs \ {p} : doing'[q] = doing[q] /\ at'[q] = at[q]
    BY <2>1 DEF Saving
  <2>. HIDE DEF CredTypes, TokenOrNone
  <2>5. TokensInOrder'
    BY <2>1, <2>4 DEF TokensInOrder, Saving
  <2>6. LoadsGood'
    <3>1. \A s \in Accounts : Credentials!Loaded(s)' = Credentials!Loaded(s)
      BY <2>1 DEF Credentials!Loaded, Credentials!UsesKeyring
    <3>2. \A q \in Procs : Saving(q) => q # p /\ Saving(q)'
      BY <2>1, <2>4 DEF Saving
    <3>. QED BY <2>1, <2>4, <3>1, <3>2 DEF LoadsGood, Credentials!UsesKeyring
  <2>7. LogoutsInOrder'
    <3>1. \A s : Credentials!Busy("save", s) = {} => Credentials!Busy("save", s)' = {}
      BY <2>4 DEF Credentials!Busy
    <3>2. \A s \in Accounts : Credentials!Loaded(s)' = Credentials!Loaded(s)
      BY <2>1 DEF Credentials!Loaded, Credentials!UsesKeyring
    <3>. QED BY <2>1, <2>4, <3>1, <3>2 DEF LogoutsInOrder, Credentials!UsesKeyring
  <2>. QED BY <2>2, <2>3, <2>5, <2>6, <2>7
<1>2. CASE doing[p].token \in good
  <2>1. /\ issued' = issued + 1 /\ good' = (good \ {doing[p].token}) \cup {issued + 1}
        /\ doing' = [doing EXCEPT ![p] = [op |-> "save", server |-> doing[p].server, token |-> issued + 1]]
        /\ at' = [at EXCEPT ![p] = "answered"] /\ at[p] = "sent" /\ issued + 1 \notin late
        /\ UNCHANGED <<kept, keyring, file, lock, read, faults, late, out, quiet, lost>>
    BY <1>2 DEF Credentials!Rotate
  <2>2. issued + 1 \notin TokenOrNone /\ TokenOrNone \subseteq TokenOrNone'
    BY <2>1
  <2>3. CredTypes'
    <3>1. issued' \in Nat /\ issued + 1 \in TokenOrNone' /\ issued + 1 \in 1 .. issued'
                /\ 1 .. issued \subseteq 1 .. issued'
      BY <2>1
    <3>3. good' \subseteq 1 .. issued'
      BY <2>1, <3>1
    <3>2. doing' \in [Procs -> [op : {None, "save", "delete", "clear"}, server : Accounts \cup {None},
                                token : TokenOrNone']]
      BY <1>0, <2>1, <2>2, <3>1
    <3>. QED BY <2>1, <2>2, <3>1, <3>2, <3>3
  <2>4. CredSteps'
    BY <1>0, <2>1 DEF CredSteps
  <2>5. \A q \in Procs, u \in Accounts : doing[q].token # issued + 1 /\ keyring[u] # issued + 1
              /\ file[u] # issued + 1
    BY <2>2
  <2>6. /\ doing'[p].op = "save" /\ doing'[p].token = issued + 1 /\ at'[p] = "answered"
        /\ doing'[p].server = doing[p].server
        /\ \A q \in Procs \ {p} : doing'[q] = doing[q] /\ at'[q] = at[q]
    BY <2>1
  <2>. HIDE DEF CredTypes, TokenOrNone
  <2>7. TokensInOrder'
    BY <1>0, <2>1, <2>5, <2>6 DEF TokensInOrder, Saving
  <2>8. LoadsGood'
    <3>1. \A s \in Accounts : Credentials!Loaded(s)' = Credentials!Loaded(s)
                /\ Credentials!Loaded(s) \in {keyring[s], file[s]}
      BY <2>1 DEF Credentials!Loaded, Credentials!UsesKeyring
    <3>2. \A s \in Accounts : Credentials!Loaded(s) = doing[p].token => s = doing[p].server
      BY <2>1, <3>1 DEF TokensInOrder
    <3>3. \A q \in Procs : Saving(q) => q # p /\ Saving(q)'
      BY <2>1, <2>6 DEF Saving
    <3>4. Saving(p)'
      BY <2>6 DEF Saving
    <3>. QED BY <1>0, <2>1, <2>6, <3>1, <3>2, <3>3, <3>4 DEF LoadsGood, Credentials!UsesKeyring
  <2>9. LogoutsInOrder'
    <3>1. \A s : Credentials!Busy("save", s)' = Credentials!Busy("save", s)
      BY <1>0, <2>6 DEF Credentials!Busy
    <3>2. \A s \in Accounts : Credentials!Loaded(s)' = Credentials!Loaded(s)
      BY <2>1 DEF Credentials!Loaded, Credentials!UsesKeyring
    <3>. QED BY <2>1, <2>6, <3>1, <3>2 DEF LogoutsInOrder, Credentials!UsesKeyring
  <2>. QED BY <2>3, <2>4, <2>7, <2>8, <2>9
<1>. QED BY <1>1, <1>2

LEMMA SaveToKeyringStep ==
    ASSUME NEW p \in Procs, NEW ok \in BOOLEAN, Credentials!SaveToKeyring(p, ok), CredInv
    PROVE  CredInv'
<1>. USE CredentialsAssumption DEF CredInv, CredTypes, TokenOrNone, Credentials!Goes, Credentials!Does,
                                   Credentials!stored
<1>. DEFINE Repairs == ok /\ Credentials!UsesKeyring /\ file[doing[p].server] = None /\ Credentials!Alone(p)
<1>0. /\ doing[p].op = "save" /\ at[p] = "keyring" /\ doing[p].server \in Accounts
               /\ doing[p].token \in 1 .. issued
      /\ UNCHANGED <<kept, file, lock, read, issued, good, late, out, quiet>>
      /\ \/ lost' = IF ok THEN lost ELSE lost \cup {doing[p].server}
         \/ Repairs /\ lost' = lost \ {doing[p].server}
      /\ keyring' = IF ok /\ Credentials!UsesKeyring
               THEN [keyring EXCEPT ![doing[p].server] = doing[p].token] ELSE keyring
  BY DEF Credentials!SaveToKeyring, CredSteps
<1>. PICK home \in Accounts : home = doing[p].server
  BY <1>0
<1>1. \/ /\ ~Credentials!UsesKeyring \/ ~ok
         /\ at' = [at EXCEPT ![p] = "lock"] /\ doing' = doing
      \/ /\ Credentials!UsesKeyring
         /\ at' = [at EXCEPT ![p] = "idle"]
         /\ doing' = [doing EXCEPT ![p] = [op |-> None, server |-> None, token |-> None]]
  BY DEF Credentials!SaveToKeyring
<1>2. CredTypes'
  <2>1. keyring' \in [Accounts -> TokenOrNone]
    <3>1. CASE ok /\ Credentials!UsesKeyring
      BY <1>0, <3>1
    <3>2. CASE ~(ok /\ Credentials!UsesKeyring)
      BY <1>0, <3>2
    <3>. QED BY <3>1, <3>2
  <2>2. issued' = issued /\ doing' \in [Procs -> [op : {None, "save", "delete", "clear"},
                                           server : Accounts \cup {None}, token : TokenOrNone]]
    <3>1. CASE doing' = doing
      BY <1>0, <3>1
    <3>2. CASE doing' = [doing EXCEPT ![p] = [op |-> None, server |-> None, token |-> None]]
      BY <1>0, <3>2
    <3>. QED BY <1>1, <3>1, <3>2
  <2>. QED BY <1>0, <1>1, <2>1, <2>2
<1>3. CredSteps'
  BY <1>0, <1>1 DEF CredSteps
<1>. HIDE DEF CredTypes, TokenOrNone
<1>4. /\ \A q \in Procs \ {p} : doing'[q] = doing[q] /\ at'[q] = at[q]
      /\ \A s \in Accounts \ {home} : keyring'[s] = keyring[s]
      /\ keyring'[home] \in {keyring[home], doing[p].token}
  BY <1>0, <1>1 DEF CredTypes
<1>5. \/ doing'[p].op \notin {"save", "delete"} /\ at'[p] = "idle"
      \/ doing'[p] = doing[p] /\ at'[p] = "lock" /\ keyring' = keyring
  BY <1>0, <1>1 DEF CredTypes
<1>6. TokensInOrder'
  <2>1. \A q \in Procs : Saving(q)' => Saving(q) /\ doing'[q] = doing[q] /\ (q # p \/ keyring' = keyring)
    BY <1>0, <1>4, <1>5 DEF Saving
  <2>2. Saving(p)
    BY <1>0 DEF Saving
  <2>3. ASSUME NEW q \in Procs, Saving(q)'
        PROVE  /\ doing'[q].token \in good' \ late'
               /\ \A s \in Accounts : keyring'[s] # doing'[q].token /\ file'[s] # doing'[q].token
               /\ \A r \in Procs \ {q} : doing'[r].op = "save" => doing'[r].token # doing'[q].token
    BY <1>0, <1>4, <1>5, <2>1, <2>2, <2>3 DEF TokensInOrder
  <2>4. ASSUME NEW q \in Procs, NEW s \in Accounts, at'[q] = "sent", doing'[q].token \in {keyring'[s], file'[s]}
        PROVE  s = doing'[q].server
    <3>1. q # p /\ at[q] = "sent" /\ doing'[q] = doing[q] /\ doing[q].op = "save"
      BY <1>4, <1>5, <2>4 DEF CredSteps
    <3>2. doing[q].token # doing[p].token
      BY <2>2, <3>1 DEF TokensInOrder
    <3>. QED BY <1>0, <1>4, <2>4, <3>1, <3>2 DEF TokensInOrder
  <2>5. ASSUME NEW s \in Accounts, NEW u \in Accounts
        PROVE  /\ keyring'[s] # None /\ keyring'[s] = keyring'[u] => s = u
               /\ keyring'[s] # None /\ keyring'[s] = file'[u] => s = u
               /\ file'[s] # None /\ file'[s] = file'[u] => s = u
    <3>1. /\ file'[s] = file[s] /\ file'[u] = file[u]
          /\ keyring'[s] = keyring[s] \/ (s = home /\ keyring'[s] = doing[p].token)
          /\ keyring'[u] = keyring[u] \/ (u = home /\ keyring'[u] = doing[p].token)
      <4>1. \A v \in Accounts : keyring'[v] = keyring[v] \/ (v = home /\ keyring'[v] = doing[p].token)
        BY <1>4
      <4>. QED BY <1>0, <4>1
    <3>2. doing[p].token \notin {keyring[s], keyring[u], file[s], file[u]}
      BY <2>2 DEF TokensInOrder
    <3>3. /\ keyring[s] # None /\ keyring[s] = keyring[u] => s = u
          /\ keyring[s] # None /\ keyring[s] = file[u] => s = u
          /\ file[s] # None /\ file[s] = file[u] => s = u
      BY DEF TokensInOrder
    <3>. HIDE DEF TokensInOrder
    <3>. QED BY <3>1, <3>2, <3>3
  <2>. QED BY <2>3, <2>4, <2>5 DEF TokensInOrder
<1>7. LoadsGood'
  <2>1. \A s \in Accounts : s # home => Credentials!Loaded(s)' = Credentials!Loaded(s)
    BY <1>0, <1>4 DEF Credentials!Loaded, Credentials!UsesKeyring
  <2>2. home \notin lost' =>
           IF Credentials!UsesKeyring THEN Credentials!Loaded(home)' = doing[p].token
                 /\ doing[p].token \in good' \ late'
           ELSE Saving(p)' /\ doing'[p] = doing[p]
    <3>1. CASE Credentials!UsesKeyring
      <4>1. home \notin lost' => keyring'[home] = doing[p].token /\ doing[p].token # None
        BY <1>0, <3>1, CredentialsAssumption DEF CredTypes
      <4>2. doing[p].token \in good' \ late'
        BY <1>0, CredentialsAssumption DEF TokensInOrder, Saving
      <4>. QED BY <1>0, <3>1, <4>1, <4>2 DEF Credentials!Loaded, Credentials!UsesKeyring
    <3>2. CASE ~Credentials!UsesKeyring
      BY <1>0, <1>1, <3>2 DEF Saving, CredTypes
    <3>. QED BY <3>1, <3>2
  <2>3. \A q \in Procs \ {p} : Saving(q)' = Saving(q)
    BY <1>4 DEF Saving
  <2>4. \A s \in Accounts : Credentials!UsesKeyring' /\ s \notin lost'
                            => Credentials!UsesKeyring /\ file'[s] = None
    BY <1>0 DEF LoadsGood, Credentials!UsesKeyring
  <2>5. \A s \in Accounts, q \in Procs : Credentials!UsesKeyring /\ s \notin lost' /\ doing'[q].op = "save"
              /\ doing'[q].server = s
                                   => at'[q] \notin {"lock", "read", "write"}
    <3>1. CASE lost' = IF ok THEN lost ELSE lost \cup {doing[p].server}
      BY <1>0, <1>1, <1>4, <3>1 DEF LoadsGood, CredTypes
    <3>2. CASE Repairs /\ lost' = lost \ {home}
      <4>1. \A q \in Procs \ {p} : doing'[q].server # home
        BY <1>0, <1>4, <3>2 DEF Credentials!Alone
      <4>2. at'[p] \notin {"lock", "read", "write"}
        BY <1>1, <3>2 DEF CredTypes
      <4>. QED BY <1>4, <3>2, <4>1, <4>2 DEF LoadsGood
    <3>. QED BY <1>0, <3>1, <3>2
  <2>6. \A s \in Accounts : s \notin lost' =>
           \/ Credentials!Loaded(s)' \in (good' \ late') \cup {None}
           \/ \E q \in Procs : Saving(q)' /\ doing'[q].server = s
    <3>1. ASSUME NEW s \in Accounts, s \notin lost', s # home
          PROVE  Credentials!Loaded(s)' \in (good' \ late') \cup {None} \/ \E q \in Procs : Saving(q)'
                       /\ doing'[q].server = s
      BY <1>0, <1>4, <2>1, <2>3, <3>1 DEF LoadsGood
    <3>2. home \notin lost' =>
             \/ Credentials!Loaded(home)' \in (good' \ late') \cup {None}
             \/ \E q \in Procs : Saving(q)' /\ doing'[q].server = home
      BY <2>2
    <3>. QED BY <3>1, <3>2
  <2>. QED BY <2>4, <2>5, <2>6 DEF LoadsGood
<1>8. LogoutsInOrder'
  <2>1. \A s \in Accounts \ {home} : Credentials!Loaded(s)' = Credentials!Loaded(s)
    BY <1>0, <1>4 DEF Credentials!Loaded, Credentials!UsesKeyring
  <2>2. p \in Credentials!Busy("save", home) /\ \A s :
              Credentials!Busy("save", s)' \subseteq Credentials!Busy("save", s)
    BY <1>0, <1>4, <1>5 DEF Credentials!Busy
  <2>3. home \notin out /\ \A q \in quiet \cap Procs : doing[q].op = "delete" => doing[q].server # home
    BY <1>0, <2>2 DEF LogoutsInOrder
  <2>4. \A q \in quiet \cap Procs : doing'[q].op = "delete" => q # p /\ doing[q].server \in Accounts
    BY <1>0, <1>5, <1>4 DEF CredSteps, CredTypes
  <2>. QED BY <1>0, <1>4, <2>1, <2>2, <2>3, <2>4 DEF LogoutsInOrder, Credentials!UsesKeyring
<1>. QED BY <1>2, <1>3, <1>6, <1>7, <1>8

LEMMA ForgetStep ==
    ASSUME NEW p \in Procs, NEW s \in Accounts, Credentials!Logout(p, s), CredInv
    PROVE  CredInv'
<1>. USE CredentialsAssumption DEF CredInv, CredTypes, TokenOrNone, Credentials!Goes, Credentials!Does,
                                   Credentials!stored
<1>1. CredTypes'
  BY DEF Credentials!Logout, CredSteps, Credentials!Loaded
<1>2. CredSteps'
  BY DEF Credentials!Logout, CredSteps, Credentials!Loaded
<1>3. TokensInOrder'
  BY DEF Credentials!Logout, CredSteps, TokensInOrder, Saving, Credentials!Loaded
<1>4. LoadsGood'
  BY DEF Credentials!Logout, CredSteps, TokensInOrder, LoadsGood, Saving, Credentials!Loaded,
         Credentials!UsesKeyring
<1>5. LogoutsInOrder'
  BY DEF Credentials!Logout, CredSteps, LoadsGood, LogoutsInOrder, Credentials!LoggingOut,
         Credentials!Busy, Credentials!Loaded, Credentials!UsesKeyring
<1>. QED BY <1>1, <1>2, <1>3, <1>4, <1>5

LEMMA DeleteFromKeyringStep ==
    ASSUME NEW p \in Procs, NEW ok \in BOOLEAN, Credentials!DeleteFromKeyring(p, ok), CredInv
    PROVE  CredInv'
<1>. USE CredentialsAssumption DEF CredInv, CredTypes, TokenOrNone, Credentials!Goes, Credentials!Does,
                                   Credentials!stored
<1>1. CredTypes'
  BY DEF Credentials!DeleteFromKeyring, Credentials!Works, CredSteps, Credentials!Loaded
<1>2. CredSteps'
  BY DEF Credentials!DeleteFromKeyring, Credentials!Works, CredSteps, Credentials!Loaded
<1>3. TokensInOrder'
  <2>1. good' = good /\ late' = late /\ \A s \in Accounts : keyring'[s] \in {keyring[s], None} /\ file'[s] = file[s]
    BY DEF Credentials!DeleteFromKeyring, CredSteps
  <2>2. \A q \in Procs : /\ at'[q] # at[q] => at'[q] # "sent" /\ at[q] # "sent"
                         /\ doing'[q] # doing[q] => at'[q] # "sent" /\ doing'[q].op # "save"
    BY DEF Credentials!DeleteFromKeyring
  <2>. HIDE DEF CredTypes
  <2>. QED BY <2>1, <2>2, TokensKeep
<1>4. LoadsGood'
  BY DEF Credentials!DeleteFromKeyring, Credentials!Works, CredSteps, TokensInOrder, LoadsGood,
         Saving, Credentials!Loaded, Credentials!UsesKeyring
<1>5. LogoutsInOrder'
  BY DEF Credentials!DeleteFromKeyring, Credentials!Works, CredSteps, LoadsGood, LogoutsInOrder,
         Credentials!LoggingOut, Credentials!Busy, Credentials!Loaded, Credentials!UsesKeyring
<1>. QED BY <1>1, <1>2, <1>3, <1>4, <1>5

LEMMA LogoutAllStep ==
    ASSUME NEW p \in Procs, NEW ok \in BOOLEAN, Credentials!LogoutAll(p, ok), CredInv
    PROVE  CredInv'
<1>. USE CredentialsAssumption DEF CredInv, CredTypes, TokenOrNone, Credentials!Goes, Credentials!Does,
                                   Credentials!stored
<1>1. CredTypes'
  BY DEF Credentials!LogoutAll, Credentials!Works, CredSteps, Credentials!Loaded
<1>2. CredSteps'
  BY DEF Credentials!LogoutAll, Credentials!Works, CredSteps, Credentials!Loaded
<1>3. TokensInOrder'
  <2>1. good' = good /\ late' = late /\ \A s \in Accounts : keyring'[s] \in {keyring[s], None} /\ file'[s] = file[s]
    BY DEF Credentials!LogoutAll, CredSteps
  <2>2. \A q \in Procs : /\ at'[q] # at[q] => at'[q] # "sent" /\ at[q] # "sent"
                         /\ doing'[q] # doing[q] => at'[q] # "sent" /\ doing'[q].op # "save"
    BY DEF Credentials!LogoutAll
  <2>. HIDE DEF CredTypes
  <2>. QED BY <2>1, <2>2, TokensKeep
<1>4. LoadsGood'
  BY DEF Credentials!LogoutAll, Credentials!Works, CredSteps, TokensInOrder, LoadsGood, Saving,
         Credentials!Loaded, Credentials!UsesKeyring
<1>5. LogoutsInOrder'
  BY DEF Credentials!LogoutAll, Credentials!Works, CredSteps, LoadsGood, LogoutsInOrder,
         Credentials!LoggingOut, Credentials!Busy, Credentials!Loaded, Credentials!UsesKeyring
<1>. QED BY <1>1, <1>2, <1>3, <1>4, <1>5

LEMMA LockStep ==
    ASSUME NEW p \in Procs, Credentials!Lock(p), CredInv
    PROVE  CredInv'
<1>. USE CredentialsAssumption DEF CredInv, CredTypes, TokenOrNone, Credentials!Goes, Credentials!Does,
                                   Credentials!stored
<1>1. CredTypes'
  BY DEF Credentials!Lock, CredSteps, Credentials!Loaded
<1>2. CredSteps'
  BY DEF Credentials!Lock, CredSteps, Credentials!Loaded
<1>3. TokensInOrder'
  BY DEF Credentials!Lock, CredSteps, TokensInOrder, Saving, Credentials!Loaded
<1>4. LoadsGood'
  BY DEF Credentials!Lock, CredSteps, TokensInOrder, LoadsGood, Saving, Credentials!Loaded,
         Credentials!UsesKeyring
<1>5. LogoutsInOrder'
  BY DEF Credentials!Lock, CredSteps, LoadsGood, LogoutsInOrder, Credentials!LoggingOut,
         Credentials!Busy, Credentials!Loaded, Credentials!UsesKeyring
<1>. QED BY <1>1, <1>2, <1>3, <1>4, <1>5

LEMMA ReadStep ==
    ASSUME NEW p \in Procs, Credentials!Read(p), CredInv
    PROVE  CredInv'
<1>. USE CredentialsAssumption DEF CredInv, CredTypes, TokenOrNone, Credentials!Goes, Credentials!Does,
                                   Credentials!stored
<1>1. CredTypes'
  BY DEF Credentials!Read, CredSteps, Credentials!Loaded
<1>2. CredSteps'
  BY DEF Credentials!Read, CredSteps, Credentials!Loaded
<1>3. TokensInOrder'
  BY DEF Credentials!Read, CredSteps, TokensInOrder, Saving, Credentials!Loaded
<1>4. LoadsGood'
  BY DEF Credentials!Read, CredSteps, TokensInOrder, LoadsGood, Saving, Credentials!Loaded,
         Credentials!UsesKeyring
<1>5. LogoutsInOrder'
  BY DEF Credentials!Read, CredSteps, LoadsGood, LogoutsInOrder, Credentials!LoggingOut,
         Credentials!Busy, Credentials!Loaded, Credentials!UsesKeyring
<1>. QED BY <1>1, <1>2, <1>3, <1>4, <1>5

LEMMA WriteStep ==
    ASSUME NEW p \in Procs, Credentials!Write(p), CredInv
    PROVE  CredInv'
<1>. USE CredentialsAssumption DEF CredInv, CredTypes, TokenOrNone, Credentials!Goes, Credentials!Does,
                                   Credentials!stored
<1>1. CredTypes'
  BY DEF Credentials!Write, Credentials!Written, Credentials!Records, Credentials!NoRecords,
         CredSteps, Credentials!Loaded, Credentials!Alone
<1>2. CredSteps'
  BY DEF Credentials!Write, Credentials!Written, Credentials!Records, Credentials!NoRecords,
         CredSteps, Credentials!Loaded, Credentials!Alone
<1>3. TokensInOrder'
  BY DEF Credentials!Write, Credentials!Written, Credentials!Records, Credentials!NoRecords,
         CredSteps, TokensInOrder, Saving, Credentials!Loaded, Credentials!Alone
<1>4. LoadsGood'
  <2>1. /\ at[p] = "write" /\ UNCHANGED <<kept, keyring, good, late>> /\ file' = Credentials!Records(p)
        /\ doing'[p].op = None /\ \A q \in Procs \ {p} : doing'[q] = doing[q] /\ at'[q] = at[q]
        /\ read[p] = file /\ (doing[p].op = "save" => doing[p].server \in Accounts /\ Saving(p))
    BY DEF Credentials!Write, Credentials!Written, CredSteps, Saving
  <2>2. \/ lost' = lost
        \/ /\ doing[p].op = "save" /\ ~Credentials!UsesKeyring /\ lost' = lost \ {doing[p].server}
    BY DEF Credentials!Write, Credentials!Written
  <2>3. \A q \in Procs : Saving(q) => q = p \/ (Saving(q)' /\ doing'[q].server = doing[q].server)
    BY <2>1 DEF Saving
  <2>4. \A s \in Accounts : \/ Credentials!Loaded(s)' \in {Credentials!Loaded(s), None}
                            \/ /\ s = doing[p].server /\ Credentials!Loaded(s)' = doing[p].token
                               /\ doing[p].op = "save"
    BY <2>1 DEF Credentials!Records, Credentials!NoRecords, Credentials!Loaded, Credentials!UsesKeyring
  <2>5. doing[p].op = "save" => doing[p].token \in good \ late
    BY <2>1 DEF TokensInOrder
  <2>6. \A s \in Accounts : doing[p].op = "save" /\ ~Credentials!UsesKeyring /\ s = doing[p].server
                            => Credentials!Loaded(s)' = doing[p].token
    BY <2>1 DEF Credentials!Records, Credentials!Loaded, Credentials!UsesKeyring
  <2>. HIDE DEF CredTypes, TokenOrNone
  <2>7. ASSUME NEW s \in Accounts \ lost'
        PROVE  \/ Credentials!Loaded(s)' \in (good' \ late') \cup {None}
               \/ \E q \in Procs : Saving(q)' /\ doing'[q].server = s
    <3>1. CASE s \in lost
      BY <2>1, <2>2, <2>5, <2>6, <2>7, <3>1
    <3>2. CASE s \notin lost /\ Credentials!Loaded(s) \in (good \ late) \cup {None}
      BY <2>1, <2>4, <2>5, <3>2
    <3>3. CASE \E q \in Procs \ {p} : Saving(q) /\ doing[q].server = s
      BY <2>3, <3>3
    <3>4. CASE s \notin lost /\ Saving(p) /\ doing[p].server = s
      <4>1. ~Credentials!UsesKeyring /\ doing[p].op = "save"
        BY <2>1, <3>4 DEF LoadsGood, Saving
      <4>. QED BY <2>1, <2>5, <2>6, <3>4, <4>1
    <3>. QED BY <3>1, <3>2, <3>3, <3>4 DEF LoadsGood
  <2>8. ASSUME NEW s \in Accounts \ lost', Credentials!UsesKeyring'
        PROVE  /\ file'[s] = None
               /\ \A q \in Procs : doing'[q].op = "save" /\ doing'[q].server = s => at'[q] \notin {"lock", "read", "write"}
    <3>1. Credentials!UsesKeyring /\ s \notin lost
      BY <2>1, <2>2, <2>8 DEF Credentials!UsesKeyring
    <3>2. file'[s] = None
      BY <2>1, <3>1 DEF LoadsGood, Credentials!Records, Credentials!NoRecords, CredTypes
    <3>. QED BY <2>1, <3>1, <3>2, CredentialsAssumption DEF LoadsGood
  <2>. QED BY <2>7, <2>8 DEF LoadsGood
<1>5. LogoutsInOrder'
  BY DEF Credentials!Write, Credentials!Written, Credentials!Records, Credentials!NoRecords,
         CredSteps, LoadsGood, LogoutsInOrder, Credentials!LoggingOut, Credentials!Busy,
         Credentials!Loaded, Credentials!UsesKeyring, Credentials!Alone
<1>. QED BY <1>1, <1>2, <1>3, <1>4, <1>5

\* What is given up is a fault of its server.
LEMMA GivesUpStep ==
    ASSUME NEW p \in Procs, at[p] # "idle", Credentials!GivesUp(p), CredInv
    PROVE  CredInv'
<1>. USE CredentialsAssumption DEF CredInv, CredTypes, TokenOrNone, Credentials!Goes, Credentials!Does,
                                   Credentials!stored, Credentials!InFlight
<1>1. CredTypes'
  <2>1. late' \subseteq 1 .. issued'
    <3>1. at[p] = "sent" => doing[p].token \in 1 .. issued
      BY DEF CredSteps
    <3>2. late' = late \cup (IF at[p] = "sent" THEN {doing[p].token} ELSE {}) /\ issued' = issued
      BY DEF Credentials!GivesUp
    <3>. HIDE DEF CredTypes
    <3>3. late \subseteq 1 .. issued
      BY DEF CredTypes
    <3>. QED BY <3>1, <3>2, <3>3
  <2>2. /\ lock' \in Procs \cup {None} /\ read' \in [Procs -> [Accounts -> TokenOrNone']]
        /\ UNCHANGED <<keyring, file, issued, good>>
    BY DEF Credentials!GivesUp, Credentials!NoRecords
  <2>3. doing' = [doing EXCEPT ![p] = [op |-> None, server |-> None, token |-> None]] /\ at' = [at EXCEPT ![p] = "idle"]
    BY DEF Credentials!GivesUp
  <2>. QED BY <2>1, <2>2, <2>3
<1>2. CredSteps'
  BY DEF Credentials!GivesUp, Credentials!NoRecords, CredSteps, Credentials!Loaded
<1>3. TokensInOrder'
  BY DEF Credentials!GivesUp, Credentials!NoRecords, CredSteps, TokensInOrder, Saving, Credentials!Loaded
<1>4. LoadsGood'
  BY DEF Credentials!GivesUp, Credentials!NoRecords, CredSteps, TokensInOrder, LoadsGood, Saving,
         Credentials!Loaded, Credentials!UsesKeyring
<1>5. LogoutsInOrder'
  BY DEF Credentials!GivesUp, Credentials!NoRecords, CredSteps, LoadsGood, LogoutsInOrder,
         Credentials!LoggingOut, Credentials!Busy, Credentials!Loaded, Credentials!UsesKeyring
<1>. QED BY <1>1, <1>2, <1>3, <1>4, <1>5

LEMMA FaultStep ==
    ASSUME NEW p \in Procs, Credentials!RefreshFails(p) \/ Credentials!WriteFails(p) \/ Credentials!Kill(p), CredInv
    PROVE  CredInv'
BY GivesUpStep DEF Credentials!RefreshFails, Credentials!WriteFails, Credentials!Kill

LEMMA ReceivedStep ==
    ASSUME NEW p \in Procs, Credentials!Received(p), CredInv
    PROVE  CredInv'
<1>. USE CredentialsAssumption DEF CredInv, CredTypes, TokenOrNone, Credentials!Goes, Credentials!stored
<1>1. CredTypes'
  BY DEF Credentials!Received
<1>2. CredSteps'
  BY DEF Credentials!Received, CredSteps
<1>3. TokensInOrder'
  BY DEF Credentials!Received, TokensInOrder, Saving
<1>4. LoadsGood'
  BY DEF Credentials!Received, LoadsGood, Saving, Credentials!Loaded, Credentials!UsesKeyring
<1>5. LogoutsInOrder'
  BY DEF Credentials!Received, CredSteps, LogoutsInOrder, Credentials!Busy, Credentials!Loaded,
         Credentials!UsesKeyring
<1>. QED BY <1>1, <1>2, <1>3, <1>4, <1>5

LEMMA RotateLateStep ==
    ASSUME NEW t \in late, Credentials!RotateLate(t), CredInv
    PROVE  CredInv'
<1>. USE CredentialsAssumption DEF CredInv, CredTypes, TokenOrNone, Credentials!stored
<1>1. CredTypes'
  BY DEF Credentials!RotateLate
<1>2. CredSteps'
  BY DEF Credentials!RotateLate, CredSteps
<1>3. TokensInOrder'
  BY DEF Credentials!RotateLate, TokensInOrder, Saving
<1>4. LoadsGood'
  BY DEF Credentials!RotateLate, LoadsGood, Saving, Credentials!Loaded, Credentials!UsesKeyring
<1>5. LogoutsInOrder'
  BY DEF Credentials!RotateLate, LogoutsInOrder, Credentials!Busy, Credentials!Loaded, Credentials!UsesKeyring
<1>. QED BY <1>1, <1>2, <1>3, <1>4, <1>5

LEMMA CredGoal == CredInv => Credentials!StoredTokenIsGood
BY CredentialsAssumption DEF CredInv, CredSteps, LoadsGood, LogoutsInOrder, Saving,
       Credentials!StoredTokenIsGood, Credentials!InUse

LEMMA CredStep == CredInv /\ (Credentials!Next \/ UNCHANGED Credentials!vars) => CredInv'
<1>1. ASSUME CredInv, UNCHANGED Credentials!vars PROVE CredInv'
  BY <1>1 DEF Credentials!vars, CredInv, CredTypes, TokenOrNone, CredSteps, TokensInOrder, Saving,
         LoadsGood, Credentials!Loaded, Credentials!UsesKeyring,
     LogoutsInOrder, Credentials!Busy
<1>. QED BY <1>1, TokenStep, RefreshStep, RotateStep, SaveToKeyringStep, ForgetStep, DeleteFromKeyringStep,
            LogoutAllStep, LockStep, ReadStep, WriteStep, ReceivedStep, FaultStep, RotateLateStep DEF Credentials!Next

LEMMA OneRecordChanges == CredInv /\ (Credentials!Next \/ UNCHANGED Credentials!vars) => Credentials!KeepsOthers
<1>1. ASSUME CredInv, NEW p \in Procs, Credentials!Write(p) PROVE Credentials!KeepsOthers
  <2>1. at[p] = "write" /\ read[p] = file /\ file' = Credentials!Records(p)
    BY <1>1 DEF Credentials!Write, Credentials!Written, CredInv, CredSteps
  <2>2. doing[p].op = "clear" \/ \A s \in Accounts : s # doing[p].server => file'[s] = file[s]
    BY <1>1, <2>1, CredentialsAssumption DEF Credentials!Records, CredInv, CredTypes, CredSteps
  <2>. QED BY <2>1, <2>2 DEF Credentials!KeepsOthers
<1>2. (Credentials!Next \/ UNCHANGED Credentials!vars) => file' = file \/ \E p \in Procs : Credentials!Write(p)
  BY DEF Credentials!Next, Credentials!vars, Credentials!stored, Credentials!Login,
         Credentials!Refresh, Credentials!Rotate, Credentials!Received, Credentials!RotateLate,
         Credentials!RefreshFails, Credentials!WriteFails, Credentials!GivesUp, Credentials!SaveToKeyring, Credentials!Logout,
         Credentials!DeleteFromKeyring, Credentials!LogoutAll, Credentials!Lock, Credentials!Read,
         Credentials!Kill
<1>. QED BY <1>1, <1>2 DEF Credentials!KeepsOthers

(***************************************************************************)
(* Thread-safe stores: one owner for each SQLite store.                    *)
(***************************************************************************)
StoreTypes ==
    /\ ident \in [Workers -> Idents \cup {None}] /\ ended \subseteq Workers
    /\ local \in [Workers -> Nat \cup {None}] /\ using \in [Workers -> Nat \cup {None}]
    /\ byIdent \in [Idents -> Nat \cup {None}]
    /\ opened \in Nat \ {0}
    /\ where \in [Workers -> {"idle", "own", "work", "register", "transaction"}]

\* Numbers are those of one running thread; stores were opened; a thread works with one
\* between its steps only while it runs.
ThreadsInOrder ==
    /\ \A t, u \in Workers : ident[t] # None /\ ident[t] = ident[u] => t = u
    /\ \A t \in Workers : /\ local[t] # None => local[t] <= opened
                          /\ using[t] # None => using[t] <= opened
                          /\ ident[t] = None => local[t] = None /\ where[t] = "idle"
                          /\ where[t] \in {"idle", "own"} => using[t] = None
                          /\ where[t] \notin {"idle", "own"} => using[t] # None
    /\ \A n \in Idents : byIdent[n] # None => byIdent[n] <= opened

\* A SQLite store belongs to a thread that keeps it, uses it, or has the number it is found
\* under, and to no second one.
StoresHaveOneOwner ==
    /\ \A t, u \in Workers : t # u /\ local[t] # None => local[t] # local[u]
    /\ \A n, m \in Idents : n # m /\ byIdent[n] # None => byIdent[n] # byIdent[m]
    /\ \A t \in Workers, n \in Idents : local[t] # None /\ byIdent[n] = local[t] => ident[t] = n
    /\ \A t \in Workers :
          using[t] # None => /\ \A u \in Workers \ {t} : using[u] # using[t] /\ local[u] # using[t]
                             /\ \A n \in Idents : byIdent[n] = using[t] => ident[t] = n

ThreadInv ==
    /\ StoreTypes /\ ThreadsInOrder
    /\ backend # "sql" => backend = "sqlite" /\ StoresHaveOneOwner
    /\ Stores!OpenStoresAreListed

LEMMA ThreadInit == Stores!Init => ThreadInv
<1>. SUFFICES ASSUME Stores!Init PROVE ThreadInv
  OBVIOUS
<1>1. PICK main \in Workers, n \in Idents :
        /\ ident = [t \in Workers |-> IF t = main THEN n ELSE None]
        /\ ended = {}
        /\ opened = 1 /\ all = {1} /\ closed = {}
        /\ local = [t \in Workers |-> IF t = main THEN 1 ELSE None]
        /\ byIdent = [m \in Idents |-> IF m = n THEN 1 ELSE None]
        /\ where = [t \in Workers |-> "idle"] /\ using = [t \in Workers |-> None]
        /\ closes = 0
  BY DEF Stores!Init
<1>2. backend \in {"sqlite", "sql"}
  BY DEF Stores!Init, Stores!Backend
<1>3. StoreTypes
  BY <1>1, ThreadsAssumption DEF StoreTypes
<1>4. ThreadsInOrder
  BY <1>1, ThreadsAssumption DEF ThreadsInOrder
<1>5. StoresHaveOneOwner
  BY <1>1, ThreadsAssumption DEF StoresHaveOneOwner
<1>6. Stores!OpenStoresAreListed
  BY <1>1 DEF Stores!OpenStoresAreListed
<1>. QED BY <1>2, <1>3, <1>4, <1>5, <1>6 DEF ThreadInv

LEMMA ThreadStep == ThreadInv /\ (Stores!Next \/ UNCHANGED Stores!vars) => ThreadInv'
<1>. SUFFICES ASSUME ThreadInv, (Stores!Next \/ UNCHANGED Stores!vars) PROVE ThreadInv'
  OBVIOUS
<1>. USE ThreadsAssumption DEF ThreadInv, StoreTypes
<1>1. CASE UNCHANGED Stores!vars
  BY <1>1 DEF Stores!vars, ThreadsInOrder, StoresHaveOneOwner, Stores!OpenStoresAreListed,
         Stores!Running
<1>2. ASSUME NEW t \in Workers, Stores!Start(t) PROVE ThreadInv'
  <2>1. PICK n \in Idents \ {ident[u] : u \in Stores!Running} : ident' = [ident EXCEPT ![t] = n]
    BY <1>2 DEF Stores!Start
  <2>2. UNCHANGED <<backend, ended, Stores!tables, where, using, closes>> /\ ident[t] = None
    BY <1>2 DEF Stores!Start
  <2>3. StoreTypes'
    BY <2>1, <2>2 DEF Stores!tables
  <2>4. ThreadsInOrder'
    BY <2>1, <2>2 DEF Stores!tables, ThreadsInOrder, Stores!Running
  <2>5. backend # "sql" => StoresHaveOneOwner'
    BY <2>1, <2>2 DEF Stores!tables, ThreadsInOrder, StoresHaveOneOwner, Stores!Running
  <2>6. Stores!OpenStoresAreListed'
    BY <2>1, <2>2 DEF Stores!tables, Stores!OpenStoresAreListed, Stores!Running
  <2>. QED BY <2>2, <2>3, <2>4, <2>5, <2>6
<1>3. ASSUME NEW t \in Workers, Stores!End(t) PROVE ThreadInv'
  <2>1. StoreTypes'
    BY <1>3 DEF Stores!End, Stores!Uses
  <2>2. ThreadsInOrder'
    BY <1>3 DEF Stores!End, Stores!Uses, ThreadsInOrder
  <2>3. backend # "sql" => StoresHaveOneOwner'
    BY <1>3 DEF Stores!End, Stores!Uses, ThreadsInOrder, StoresHaveOneOwner
  <2>4. Stores!OpenStoresAreListed'
    BY <1>3 DEF Stores!End, Stores!Uses, ThreadsInOrder, Stores!OpenStoresAreListed, Stores!Running
  <2>. QED BY <1>3, <2>1, <2>2, <2>3, <2>4 DEF Stores!End
<1>4. ASSUME NEW t \in Workers, Stores!Find(t) PROVE ThreadInv'
  <2>1. StoreTypes'
    BY <1>4 DEF Stores!Find, Stores!Uses, Stores!Goes, Stores!tables
  <2>2. ThreadsInOrder'
    BY <1>4 DEF Stores!Find, Stores!Uses, Stores!Goes, Stores!tables, ThreadsInOrder
  <2>3. backend # "sql" => StoresHaveOneOwner'
    BY <1>4 DEF Stores!Find, Stores!Uses, Stores!Goes, Stores!tables, ThreadsInOrder, StoresHaveOneOwner
  <2>4. Stores!OpenStoresAreListed'
    BY <1>4 DEF Stores!Find, Stores!Uses, Stores!Goes, Stores!tables, ThreadsInOrder,
           Stores!OpenStoresAreListed, Stores!Running
  <2>. QED BY <1>4, <2>1, <2>2, <2>3, <2>4 DEF Stores!Find
<1>5. ASSUME NEW t \in Workers, Stores!Own(t) PROVE ThreadInv'
  <2>1. StoreTypes'
    BY <1>5 DEF Stores!Own, Stores!Uses, Stores!Goes
  <2>2. ThreadsInOrder'
    BY <1>5 DEF Stores!Own, Stores!Uses, Stores!Goes, ThreadsInOrder
  <2>3. backend # "sql" => StoresHaveOneOwner'
    BY <1>5 DEF Stores!Own, Stores!Uses, Stores!Goes, ThreadsInOrder, StoresHaveOneOwner
  <2>4. Stores!OpenStoresAreListed'
    BY <1>5 DEF Stores!Own, Stores!Uses, Stores!Goes, ThreadsInOrder, Stores!OpenStoresAreListed,
           Stores!Running
  <2>. QED BY <1>5, <2>1, <2>2, <2>3, <2>4 DEF Stores!Own
<1>6. ASSUME NEW t \in Workers, Stores!Register(t) PROVE ThreadInv'
  <2>1. StoreTypes'
    BY <1>6 DEF Stores!Register, Stores!Goes, ThreadsInOrder
  <2>2. ThreadsInOrder'
    BY <1>6 DEF Stores!Register, Stores!Goes, ThreadsInOrder
  <2>3. backend # "sql" => StoresHaveOneOwner'
    BY <1>6 DEF Stores!Register, Stores!Goes, ThreadsInOrder, StoresHaveOneOwner
  <2>4. Stores!OpenStoresAreListed'
    BY <1>6 DEF Stores!Register, Stores!Goes, ThreadsInOrder, Stores!OpenStoresAreListed, Stores!Running
  <2>. QED BY <1>6, <2>1, <2>2, <2>3, <2>4 DEF Stores!Register
<1>7. ASSUME NEW t \in Workers, Stores!Begin(t) \/ Stores!Finish(t) PROVE ThreadInv'
  <2>1. StoreTypes'
    BY <1>7 DEF Stores!Begin, Stores!Finish, Stores!Uses, Stores!Goes, Stores!tables
  <2>2. ThreadsInOrder'
    BY <1>7 DEF Stores!Begin, Stores!Finish, Stores!Uses, Stores!Goes, Stores!tables, ThreadsInOrder
  <2>3. backend # "sql" => StoresHaveOneOwner'
    BY <1>7 DEF Stores!Begin, Stores!Finish, Stores!Uses, Stores!Goes, Stores!tables,
           ThreadsInOrder, StoresHaveOneOwner
  <2>4. Stores!OpenStoresAreListed'
    BY <1>7 DEF Stores!Begin, Stores!Finish, Stores!Uses, Stores!Goes, Stores!tables,
           ThreadsInOrder, Stores!OpenStoresAreListed, Stores!Running
  <2>. QED BY <1>7, <2>1, <2>2, <2>3, <2>4 DEF Stores!Begin, Stores!Finish
<1>8. CASE Stores!Close
  BY <1>8 DEF Stores!Close, ThreadsInOrder, StoresHaveOneOwner, Stores!OpenStoresAreListed,
         Stores!Running
<1>. QED BY <1>1, <1>2, <1>3, <1>4, <1>5, <1>6, <1>7, <1>8 DEF Stores!Next

LEMMA ThreadGoal == ThreadInv => Stores!EachThreadItsStore
BY DEF ThreadInv, Stores!EachThreadItsStore, Stores!NoStoreIsShared, StoresHaveOneOwner, Stores!Running

(***************************************************************************)
(* Webhooks: what is sent, and to whom.                                    *)
(***************************************************************************)
LEMMA CardinalityGrows ==
    ASSUME NEW T, IsFiniteSet(T), NEW S \in SUBSET T
    PROVE  /\ IsFiniteSet(S) /\ Cardinality(S) \in Nat /\ Cardinality(T) \in Nat
                    /\ Cardinality(S) <= Cardinality(T)
           /\ S # T => Cardinality(S) < Cardinality(T)
<1>1. IsFiniteSet(S) /\ Cardinality(S) \in Nat /\ Cardinality(T) \in Nat /\ Cardinality(S) <= Cardinality(T)
      /\ (Cardinality(S) = Cardinality(T) => S = T)
  BY FS_Subset, FS_CardinalityType
<1>. QED BY <1>1

\* Each rank below the size of a finite set of numbers is the rank of one of them.
LEMMA OrderIsFull ==
    ASSUME NEW set \in SUBSET Nat, IsFiniteSet(set)
    PROVE  /\ Cardinality(set) \in Nat
           /\ \A i \in 1 .. Cardinality(set) : Posts!InOrder(set)[i] \in set
<1>. DEFINE size == Cardinality(set)
            below(k) == {j \in set : j < k}
            rank == [k \in set |-> Cardinality(below(k))]
<1>1. size \in Nat
  BY FS_CardinalityType
<1>2. ASSUME NEW k \in set
      PROVE  IsFiniteSet(below(k)) /\ Cardinality(below(k)) \in 0 .. size - 1
  <2>1. below(k) \in SUBSET set /\ below(k) # set
    OBVIOUS
  <2>. HIDE DEF below
  <2>. QED BY <1>1, <2>1, CardinalityGrows
<1>3. ASSUME NEW k \in set, NEW l \in set, k < l
      PROVE  Cardinality(below(k)) < Cardinality(below(l))
  <2>3. \A j \in set : j \in Nat
    OBVIOUS
  <2>4. (\A j \in set : j < k => j < l) /\ ~(k < k)
    BY <1>3, <2>3
  <2>1. below(k) \in SUBSET below(l) /\ k \in below(l) /\ k \notin below(k)
    BY <1>3, <2>4
  <2>2. below(k) # below(l)
    BY <2>1
  <2>. HIDE DEF below
  <2>. QED BY <1>2, <2>1, <2>2, CardinalityGrows
<1>. HIDE DEF below
<1>4. \A k \in set : rank[k] \in 0 .. size - 1
  BY <1>2
<1>5. \A k, l \in set : k # l => rank[k] # rank[l]
  <2>. SUFFICES ASSUME NEW k \in set, NEW l \in set, k < l PROVE rank[k] # rank[l]
    OBVIOUS
  <2>1. rank[k] < rank[l] /\ rank[k] \in Nat /\ rank[l] \in Nat
    BY <1>2, <1>3
  <2>. QED BY <2>1
<1>6. rank \in [set -> 0 .. size - 1]
  BY <1>4
<1>7. \A k \in set : rank[k] = Cardinality(below(k))
  OBVIOUS
<1>9. size = Cardinality(set)
  OBVIOUS
<1>. HIDE DEF rank, size
<1>8. ASSUME NEW i \in 1 .. size PROVE \E k \in set : Cardinality(below(k)) = i - 1
  <2>. SUFFICES ASSUME \A k \in set : rank[k] # i - 1 PROVE FALSE
    BY <1>7
  <2>. DEFINE ranks == 0 .. size - 1
              rest == ranks \ {i - 1}
  <2>1. rank \in [set -> rest]
    BY <1>6
  <2>2. IsFiniteSet(rest) /\ Cardinality(rest) = size - 1
    <3>1. IsFiniteSet(ranks) /\ Cardinality(ranks) = size
      BY <1>1, FS_Interval
    <3>2. i - 1 \in ranks
      BY <1>1
    <3>. HIDE DEF ranks
    <3>. QED BY <3>1, <3>2, FS_RemoveElement
  <2>3. size - 1 < size
    BY <1>1
  <2>. HIDE DEF rest, rank, size
  <2>4. \E k, l \in set : k # l /\ rank[k] = rank[l]
    BY <1>9, <2>1, <2>2, <2>3, FS_PigeonHole
  <2>. QED BY <1>5, <2>4
<1>. QED BY <1>1, <1>8, <1>9, SameSizes DEF Posts!InOrder, below

\* Neutralize moves what follows a mention, so none is left.
LEMMA NoMentionIsLeft ==
    ASSUME NEW S, NEW text \in Seq(S),
           NEW k \in 1 .. Len(Posts!Neutralize(text)) - 1
    PROVE  ~(Posts!Neutralize(text)[k] = "at" /\ Posts!Neutralize(text)[k+1] = "everyone")
<1>. DEFINE safe == Posts!Neutralize(text)
            before(i) == {j \in Posts!Mentions(text) : j < i}
<1>1. Len(text) \in Nat /\ DOMAIN text = 1 .. Len(text) /\ Posts!Mentions(text) \in SUBSET (1 .. Len(text))
      /\ IsFiniteSet(1 .. Len(text))
  <2>1. Len(text) \in Nat /\ DOMAIN text = 1 .. Len(text)
    OBVIOUS
  <2>2. Posts!Mentions(text) \in SUBSET (1 .. Len(text))
    BY <2>1 DEF Posts!Mentions
  <2>. QED BY <2>1, <2>2, FS_Interval
<1>2. IsFiniteSet(Posts!Mentions(text)) /\ Cardinality(Posts!Mentions(text)) \in Nat
  BY <1>1, CardinalityGrows
<1>. DEFINE size == Len(text) + Cardinality(Posts!Mentions(text))
<1>3. size \in Nat /\ safe = [i \in 1 .. size |-> IF \E l \in DOMAIN text : Posts!Moved(text, l) = i
                                THEN text[CHOOSE l \in DOMAIN text : Posts!Moved(text, l) = i] ELSE "zwsp"]
  BY <1>1, <1>2, SameSizes DEF Posts!Neutralize
<1>4. Len(safe) = size
  BY <1>3
<1>5. k \in 1 .. size /\ k + 1 \in 1 .. size
  BY <1>3, <1>4
<1>6. ASSUME NEW i \in 1 .. size, safe[i] # "zwsp"
      PROVE  \E l \in DOMAIN text : Posts!Moved(text, l) = i /\ safe[i] = text[l]
  BY <1>3, <1>6
<1>7. ASSUME NEW i \in DOMAIN text
      PROVE  before(i) \in SUBSET Posts!Mentions(text) /\ IsFiniteSet(before(i))
                   /\ Cardinality(before(i)) \in Nat
  <2>1. before(i) \in SUBSET Posts!Mentions(text)
    OBVIOUS
  <2>. HIDE DEF before
  <2>. QED BY <1>2, <2>1, CardinalityGrows
<1>8. \A i \in DOMAIN text : Posts!Moved(text, i) = i + Cardinality(before(i))
  BY SameSizes DEF Posts!Moved
<1>9. ASSUME NEW i \in DOMAIN text, NEW j \in DOMAIN text, i < j
      PROVE  Posts!Moved(text, j) - Posts!Moved(text, i) >= j - i
  <2>1. before(i) \in SUBSET before(j)
    BY <1>1, <1>9
  <2>. HIDE DEF before
  <2>2. Cardinality(before(i)) <= Cardinality(before(j))
    BY <1>7, <2>1, CardinalityGrows
  <2>. QED BY <1>1, <1>7, <1>8, <2>2
<1>10. ASSUME NEW i \in DOMAIN text, i + 1 \in DOMAIN text, i \in Posts!Mentions(text)
       PROVE  Posts!Moved(text, i + 1) = Posts!Moved(text, i) + 2
  <2>1. before(i + 1) = before(i) \cup {i} /\ i \notin before(i)
    BY <1>1, <1>10
  <2>. HIDE DEF before
  <2>2. Cardinality(before(i + 1)) = Cardinality(before(i)) + 1
    BY <1>7, <2>1, FS_AddElement
  <2>. QED BY <1>1, <1>7, <1>8, <1>10, <2>2
<1>. HIDE DEF safe, before, size
<1>. SUFFICES ASSUME safe[k] = "at", safe[k+1] = "everyone" PROVE FALSE
  BY DEF safe
<1>11. PICK l \in DOMAIN text : Posts!Moved(text, l) = k /\ text[l] = "at"
  BY <1>5, <1>6
<1>12. PICK m \in DOMAIN text : Posts!Moved(text, m) = k + 1 /\ text[m] = "everyone"
  BY <1>5, <1>6
<1>13. m = l + 1
  <2>1. l \in Int /\ m \in Int
    BY <1>1
  <2>2. ~(m < l) /\ m # l
    <3>1. ~(m < l)
      BY <1>9, <1>11, <1>12, <2>1
    <3>. QED BY <3>1, <1>11, <1>12
  <2>3. l < m
    BY <2>1, <2>2
  <2>4. (k + 1) - k >= m - l
    BY <1>9, <1>11, <1>12, <2>3
  <2>. QED BY <2>1, <2>3, <2>4
<1>14. l \in Posts!Mentions(text)
  BY <1>1, <1>11, <1>12, <1>13 DEF Posts!Mentions
<1>. QED BY <1>10, <1>11, <1>12, <1>13, <1>14

\* What the steps of a field's text make are sequences again.
LEMMA OneLineIsText ==
    ASSUME NEW text \in Seq(Letters)
    PROVE  Posts!OneLine(text) \in Seq(Letters)
<1>. DEFINE solid == {i \in DOMAIN text : ~Posts!Break(text[i])}
            set == {i \in DOMAIN text : /\ \E first, last \in solid : first <= i /\ i <= last
                                        /\ text[i] # "newline" \/ text[i-1] # "newline"}
            size == Cardinality(set)
<1>1. DOMAIN text = 1 .. Len(text) /\ Len(text) \in Nat /\ \A i \in DOMAIN text : text[i] \in Letters
  OBVIOUS
<1>2. set \in SUBSET (1 .. Len(text)) /\ set \in SUBSET Nat
  BY <1>1
<1>. HIDE DEF set
<1>3. IsFiniteSet(set)
  <2>1. IsFiniteSet(1 .. Len(text))
    BY <1>1, FS_Interval
  <2>. QED BY <1>2, <2>1, FS_Subset
<1>4. size \in Nat /\ \A i \in 1 .. size : Posts!InOrder(set)[i] \in set
  BY <1>2, <1>3, OrderIsFull
<1>5. Posts!OneLine(text) = [i \in 1 .. size |-> IF text[Posts!InOrder(set)[i]] = "newline"
            THEN "space" ELSE text[Posts!InOrder(set)[i]]]
  BY SameSizes DEF Posts!OneLine, Posts!InOrder, set
<1>. HIDE DEF size
<1>6. \A i \in 1 .. size : (IF text[Posts!InOrder(set)[i]] = "newline"
            THEN "space" ELSE text[Posts!InOrder(set)[i]]) \in Letters
  BY <1>1, <1>2, <1>4 DEF Letters
<1>. QED BY <1>4, <1>5, <1>6

LEMMA RedactIsText ==
    ASSUME NEW text \in Seq(Letters)
    PROVE  /\ Posts!Redact(text) \in Seq(Letters)
           /\ \A i \in DOMAIN Posts!Redact(text) :
                 Posts!Redact(text)[i] = "secret" => \E k \in DOMAIN text : text[k] = "secret"
                       /\ k \notin Posts!Hidden(text)
<1>. DEFINE set == {k \in DOMAIN text : k \notin Posts!Hidden(text) \/ (k - 1) \notin Posts!Hidden(text)}
            size == Cardinality(set)
<1>1. DOMAIN text = 1 .. Len(text) /\ Len(text) \in Nat /\ \A i \in DOMAIN text : text[i] \in Letters
  OBVIOUS
<1>2. set \in SUBSET (1 .. Len(text)) /\ set \in SUBSET Nat
  BY <1>1
<1>. HIDE DEF set
<1>3. IsFiniteSet(set)
  <2>1. IsFiniteSet(1 .. Len(text))
    BY <1>1, FS_Interval
  <2>. QED BY <1>2, <2>1, FS_Subset
<1>4. size \in Nat /\ \A i \in 1 .. size : Posts!InOrder(set)[i] \in set
  BY <1>2, <1>3, OrderIsFull
<1>5. Posts!Redact(text) = [i \in 1 .. size |-> IF Posts!InOrder(set)[i] \in Posts!Hidden(text)
            THEN "redacted" ELSE text[Posts!InOrder(set)[i]]]
  BY SameSizes DEF Posts!Redact, Posts!InOrder, set
<1>. HIDE DEF size
<1>6. \A i \in 1 .. size : (IF Posts!InOrder(set)[i] \in Posts!Hidden(text)
            THEN "redacted" ELSE text[Posts!InOrder(set)[i]]) \in Letters
  BY <1>1, <1>2, <1>4 DEF Letters
<1>7. Posts!Redact(text) \in Seq(Letters)
  BY <1>4, <1>5, <1>6
<1>8. \A i \in 1 .. size : Posts!Redact(text)[i] = "secret" =>
            Posts!InOrder(set)[i] \in DOMAIN text /\ text[Posts!InOrder(set)[i]] = "secret"
                  /\ Posts!InOrder(set)[i] \notin Posts!Hidden(text)
  BY <1>1, <1>2, <1>4, <1>5
<1>. QED BY <1>5, <1>7, <1>8

LEMMA SanitizedIsHarmless ==
    ASSUME NEW raw \in Texts
    PROVE  LET text == Posts!Sanitize(raw)
               line == Posts!OneLine(raw)
           IN  /\ \A k \in 1 .. Len(text) - 1 : ~(text[k] = "at" /\ text[k+1] = "everyone")
               /\ (\E k \in DOMAIN text : text[k] = "secret") =>
                     \E k \in DOMAIN line : /\ line[k] = "secret"
                                           /\ \A u \in 1 .. k-1, a \in k+1 .. Len(line) :
                                                    ~Posts!Userinfo(line, u, a)
<1>. DEFINE line == Posts!OneLine(raw)
            redacted == Posts!Redact(line)
            short == Posts!Truncate(redacted)
            text == Posts!Neutralize(short)
<1>1. line \in Seq(Letters)
  BY OneLineIsText, PostsAssumption
<1>. HIDE DEF line
<1>2. /\ redacted \in Seq(Letters)
      /\ \A i \in DOMAIN redacted : redacted[i] = "secret" => \E k \in DOMAIN line : line[k] = "secret"
               /\ k \notin Posts!Hidden(line)
  BY <1>1, RedactIsText
<1>. HIDE DEF redacted
<1>3. short \in Seq(Letters) /\ \A i \in DOMAIN short : i \in DOMAIN redacted /\ short[i] = redacted[i]
  <2>. DEFINE last == IF Len(redacted) < MaxLength THEN Len(redacted) ELSE MaxLength
  <2>1. last \in Nat /\ last <= Len(redacted) /\ Len(redacted) \in Nat /\ short = SubSeq(redacted, 1, last)
    BY <1>2, PostsAssumption DEF Posts!Truncate
  <2>. HIDE DEF last
  <2>. QED BY <1>2, <2>1
<1>. HIDE DEF short
<1>4. \A k \in 1 .. Len(text) - 1 : ~(text[k] = "at" /\ text[k+1] = "everyone")
  BY <1>3, NoMentionIsLeft
<1>5. ASSUME NEW k \in DOMAIN text, text[k] = "secret"
      PROVE  \E i \in DOMAIN short : short[i] = "secret"
  <2>1. \E i \in DOMAIN short : Posts!Moved(short, i) = k
    BY <1>5 DEF Posts!Neutralize
  <2>. QED BY <1>5, <2>1 DEF Posts!Neutralize
<1>6. Posts!Sanitize(raw) = text
  BY DEF Posts!Sanitize, text, short, redacted, line
<1>. HIDE DEF text
<1>7. ASSUME NEW k \in DOMAIN line, k \notin Posts!Hidden(line)
      PROVE  \A u \in 1 .. k-1, a \in k+1 .. Len(line) : ~Posts!Userinfo(line, u, a)
  <2>1. DOMAIN line = 1 .. Len(line) /\ Len(line) \in Nat
    BY <1>1
  <2>. SUFFICES ASSUME NEW u \in 1 .. k-1, NEW a \in k+1 .. Len(line), Posts!Userinfo(line, u, a) PROVE FALSE
    OBVIOUS
  <2>2. u \in DOMAIN line /\ a \in DOMAIN line /\ u < k /\ k < a
    BY <1>7, <2>1
  <2>. QED BY <1>7, <2>2 DEF Posts!Hidden
<1>8. (\E k \in DOMAIN text : text[k] = "secret") =>
         \E k \in DOMAIN line : /\ line[k] = "secret"
                               /\ \A u \in 1 .. k-1, a \in k+1 .. Len(line) : ~Posts!Userinfo(line, u, a)
  BY <1>2, <1>3, <1>5, <1>7
<1>. QED BY <1>4, <1>6, <1>8 DEF line

-----------------------------------------------------------------------------
PlatformTurns == {1, 2, 3}
TurnDone(i) == config.urls[Posts!Platforms[i]] # None =>
               Posts!Platforms[i] \in refused \/ \E post \in sent : post.platform = Posts!Platforms[i]
Genuine(n) == n.raw \in Texts /\ n.text = Posts!Sanitize(n.raw)
Outside(url, to) == url.host \in config.allowed \/ (url.scheme = "https" /\ ~Posts!Prohibited(to))

\* The platforms before the one that has its turn are done, and no other.
PostsInv ==
    /\ config \in Configs /\ turn \in PlatformTurns /\ notices \in Nat
    /\ notice # None => Genuine(notice) /\ notices > 0
    /\ address # None => notice # None /\ Outside(Posts!URL, address)
    /\ \A post \in sent :
          /\ Genuine(post.notice) /\ Outside(post.url, post.address)
          /\ \E i \in PlatformTurns : post.platform = Posts!Platforms[i] /\ (notice # None => i < turn)
    /\ \A p, q \in sent : p.platform = q.platform => p = q
    /\ \A i \in PlatformTurns : notices > 0 /\ (notice = None \/ i < turn) => TurnDone(i)

LEMMA PlatformsDiffer ==
    /\ DOMAIN Posts!Platforms = PlatformTurns /\ Len(Posts!Platforms) = 3
    /\ \A i, j \in PlatformTurns : Posts!Platforms[i] = Posts!Platforms[j] => i = j
BY DEF Posts!Platforms, PlatformTurns

LEMMA PostsInit == Posts!Init => PostsInv
BY DEF Posts!Init, PostsInv, PlatformTurns

LEMMA NotifyStep == ASSUME PostsInv, Posts!Notify PROVE PostsInv'
<1>1. PICK text \in Texts : notice' = [raw |-> text, text |-> Posts!Sanitize(text)]
  BY DEF Posts!Notify
<1>2. notice' # None /\ Genuine(notice')
  BY <1>1, PostsAssumption DEF Genuine
<1>3. /\ notice = None /\ turn' = 1 /\ sent' = {} /\ refused' = {} /\ address' = address
               /\ notices' = notices + 1
      /\ config' = config
  BY DEF Posts!Notify
<1>. QED BY <1>2, <1>3 DEF PostsInv, Genuine, PlatformTurns

\* The turn goes on when the platform that has it is done.
LEMMA NextTurnKeeps ==
    ASSUME PostsInv, notice # None, Posts!NextTurn, address' = None, UNCHANGED <<config, notices>>,
           NEW which \in PlatformTurns, turn = which, TurnDone(which)',
           refused \subseteq refused',
           \/ sent' = sent
           \/ \E post : /\ sent' = sent \cup {post} /\ post.platform = Posts!Platform
                        /\ Genuine(post.notice) /\ Outside(post.url, post.address)
    PROVE  PostsInv'
<1>1. \/ turn < 3 /\ turn' = turn + 1 /\ notice' = notice
      \/ turn = 3 /\ turn' = 1 /\ notice' = None
  BY PlatformsDiffer DEF Posts!NextTurn, PostsInv, PlatformTurns
<1>2. turn \in PlatformTurns /\ turn' \in PlatformTurns /\ sent \subseteq sent'
  BY <1>1 DEF PostsInv, PlatformTurns
<1>3. \A i \in PlatformTurns : TurnDone(i) => TurnDone(i)'
  BY <1>2 DEF TurnDone
<1>4. \A i \in PlatformTurns : notice' = None \/ i < turn' => TurnDone(i)'
  <2>1. ASSUME NEW i \in PlatformTurns, i < turn PROVE TurnDone(i)'
    BY <1>3, <2>1 DEF PostsInv
  <2>2. \A i \in PlatformTurns : notice' = None \/ i < turn' => i < turn \/ i = which
    BY <1>1, <1>2 DEF PlatformTurns
  <2>. QED BY <2>1, <2>2
<1>5. ASSUME NEW post \in sent, NEW i \in PlatformTurns, post.platform = Posts!Platforms[i], i < turn
      PROVE  notice' # None => i < turn'
  BY <1>1, <1>2, <1>5 DEF PlatformTurns
<1>6. ASSUME NEW post \in sent PROVE post.platform # Posts!Platform
  BY <1>2, PlatformsDiffer DEF PostsInv, Posts!Platform, PlatformTurns
<1>7. \A p, q \in sent' : p.platform = q.platform => p = q
  BY <1>6 DEF PostsInv
<1>8. ASSUME NEW post \in sent'
      PROVE  /\ Genuine(post.notice) /\ Outside(post.url, post.address)'
             /\ \E i \in PlatformTurns : post.platform = Posts!Platforms[i] /\ (notice' # None => i < turn')
  <2>1. CASE post \in sent
    <3>1. Genuine(post.notice) /\ Outside(post.url, post.address)
          /\ \E i \in PlatformTurns : post.platform = Posts!Platforms[i] /\ i < turn
      BY <2>1 DEF PostsInv
    <3>. QED BY <1>5, <2>1, <3>1 DEF Outside
  <2>2. CASE post \notin sent
    <3>1. post.platform = Posts!Platforms[turn] /\ Genuine(post.notice) /\ Outside(post.url, post.address)
      BY <2>2 DEF Posts!Platform
    <3>2. notice' # None => turn < turn'
      BY <1>1, <1>2 DEF PlatformTurns
    <3>. QED BY <1>2, <3>1, <3>2 DEF Outside
  <2>. QED BY <2>1, <2>2
<1>9. notice' # None => Genuine(notice')
  BY <1>1 DEF PostsInv
<1>. QED BY <1>2, <1>4, <1>7, <1>8, <1>9 DEF PostsInv, Genuine

LEMMA SkipStep == ASSUME PostsInv, Posts!Skip PROVE PostsInv'
<1>1. notice # None /\ Posts!NextTurn /\ address' = None /\ Posts!URL = None
            /\ UNCHANGED <<config, sent, refused, notices>>
  BY DEF Posts!Skip
<1>2. PICK which \in PlatformTurns : turn = which
  BY DEF PostsInv
<1>3. TurnDone(which)'
  BY <1>1, <1>2 DEF TurnDone, Posts!URL, Posts!Platform
<1>. QED BY <1>1, <1>2, <1>3, NextTurnKeeps

LEMMA ResolvedIsPublic ==
    ASSUME NEW url, NEW answer, answer # <<>> => 1 \in DOMAIN answer, Posts!Validated(url, answer) # None
    PROVE  Outside(url, Posts!Validated(url, answer))
BY DEF Posts!Validated, Posts!Resolved, Outside

LEMMA ValidateStep ==
    ASSUME PostsInv, Posts!Validate
    PROVE  PostsInv'
<1>1. PICK answer \in Ranges[Posts!URL.host] :
          IF Posts!Validated(Posts!URL, answer) = None
          THEN refused' = refused \cup {Posts!Platform} /\ Posts!NextTurn /\ UNCHANGED address
          ELSE address' = Posts!Validated(Posts!URL, answer) /\ UNCHANGED <<turn, notice, refused>>
  BY DEF Posts!Validate
<1>2. notice # None /\ address = None /\ UNCHANGED <<config, sent, notices>>
  BY DEF Posts!Validate
<1>3. CASE Posts!Validated(Posts!URL, answer) = None
  <2>1. PICK which \in PlatformTurns : turn = which
    BY DEF PostsInv
  <2>2. TurnDone(which)'
    BY <1>1, <1>3, <2>1 DEF TurnDone, Posts!Platform
  <2>. QED BY <1>1, <1>2, <1>3, <2>1, <2>2, NextTurnKeeps
<1>4. CASE Posts!Validated(Posts!URL, answer) # None
  <2>1. Outside(Posts!URL, Posts!Validated(Posts!URL, answer))
    <3>1. Posts!URL # None /\ config \in Configs /\ turn \in DOMAIN Posts!Platforms
      BY PlatformsDiffer DEF Posts!Validate, PostsInv
    <3>2. answer # <<>> => 1 \in DOMAIN answer
      BY <3>1, PostsAssumption DEF Posts!URL, Posts!Platform
    <3>. QED BY <1>4, <3>2, ResolvedIsPublic
  <2>2. Posts!URL' = Posts!URL /\ address' = Posts!Validated(Posts!URL, answer)
              /\ UNCHANGED <<turn, notice, refused, config, sent, notices>>
    BY <1>1, <1>2, <1>4 DEF Posts!URL, Posts!Platform
  <2>3. Outside(Posts!URL, address)'
    BY <2>1, <2>2 DEF Outside
  <2>4. (\A i \in PlatformTurns : TurnDone(i)' <=> TurnDone(i)) /\ \A n : Genuine(n)' <=> Genuine(n)
    BY <2>2 DEF TurnDone, Genuine
  <2>5. \A url, to : Outside(url, to)' <=> Outside(url, to)
    BY <2>2 DEF Outside
  <2>. QED BY <1>2, <2>2, <2>3, <2>4, <2>5 DEF PostsInv, Genuine
<1>. QED BY <1>3, <1>4

LEMMA PostStep == ASSUME PostsInv, Posts!Post PROVE PostsInv'
<1>. DEFINE post == [platform |-> Posts!Platform, url |-> Posts!URL, address |-> address, notice |-> notice]
<1>1. address # None /\ sent' = sent \cup {post} /\ address' = None /\ Posts!NextTurn
            /\ UNCHANGED <<config, refused, notices>>
  BY DEF Posts!Post, Posts!Posted
<1>2. /\ notice # None /\ post.platform = Posts!Platform /\ Genuine(post.notice)
               /\ Outside(post.url, post.address)
  BY <1>1 DEF PostsInv
<1>3. PICK which \in PlatformTurns : turn = which
  BY DEF PostsInv
<1>4. TurnDone(which)'
  <2>1. post \in sent' /\ post.platform = Posts!Platforms[which]
    BY <1>1, <1>3 DEF Posts!Platform
  <2>. QED BY <2>1 DEF TurnDone
<1>. HIDE DEF post
<1>. QED BY <1>1, <1>2, <1>3, <1>4, NextTurnKeeps

LEMMA WebhookRests == ASSUME PostsInv, UNCHANGED Posts!vars PROVE PostsInv'
BY DEF Posts!vars, PostsInv, Genuine, Outside, TurnDone, Posts!URL, Posts!Platform

LEMMA WebhookStep ==
    ASSUME PostsInv, (Posts!Next \/ UNCHANGED Posts!vars)
    PROVE  PostsInv'
BY NotifyStep, SkipStep, ValidateStep, PostStep, WebhookRests DEF Posts!Next

LEMMA WebhookGoal == PostsInv => Posts!NoticesStayInBounds
<1>. SUFFICES ASSUME PostsInv PROVE Posts!NoticesStayInBounds
  OBVIOUS
<1>1. Posts!PostsStayOutside
  BY DEF PostsInv, Posts!PostsStayOutside, Outside
<1>2. Posts!PostsAreHarmless
  BY SanitizedIsHarmless DEF PostsInv, Genuine, Posts!PostsAreHarmless
<1>3. Posts!EveryPlatformHasItsTurn
  BY PlatformsDiffer DEF PostsInv, Posts!EveryPlatformHasItsTurn, TurnDone
<1>. QED BY <1>1, <1>2, <1>3 DEF Posts!NoticesStayInBounds

(***************************************************************************)
(* Logging in: where the requests of the OAuth flow go.                    *)
(***************************************************************************)
\* A request that goes out while nothing on the loopback interface is allowed goes to a
\* public address over TLS (_validate_https_endpoint, _resolve_pinned_ip).
LEMMA OpenStaysOutside ==
    ASSUME NEW what, NEW url, NEW code, NEW answer \in OAuth!Answers,
           ~OAuth!Local(server), OAuth!RequestsStayOutside, server' = server,
           OAuth!Open(what, url, OAuth!AllowLoopback, answer, code)
    PROVE  OAuth!RequestsStayOutside'
BY DEF OAuth!Open, OAuth!RequestsStayOutside, OAuth!AllowLoopback, OAuth!ValidEndpoint, OAuth!Local,
       OAuth!Dialled, OAuth!Answers, OAuth!ToSet

\* From the metadata of the authorization server on, it is the expected issuer's, which was
\* asked for it; and the code is exchanged for a callback that was right.
LoginInv ==
    /\ step \in {"register", "wait", "exchange"} =>
          OAuth!Trusted(meta) /\ \E q \in requested : q.what = "issuer" /\ q.url = OAuth!ExpectedIssuer
    /\ step \in {"wait", "exchange"} => shown
    /\ step = "exchange" => ~OAuth!Unheard /\ OAuth!Valid

LEMMA LoginInit == OAuth!Init => OAuth!RequestsStayOutside /\ LoginInv
BY DEF OAuth!Init, OAuth!RequestsStayOutside, LoginInv

LEMMA LoginStaysOutside ==
    ASSUME OAuth!RequestsStayOutside, (OAuth!Next \/ UNCHANGED OAuth!vars)
    PROVE  OAuth!RequestsStayOutside'
<1>1. CASE OAuth!Local(server)
  <2>1. server' = server
    BY DEF OAuth!Next, OAuth!vars, OAuth!List, OAuth!TimeOut, OAuth!Probe, OAuth!Resource,
           OAuth!NoResource, OAuth!Issuer, OAuth!Abort, OAuth!Register, OAuth!Callback, OAuth!Unanswered,
           OAuth!Wait, OAuth!Exchange
  <2>. QED BY <1>1, <2>1 DEF OAuth!RequestsStayOutside, OAuth!Local
<1>2. CASE ~OAuth!Local(server)
  <2>1. CASE UNCHANGED <<server, requested>>
    BY <2>1 DEF OAuth!RequestsStayOutside, OAuth!Local
  <2>2. CASE \E what, url, code : \E answer \in OAuth!Answers :
                server' = server /\ OAuth!Open(what, url, OAuth!AllowLoopback, answer, code)
    BY <1>2, <2>2, OpenStaysOutside
  <2>3. \A code, state, iss, error : OAuth!Callback(code, state, iss, error) => UNCHANGED <<server, requested>>
    BY DEF OAuth!Callback
  <2>4. UNCHANGED <<server, requested>> \/ \E what, url, code : \E answer \in OAuth!Answers :
                server' = server /\ OAuth!Open(what, url, OAuth!AllowLoopback, answer, code)
    BY <2>3 DEF OAuth!Next, OAuth!vars, OAuth!List, OAuth!TimeOut, OAuth!Probe, OAuth!Resource,
           OAuth!NoResource, OAuth!Issuer, OAuth!Abort, OAuth!Register, OAuth!Registered,
           OAuth!Unanswered, OAuth!Wait, OAuth!Exchange
  <2>. QED BY <2>1, <2>2, <2>4
<1>. QED BY <1>1, <1>2

\* A request that goes out is the only new one.
LEMMA OneRequest ==
    ASSUME NEW what, NEW url, NEW loopback, NEW answer, NEW code, OAuth!Open(what, url, loopback, answer, code)
    PROVE  /\ \A r \in requested' \ requested : r.what = what /\ r.url = url /\ r.code = code
           /\ \E r \in requested' : r.what = what /\ r.url = url
<1>. DEFINE new == [what |-> what, url |-> url, address |-> OAuth!Dialled(url, answer), code |-> code]
<1>1. requested' = requested \cup {new}
  BY DEF OAuth!Open
<1>2. new.what = what /\ new.url = url /\ new.code = code
  OBVIOUS
<1>. QED BY <1>1, <1>2

LEMMA SameIssuer ==
    ASSUME UNCHANGED <<server, hint, found>>
    PROVE  OAuth!ExpectedIssuer' = OAuth!ExpectedIssuer
                 /\ \A m : m = meta' => (OAuth!Trusted(meta)' <=> OAuth!Trusted(m))
BY DEF OAuth!ExpectedIssuer, OAuth!Trusted, OAuth!AllowLoopback, OAuth!ValidEndpoint, OAuth!Local

LEMMA LoginKeepsInv ==
    ASSUME LoginInv, (OAuth!Next \/ UNCHANGED OAuth!vars)
    PROVE  LoginInv'
<1>1. CASE UNCHANGED OAuth!vars
  BY <1>1, SameIssuer DEF LoginInv, OAuth!vars, OAuth!Valid, OAuth!Unheard
<1>2. CASE step' \notin {"register", "wait", "exchange"}
  BY <1>2 DEF LoginInv
<1>3. CASE \E m \in OAuth!Metadata : OAuth!Issuer(m)
  <2>1. PICK m \in OAuth!Metadata : OAuth!Issuer(m)
    BY <1>3
  <2>2. CASE OAuth!Trusted(m)
    <3>0. meta' = m /\ step' = "register" /\ UNCHANGED <<server, hint, found>>
      BY <2>1, <2>2 DEF OAuth!Issuer
    <3>1. OAuth!Trusted(meta)' /\ OAuth!ExpectedIssuer' = OAuth!ExpectedIssuer
      BY <2>2, <3>0 DEF OAuth!ExpectedIssuer, OAuth!Trusted, OAuth!AllowLoopback,
             OAuth!ValidEndpoint, OAuth!Local
    <3>2. \E q \in requested' : q.what = "issuer" /\ q.url = OAuth!ExpectedIssuer
      <4>1. PICK answer \in OAuth!Answers : OAuth!Open("issuer", OAuth!ExpectedIssuer, OAuth!AllowLoopback, answer, None)
        BY <2>1 DEF OAuth!Issuer
      <4>. QED BY <4>1, OneRequest
    <3>. QED BY <3>0, <3>1, <3>2 DEF LoginInv
  <2>3. CASE ~OAuth!Trusted(m)
    BY <2>1, <2>3 DEF OAuth!Issuer, OAuth!Fails, LoginInv
  <2>. QED BY <2>2, <2>3
<1>4. CASE \E known \in BOOLEAN : OAuth!Register(known)
  <2>1. requested \subseteq requested'
    BY <1>4 DEF OAuth!Register, OAuth!Registered, OAuth!Open
  <2>. QED BY <1>4, <2>1, SameIssuer DEF OAuth!Register, LoginInv
<1>5. CASE \/ \E code \in Codes \cup {None}, state \in {"own", "other"}, iss \in OAuth!Optional,
                 error \in {None, "denied"} : OAuth!Callback(code, state, iss, error)
           \/ \E wrong \in BOOLEAN : OAuth!Unanswered(wrong)
  <2>1. UNCHANGED <<server, step, hint, found, meta, shown, requested>>
        /\ OAuth!Unheard
    BY <1>5 DEF OAuth!Callback, OAuth!Unanswered
  <2>. QED BY <2>1, SameIssuer DEF LoginInv
<1>6. CASE OAuth!Wait
  <2>1. UNCHANGED <<server, hint, found, meta, shown, callback, requested>> /\ step = "wait"
    BY <1>6 DEF OAuth!Wait
  <2>2. (OAuth!Trusted(meta)' <=> OAuth!Trusted(meta)) /\ OAuth!ExpectedIssuer' = OAuth!ExpectedIssuer
    BY <2>1 DEF OAuth!ExpectedIssuer, OAuth!Trusted, OAuth!AllowLoopback, OAuth!ValidEndpoint,
           OAuth!Local
  <2>3. (OAuth!Valid' <=> OAuth!Valid) /\ (OAuth!Unheard' <=> OAuth!Unheard)
    BY <2>1 DEF OAuth!Valid, OAuth!Unheard
  <2>4. step' = "failed" \/ (step' = "exchange" /\ ~OAuth!Unheard /\ OAuth!Valid)
    BY <1>6 DEF OAuth!Wait, OAuth!Fails
  <2>. QED BY <2>1, <2>2, <2>3, <2>4 DEF LoginInv
<1>7. CASE \/ \E status \in {200, 401, 500} : OAuth!List(status)
           \/ OAuth!TimeOut \/ OAuth!NoResource \/ OAuth!Abort \/ OAuth!Exchange
  <2>1. step' \in {"failed", "listed", "probe", "issuer", "list"}
    BY <1>7 DEF OAuth!List, OAuth!TimeOut, OAuth!NoResource, OAuth!Abort, OAuth!Exchange, OAuth!Fails
  <2>. QED BY <1>2, <2>1
<1>8. CASE \E status \in {200, 401, 403}, bearer \in BOOLEAN, metadata, legacy \in OAuth!Optional :
              OAuth!Probe(status, bearer, metadata, legacy)
  BY <1>2, <1>8 DEF OAuth!Probe, OAuth!Fails
<1>9. CASE \E i \in 1 .. 2, resource \in {"this", "other"}, as \in OAuth!Optional :
                 OAuth!Resource(i, resource, as)
  BY <1>2, <1>9 DEF OAuth!Resource, OAuth!Fails
<1>. QED BY <1>1, <1>3, <1>4, <1>5, <1>6, <1>7, <1>8, <1>9 DEF OAuth!Next

LEMMA CodeStep ==
    ASSUME LoginInv, (OAuth!Next \/ UNCHANGED OAuth!vars)
    PROVE  OAuth!CodeGoesToItsIssuer
<1>1. CASE OAuth!Exchange
  <2>1. \A r \in requested' \ requested : r.url = meta.token /\ r.code = callback.code
    BY <1>1, OneRequest DEF OAuth!Exchange
  <2>2. shown /\ OAuth!Trusted(meta) /\ OAuth!Valid /\ \E q \in requested : q.what = "issuer"
              /\ q.url = OAuth!ExpectedIssuer
    BY <1>1 DEF OAuth!Exchange, LoginInv
  <2>. QED BY <2>1, <2>2 DEF OAuth!CodeGoesToItsIssuer, OAuth!Trusted, OAuth!Valid
<1>2. CASE \E what \in {"probe", "resource", "issuer", "register"}, answer \in OAuth!Answers : \E url, code :
                OAuth!Open(what, url, OAuth!AllowLoopback, answer, code)
  BY <1>2, OneRequest DEF OAuth!CodeGoesToItsIssuer
<1>3. CASE UNCHANGED requested
  BY <1>3 DEF OAuth!CodeGoesToItsIssuer
<1>4. CASE \E m \in OAuth!Metadata : OAuth!Issuer(m)
  BY <1>2, <1>4 DEF OAuth!Issuer
<1>5. CASE \E known \in BOOLEAN : OAuth!Register(known)
  BY <1>2, <1>3, <1>5 DEF OAuth!Register, OAuth!Registered
<1>6. CASE \E status \in {200, 401, 403}, bearer \in BOOLEAN, metadata, legacy \in OAuth!Optional :
              OAuth!Probe(status, bearer, metadata, legacy)
  BY <1>2, <1>6 DEF OAuth!Probe
<1>7. CASE \E i \in 1 .. 2, resource \in {"this", "other"}, as \in OAuth!Optional :
                 OAuth!Resource(i, resource, as)
  BY <1>2, <1>7 DEF OAuth!Resource
<1>8. CASE \/ \E status \in {200, 401, 500} : OAuth!List(status)
           \/ OAuth!TimeOut \/ OAuth!NoResource \/ OAuth!Abort \/ OAuth!Wait \/ UNCHANGED OAuth!vars
           \/ \E code \in Codes \cup {None}, state \in {"own", "other"}, iss \in OAuth!Optional,
                 error \in {None, "denied"} : OAuth!Callback(code, state, iss, error)
           \/ \E wrong \in BOOLEAN : OAuth!Unanswered(wrong)
  BY <1>3, <1>8 DEF OAuth!List, OAuth!TimeOut, OAuth!NoResource, OAuth!Abort, OAuth!Wait,
         OAuth!Callback, OAuth!Unanswered, OAuth!vars
<1>. QED BY <1>1, <1>4, <1>5, <1>6, <1>7, <1>8 DEF OAuth!Next

(***************************************************************************)
(* The dashboard: its table, and who decides.                              *)
(***************************************************************************)
BoardRequests ==
    Board!Logins \cup [what : {"decide", "logout"}, bearer : BOOLEAN, page : {"own", None}, name : Board!LoginNames]
Approvers == Identities \cup {"dashboard-approver", "bearer-api", None}
TableEntries == [identity : Approvers, born : Nat, active : Nat]
Visits ==
    [request : BoardRequests, session : {None} \cup [identity : Approvers, source :
          {"bearer", "missing", "proxy", "session"}],
     timely : BOOLEAN]

BoardTypes ==
    /\ now \in Nat /\ ids \in Nat
    /\ sessions \in [Board!SessionIds -> TableEntries \cup {None}]
    /\ cookie \in [Browsers -> Board!SessionIds \cup {None}]
    /\ inside \in [Browsers -> Visits \cup {None}]

\* A decision on its way has the token, or a session that was in its limits, in the name
\* that the proxy gave.
SessionFits(v) ==
    v.request.what = "decide" =>
        /\ v.request.bearer <=> v.session.source = "bearer"
        /\ v.request.bearer => v.session.identity = "bearer-api"
        /\ ~v.request.bearer => v.timely
        /\ ~v.request.bearer /\ proxied /\ v.session.source # "missing" =>
              v.session.identity = v.request.name /\ v.request.name # None
VisitsFit == \A c \in Browsers : inside[c] # None => SessionFits(inside[c])

\* A login on its way counts for the session it may make.
LoggingIn == {c \in Browsers : inside[c] # None /\ inside[c].request.what = "login"}
TableBound == Cardinality(Board!Live) + Cardinality(LoggingIn) <= MaxEntries + Cardinality(Browsers)

BoardInv == BoardTypes /\ VisitsFit /\ TableBound

LEMMA FiniteParts ==
    ASSUME BoardTypes
    PROVE  /\ IsFiniteSet(Board!Live) /\ IsFiniteSet(LoggingIn) /\ IsFiniteSet(Browsers)
           /\ Cardinality(Browsers) \in Nat /\ Cardinality(Board!Live) \in Nat /\ Cardinality(LoggingIn) \in Nat
<1>1. IsFiniteSet(Board!SessionIds) /\ Board!Live \subseteq Board!SessionIds
  BY BoardAssumption, FS_Interval DEF Board!SessionIds, Board!Live
<1>2. IsFiniteSet(Board!Live) /\ IsFiniteSet(LoggingIn)
  BY <1>1, BoardAssumption, FS_Subset DEF LoggingIn
<1>. QED BY <1>2, BoardAssumption, FS_CardinalityType

\* prune_sessions keeps no more than MaxEntries sessions: of two, one is later and has fewer
\* that are later still.
LEMMA KeptIsBounded ==
    ASSUME BoardTypes
    PROVE  IsFiniteSet(Board!Kept) /\ Cardinality(Board!Kept) <= MaxEntries
<1>. DEFINE After(s) == {u \in Board!Fresh : Board!Later(u, s)}
            rank == [s \in Board!Kept |-> Cardinality(After(s))]
<1>1. IsFiniteSet(Board!Fresh) /\ IsFiniteSet(Board!Kept) /\ Board!Kept \subseteq Board!Fresh
            /\ Board!Fresh \subseteq Board!Live
  <2>1. Board!Kept \subseteq Board!Fresh /\ Board!Fresh \subseteq Board!Live
    BY DEF Board!Kept, Board!Fresh
  <2>. QED BY <2>1, FiniteParts, FS_Subset
<1>2. \A s \in Board!Fresh : IsFiniteSet(After(s)) /\ Cardinality(After(s)) \in Nat
  <2>1. \A s : After(s) \subseteq Board!Fresh
    OBVIOUS
  <2>. QED BY <1>1, <2>1, FS_Subset, FS_CardinalityType
<1>3. \A s \in Board!Kept : Cardinality(After(s)) < MaxEntries
  BY SameSizes DEF Board!Kept
<1>4. \A s \in Board!Fresh : s \in Int /\ sessions[s].active \in Int
  BY <1>1 DEF Board!Live, Board!SessionIds, BoardTypes, TableEntries
<1>5. \A s, u \in Board!Fresh : s # u => Board!Later(s, u) \/ Board!Later(u, s)
  BY <1>4 DEF Board!Later
<1>6. ASSUME NEW s \in Board!Fresh, NEW u \in Board!Fresh, Board!Later(s, u)
      PROVE  Cardinality(After(s)) # Cardinality(After(u))
  <2>1. \A w \in Board!Fresh : Board!Later(w, s) => Board!Later(w, u)
    BY <1>4, <1>6 DEF Board!Later
  <2>2. ~Board!Later(s, s)
    BY <1>4 DEF Board!Later
  <2>3. After(s) \subseteq After(u) /\ s \in After(u) /\ s \notin After(s)
    BY <1>6, <2>1, <2>2
  <2>. HIDE DEF After
  <2>. QED BY <1>2, <2>3, FS_Subset
<1>7. \A s, u \in Board!Kept : s # u => rank[s] # rank[u]
  <2>. SUFFICES ASSUME NEW s \in Board!Kept, NEW u \in Board!Kept, s # u
                             PROVE Cardinality(After(s)) # Cardinality(After(u))
    OBVIOUS
  <2>. HIDE DEF After
  <2>. QED BY <1>1, <1>5, <1>6
<1>8. rank \in [Board!Kept -> 0 .. MaxEntries - 1]
  <2>. HIDE DEF After
  <2>. QED BY <1>1, <1>2, <1>3, BoardAssumption
<1>9. IsFiniteSet(0 .. MaxEntries - 1) /\ Cardinality(0 .. MaxEntries - 1) = MaxEntries
  BY BoardAssumption, FS_Interval
<1>. HIDE DEF rank
<1>10. ~(MaxEntries < Cardinality(Board!Kept))
  BY <1>1, <1>7, <1>8, <1>9, FS_PigeonHole
<1>11. Cardinality(Board!Kept) \in Nat
  BY <1>1, FS_CardinalityType
<1>. QED BY <1>1, <1>10, <1>11, BoardAssumption

LEMMA CardinalityOfOneMore ==
    ASSUME NEW S, IsFiniteSet(S), NEW x
    PROVE  /\ IsFiniteSet(S \cup {x}) /\ Cardinality(S \cup {x}) <= Cardinality(S) + 1
           /\ Cardinality(S \cup {x}) \in Nat
<1>1. IsFiniteSet(S \cup {x}) /\ Cardinality(S) \in Nat
  BY FS_AddElement, FS_CardinalityType
<1>2. CASE x \in S
  BY <1>1, <1>2, FS_AddElement, FS_CardinalityType
<1>3. CASE x \notin S
  BY <1>1, <1>3, FS_AddElement, FS_CardinalityType
<1>. QED BY <1>2, <1>3

LEMMA BoardInit == Board!Init => BoardInv
<1>. SUFFICES ASSUME Board!Init PROVE BoardInv
  OBVIOUS
<1>1. BoardTypes
  BY DEF Board!Init, BoardTypes
<1>2. VisitsFit
  BY DEF Board!Init, VisitsFit
<1>3. Board!Live = {} /\ LoggingIn = {}
  BY DEF Board!Init, Board!Live, LoggingIn
<1>. QED BY <1>1, <1>2, <1>3, FS_EmptySet, FiniteParts, BoardAssumption DEF BoardInv, TableBound

\* The table has no more than before, and no more logins are on their way.
LEMMA TableKeeps ==
    ASSUME BoardTypes, TableBound, Board!Live' \subseteq Board!Live, LoggingIn' \subseteq LoggingIn
    PROVE  TableBound'
<1>1. Cardinality(Board!Live') <= Cardinality(Board!Live) /\ Cardinality(LoggingIn') <= Cardinality(LoggingIn)
      /\ Cardinality(Board!Live') \in Nat /\ Cardinality(LoggingIn') \in Nat
  BY FiniteParts, FS_Subset, FS_CardinalityType
<1>. QED BY <1>1, FiniteParts, BoardAssumption DEF TableBound

LEMMA ClockStep == ASSUME BoardInv, Board!Tick PROVE BoardInv'
<1>. USE DEF BoardInv
<1>1. BoardTypes'
  BY DEF Board!Tick, BoardTypes
<1>2. VisitsFit'
  BY DEF Board!Tick, VisitsFit, SessionFits
<1>3. TableBound'
  BY TableKeeps DEF Board!Tick, Board!Live, LoggingIn
<1>. QED BY <1>1, <1>2, <1>3

\* A request that is answered leaves the others as they were.
LEMMA AnsweredKeeps ==
    ASSUME NEW c \in Browsers, Board!Answered(c), BoardTypes
    PROVE  /\ inside' \in [Browsers -> Visits \cup {None}] /\ inside'[c] = None
           /\ \A d \in Browsers : d # c => inside'[d] = inside[d]
BY DEF Board!Answered, BoardTypes

LEMMA DecisionStep ==
    ASSUME NEW c \in Browsers, Board!Decide(c), BoardInv
    PROVE  BoardInv' /\ (decided' # decided => Board!DecidedBy(c))
<1>. USE DEF BoardInv
<1>1. BoardTypes' /\ VisitsFit'
  BY AnsweredKeeps DEF Board!Decide, BoardTypes, VisitsFit, SessionFits
<1>2. TableBound'
  BY TableKeeps, AnsweredKeeps DEF Board!Decide, Board!Live, LoggingIn
<1>3. decided' # decided => Board!DecidedBy(c)
  BY DEF Board!Decide, Board!Handles, VisitsFit, SessionFits, Board!PageFits, Board!DecidedBy
<1>. QED BY <1>1, <1>2, <1>3

LEMMA SessionEndStep ==
    ASSUME NEW c \in Browsers, Board!Logout(c), BoardInv
    PROVE  BoardInv'
<1>. USE DEF BoardInv
<1>1. BoardTypes' /\ VisitsFit'
  BY AnsweredKeeps DEF Board!Logout, BoardTypes, VisitsFit, SessionFits
<1>2. TableBound'
  BY TableKeeps, AnsweredKeeps DEF Board!Logout, Board!Live, LoggingIn
<1>. QED BY <1>1, <1>2

LEMMA RequestStep ==
    ASSUME NEW c \in Browsers, NEW r \in Board!Logins \cup Board!Orders,
                 NEW own \in BOOLEAN, Board!Arrive(c, r, own), BoardInv
    PROVE  BoardInv'
<1>. USE DEF BoardInv
<1>. DEFINE who == IF r.what = "login" THEN None ELSE Board!Session(c, r)
            same  == r.what # "login" /\ cookie[c] \in Board!Kept
            visit == [request |-> r, session |-> who,
                      timely |-> same /\ r.what = "decide" => Board!InTime(cookie[c])]
<1>1. /\ inside[c] = None
      /\ sessions' = [s \in Board!SessionIds |-> IF s \notin Board!Kept THEN None
                        ELSE IF same /\ s = cookie[c] THEN [sessions[s] EXCEPT !.active = now] ELSE sessions[s]]
      /\ \/ inside' = inside
         \/ (r.what = "login" \/ who # None) /\ inside' = [inside EXCEPT ![c] = visit]
      /\ UNCHANGED <<now, proxied, cookie, ids, decided>>
  BY DEF Board!Arrive
<1>2. Board!Kept \subseteq Board!Live /\ \A s \in Board!Live : s \in Board!SessionIds
            /\ sessions[s] \in TableEntries
  BY DEF Board!Kept, Board!Fresh, Board!Live, BoardTypes
<1>3. sessions' \in [Board!SessionIds -> TableEntries \cup {None}] /\ Board!Live' \subseteq Board!Kept
  <2>1. \A s \in Board!Kept : [sessions[s] EXCEPT !.active = now] \in TableEntries
    BY <1>2 DEF TableEntries, BoardTypes
  <2>2. sessions' \in [Board!SessionIds -> TableEntries \cup {None}]
    BY <1>1, <1>2, <2>1
  <2>. QED BY <1>1, <2>2 DEF Board!Live
<1>4. r \in BoardRequests
  <2>1. {None} \subseteq Board!LoginNames /\ (IF proxied THEN Board!LoginNames ELSE {None}) \subseteq Board!LoginNames
    BY DEF Board!LoginNames
  <2>. HIDE DEF Board!LoginNames
  <2>. QED BY <2>1 DEF BoardRequests, Board!Orders
<1>5. r.what # "login" => /\ r.bearer => who = [identity |-> "bearer-api", source |-> "bearer"]
                          /\ ~r.bearer /\ who # None =>
                                /\ cookie[c] \in Board!Kept
                                /\ IF proxied THEN who = [identity |-> r.name, source |-> IF r.name = None
                                         THEN "missing" ELSE "proxy"]
                                              ELSE who = [identity |-> sessions[cookie[c]].identity, source |-> "session"]
  BY DEF Board!Session
<1>6. who # None => who \in [identity : Approvers, source : {"bearer", "missing", "proxy", "session"}]
  <2>1. r.name \in Board!LoginNames
    BY DEF Board!Logins, Board!Orders, Board!LoginNames
  <2>2. cookie[c] \in Board!Kept => sessions[cookie[c]].identity \in Approvers
    BY <1>2 DEF TableEntries
  <2>. QED BY <1>5, <2>1, <2>2 DEF Approvers, Board!LoginNames
<1>7. cookie[c] \in Board!Kept => Board!InTime(cookie[c])
  BY <1>2, BoardAssumption DEF Board!Kept, Board!Fresh, Board!Expired, Board!InTime, TableEntries,
         BoardTypes
<1>8. visit \in Visits /\ (r.what = "login" \/ who # None => SessionFits(visit))
  <2>1. visit.timely \in BOOLEAN
    BY DEF Board!InTime
  <2>2. visit \in Visits
    BY <1>4, <1>6, <2>1 DEF Visits
  <2>3. visit.request = r /\ visit.session = who /\ (visit.timely <=> (same
              /\ r.what = "decide" => Board!InTime(cookie[c])))
    OBVIOUS
  <2>5. same => Board!InTime(cookie[c])
    BY <1>7
  <2>. HIDE DEF visit, who, same
  <2>4. ASSUME r.what = "decide", who # None
        PROVE  /\ r.bearer <=> who.source = "bearer"
               /\ r.bearer => who.identity = "bearer-api"
               /\ ~r.bearer /\ proxied /\ who.source # "missing" => who.identity = r.name /\ r.name # None
    <3>1. CASE r.bearer
      <4>1. who.source = "bearer" /\ who.identity = "bearer-api"
        BY <1>5, <2>4, <3>1
      <4>. QED BY <3>1, <4>1
    <3>2. CASE ~r.bearer /\ proxied
      <4>1. who.identity = r.name /\ who.source = IF r.name = None THEN "missing" ELSE "proxy"
        BY <1>5, <2>4, <3>2
      <4>. QED BY <3>2, <4>1
    <3>3. CASE ~r.bearer /\ ~proxied
      <4>1. who.source = "session"
        BY <1>5, <2>4, <3>3
      <4>. QED BY <3>3, <4>1
    <3>. QED BY <3>1, <3>2, <3>3
  <2>. QED BY <2>2, <2>3, <2>4, <2>5 DEF SessionFits
<1>. HIDE DEF visit, who, same
<1>9. BoardTypes'
  BY <1>1, <1>3, <1>8 DEF BoardTypes
<1>10. VisitsFit'
  BY <1>1, <1>8 DEF VisitsFit, BoardTypes, SessionFits
<1>11. TableBound'
  <2>1. LoggingIn' \subseteq Browsers
    BY DEF LoggingIn
  <2>2. Cardinality(Board!Live') <= Cardinality(Board!Kept) /\ Cardinality(LoggingIn') <= Cardinality(Browsers)
        /\ Cardinality(Board!Live') \in Nat /\ Cardinality(LoggingIn') \in Nat
                 /\ Cardinality(Board!Kept) \in Nat
    BY <1>3, <2>1, KeptIsBounded, FS_Subset, FS_CardinalityType, BoardAssumption
  <2>. QED BY <2>2, KeptIsBounded, FiniteParts, BoardAssumption DEF TableBound
<1>. QED BY <1>9, <1>10, <1>11

LEMMA RefusalStep ==
    ASSUME NEW c \in Browsers, Board!LoginRefused(c), BoardInv
    PROVE  BoardInv'
<1>. USE DEF BoardInv
<1>1. BoardTypes' /\ VisitsFit'
  BY AnsweredKeeps DEF Board!LoginRefused, BoardTypes, VisitsFit, SessionFits
<1>2. TableBound'
  BY TableKeeps, AnsweredKeeps DEF Board!LoginRefused, Board!Live, LoggingIn
<1>. QED BY <1>1, <1>2

LEMMA SessionStep ==
    ASSUME NEW c \in Browsers, Board!Login(c), BoardInv
    PROVE  BoardInv'
<1>. USE DEF BoardInv
<1>. DEFINE named == inside[c].request.name
            entry == [identity |-> IF named = None
                  THEN "dashboard-approver" ELSE named, born |-> now, active |-> now]
            rest  == [s \in Board!SessionIds |-> IF s = cookie[c] THEN None ELSE sessions[s]]
<1>1. /\ inside[c] # None /\ inside[c].request.what = "login" /\ inside[c] \in Visits /\ ids < MaxIds
      /\ UNCHANGED <<now, proxied, decided>>
      /\ \/ sessions' = rest /\ UNCHANGED <<ids, cookie>>
         \/ /\ ids' = ids + 1 /\ cookie' = [cookie EXCEPT ![c] = ids + 1]
            /\ sessions' = [rest EXCEPT ![ids + 1] = entry]
  BY DEF Board!Login, Board!Handles, BoardTypes
<1>2. /\ inside' \in [Browsers -> Visits \cup {None}] /\ inside'[c] = None
      /\ \A d \in Browsers : d # c => inside'[d] = inside[d]
  BY AnsweredKeeps DEF Board!Login
<1>3. entry \in TableEntries
  <2>1. named \in Board!LoginNames
    BY <1>1 DEF Visits, BoardRequests, Board!Logins
  <2>. HIDE DEF named
  <2>. QED BY <2>1 DEF Board!LoginNames, TableEntries, Approvers, BoardTypes
<1>4. ids + 1 \in Board!SessionIds
  BY <1>1, BoardAssumption DEF Board!SessionIds, BoardTypes
<1>5. rest \in [Board!SessionIds -> TableEntries \cup {None}]
            /\ \A s \in Board!SessionIds : rest[s] # None => s \in Board!Live
  BY DEF BoardTypes, Board!Live
<1>. HIDE DEF rest, entry, named
<1>6. /\ sessions' \in [Board!SessionIds -> TableEntries \cup {None}]
               /\ Board!Live' \subseteq Board!Live \cup {ids + 1}
      /\ cookie' \in [Browsers -> Board!SessionIds \cup {None}] /\ ids' \in Nat
  <2>1. CASE sessions' = rest /\ UNCHANGED <<ids, cookie>>
    BY <1>5, <2>1 DEF Board!Live, BoardTypes
  <2>2. CASE /\ ids' = ids + 1 /\ cookie' = [cookie EXCEPT ![c] = ids + 1]
             /\ sessions' = [rest EXCEPT ![ids + 1] = entry]
    BY <1>3, <1>4, <1>5, <2>2 DEF Board!Live, BoardTypes
  <2>. QED BY <1>1, <2>1, <2>2
<1>7. BoardTypes'
  BY <1>1, <1>2, <1>6, FS_EmptySet DEF BoardTypes
<1>8. VisitsFit'
  BY <1>1, <1>2 DEF VisitsFit, SessionFits
<1>9. TableBound'
  <2>1. LoggingIn' \subseteq LoggingIn \ {c} /\ c \in LoggingIn
    BY <1>1, <1>2 DEF LoggingIn
  <2>2. /\ Cardinality(LoggingIn \ {c}) = Cardinality(LoggingIn) - 1 /\ IsFiniteSet(LoggingIn \ {c})
        /\ IsFiniteSet(Board!Live \cup {ids + 1})
                 /\ Cardinality(Board!Live \cup {ids + 1}) <= Cardinality(Board!Live) + 1
        /\ Cardinality(Board!Live \cup {ids + 1}) \in Nat
    BY <2>1, FiniteParts, FS_RemoveElement, CardinalityOfOneMore
  <2>3. /\ Cardinality(Board!Live') <= Cardinality(Board!Live \cup {ids + 1})
                 /\ Cardinality(Board!Live') \in Nat
        /\ Cardinality(LoggingIn') <= Cardinality(LoggingIn \ {c}) /\ Cardinality(LoggingIn') \in Nat
    BY <1>6, <2>1, <2>2, FS_Subset, FS_CardinalityType
  <2>. QED BY <2>2, <2>3, FiniteParts, BoardAssumption DEF TableBound
<1>. QED BY <1>7, <1>8, <1>9

LEMMA BoardRest == ASSUME BoardInv, UNCHANGED Board!vars PROVE BoardInv'
<1>. USE DEF BoardInv, Board!vars
<1>1. BoardTypes' /\ VisitsFit'
  BY DEF BoardTypes, VisitsFit, SessionFits
<1>2. TableBound'
  BY TableKeeps DEF Board!Live, LoggingIn
<1>. QED BY <1>1, <1>2

LEMMA BoardTable == BoardInv => Board!TableHolds
BY SameSizes, FiniteParts, BoardAssumption DEF BoardInv, TableBound, Board!TableHolds

LEMMA BoardStep ==
    ASSUME BoardInv, (Board!Next \/ UNCHANGED Board!vars)
    PROVE  BoardInv' /\ Board!GuardsDecision
<1>. SUFFICES BoardInv' /\ (decided' # decided => \E c \in Browsers : Board!DecidedBy(c))
  <2>1. ASSUME BoardInv' PROVE Board!TableHolds'
    BY <2>1, BoardTable, PTL
  <2>. QED BY <2>1 DEF Board!GuardsDecision
<1>1. ASSUME UNCHANGED Board!vars PROVE BoardInv' /\ decided' = decided
  BY <1>1, BoardRest DEF Board!vars
<1>2. ASSUME Board!Tick PROVE BoardInv' /\ decided' = decided
  BY <1>2, ClockStep DEF Board!Tick
<1>3. ASSUME NEW c \in Browsers, NEW r \in Board!Logins \cup Board!Orders,
                   NEW own \in BOOLEAN, Board!Arrive(c, r, own)
      PROVE  BoardInv' /\ decided' = decided
  BY <1>3, RequestStep DEF Board!Arrive
<1>4. ASSUME NEW c \in Browsers, Board!LoginRefused(c) PROVE BoardInv' /\ decided' = decided
  BY <1>4, RefusalStep DEF Board!LoginRefused
<1>5. ASSUME NEW c \in Browsers, Board!Login(c) PROVE BoardInv' /\ decided' = decided
  BY <1>5, SessionStep DEF Board!Login
<1>6. ASSUME NEW c \in Browsers, Board!Logout(c) PROVE BoardInv' /\ decided' = decided
  BY <1>6, SessionEndStep DEF Board!Logout
<1>7. ASSUME NEW c \in Browsers, Board!Decide(c) PROVE BoardInv' /\ (decided' # decided => Board!DecidedBy(c))
  BY <1>7, DecisionStep
<1>. QED BY <1>1, <1>2, <1>3, <1>4, <1>5, <1>6, <1>7 DEF Board!Next

(***************************************************************************)
(* The limiter of logins: what it counts however its calls interleave.     *)
(***************************************************************************)
Failures == [at : Nat, nr : Nat]

LimiterTypes ==
    /\ clock \in Nat
    /\ DOMAIN attempts \subseteq Limiter!Addresses
    /\ \A a \in Limiter!Addresses : Limiter!List(a) \subseteq Failures /\ IsFiniteSet(Limiter!List(a))
    /\ stage \in [Browsers -> {"idle", "check", "compare", "record"}]
    /\ calls \in [Browsers -> [clock : Nat, stale : SUBSET Limiter!Addresses,
                               history : {None} \cup SUBSET Failures]]
    /\ \A c \in Browsers : calls[c].history # None => IsFiniteSet(calls[c].history)
    /\ alone \in Browsers \cup {None}
    /\ lone \in [Limiter!Addresses -> SUBSET Failures]
    /\ \A a \in Limiter!Addresses : IsFiniteSet(lone[a])

\* The failures that are to be seen by every call there is.
InWindow(a) == Limiter!Recent(lone[a], clock)

\* In a list, none that comes later in the order is earlier by the clock.
Follows(list, a) == \A x \in lone[a], y \in list : y.nr >= x.nr => y.at >= x.at

\* They are in the lists, and in what calls have read; and no call takes them for stale.
ListsHaveThem ==
    \A a \in Limiter!Addresses :
        /\ InWindow(a) \subseteq Limiter!List(a) /\ Follows(Limiter!List(a), a)
        /\ \A x \in lone[a] : x.at <= clock
CallsHaveThem ==
    \A c \in Browsers : Limiter!Calling(c) =>
        /\ calls[c].clock <= clock
        /\ \A a \in Limiter!Addresses : \A x \in lone[a] : x.at <= calls[c].clock
        /\ \A a \in calls[c].stale : InWindow(a) = {}
        /\ calls[c].history # None => /\ InWindow(Address[c]) \subseteq calls[c].history
                                      /\ Follows(calls[c].history, Address[c])
NoOtherCalls == alone # None => \A d \in Browsers \ {alone} : ~Limiter!Calling(d)

Past(a)   == {c \in Browsers : Address[c] = a /\ stage[c] \in {"compare", "record"}}
Behind(a) == {c \in Browsers : Address[c] = a}

\* Who is past the check and not yet counted counts too.
CountHolds ==
    \A a \in Limiter!Addresses :
        Cardinality(InWindow(a)) + Cardinality(Past(a)) < MaxAttempts + Cardinality(Behind(a))

LimiterInv == LimiterTypes /\ ListsHaveThem /\ CallsHaveThem /\ NoOtherCalls /\ CountHolds

\* A finite set of numbers has a greatest: else each has a number of greater ones from 1 on,
\* and no two the same.
LEMMA Greatest ==
    ASSUME NEW S, IsFiniteSet(S), S \subseteq Nat, S # {}
    PROVE  \E n \in S : \A m \in S : m <= n
<1>. SUFFICES ASSUME \A n \in S : \E m \in S : ~(m <= n) PROVE FALSE
  OBVIOUS
<1>. DEFINE After(n) == {m \in S : ~(m <= n)}
            rank == [n \in S |-> Cardinality(After(n))]
<1>1. Cardinality(S) \in Nat
  BY FS_CardinalityType
<1>2. ASSUME NEW n \in S PROVE Cardinality(After(n)) \in 1 .. Cardinality(S) - 1 /\ IsFiniteSet(After(n))
  <2>1. IsFiniteSet(S \ {n}) /\ Cardinality(S \ {n}) = Cardinality(S) - 1
    BY FS_RemoveElement
  <2>2. After(n) \subseteq S \ {n} /\ After(n) # {}
    OBVIOUS
  <2>. HIDE DEF After
  <2>3. IsFiniteSet(After(n)) /\ Cardinality(After(n)) <= Cardinality(S \ {n}) /\ Cardinality(After(n)) \in Nat
    BY <2>1, <2>2, FS_Subset, FS_CardinalityType
  <2>4. Cardinality(After(n)) # 0
    BY <2>2, <2>3, FS_EmptySet
  <2>. QED BY <1>1, <2>1, <2>3, <2>4
<1>3. ASSUME NEW n \in S, NEW m \in S, ~(m <= n) PROVE Cardinality(After(m)) # Cardinality(After(n))
  <2>1. n \in Nat /\ m \in Nat /\ \A k \in S : k \in Nat /\ (~(k <= m) => ~(k <= n))
    BY <1>3
  <2>2. After(m) \subseteq After(n)
    BY <2>1
  <2>3. m \in After(n)
    BY <1>3
  <2>4. m \notin After(m)
    BY <2>1
  <2>. HIDE DEF After
  <2>. QED BY <1>2, <2>2, <2>3, <2>4, FS_Subset
<1>4. \A n, m \in S : n # m => rank[n] # rank[m]
  <2>. SUFFICES ASSUME NEW n \in S, NEW m \in S, n # m PROVE Cardinality(After(n)) # Cardinality(After(m))
    OBVIOUS
  <2>1. ~(m <= n) \/ ~(n <= m)
    OBVIOUS
  <2>. HIDE DEF After
  <2>. QED BY <1>3, <2>1
<1>. HIDE DEF After
<1>5. rank \in [S -> 1 .. Cardinality(S) - 1]
  BY <1>2
<1>. HIDE DEF rank
<1>6. IsFiniteSet(1 .. Cardinality(S) - 1) /\ Cardinality(1 .. Cardinality(S) - 1) < Cardinality(S)
  <2>1. Cardinality(S) # 0
    BY FS_EmptySet
  <2>2. /\ IsFiniteSet(1 .. Cardinality(S) - 1)
        /\ Cardinality(1 .. Cardinality(S) - 1) =
              IF 1 > Cardinality(S) - 1 THEN 0 ELSE (Cardinality(S) - 1) - 1 + 1
    BY <1>1, FS_Interval
  <2>. QED BY <1>1, <2>1, <2>2
<1>7. \E n, m \in S : n # m /\ rank[n] = rank[m]
  BY <1>5, <1>6, FS_PigeonHole
<1>. QED BY <1>4, <1>7

\* The last of a list.
LEMMA LastOfList ==
    ASSUME NEW list, list \subseteq Failures, IsFiniteSet(list)
    PROVE  /\ Limiter!Last(list) \in Nat /\ \A x \in list : x.nr <= Limiter!Last(list)
           /\ list # {} => \E x \in list : x.nr = Limiter!Last(list)
<1>. DEFINE S == {0} \cup {x.nr : x \in list}
<1>1. IsFiniteSet({x.nr : x \in list})
  <2>. DEFINE T == {x.nr : x \in list}
              f == [x \in list |-> x.nr]
  <2>1. f \in [list -> T] /\ \A t \in T : \E x \in list : f[x] = t
    OBVIOUS
  <2>. HIDE DEF T, f
  <2>2. f \in Surjection(list, T)
    BY <2>1 DEF Surjection
  <2>3. IsFiniteSet(T)
    BY <2>2, FS_Surjection
  <2>. QED BY <2>3 DEF T
<1>2. IsFiniteSet(S) /\ S \subseteq Nat /\ S # {}
  <2>1. IsFiniteSet({0})
    BY FS_Singleton
  <2>2. S \subseteq Nat
    BY DEF Failures
  <2>3. 0 \in S
    OBVIOUS
  <2>4. IsFiniteSet(S)
    BY <1>1, <2>1, FS_Union
  <2>. QED BY <2>2, <2>3, <2>4
<1>3. \E n \in S : \A x \in list : x.nr <= n
  <2>. HIDE DEF S
  <2>1. PICK n \in S : \A m \in S : m <= n
    BY <1>2, Greatest
  <2>. QED BY <2>1 DEF S
<1>4. Limiter!Last(list) \in S /\ \A x \in list : x.nr <= Limiter!Last(list)
  BY <1>3 DEF Limiter!Last
<1>. QED BY <1>2, <1>4 DEF Failures

LEMMA CountTypes ==
    ASSUME LimiterTypes
    PROVE  /\ IsFiniteSet(Browsers) /\ MaxAttempts \in Nat /\ Window \in Nat
           /\ \A a \in Limiter!Addresses :
                 /\ IsFiniteSet(InWindow(a)) /\ IsFiniteSet(Past(a)) /\ IsFiniteSet(Behind(a))
                 /\ Cardinality(InWindow(a)) \in Nat /\ Cardinality(Past(a)) \in Nat
                 /\ Cardinality(Behind(a)) \in Nat /\ Past(a) \subseteq Behind(a) /\ InWindow(a) \subseteq lone[a]
<1>1. ASSUME NEW a \in Limiter!Addresses
      PROVE  IsFiniteSet(InWindow(a)) /\ IsFiniteSet(Past(a)) /\ IsFiniteSet(Behind(a))
             /\ Past(a) \subseteq Behind(a) /\ InWindow(a) \subseteq lone[a]
  <2>1. InWindow(a) \subseteq lone[a] /\ Past(a) \subseteq Browsers /\ Behind(a) \subseteq Browsers
        /\ Past(a) \subseteq Behind(a)
    BY DEF InWindow, Limiter!Recent, Past, Behind
  <2>. QED BY <2>1, BoardAssumption, FS_Subset DEF LimiterTypes
<1>. QED BY <1>1, BoardAssumption, FS_CardinalityType

\* No more is counted than before when nothing is recorded and nobody gets past the check.
LEMMA CountKeeps ==
    ASSUME LimiterTypes, LimiterTypes', CountHolds,
           \A a \in Limiter!Addresses : InWindow(a)' \subseteq InWindow(a) /\ Past(a)' \subseteq Past(a)
    PROVE  CountHolds'
<1>. SUFFICES ASSUME NEW a \in Limiter!Addresses
              PROVE  Cardinality(InWindow(a)') + Cardinality(Past(a)') < MaxAttempts + Cardinality(Behind(a))
  BY DEF CountHolds, Limiter!Addresses, Behind
<1>1. /\ Cardinality(InWindow(a)') <= Cardinality(InWindow(a)) /\ Cardinality(InWindow(a)') \in Nat
      /\ Cardinality(Past(a)') <= Cardinality(Past(a)) /\ Cardinality(Past(a)') \in Nat
  BY CountTypes, FS_Subset, FS_CardinalityType
<1>. QED BY <1>1, CountTypes DEF CountHolds

LEMMA LimiterInit == Limiter!Init => LimiterInv
<1>. SUFFICES ASSUME Limiter!Init PROVE LimiterInv
  OBVIOUS
<1>1. LimiterTypes
  BY FS_EmptySet DEF Limiter!Init, LimiterTypes, Limiter!NoCall, Limiter!List
<1>2. ListsHaveThem /\ CallsHaveThem /\ NoOtherCalls
  BY DEF Limiter!Init, ListsHaveThem, CallsHaveThem, NoOtherCalls, InWindow, Limiter!Recent, Follows, Limiter!Calling
<1>3. ASSUME NEW a \in Limiter!Addresses
      PROVE  Cardinality(InWindow(a)) + Cardinality(Past(a)) < MaxAttempts + Cardinality(Behind(a))
  <2>1. InWindow(a) = {} /\ Past(a) = {} /\ Behind(a) # {}
    BY DEF Limiter!Init, InWindow, Limiter!Recent, Past, Behind, Limiter!Addresses
  <2>2. Cardinality(Behind(a)) \in Nat \ {0}
    BY <1>1, <2>1, CountTypes, FS_EmptySet
  <2>. QED BY <1>1, <2>1, <2>2, CountTypes, FS_EmptySet
<1>. QED BY <1>1, <1>2, <1>3 DEF LimiterInv, CountHolds

LEMMA LimiterClockStep == ASSUME LimiterInv, Limiter!Tick PROVE LimiterInv'
<1>. USE DEF LimiterInv, Limiter!Tick
<1>1. LimiterTypes'
  BY DEF LimiterTypes, Limiter!List
<1>2. \A a \in Limiter!Addresses : InWindow(a)' \subseteq InWindow(a)
  BY BoardAssumption DEF InWindow, Limiter!Recent, LimiterTypes, Failures
<1>3. ListsHaveThem'
  BY <1>2 DEF ListsHaveThem, Limiter!List, Follows, LimiterTypes, Failures
<1>4. CallsHaveThem'
  <2>1. \A c \in Browsers : Limiter!Calling(c)' = Limiter!Calling(c) /\ Address[c] \in Limiter!Addresses
    BY DEF Limiter!Calling, Limiter!Addresses
  <2>. QED BY <1>2, <2>1 DEF CallsHaveThem, Follows, LimiterTypes
<1>5. NoOtherCalls'
  BY DEF NoOtherCalls, Limiter!Calling
<1>6. CountHolds'
  BY <1>1, <1>2, CountKeeps DEF Past
<1>. QED BY <1>1, <1>3, <1>4, <1>5, <1>6

\* A list whose last failure is out of the window has none in it.
LEMMA StaleIsOver ==
    ASSUME LimiterTypes, ListsHaveThem, NEW a \in Limiter!Stale(clock)
    PROVE  InWindow(a) = {}
<1>. SUFFICES ASSUME NEW x \in InWindow(a) PROVE FALSE
  OBVIOUS
<1>1. a \in Limiter!Addresses /\ Limiter!List(a) = attempts[a]
  BY DEF LimiterTypes, Limiter!Stale, Limiter!List
<1>2. x \in attempts[a] /\ attempts[a] \subseteq Failures /\ IsFiniteSet(attempts[a]) /\ x \in lone[a]
      /\ clock - x.at < Window
  BY <1>1 DEF ListsHaveThem, LimiterTypes, InWindow, Limiter!Recent
<1>3. PICK y \in attempts[a] : y.nr = Limiter!Last(attempts[a]) /\ x.nr <= y.nr
  BY <1>2, LastOfList
<1>4. y.at >= x.at
  BY <1>1, <1>2, <1>3 DEF ListsHaveThem, Follows, Failures
<1>5. clock - y.at >= Window
  BY <1>3 DEF Limiter!Stale
<1>. QED BY <1>2, <1>3, <1>4, <1>5, BoardAssumption DEF LimiterTypes, Failures

LEMMA CallStep ==
    ASSUME NEW c \in Browsers, Limiter!Login(c) \/ Limiter!Fails(c), LimiterInv
    PROVE  LimiterInv'
<1>. USE DEF LimiterInv
<1>1. PICK goal \in {"check", "record"} : Limiter!Enters(c, goal) /\ ~Limiter!Calling(c)
                                          /\ (goal = "record" => stage[c] = "compare")
  BY DEF Limiter!Login, Limiter!Fails, Limiter!Calling
<1>2. /\ stage' = [stage EXCEPT ![c] = goal]
      /\ calls' = [calls EXCEPT ![c] = [clock |-> clock, stale |-> Limiter!Stale(clock), history |-> None]]
      /\ alone' = IF \E d \in Browsers : Limiter!Calling(d) THEN None ELSE c
      /\ UNCHANGED <<clock, attempts, lone>>
  BY <1>1 DEF Limiter!Enters
<1>3. LimiterTypes'
  <2>1. Limiter!Stale(clock) \subseteq Limiter!Addresses
    BY DEF LimiterTypes, Limiter!Stale
  <2>. QED BY <1>2, <2>1 DEF LimiterTypes, Limiter!List
<1>4. \A a \in Limiter!Addresses : InWindow(a)' = InWindow(a) /\ Limiter!List(a)' = Limiter!List(a)
  BY <1>2 DEF InWindow, Limiter!List
<1>5. ListsHaveThem'
  BY <1>2, <1>4 DEF ListsHaveThem, Follows
<1>6. CallsHaveThem'
  <2>1. \A d \in Browsers \ {c} : Limiter!Calling(d)' = Limiter!Calling(d) /\ calls'[d] = calls[d]
    BY <1>2 DEF Limiter!Calling, LimiterTypes
  <2>2. calls'[c] = [clock |-> clock, stale |-> Limiter!Stale(clock), history |-> None]
    BY <1>2 DEF LimiterTypes
  <2>3. \A d \in Browsers : Address[d] \in Limiter!Addresses
    BY DEF Limiter!Addresses
  <2>4. \A a \in Limiter!Stale(clock) : a \in Limiter!Addresses /\ InWindow(a) = {}
    BY StaleIsOver DEF LimiterTypes, Limiter!Stale
  <2>5. clock \in Nat /\ \A d \in Browsers : calls[d].stale \subseteq Limiter!Addresses
    BY DEF LimiterTypes
  <2>. QED BY <1>2, <1>4, <2>1, <2>2, <2>3, <2>4, <2>5 DEF CallsHaveThem, ListsHaveThem, Follows
<1>7. NoOtherCalls'
  BY <1>1, <1>2 DEF NoOtherCalls, Limiter!Calling, LimiterTypes
<1>8. CountHolds'
  <2>1. \A a \in Limiter!Addresses : Past(a)' \subseteq Past(a)
    BY <1>1, <1>2 DEF Past, LimiterTypes
  <2>. QED BY <1>3, <1>4, <2>1, CountKeeps
<1>. QED BY <1>3, <1>5, <1>6, <1>7, <1>8

LEMMA DropStep ==
    ASSUME NEW c \in Browsers, NEW b \in Limiter!Addresses, Limiter!DropStale(c, b), LimiterInv
    PROVE  LimiterInv'
<1>. USE DEF LimiterInv
<1>1. /\ Limiter!Calling(c) /\ b \in calls[c].stale
      /\ attempts' = Limiter!Without(b)
      /\ calls' = [calls EXCEPT ![c].stale = @ \ {b}]
      /\ UNCHANGED <<clock, stage, alone, lone>>
  BY DEF Limiter!DropStale
<1>2. \A a \in Limiter!Addresses : /\ InWindow(a)' = InWindow(a)
                                   /\ Limiter!List(a)' = IF a = b THEN {} ELSE Limiter!List(a)
  BY <1>1 DEF InWindow, Limiter!List, Limiter!Without
<1>3. InWindow(b) = {}
  BY <1>1 DEF CallsHaveThem
<1>4. \A d \in Browsers : /\ calls'[d].clock = calls[d].clock /\ calls'[d].history = calls[d].history
                          /\ calls'[d].stale \subseteq calls[d].stale /\ calls[d].stale \subseteq Limiter!Addresses
  BY <1>1 DEF LimiterTypes
<1>5. LimiterTypes'
  <2>1. calls' \in [Browsers -> [clock : Nat, stale : SUBSET Limiter!Addresses,
                                 history : {None} \cup SUBSET Failures]]
    BY <1>1 DEF LimiterTypes
  <2>2. /\ DOMAIN attempts' \subseteq Limiter!Addresses
        /\ \A a \in Limiter!Addresses : Limiter!List(a)' \subseteq Failures /\ IsFiniteSet(Limiter!List(a)')
    BY <1>1, <1>2, FS_EmptySet DEF LimiterTypes, Limiter!Without
  <2>. QED BY <1>1, <1>4, <2>1, <2>2 DEF LimiterTypes
<1>6. ListsHaveThem'
  BY <1>1, <1>2, <1>3 DEF ListsHaveThem, Follows
<1>7. CallsHaveThem'
  <2>1. \A d \in Browsers : Limiter!Calling(d)' = Limiter!Calling(d) /\ Address[d] \in Limiter!Addresses
    BY <1>1 DEF Limiter!Calling, Limiter!Addresses
  <2>. QED BY <1>1, <1>2, <1>4, <2>1 DEF CallsHaveThem, Follows
<1>8. NoOtherCalls'
  BY <1>1 DEF NoOtherCalls, Limiter!Calling
<1>9. CountHolds'
  BY <1>1, <1>2, <1>5, CountKeeps DEF Past
<1>. QED BY <1>5, <1>6, <1>7, <1>8, <1>9

\* What a call that returns leaves of the others'.
LEMMA ReturnKeeps ==
    ASSUME NEW c \in Browsers, NEW goal \in {"idle", "compare"}, Limiter!Returns(c, goal), LimiterTypes
    PROVE  /\ stage' \in [Browsers -> {"idle", "check", "compare", "record"}]
           /\ calls' \in [Browsers -> [clock : Nat, stale : SUBSET Limiter!Addresses,
                                       history : {None} \cup SUBSET Failures]]
           /\ alone' \in {alone, None} /\ (alone = c => alone' = None)
           /\ ~Limiter!Calling(c)' /\ stage'[c] = goal /\ calls'[c].history = None
           /\ \A d \in Browsers \ {c} : stage'[d] = stage[d] /\ calls'[d] = calls[d]
                                        /\ Limiter!Calling(d)' = Limiter!Calling(d)
<1>1. Limiter!NoCall \in [clock : Nat, stale : SUBSET Limiter!Addresses, history : {None} \cup SUBSET Failures]
      /\ Limiter!NoCall.history = None
  BY DEF Limiter!NoCall
<1>. HIDE DEF Limiter!NoCall
<1>2. /\ stage' = [stage EXCEPT ![c] = goal] /\ calls' = [calls EXCEPT ![c] = Limiter!NoCall]
      /\ alone' = IF alone = c THEN None ELSE alone
  BY DEF Limiter!Returns
<1>3. stage' \in [Browsers -> {"idle", "check", "compare", "record"}] /\ stage'[c] = goal
      /\ calls' \in [Browsers -> [clock : Nat, stale : SUBSET Limiter!Addresses,
                                  history : {None} \cup SUBSET Failures]]
      /\ calls'[c] = Limiter!NoCall
      /\ \A d \in Browsers \ {c} : stage'[d] = stage[d] /\ calls'[d] = calls[d]
  BY <1>1, <1>2 DEF LimiterTypes
<1>. QED BY <1>1, <1>2, <1>3 DEF Limiter!Calling

\* A call that ends with nothing written.
LEMMA ErrorStep ==
    ASSUME NEW c \in Browsers, Limiter!TableChanges(c), LimiterInv
    PROVE  LimiterInv'
<1>. USE DEF LimiterInv
<1>1. Limiter!Returns(c, "idle") /\ Limiter!Calling(c) /\ UNCHANGED <<clock, attempts, lone>>
  BY DEF Limiter!TableChanges
<1>2. /\ stage' \in [Browsers -> {"idle", "check", "compare", "record"}]
      /\ calls' \in [Browsers -> [clock : Nat, stale : SUBSET Limiter!Addresses,
                                  history : {None} \cup SUBSET Failures]]
      /\ alone' \in {alone, None}
      /\ ~Limiter!Calling(c)' /\ stage'[c] = "idle" /\ calls'[c].history = None
      /\ \A d \in Browsers \ {c} : stage'[d] = stage[d] /\ calls'[d] = calls[d]
                                   /\ Limiter!Calling(d)' = Limiter!Calling(d)
  BY <1>1, ReturnKeeps
<1>3. LimiterTypes'
  BY <1>1, <1>2 DEF LimiterTypes, Limiter!List
<1>4. \A a \in Limiter!Addresses : InWindow(a)' = InWindow(a) /\ Limiter!List(a)' = Limiter!List(a)
  BY <1>1 DEF InWindow, Limiter!List
<1>5. ListsHaveThem'
  BY <1>1, <1>4 DEF ListsHaveThem, Follows
<1>6. CallsHaveThem'
  <2>1. \A d \in Browsers : Address[d] \in Limiter!Addresses /\ calls[d].stale \subseteq Limiter!Addresses
    BY DEF Limiter!Addresses, LimiterTypes
  <2>. QED BY <1>1, <1>2, <1>4, <2>1 DEF CallsHaveThem, Follows
<1>7. NoOtherCalls'
  BY <1>2 DEF NoOtherCalls
<1>8. CountHolds'
  <2>1. \A a \in Limiter!Addresses : Past(a)' \subseteq Past(a)
    BY <1>2 DEF Past
  <2>. QED BY <1>3, <1>4, <2>1, CountKeeps
<1>. QED BY <1>3, <1>5, <1>6, <1>7, <1>8

\* What a call reads has the failures that are to be counted.
LEMMA HistoryStep ==
    ASSUME NEW c \in Browsers, Limiter!ReadHistory(c), LimiterInv
    PROVE  LimiterInv'
<1>. USE DEF LimiterInv
<1>. DEFINE b == Address[c]
            seen == Limiter!Recent(Limiter!List(b), calls[c].clock)
<1>1. /\ Limiter!Calling(c) /\ calls[c].clock \in Nat /\ b \in Limiter!Addresses
      /\ attempts' = Limiter!With(b, Limiter!List(b))
      /\ calls' = [calls EXCEPT ![c].history = seen]
      /\ UNCHANGED <<clock, stage, alone, lone>>
  BY DEF Limiter!ReadHistory, Limiter!Addresses, LimiterTypes
<1>2. \A a \in Limiter!Addresses : InWindow(a)' = InWindow(a) /\ Limiter!List(a)' = Limiter!List(a)
  BY <1>1 DEF InWindow, Limiter!List, Limiter!With
<1>3. seen \subseteq Limiter!List(b) /\ seen \subseteq Failures /\ IsFiniteSet(seen)
  <2>1. seen \subseteq Limiter!List(b)
    BY DEF Limiter!Recent
  <2>. QED BY <1>1, <2>1, FS_Subset DEF LimiterTypes
<1>4. InWindow(b) \subseteq seen /\ Follows(seen, b)
  <2>1. Follows(seen, b)
    BY <1>1, <1>3 DEF ListsHaveThem, Follows
  <2>2. ASSUME NEW x \in InWindow(b) PROVE x \in seen
    <3>1. x \in Limiter!List(b) /\ x.at \in Nat /\ clock - x.at < Window
      BY <1>1 DEF ListsHaveThem, InWindow, Limiter!Recent, LimiterTypes, Failures
    <3>2. calls[c].clock <= clock
      BY <1>1 DEF CallsHaveThem
    <3>3. calls[c].clock - x.at < Window
      BY <1>1, <3>1, <3>2, BoardAssumption DEF LimiterTypes
    <3>. QED BY <3>1, <3>3 DEF Limiter!Recent
  <2>. QED BY <2>1, <2>2
<1>. HIDE DEF seen
<1>5. /\ calls' \in [Browsers -> [clock : Nat, stale : SUBSET Limiter!Addresses,
                                  history : {None} \cup SUBSET Failures]]
      /\ calls'[c].history = seen /\ \A d \in Browsers \ {c} : calls'[d] = calls[d]
      /\ \A d \in Browsers : calls'[d].clock = calls[d].clock /\ calls'[d].stale = calls[d].stale
  BY <1>1, <1>3 DEF LimiterTypes
<1>6. LimiterTypes'
  <2>1. DOMAIN attempts' \subseteq Limiter!Addresses
    BY <1>1 DEF LimiterTypes, Limiter!With
  <2>2. \A d \in Browsers : calls'[d].history # None => IsFiniteSet(calls'[d].history)
    BY <1>3, <1>5 DEF LimiterTypes
  <2>3. \A a \in Limiter!Addresses : Limiter!List(a)' \subseteq Failures /\ IsFiniteSet(Limiter!List(a)')
    BY <1>2 DEF LimiterTypes
  <2>. QED BY <1>1, <1>5, <2>1, <2>2, <2>3 DEF LimiterTypes
<1>7. ListsHaveThem'
  BY <1>1, <1>2 DEF ListsHaveThem, Follows
<1>8. CallsHaveThem'
  <2>1. \A d \in Browsers : /\ Address[d] \in Limiter!Addresses /\ calls[d].stale \subseteq Limiter!Addresses
                            /\ Limiter!Calling(d)' = Limiter!Calling(d)
    BY <1>1 DEF Limiter!Addresses, LimiterTypes, Limiter!Calling
  <2>2. SUFFICES ASSUME NEW d \in Browsers, Limiter!Calling(d)
        PROVE  /\ calls'[d].clock <= clock
               /\ \A a \in Limiter!Addresses : \A x \in lone[a] : x.at <= calls'[d].clock
               /\ \A a \in calls'[d].stale : InWindow(a)' = {}
               /\ calls'[d].history # None => InWindow(Address[d])' \subseteq calls'[d].history
                                              /\ Follows(calls'[d].history, Address[d])
    BY <1>1, <2>1 DEF CallsHaveThem, Follows
  <2>3. calls'[d].history # None => InWindow(Address[d]) \subseteq calls'[d].history
                                    /\ Follows(calls'[d].history, Address[d])
    BY <1>4, <1>5, <2>2 DEF CallsHaveThem
  <2>. QED BY <1>2, <1>5, <2>1, <2>2, <2>3 DEF CallsHaveThem
<1>9. NoOtherCalls'
  BY <1>1 DEF NoOtherCalls, Limiter!Calling
<1>10. CountHolds'
  BY <1>1, <1>2, <1>6, CountKeeps DEF Past
<1>. QED BY <1>6, <1>7, <1>8, <1>9, <1>10

\* Who gets past the check has seen all of them, and they are fewer than are allowed.
LEMMA CheckedStep ==
    ASSUME NEW c \in Browsers, Limiter!Checked(c), LimiterInv
    PROVE  LimiterInv'
<1>. USE DEF LimiterInv
<1>. DEFINE b == Address[c]
            inList == calls[c].history
            next == IF Cardinality(inList) >= MaxAttempts THEN "idle" ELSE "compare"
<1>1. /\ Limiter!Calling(c) /\ inList # None /\ b \in Limiter!Addresses /\ stage[c] = "check"
      /\ attempts' = Limiter!With(b, inList)
      /\ Limiter!Returns(c, next) /\ UNCHANGED <<clock, lone>>
  BY SameSizes DEF Limiter!Checked, Limiter!Addresses, Limiter!Calling
<1>2. /\ inList \subseteq Failures /\ IsFiniteSet(inList) /\ InWindow(b) \subseteq inList
      /\ Follows(inList, b)
  BY <1>1 DEF LimiterTypes, CallsHaveThem
<1>. HIDE DEF inList
<1>3. next \in {"idle", "compare"}
  OBVIOUS
<1>4. /\ stage' \in [Browsers -> {"idle", "check", "compare", "record"}]
      /\ calls' \in [Browsers -> [clock : Nat, stale : SUBSET Limiter!Addresses,
                                  history : {None} \cup SUBSET Failures]]
      /\ alone' \in {alone, None}
      /\ ~Limiter!Calling(c)' /\ stage'[c] = next /\ calls'[c].history = None
      /\ \A d \in Browsers \ {c} : stage'[d] = stage[d] /\ calls'[d] = calls[d]
                                   /\ Limiter!Calling(d)' = Limiter!Calling(d)
  BY <1>1, <1>3, ReturnKeeps
<1>5. \A a \in Limiter!Addresses : /\ InWindow(a)' = InWindow(a)
                                   /\ Limiter!List(a)' = IF a = b THEN inList ELSE Limiter!List(a)
  BY <1>1 DEF InWindow, Limiter!List, Limiter!With
<1>6. LimiterTypes'
  <2>1. DOMAIN attempts' \subseteq Limiter!Addresses
    BY <1>1 DEF LimiterTypes, Limiter!With
  <2>2. \A a \in Limiter!Addresses : Limiter!List(a)' \subseteq Failures /\ IsFiniteSet(Limiter!List(a)')
    BY <1>2, <1>5 DEF LimiterTypes
  <2>. QED BY <1>1, <1>4, <2>1, <2>2 DEF LimiterTypes
<1>7. ListsHaveThem'
  BY <1>1, <1>2, <1>5 DEF ListsHaveThem, Follows
<1>8. CallsHaveThem'
  <2>1. \A d \in Browsers : Address[d] \in Limiter!Addresses /\ calls[d].stale \subseteq Limiter!Addresses
    BY DEF Limiter!Addresses, LimiterTypes
  <2>. QED BY <1>1, <1>4, <1>5, <2>1 DEF CallsHaveThem, Follows
<1>9. NoOtherCalls'
  BY <1>4 DEF NoOtherCalls
<1>10. CountHolds'
  <2>1. CASE next = "idle"
    <3>1. \A a \in Limiter!Addresses : Past(a)' \subseteq Past(a)
      BY <1>4, <2>1 DEF Past
    <3>. QED BY <1>5, <1>6, <3>1, CountKeeps
  <2>2. CASE ~(Cardinality(inList) >= MaxAttempts)
    <3>. HIDE DEF next
    <3>1. \A a \in Limiter!Addresses \ {b} : Past(a)' = Past(a)
      BY <1>4 DEF Past
    <3>2. /\ Cardinality(InWindow(b)) <= Cardinality(inList) /\ Cardinality(inList) \in Nat
          /\ Cardinality(InWindow(b)) \in Nat /\ MaxAttempts \in Nat
      BY <1>1, <1>2, CountTypes, FS_Subset, FS_CardinalityType
    <3>3. /\ Past(b)' \subseteq Behind(b) /\ IsFiniteSet(Behind(b))
          /\ Cardinality(Behind(b)) \in Nat
      BY <1>1, CountTypes DEF Past, Behind
    <3>4. Cardinality(Past(b)') <= Cardinality(Behind(b)) /\ Cardinality(Past(b)') \in Nat
      BY <3>3, FS_Subset, FS_CardinalityType
    <3>5. Cardinality(InWindow(b)) + Cardinality(Past(b)') < MaxAttempts + Cardinality(Behind(b))
      BY <2>2, <3>2, <3>3, <3>4
    <3>6. SUFFICES ASSUME NEW a \in Limiter!Addresses
                   PROVE  Cardinality(InWindow(a)') + Cardinality(Past(a)') < MaxAttempts + Cardinality(Behind(a))
      BY DEF CountHolds, Limiter!Addresses, Behind
    <3>. QED BY <1>5, <3>1, <3>5 DEF CountHolds
  <2>. QED BY <2>1, <2>2
<1>. QED BY <1>6, <1>7, <1>8, <1>9, <1>10

\* A failure recorded comes last in its list; when no other call is about it is one to be
\* counted, and its client no longer on its way.
LEMMA RecordedStep ==
    ASSUME NEW c \in Browsers, Limiter!Recorded(c), LimiterInv
    PROVE  LimiterInv'
<1>. USE DEF LimiterInv
<1>. DEFINE b == Address[c]
            inList == calls[c].history
            failure == Limiter!Failure(c)
<1>1. /\ Limiter!Calling(c) /\ inList # None /\ b \in Limiter!Addresses /\ stage[c] = "record"
      /\ attempts' = Limiter!With(b, inList \cup {failure})
      /\ lone' = IF alone = c THEN [lone EXCEPT ![b] = @ \cup {failure}] ELSE lone
      /\ Limiter!Returns(c, "idle") /\ clock' = clock
  BY DEF Limiter!Recorded, Limiter!Addresses, Limiter!Calling
<1>2. /\ inList \subseteq Failures /\ IsFiniteSet(inList) /\ InWindow(b) \subseteq inList
      /\ Follows(inList, b) /\ calls[c].clock <= clock /\ calls[c].clock \in Nat /\ clock \in Nat
      /\ \A a \in Limiter!Addresses : \A x \in lone[a] : x.at <= calls[c].clock
  BY <1>1 DEF LimiterTypes, CallsHaveThem
<1>3. /\ failure \in Failures /\ failure.at = calls[c].clock
      /\ \A x \in inList : ~(x.nr >= failure.nr)
  <2>1. Limiter!Last(inList) \in Nat /\ \A x \in inList : x.nr <= Limiter!Last(inList)
    BY <1>2, LastOfList
  <2>2. failure = [at |-> calls[c].clock, nr |-> Limiter!Last(inList) + 1]
    BY DEF Limiter!Failure
  <2>. HIDE DEF failure, inList
  <2>. QED BY <1>2, <2>1, <2>2 DEF Failures
<1>. HIDE DEF inList, failure
<1>4. /\ stage' \in [Browsers -> {"idle", "check", "compare", "record"}]
      /\ calls' \in [Browsers -> [clock : Nat, stale : SUBSET Limiter!Addresses,
                                  history : {None} \cup SUBSET Failures]]
      /\ alone' \in {alone, None} /\ (alone = c => alone' = None)
      /\ ~Limiter!Calling(c)' /\ stage'[c] = "idle" /\ calls'[c].history = None
      /\ \A d \in Browsers \ {c} : stage'[d] = stage[d] /\ calls'[d] = calls[d]
                                   /\ Limiter!Calling(d)' = Limiter!Calling(d)
  BY <1>1, ReturnKeeps
<1>5. /\ \A a \in Limiter!Addresses :
            Limiter!List(a)' = IF a = b THEN inList \cup {failure} ELSE Limiter!List(a)
      /\ DOMAIN attempts' \subseteq Limiter!Addresses
  BY <1>1 DEF LimiterTypes, Limiter!List, Limiter!With
<1>6. \A a \in Limiter!Addresses : lone'[a] \subseteq IF a = b THEN lone[a] \cup {failure} ELSE lone[a]
  BY <1>1 DEF LimiterTypes
<1>7. LimiterTypes'
  <2>1. IsFiniteSet(inList \cup {failure}) /\ IsFiniteSet(lone[b] \cup {failure})
    BY <1>1, <1>2, FS_AddElement DEF LimiterTypes
  <2>2. \A a \in Limiter!Addresses : Limiter!List(a)' \subseteq Failures /\ IsFiniteSet(Limiter!List(a)')
    BY <1>2, <1>3, <1>5, <2>1 DEF LimiterTypes
  <2>3. lone' \in [Limiter!Addresses -> SUBSET Failures] /\ \A a \in Limiter!Addresses : IsFiniteSet(lone'[a])
    BY <1>1, <1>3, <2>1 DEF LimiterTypes
  <2>. QED BY <1>1, <1>4, <1>5, <2>2, <2>3 DEF LimiterTypes
<1>8. ListsHaveThem'
  <2>. SUFFICES ASSUME NEW a \in Limiter!Addresses
                PROVE  /\ InWindow(a)' \subseteq Limiter!List(a)' /\ Follows(Limiter!List(a), a)'
                       /\ \A x \in lone'[a] : x.at <= clock'
    BY DEF ListsHaveThem, Limiter!Addresses
  <2>1. \A x \in lone'[a] : x.at <= clock'
    BY <1>1, <1>2, <1>3, <1>6 DEF ListsHaveThem
  <2>2. InWindow(a)' \subseteq Limiter!List(a)'
    BY <1>1, <1>2, <1>5, <1>6 DEF InWindow, Limiter!Recent, ListsHaveThem
  <2>3. ASSUME NEW x \in lone'[a], NEW y \in Limiter!List(a)', y.nr >= x.nr PROVE y.at >= x.at
    <3>1. CASE a # b
      BY <1>5, <1>6, <2>3, <3>1 DEF ListsHaveThem, Follows
    <3>2. CASE a = b /\ y = failure
      <4>1. x = failure \/ x \in lone[b]
        BY <1>6, <3>2
      <4>. QED BY <1>1, <1>2, <1>3, <3>2, <4>1
    <3>3. CASE a = b /\ y \in inList
      <4>1. x = failure \/ x \in lone[b]
        BY <1>6, <3>3
      <4>. QED BY <1>2, <1>3, <2>3, <3>3, <4>1 DEF Follows
    <3>. QED BY <1>5, <3>1, <3>2, <3>3
  <2>. QED BY <2>1, <2>2, <2>3 DEF Follows
<1>9. CASE alone = c
  <2>1. \A d \in Browsers : ~Limiter!Calling(d)'
    BY <1>4, <1>9, BoardAssumption DEF NoOtherCalls
  <2>2. CallsHaveThem' /\ NoOtherCalls'
    BY <2>1 DEF CallsHaveThem, NoOtherCalls
  <2>3. CountHolds'
    <3>1. \A a \in Limiter!Addresses \ {b} : InWindow(a)' = InWindow(a) /\ Past(a)' = Past(a)
      BY <1>1, <1>4, <1>9 DEF InWindow, Past, LimiterTypes
    <3>2. InWindow(b)' \subseteq InWindow(b) \cup {failure} /\ Past(b)' \subseteq Past(b) \ {c} /\ c \in Past(b)
      BY <1>1, <1>4, <1>6 DEF InWindow, Past, Limiter!Recent
    <3>3. /\ Cardinality(InWindow(b) \cup {failure}) <= Cardinality(InWindow(b)) + 1
          /\ IsFiniteSet(InWindow(b) \cup {failure}) /\ Cardinality(InWindow(b) \cup {failure}) \in Nat
          /\ Cardinality(Past(b) \ {c}) = Cardinality(Past(b)) - 1 /\ IsFiniteSet(Past(b) \ {c})
      BY <1>1, <3>2, CountTypes, CardinalityOfOneMore, FS_RemoveElement
    <3>4. /\ Cardinality(InWindow(b)') <= Cardinality(InWindow(b) \cup {failure})
          /\ Cardinality(InWindow(b)') \in Nat
          /\ Cardinality(Past(b)') <= Cardinality(Past(b) \ {c}) /\ Cardinality(Past(b)') \in Nat
      BY <3>2, <3>3, FS_Subset, FS_CardinalityType
    <3>5. Cardinality(InWindow(b)') + Cardinality(Past(b)') < MaxAttempts + Cardinality(Behind(b))
      BY <1>1, <3>3, <3>4, CountTypes DEF CountHolds
    <3>6. SUFFICES ASSUME NEW a \in Limiter!Addresses
                   PROVE  Cardinality(InWindow(a)') + Cardinality(Past(a)') < MaxAttempts + Cardinality(Behind(a))
      BY DEF CountHolds, Limiter!Addresses, Behind
    <3>. QED BY <3>1, <3>5 DEF CountHolds
  <2>. QED BY <1>7, <1>8, <2>2, <2>3
<1>10. CASE alone # c
  <2>1. lone' = lone /\ \A a \in Limiter!Addresses : InWindow(a)' = InWindow(a)
    BY <1>1, <1>10 DEF InWindow
  <2>2. CallsHaveThem'
    <3>1. \A d \in Browsers : Address[d] \in Limiter!Addresses /\ calls[d].stale \subseteq Limiter!Addresses
      BY DEF Limiter!Addresses, LimiterTypes
    <3>. QED BY <1>1, <1>4, <2>1, <3>1 DEF CallsHaveThem, Follows
  <2>3. NoOtherCalls'
    BY <1>4 DEF NoOtherCalls
  <2>4. CountHolds'
    <3>1. \A a \in Limiter!Addresses : Past(a)' \subseteq Past(a)
      BY <1>4 DEF Past
    <3>. QED BY <1>7, <2>1, <3>1, CountKeeps
  <2>. QED BY <1>7, <1>8, <2>2, <2>3, <2>4
<1>. QED BY <1>9, <1>10

\* A login that succeeds leaves none to be counted.
LEMMA ResetStep ==
    ASSUME NEW c \in Browsers, Limiter!Succeeds(c), LimiterInv
    PROVE  LimiterInv'
<1>. USE DEF LimiterInv
<1>. DEFINE b == Address[c]
<1>1. /\ ~Limiter!Calling(c) /\ b \in Limiter!Addresses
      /\ attempts' = Limiter!Without(b) /\ lone' = [lone EXCEPT ![b] = {}]
      /\ stage' = [stage EXCEPT ![c] = "idle"] /\ alone' = None /\ UNCHANGED <<clock, calls>>
  BY DEF Limiter!Succeeds, Limiter!Addresses, Limiter!Calling
<1>2. \A a \in Limiter!Addresses : /\ Limiter!List(a)' = IF a = b THEN {} ELSE Limiter!List(a)
                                   /\ lone'[a] = IF a = b THEN {} ELSE lone[a]
                                   /\ InWindow(a)' = IF a = b THEN {} ELSE InWindow(a)
  BY <1>1 DEF Limiter!List, Limiter!Without, LimiterTypes, InWindow, Limiter!Recent
<1>3. /\ stage' \in [Browsers -> {"idle", "check", "compare", "record"}]
      /\ \A d \in Browsers : Limiter!Calling(d)' = Limiter!Calling(d)
  BY <1>1 DEF LimiterTypes, Limiter!Calling
<1>4. LimiterTypes'
  <2>1. DOMAIN attempts' \subseteq Limiter!Addresses /\ lone' \in [Limiter!Addresses -> SUBSET Failures]
    BY <1>1 DEF LimiterTypes, Limiter!Without
  <2>2. \A a \in Limiter!Addresses : /\ Limiter!List(a)' \subseteq Failures /\ IsFiniteSet(Limiter!List(a)')
                                     /\ IsFiniteSet(lone'[a])
    BY <1>2, FS_EmptySet DEF LimiterTypes
  <2>. QED BY <1>1, <1>3, <2>1, <2>2 DEF LimiterTypes
<1>5. ListsHaveThem'
  BY <1>1, <1>2 DEF ListsHaveThem, Follows
<1>6. CallsHaveThem'
  <2>1. \A d \in Browsers : Address[d] \in Limiter!Addresses /\ calls[d].stale \subseteq Limiter!Addresses
    BY DEF Limiter!Addresses, LimiterTypes
  <2>. QED BY <1>1, <1>2, <1>3, <2>1 DEF CallsHaveThem, Follows
<1>7. NoOtherCalls'
  BY <1>1 DEF NoOtherCalls
<1>8. CountHolds'
  <2>1. \A a \in Limiter!Addresses : Past(a)' \subseteq Past(a) /\ InWindow(a)' \subseteq InWindow(a)
    BY <1>1, <1>2 DEF Past, LimiterTypes
  <2>. QED BY <1>4, <2>1, CountKeeps
<1>. QED BY <1>4, <1>5, <1>6, <1>7, <1>8

LEMMA LimiterRests == ASSUME LimiterInv, UNCHANGED Limiter!vars PROVE LimiterInv'
<1>1. UNCHANGED <<clock, attempts, stage, calls, alone, lone>>
  BY DEF Limiter!vars
<1>2. \A a \in Limiter!Addresses : InWindow(a)' = InWindow(a) /\ Past(a)' = Past(a)
  BY <1>1 DEF InWindow, Past
<1>3. LimiterTypes' /\ ListsHaveThem' /\ NoOtherCalls' /\ CallsHaveThem'
  BY <1>1 DEF LimiterInv, LimiterTypes, ListsHaveThem, NoOtherCalls, CallsHaveThem, InWindow, Follows,
              Limiter!List, Limiter!Calling
<1>. QED BY <1>2, <1>3, CountKeeps DEF LimiterInv

LEMMA LimiterStep == ASSUME LimiterInv, Limiter!Next \/ UNCHANGED Limiter!vars PROVE LimiterInv'
BY LimiterRests, LimiterClockStep, CallStep, DropStep, ErrorStep, HistoryStep, CheckedStep, RecordedStep,
   ResetStep DEF Limiter!Next

LEMMA LimiterGoal == LimiterInv => Limiter!FailuresAreLimited
<1>. SUFFICES ASSUME LimiterInv, NEW a \in Limiter!Addresses
              PROVE  Cardinality(InWindow(a)) < MaxAttempts + Cardinality(Behind(a))
  BY SameSizes DEF Limiter!FailuresAreLimited, InWindow, Behind
<1>. QED BY CountTypes DEF LimiterInv, CountHolds

(***************************************************************************)
(* The services side by side.                                              *)
(***************************************************************************)
ServicesInv ==
    /\ part = "routing"     => RoutingInv
    /\ part = "credentials" => CredInv
    /\ part = "threads"     => ThreadInv
    /\ part = "posts"       => PostsInv
    /\ part = "login"       => OAuth!RequestsStayOutside /\ LoginInv
    /\ part = "dashboard"   => BoardInv
    /\ part = "limiter"     => LimiterInv

\* A step of the suite is one of the part that the behaviour is about.
LEMMA PartStep ==
    ASSUME [ServicesNext]_suite
    PROVE  /\ part' = part
           /\ part = "routing"     => (Routing!Next \/ UNCHANGED Routing!vars)
           /\ part = "credentials" => (Credentials!Next \/ UNCHANGED Credentials!vars)
           /\ part = "threads"     => (Stores!Next \/ UNCHANGED Stores!vars)
           /\ part = "posts"       => (Posts!Next \/ UNCHANGED Posts!vars)
           /\ part = "login"       => (OAuth!Next \/ UNCHANGED OAuth!vars)
           /\ part = "dashboard"   => (Board!Next \/ UNCHANGED Board!vars)
           /\ part = "limiter"     => (Limiter!Next \/ UNCHANGED Limiter!vars)
<1>1. CASE ServicesNext
  BY <1>1 DEF ServicesNext
<1>2. CASE UNCHANGED suite
  <2>1. UNCHANGED <<part, routing, credentials, threads, posts, login, dashboard, limiter>>
    BY <1>2 DEF suite
  <2>. QED BY <2>1 DEF routing, credentials, threads, posts, login, dashboard, limiter, Routing!vars,
                       Credentials!vars, Stores!vars, Posts!vars, OAuth!vars, Board!vars, Limiter!vars
<1>. QED BY <1>1, <1>2

LEMMA ServicesStart == ServicesInit => ServicesInv
<1>. SUFFICES ASSUME ServicesInit PROVE ServicesInv
  OBVIOUS
<1>1. /\ part = "routing"     => Routing!Init
      /\ part = "credentials" => Credentials!Init
      /\ part = "threads"     => Stores!Init
      /\ part = "posts"       => Posts!Init
      /\ part = "login"       => OAuth!Init
      /\ part = "dashboard"   => Board!Init
      /\ part = "limiter"     => Limiter!Init
  BY DEF ServicesInit
<1>. QED BY <1>1, RoutingInit, CredInit, ThreadInit, PostsInit, LoginInit, BoardInit,
            LimiterInit DEF ServicesInv

LEMMA ServicesStep == ServicesInv /\ [ServicesNext]_suite => ServicesInv'
<1>. SUFFICES ASSUME ServicesInv, [ServicesNext]_suite PROVE ServicesInv'
  OBVIOUS
<1>1. part' = part
  BY PartStep
<1>2. CASE part = "routing"
  BY <1>1, <1>2, PartStep, RoutingStep DEF ServicesInv
<1>3. CASE part = "credentials"
  BY <1>1, <1>3, PartStep, CredStep DEF ServicesInv
<1>4. CASE part = "threads"
  BY <1>1, <1>4, PartStep, ThreadStep DEF ServicesInv
<1>5. CASE part = "posts"
  BY <1>1, <1>5, PartStep, WebhookStep DEF ServicesInv
<1>6. CASE part = "login"
  <2>1. OAuth!RequestsStayOutside'
    BY <1>6, PartStep, LoginStaysOutside DEF ServicesInv
  <2>2. LoginInv'
    BY <1>6, PartStep, LoginKeepsInv DEF ServicesInv
  <2>. QED BY <1>1, <1>6, <2>1, <2>2 DEF ServicesInv
<1>7. CASE part = "dashboard"
  BY <1>1, <1>7, PartStep, BoardStep DEF ServicesInv
<1>8. CASE part = "limiter"
  BY <1>1, <1>8, PartStep, LimiterStep DEF ServicesInv
<1>9. CASE part \notin {"routing", "credentials", "threads", "posts", "login", "dashboard", "limiter"}
  BY <1>1, <1>9 DEF ServicesInv
<1>. QED BY <1>2, <1>3, <1>4, <1>5, <1>6, <1>7, <1>8, <1>9

LEMMA ServicesAlways == ServicesSpec => []ServicesInv
BY ServicesStart, ServicesStep, PTL DEF ServicesSpec

\* A call whose name a listing gave reaches the tool it was listed for, in the name of the
\* caller and without the credential, or nothing (McpGateway.list_tools, ToolMapper).
THEOREM CallsArrive == ServicesSpec => []CallsReachTheirTool
<1>1. ServicesInv => CallsReachTheirTool
  BY RoutingGoal DEF ServicesInv, CallsReachTheirTool
<1>. QED BY <1>1, ServicesAlways, PTL

\* What is loaded for a server is a token its authorization server takes, and nothing after
\* a logout, unless a fault left it spent and nothing has been saved since: a keyring or a
\* file that fails, a process that is killed, a refresh whose answer is lost or comes late
\* (CredentialStore.load, save, delete, clear, refresh_oauth_credentials).
THEOREM LoadedTokenIsGood == ServicesSpec => []StoredTokenIsGood
<1>1. ServicesInv => StoredTokenIsGood
  BY CredGoal DEF ServicesInv, StoredTokenIsGood
<1>. QED BY <1>1, ServicesAlways, PTL

\* A process that writes the record of one server to the file or to the keyring leaves those
\* of the other servers as they are (_write_all_file_records under the lock).
THEOREM OtherRecordsAreKept == ServicesSpec => OthersKept
<1>1. ServicesInv /\ [ServicesNext]_suite => [part = "credentials" => Credentials!KeepsOthers]_suite
  BY PartStep, OneRecordChanges DEF ServicesInv
<1>. QED BY <1>1, ServicesAlways, PTL DEF ServicesSpec, OthersKept

\* No two threads work with one SQLite store, whoever had a thread's number before, and the
\* open ones are those close() knows of (ThreadSafeApprovalStore).
THEOREM StoresHaveTheirThread == ServicesSpec => []EachThreadItsStore
<1>1. ServicesInv => EachThreadItsStore
  BY ThreadGoal DEF ServicesInv, EachThreadItsStore
<1>. QED BY <1>1, ServicesAlways, PTL

\* A notice is sent over TLS to a public address or to a host that is allowed, its text
\* mentions nobody, has one line and no secret, and each platform gets it once
\* (validate_webhook_url, sanitize_text, send_to_all).
THEOREM NoticesAreInBounds == ServicesSpec => []NoticesStayInBounds
<1>1. ServicesInv => NoticesStayInBounds
  BY WebhookGoal DEF ServicesInv, NoticesStayInBounds
<1>. QED BY <1>1, ServicesAlways, PTL

\* A login to a remote server asks no internal address and nothing without TLS, whatever
\* the metadata it is given says (_validate_https_endpoint, _resolve_pinned_ip).
THEOREM LoginsStayOutside == ServicesSpec => []RequestsStayOutside
<1>1. ServicesInv => RequestsStayOutside
  BY DEF ServicesInv, RequestsStayOutside
<1>. QED BY <1>1, ServicesAlways, PTL

\* An authorization code leaves only for the issuer that was expected, and only for the
\* callback of this login (exchange_code).
THEOREM CodesReachTheirIssuer == ServicesSpec => CodesGoToTheirIssuer
<1>1. ServicesInv /\ [ServicesNext]_suite => [part = "login" => OAuth!CodeGoesToItsIssuer]_suite
  BY PartStep, CodeStep DEF ServicesInv
<1>. QED BY <1>1, ServicesAlways, PTL DEF ServicesSpec, CodesGoToTheirIssuer

\* However the calls of the limiter interleave, drop lists or write over each other, the
\* failures that calls apart from the others recorded stay counted: in the window there are
\* never more than are allowed and the clients of an address can add (LoginRateLimiter).
THEOREM LoginsAreLimited == ServicesSpec => []FailuresAreLimited
<1>1. ServicesInv => FailuresAreLimited
  BY LimiterGoal DEF ServicesInv, FailuresAreLimited
<1>. QED BY <1>1, ServicesAlways, PTL

\* A decision over HTTP has the token or a session inside both of its timeouts, the name of
\* the approver is the one the session or the proxy gave, and the table of sessions never
\* has more than its limit and the logins on their way (DashboardSessions, the handlers).
THEOREM DecisionsNeedASession == ServicesSpec => SessionsGuardDecisions
<1>1. ServicesInv /\ [ServicesNext]_suite => [part = "dashboard" => Board!GuardsDecision]_suite
  BY PartStep, BoardStep DEF ServicesInv
<1>. QED BY <1>1, ServicesAlways, PTL DEF ServicesSpec, SessionsGuardDecisions

(***************************************************************************)
(* McpGateway: whatever requests, timeouts and late answers meet on one      *)
(* session, and however the policy and the declaration change, a caller gets *)
(* the result of its own call, which ran once, by what was in force since it *)
(* came in.                                                                *)
(***************************************************************************)

Requests == [id : Nat \ {0}, kind : Kinds, by : Tasks]
Lines    == [id : Nat, kind : Kinds \cup {"notification", "no JSON"}, value : Versions \cup Tasks \cup {None}]
Unread   == {answers[i] : i \in DOMAIN answers}

GatewayTypes ==
    /\ version \in Versions /\ nextId \in Nat
    /\ pc \in [Tasks -> Kinds \cup {"idle", "done"}] /\ waitId \in [Tasks -> Nat]
    /\ wire \subseteq Requests /\ answers \in Seq(Lines)
    /\ DOMAIN mode = Tasks /\ DOMAIN pinned = Tasks /\ DOMAIN listed = Tasks /\ DOMAIN result = Tasks
    /\ inForce \in [Tasks -> SUBSET Versions] /\ DOMAIN ruled = Tasks
    /\ spent \subseteq Calls /\ ran \in [Calls -> Nat]

\* Ids are used once: by the task that waits, for the request on its way or for its answer.
IdsAreOnce ==
    /\ \A t \in Tasks : waitId[t] <= nextId /\ (waitId[t] # 0 => Waiting(t))
    /\ \A t, u \in Tasks : waitId[t] = waitId[u] /\ waitId[t] # 0 => t = u
    /\ \A r \in wire : r.id <= nextId
    /\ \A r, q \in wire : r.id = q.id => r = q
    /\ \A line \in Unread : line.id <= nextId
    /\ \A line \in Unread, r \in wire : line.id # r.id

\* The request with the id a task waits for is its own, and so is the answer.
OwnAnswer(t, line) ==
    /\ line.kind = pc[t]
    /\ line.kind = "list" /\ t \in Calls => line.value \in inForce[t] \cup {None}
    /\ line.kind = "call" => line.value = None \/ (line.value = t /\ ran[t] = 1)
AnswersAreOwn ==
    /\ \A t \in Tasks, r \in wire : r.id = waitId[t] => r.by = t /\ r.kind = pc[t]
    /\ \A t \in Tasks, line \in Unread : waitId[t] # 0 /\ line.id = waitId[t] => OwnAnswer(t, line)

\* A call is sent once: it waits to be sent, is on its way, or was executed.
OnItsWay(t) == \E r \in wire : r.kind = "call" /\ r.by = t
CallsAreOnce ==
    /\ pc[Boot] # "call" /\ ~OnItsWay(Boot)
    /\ \A r, q \in wire : r.kind = "call" /\ q.kind = "call" /\ r.by = q.by => r = q
    /\ \A t \in Calls : /\ ran[t] <= 1
                        /\ OnItsWay(t) => ran[t] = 0
                        /\ OnItsWay(t) \/ ran[t] > 0 => pc[t] = "done" \/ (pc[t] = "call" /\ waitId[t] # 0)

\* What a call goes by was in force since it came in.
Ruled(t) ==
    /\ \E p \in ruled[t] : p.effect # "deny"
    /\ \E p \in ruled[t] : p.pin # None => listed[t] = p.pin /\ listed[t] \in inForce[t]
    /\ mode[t] = "retry" <=> t \in spent
CallIsRuled(t) ==
    /\ Inside(t) => policy \in ruled[t] /\ version \in inForce[t]
    /\ pc[t] = "list" => \E p \in ruled[t] : p.pin = pinned[t]
    /\ t \in spent => pc[t] \in {"call", "done"}
    /\ pc[t] = "call" \/ OnItsWay(t) \/ ran[t] > 0 => Ruled(t)
    /\ result[t] # None => pc[t] = "done"
    /\ result[t] \in Calls => result[t] = t /\ ran[t] = 1
    /\ result[t] = "listed" => listed[t] \in inForce[t]
CallsAreRuled == \A t \in Calls : CallIsRuled(t)

Session == GatewayTypes /\ IdsAreOnce /\ AnswersAreOwn /\ CallsAreOnce
GatewayInv == Session /\ CallsAreRuled

-----------------------------------------------------------------------------
LEMMA GatewayInit == Init => GatewayInv
<1>. SUFFICES ASSUME Init PROVE GatewayInv
  OBVIOUS
<1>1. Boot \in Tasks /\ Calls \subseteq Tasks
  BY DEF Tasks
<1>2. Unread = {}
  BY DEF Init, Unread
<1>3. GatewayTypes
  BY <1>1 DEF Init, GatewayTypes
<1>4. IdsAreOnce /\ AnswersAreOwn
  BY <1>2 DEF Init, IdsAreOnce, AnswersAreOwn
<1>5. CallsAreOnce
  BY <1>1 DEF Init, CallsAreOnce, OnItsWay
<1>6. CallsAreRuled
  <2>. SUFFICES ASSUME NEW t \in Calls PROVE CallIsRuled(t)
    BY DEF CallsAreRuled
  <2>1. pc[t] = "idle" /\ result[t] = None /\ ran[t] = 0 /\ spent = {} /\ ~OnItsWay(t)
    BY <1>1 DEF Init, OnItsWay
  <2>2. None \notin Calls /\ None # "listed"
    BY <1>1, GatewayAssumption DEF Outcomes
  <2>. QED BY <2>1, <2>2 DEF CallIsRuled, Inside
<1>. QED BY <1>3, <1>4, <1>5, <1>6 DEF GatewayInv, Session

\* Lines that are read or that are no answers do no harm.
LEMMA ReadOne ==
    ASSUME GatewayTypes, answers # <<>>
    PROVE  /\ Head(answers) \in Unread /\ Head(answers) \in Lines
           /\ Tail(answers) \in Seq(Lines)
           /\ answers' = Tail(answers) => Unread' \subseteq Unread
<1>1. answers \in Seq(Lines) /\ Len(answers) \in Nat \ {0}
  BY DEF GatewayTypes
<1>2. Head(answers) = answers[1] /\ 1 \in DOMAIN answers /\ Head(answers) \in Lines
  BY <1>1
<1>3. Tail(answers) \in Seq(Lines) /\ DOMAIN Tail(answers) = 1 .. Len(answers) - 1
      /\ \A i \in 1 .. Len(answers) - 1 : Tail(answers)[i] = answers[i + 1] /\ i + 1 \in DOMAIN answers
  BY <1>1
<1>. QED BY <1>2, <1>3 DEF Unread

LEMMA WriteOne ==
    ASSUME GatewayTypes, NEW line \in Lines, answers' = Append(answers, line)
    PROVE  answers' \in Seq(Lines) /\ Unread' = Unread \cup {line}
<1>1. answers \in Seq(Lines) /\ Len(answers) \in Nat
  BY DEF GatewayTypes
<1>2. answers' \in Seq(Lines) /\ DOMAIN answers' = 1 .. Len(answers) + 1 /\ DOMAIN answers = 1 .. Len(answers)
  BY <1>1
<1>3. answers'[Len(answers) + 1] = line /\ \A i \in 1 .. Len(answers) : answers'[i] = answers[i]
  BY <1>1
<1>. QED BY <1>1, <1>2, <1>3 DEF Unread

\* A task stays where it is, or goes on: from a call, and from the end, only to the end.
Stays(t) == pc'[t] = pc[t] /\ waitId'[t] = waitId[t] /\ inForce[t] \subseteq inForce'[t]
GoesOn(t) ==
    /\ waitId'[t] = 0
    /\ t \in Calls /\ pc[t] \in {"call", "done"} => pc'[t] = "done"
    /\ t = Boot => pc'[t] # "call"

\* Every step but the sending and the serving of a request.
LEMMA SessionKeeps ==
    ASSUME Session, GatewayTypes', nextId' = nextId, wire' \subseteq wire, ran' = ran,
           \A line \in Unread' : line \in Unread \/ line.id = 0,
           \A t \in Tasks : Stays(t) \/ GoesOn(t)
    PROVE  Session'
<1>. USE DEF Session
<1>1. IdsAreOnce'
  BY DEF IdsAreOnce, Stays, GoesOn, Waiting, GatewayTypes, Requests
<1>2. AnswersAreOwn'
  <2>1. ASSUME NEW t \in Tasks, NEW r \in wire', r.id = waitId'[t] PROVE r.by = t /\ r.kind = pc'[t]
    <3>1. waitId'[t] # 0
      BY <2>1 DEF GatewayTypes, Requests
    <3>. QED BY <2>1, <3>1 DEF AnswersAreOwn, Stays, GoesOn
  <2>2. ASSUME NEW t \in Tasks, NEW line \in Unread', waitId'[t] # 0, line.id = waitId'[t]
        PROVE  OwnAnswer(t, line)'
    <3>1. Stays(t) /\ line \in Unread
      BY <2>2 DEF GoesOn
    <3>2. OwnAnswer(t, line)
      BY <2>2, <3>1 DEF AnswersAreOwn, Stays
    <3>. QED BY <3>1, <3>2 DEF OwnAnswer, Stays
  <2>. QED BY <2>1, <2>2 DEF AnswersAreOwn
<1>3. CallsAreOnce'
  <2>1. \A t : OnItsWay(t)' => OnItsWay(t)
    BY DEF OnItsWay
  <2>2. Boot \in Tasks /\ Calls \subseteq Tasks
    BY DEF Tasks
  <2>. QED BY <2>1, <2>2 DEF CallsAreOnce, Stays, GoesOn
<1>. QED BY <1>1, <1>2, <1>3

\* What is ruled stays ruled where a task stays.
LEMMA RuledKeeps ==
    ASSUME NEW t \in Calls, CallIsRuled(t), ran'[t] = ran[t], OnItsWay(t)' => OnItsWay(t) \/ pc[t] = "call",
           pc'[t] = pc[t], mode'[t] = mode[t], pinned'[t] = pinned[t], listed'[t] = listed[t],
           result'[t] = result[t], t \in spent' <=> t \in spent,
           ruled[t] \subseteq ruled'[t], inForce[t] \subseteq inForce'[t],
           Inside(t) => policy' \in ruled'[t] /\ version' \in inForce'[t]
    PROVE  CallIsRuled(t)'
BY DEF CallIsRuled, Ruled, Inside

-----------------------------------------------------------------------------
\* The tasks that a task's step leaves alone.
LEMMA OthersStay ==
    ASSUME GatewayTypes, NEW t \in Tasks, NEW place \in Kinds \cup {"done"}, GoTo(t, place)
    PROVE  /\ pc' \in [Tasks -> Kinds \cup {"idle", "done"}] /\ waitId' \in [Tasks -> Nat]
           /\ pc'[t] = place /\ waitId'[t] = 0
           /\ \A u \in Tasks : u # t => pc'[u] = pc[u] /\ waitId'[u] = waitId[u]
BY DEF GoTo, GatewayTypes

LEMMA SendStep ==
    ASSUME GatewayInv, NEW t \in Tasks, Send(t)
    PROVE  GatewayInv'
<1>. USE DEF GatewayInv, Session
<1>. DEFINE request == [id |-> nextId + 1, kind |-> pc[t], by |-> t]
<1>1. /\ pc[t] \in Kinds /\ waitId[t] = 0 /\ nextId' = nextId + 1 /\ waitId' = [waitId EXCEPT ![t] = nextId + 1]
      /\ wire' = wire \cup {request}
      /\ UNCHANGED <<version, policy, answers, pc, mode, pinned, listed, result, inForce, ruled, spent, ran>>
  BY DEF Send, Waiting, downstream, mine, history
<1>2. request \in Requests /\ request.id = nextId + 1 /\ request.kind = pc[t] /\ request.by = t
  BY <1>1 DEF Requests, GatewayTypes
<1>3. waitId'[t] = nextId + 1 /\ \A u \in Tasks : u # t => waitId'[u] = waitId[u]
  BY <1>1 DEF GatewayTypes
<1>. HIDE DEF request
<1>4. GatewayTypes'
  BY <1>1, <1>2 DEF GatewayTypes
<1>5. Unread' = Unread /\ \A line \in Unread : line.id <= nextId
  BY <1>1 DEF Unread, IdsAreOnce
<1>6. IdsAreOnce'
  <2>1. \A line \in Unread : line.id \in Nat
    <3>1. \A i \in DOMAIN answers : answers[i] \in Lines
      BY DEF GatewayTypes
    <3>. QED BY <3>1 DEF Unread, Lines
  <2>2. \A r \in wire : r.id \in Nat \ {0} /\ r.id <= nextId
    BY DEF GatewayTypes, IdsAreOnce, Requests
  <2>3. \A u \in Tasks : u # t => waitId'[u] \in Nat /\ waitId'[u] <= nextId
    BY <1>3 DEF GatewayTypes, IdsAreOnce
  <2>4. nextId \in Nat /\ nextId + 1 > nextId
    BY DEF GatewayTypes
  <2>. QED BY <1>1, <1>2, <1>3, <1>5, <2>1, <2>2, <2>3, <2>4 DEF IdsAreOnce, Waiting
<1>7. AnswersAreOwn'
  <2>1. ASSUME NEW u \in Tasks, NEW r \in wire', r.id = waitId'[u] PROVE r.by = u /\ r.kind = pc'[u]
    <3>1. CASE u = t
      BY <1>1, <1>2, <1>3, <2>1, <3>1 DEF IdsAreOnce, GatewayTypes, Requests
    <3>2. CASE u # t
      BY <1>1, <1>2, <1>3, <2>1, <3>2 DEF IdsAreOnce, AnswersAreOwn, GatewayTypes
    <3>. QED BY <3>1, <3>2
  <2>2. ASSUME NEW u \in Tasks, NEW line \in Unread', waitId'[u] # 0, line.id = waitId'[u]
        PROVE  OwnAnswer(u, line)'
    <3>1. u # t
      BY <1>3, <1>5, <2>2 DEF GatewayTypes
    <3>. QED BY <1>1, <1>3, <1>5, <2>2, <3>1 DEF AnswersAreOwn, OwnAnswer
  <2>. QED BY <2>1, <2>2 DEF AnswersAreOwn
<1>8. \A u \in Tasks : OnItsWay(u)' => OnItsWay(u) \/ (u = t /\ pc[t] = "call")
  BY <1>1, <1>2 DEF OnItsWay
<1>9. CallsAreOnce'
  <2>1. Boot \in Tasks /\ Calls \subseteq Tasks /\ (t = Boot \/ t \in Calls)
    BY DEF Tasks
  <2>2. pc[t] = "call" => t \in Calls /\ ran[t] = 0 /\ ~OnItsWay(t)
    <3>. SUFFICES ASSUME pc[t] = "call" PROVE t \in Calls /\ ran[t] = 0 /\ ~OnItsWay(t)
      OBVIOUS
    <3>1. t \in Calls
      BY <2>1 DEF CallsAreOnce
    <3>2. ~OnItsWay(t) /\ ~(ran[t] > 0)
      BY <1>1, <3>1 DEF CallsAreOnce
    <3>3. ran[t] \in Nat
      BY <3>1 DEF GatewayTypes
    <3>. QED BY <3>1, <3>2, <3>3
  <2>3. \A r, q \in wire' : r.kind = "call" /\ q.kind = "call" /\ r.by = q.by => r = q
    BY <1>1, <1>2, <2>2 DEF CallsAreOnce, OnItsWay
  <2>4. nextId + 1 # 0
    BY DEF GatewayTypes
  <2>. QED BY <1>1, <1>3, <1>8, <2>1, <2>2, <2>3, <2>4 DEF CallsAreOnce
<1>10. CallsAreRuled'
  <2>. SUFFICES ASSUME NEW u \in Calls PROVE CallIsRuled(u)'
    BY DEF CallsAreRuled
  <2>. QED BY <1>1, <1>8, RuledKeeps DEF CallsAreRuled, CallIsRuled, Tasks
<1>. QED BY <1>4, <1>6, <1>7, <1>9, <1>10

LEMMA ServeStep ==
    ASSUME GatewayInv, NEW r \in wire, NEW how \in {"result", "error"}, Serve(r, how)
    PROVE  GatewayInv'
<1>. USE DEF GatewayInv, Session
<1>. DEFINE value == IF how = "error" THEN None ELSE IF r.kind = "list" THEN version ELSE r.by
            line == [id |-> r.id, kind |-> r.kind, value |-> value]
<1>1. /\ wire' = wire \ {r} /\ answers' = Append(answers, line)
      /\ ran' = IF r.kind = "call" THEN [ran EXCEPT ![r.by] = @ + 1] ELSE ran
      /\ UNCHANGED <<nextId, version, policy, pc, waitId, mode, pinned, listed, result, inForce, ruled, spent>>
  BY DEF Serve, downstream, mine
<1>2. r \in Requests /\ r.id \in Nat \ {0} /\ r.kind \in Kinds /\ r.by \in Tasks
  BY DEF GatewayTypes, Requests
<1>3. line \in Lines /\ line.id = r.id /\ line.kind = r.kind /\ line.value = value
  BY <1>2 DEF Lines, GatewayTypes
<1>. HIDE DEF line
<1>4. answers' \in Seq(Lines) /\ Unread' = Unread \cup {line}
  BY <1>1, <1>3, WriteOne
<1>5. r.kind = "call" => r.by \in Calls /\ ran[r.by] = 0 /\ OnItsWay(r.by)
  BY <1>2 DEF CallsAreOnce, OnItsWay, Tasks
<1>6. /\ ran' \in [Calls -> Nat]
      /\ r.kind = "call" => ran'[r.by] = 1
      /\ \A t \in Calls : t # r.by \/ r.kind # "call" => ran'[t] = ran[t]
  BY <1>1, <1>5 DEF GatewayTypes
<1>7. GatewayTypes'
  BY <1>1, <1>4, <1>6 DEF GatewayTypes
<1>8. IdsAreOnce'
  BY <1>1, <1>2, <1>3, <1>4 DEF IdsAreOnce, Waiting
<1>9. AnswersAreOwn'
  <2>1. ASSUME NEW t \in Tasks, NEW q \in wire', q.id = waitId'[t] PROVE q.by = t /\ q.kind = pc'[t]
    BY <1>1, <2>1 DEF AnswersAreOwn
  <2>2. ASSUME NEW t \in Tasks, NEW each \in Unread', waitId'[t] # 0, each.id = waitId'[t]
        PROVE  OwnAnswer(t, each)'
    <3>1. CASE each \in Unread
      <4>1. OwnAnswer(t, each)
        BY <1>1, <2>2, <3>1 DEF AnswersAreOwn
      <4>2. each.kind = "call" => ran'[t] = ran[t] \/ ran'[t] = 1
        <5>1. CASE t \in Calls
          BY <1>6, <5>1
        <5>2. CASE t = Boot
          BY <4>1, <5>2 DEF OwnAnswer, CallsAreOnce
        <5>. QED BY <5>1, <5>2 DEF Tasks
      <4>. QED BY <1>1, <4>1, <4>2 DEF OwnAnswer
    <3>2. CASE each = line
      <4>1. r.by = t /\ r.kind = pc[t]
        BY <1>1, <1>3, <2>2, <3>2 DEF AnswersAreOwn
      <4>2. r.kind = "list" /\ t \in Calls => version \in inForce[t]
        BY <4>1 DEF CallsAreRuled, CallIsRuled, Inside
      <4>. QED BY <1>1, <1>3, <1>6, <3>2, <4>1, <4>2 DEF OwnAnswer
    <3>. QED BY <1>4, <3>1, <3>2
  <2>. QED BY <2>1, <2>2 DEF AnswersAreOwn
<1>10. \A t : OnItsWay(t)' => OnItsWay(t)
  BY <1>1 DEF OnItsWay
<1>11. CallsAreOnce'
  <2>1. r.kind = "call" => ~OnItsWay(r.by)'
    BY <1>1 DEF CallsAreOnce, OnItsWay
  <2>2. ASSUME NEW t \in Calls
        PROVE  /\ ran'[t] <= 1
               /\ OnItsWay(t)' => ran'[t] = 0
               /\ OnItsWay(t)' \/ ran'[t] > 0 => pc'[t] = "done" \/ (pc'[t] = "call" /\ waitId'[t] # 0)
    <3>1. CASE r.kind = "call" /\ t = r.by
      BY <1>1, <1>5, <1>6, <2>1, <3>1 DEF CallsAreOnce
    <3>2. CASE r.kind # "call" \/ t # r.by
      BY <1>1, <1>6, <1>10, <3>2 DEF CallsAreOnce
    <3>. QED BY <3>1, <3>2
  <2>. QED BY <1>1, <1>10, <2>2 DEF CallsAreOnce
<1>12. CallsAreRuled'
  <2>. SUFFICES ASSUME NEW t \in Calls PROVE CallIsRuled(t)'
    BY DEF CallsAreRuled
  <2>1. CASE r.kind = "call" /\ t = r.by
    BY <1>1, <1>5, <1>6, <1>10, <2>1 DEF CallsAreRuled, CallIsRuled, Ruled, Inside
  <2>2. CASE r.kind # "call" \/ t # r.by
    BY <1>1, <1>6, <1>10, <2>2, RuledKeeps DEF CallsAreRuled, CallIsRuled
  <2>. QED BY <2>1, <2>2
<1>. QED BY <1>7, <1>8, <1>9, <1>11, <1>12

-----------------------------------------------------------------------------
\* Steps that leave all tasks where they are.
Quiet == UNCHANGED <<nextId, pc, waitId, mode, pinned, listed, result, spent, ran>>
LEMMA QuietStep ==
    ASSUME GatewayInv, Quiet, wire' \subseteq wire, version' \in Versions,
           answers' \in Seq(Lines), \A line \in Unread' : line \in Unread \/ line.id = 0,
           inForce' \in [Tasks -> SUBSET Versions], DOMAIN ruled' = Tasks,
           \A t \in Tasks : /\ ruled[t] \subseteq ruled'[t] /\ inForce[t] \subseteq inForce'[t]
                            /\ Inside(t) /\ t \in Calls => policy' \in ruled'[t] /\ version' \in inForce'[t]
    PROVE  GatewayInv'
<1>. USE DEF GatewayInv
<1>1. GatewayTypes'
  BY DEF Quiet, Session, GatewayTypes
<1>2. Session'
  BY <1>1, SessionKeeps DEF Quiet, Stays
<1>3. CallsAreRuled'
  <2>. SUFFICES ASSUME NEW t \in Calls PROVE CallIsRuled(t)'
    BY DEF CallsAreRuled
  <2>1. OnItsWay(t)' => OnItsWay(t)
    BY DEF OnItsWay
  <2>2. CallIsRuled(t) /\ t \in Tasks
    BY DEF CallsAreRuled, Tasks
  <2>. QED BY <2>1, <2>2, RuledKeeps DEF Quiet
<1>. QED BY <1>2, <1>3

\* Steps of one task, which goes on; the others' are left alone.
LEMMA TaskStep ==
    ASSUME GatewayInv, NEW t \in Tasks, NEW place \in Kinds \cup {"done"}, GoTo(t, place),
           t = Boot => place # "call",
           t \in Calls /\ pc[t] \in {"call", "done"} => place = "done",
           UNCHANGED <<nextId, version, policy, ran>>, wire' \subseteq wire,
           answers' = answers \/ (answers # <<>> /\ answers' = Tail(answers)),
           spent' \subseteq Calls, DOMAIN result' = Tasks,
           inForce' \in [Tasks -> SUBSET Versions],
           DOMAIN mode' = Tasks, DOMAIN pinned' = Tasks, DOMAIN listed' = Tasks, DOMAIN ruled' = Tasks,
           \A u \in Tasks : u # t =>
               /\ mode'[u] = mode[u] /\ pinned'[u] = pinned[u] /\ listed'[u] = listed[u]
               /\ result'[u] = result[u] /\ inForce'[u] = inForce[u] /\ ruled'[u] = ruled[u]
               /\ u \in spent' <=> u \in spent
    PROVE  /\ Session'
           /\ \A u \in Calls : u # t => CallIsRuled(u)'
           /\ pc'[t] = place
           /\ OnItsWay(t)' => OnItsWay(t)
<1>. USE DEF GatewayInv
<1>1. /\ pc' \in [Tasks -> Kinds \cup {"idle", "done"}] /\ waitId' \in [Tasks -> Nat]
      /\ pc'[t] = place /\ waitId'[t] = 0
      /\ \A u \in Tasks : u # t => pc'[u] = pc[u] /\ waitId'[u] = waitId[u]
  BY OthersStay DEF Session
<1>2. answers' \in Seq(Lines) /\ Unread' \subseteq Unread
  BY ReadOne DEF Session, GatewayTypes, Unread
<1>3. GatewayTypes'
  BY <1>1, <1>2 DEF Session, GatewayTypes
<1>4. \A u \in Tasks : Stays(u) \/ GoesOn(u)
  BY <1>1 DEF Stays, GoesOn
<1>5. Session'
  BY <1>2, <1>3, <1>4, SessionKeeps
<1>6. \A u : OnItsWay(u)' => OnItsWay(u)
  BY DEF OnItsWay
<1>7. ASSUME NEW u \in Calls, u # t PROVE CallIsRuled(u)'
  <2>1. CallIsRuled(u) /\ u \in Tasks
    BY DEF CallsAreRuled, Tasks
  <2>2. Inside(u) => policy' \in ruled'[u] /\ version' \in inForce'[u]
    BY <1>7, <2>1 DEF CallIsRuled
  <2>. QED BY <1>1, <1>6, <1>7, <2>1, <2>2, RuledKeeps
<1>. QED BY <1>1, <1>5, <1>6, <1>7

\* A task of a request that ends.
LEMMA EndStep ==
    ASSUME GatewayInv, NEW t \in Calls, NEW outcome, Ends(t, outcome), Inside(t),
           outcome = "listed" => listed'[t] \in inForce[t],
           outcome \in Calls => outcome = t /\ ran[t] = 1,
           UNCHANGED <<nextId, version, policy, ran, mode, pinned, inForce, ruled, spent>>, wire' \subseteq wire,
           answers' = answers \/ (answers # <<>> /\ answers' = Tail(answers)),
           \/ listed' = listed
           \/ pc[t] = "list" /\ \E value : listed' = [listed EXCEPT ![t] = value]
    PROVE  GatewayInv'
<1>. USE DEF GatewayInv
<1>1. t \in Tasks /\ GoTo(t, "done") /\ result' = [result EXCEPT ![t] = outcome]
  BY DEF Ends, Tasks
<1>2. /\ DOMAIN result' = Tasks /\ result'[t] = outcome /\ \A u \in Tasks : u # t => result'[u] = result[u]
      /\ DOMAIN listed' = Tasks /\ \A u \in Tasks : u # t => listed'[u] = listed[u]
  BY <1>1 DEF Session, GatewayTypes
<1>3. /\ Session' /\ pc'[t] = "done" /\ (OnItsWay(t)' => OnItsWay(t))
      /\ \A u \in Calls : u # t => CallIsRuled(u)'
  <2>1. /\ spent' \subseteq Calls /\ inForce' \in [Tasks -> SUBSET Versions]
        /\ DOMAIN mode' = Tasks /\ DOMAIN pinned' = Tasks /\ DOMAIN ruled' = Tasks
    BY DEF Session, GatewayTypes
  <2>2. \A u \in Tasks : u # t =>
               /\ mode'[u] = mode[u] /\ pinned'[u] = pinned[u] /\ listed'[u] = listed[u]
               /\ result'[u] = result[u] /\ inForce'[u] = inForce[u] /\ ruled'[u] = ruled[u]
               /\ u \in spent' <=> u \in spent
    BY <1>2
  <2>3. "done" \in Kinds \cup {"done"} /\ "done" # "call"
    OBVIOUS
  <2>. QED BY <1>1, <1>2, <2>1, <2>2, <2>3, TaskStep
<1>4. CallIsRuled(t)'
  <2>1. CallIsRuled(t)
    BY DEF CallsAreRuled
  <2>2. OnItsWay(t) \/ ran[t] > 0 => listed' = listed
    BY <1>1 DEF Session, CallsAreOnce
  <2>. QED BY <1>2, <1>3, <2>1, <2>2 DEF CallIsRuled, Ruled, Inside
<1>. QED BY <1>3, <1>4 DEF CallsAreRuled

LEMMA AnswerIsRead ==
    ASSUME GatewayInv, NEW t \in Tasks, NEW kind \in Kinds, Answer(t, kind)
    PROVE  /\ pc[t] = kind /\ answers # <<>> /\ answers' = Tail(answers) /\ UNCHANGED <<nextId, wire>>
           /\ OwnAnswer(t, Head(answers)) /\ Head(answers).kind = kind
<1>1. pc[t] = kind /\ waitId[t] # 0 /\ answers # <<>> /\ answers' = Tail(answers) /\ Head(answers).id = waitId[t]
      /\ UNCHANGED <<nextId, wire>>
  BY DEF Answer, InRpc
<1>2. OwnAnswer(t, Head(answers))
  BY <1>1, ReadOne DEF GatewayInv, Session, AnswersAreOwn
<1>. QED BY <1>1, <1>2 DEF OwnAnswer

-----------------------------------------------------------------------------
LEMMA ListedStep ==
    ASSUME GatewayInv, NEW t \in Calls, Listed(t)
    PROVE  GatewayInv'
<1>. DEFINE value == Head(answers).value
            outcome == IF Matches(value) THEN "listed" ELSE "refused"
<1>1. t \in Tasks /\ "list" \in Kinds
  BY DEF Tasks, Kinds
<1>2. /\ pc[t] = "list" /\ answers # <<>> /\ answers' = Tail(answers) /\ UNCHANGED <<nextId, wire>>
      /\ OwnAnswer(t, Head(answers)) /\ Head(answers).kind = "list"
  BY <1>1, AnswerIsRead DEF Listed
<1>3. /\ Ends(t, outcome) /\ listed' = [listed EXCEPT ![t] = value]
      /\ UNCHANGED <<version, policy, ran, mode, pinned, inForce, ruled, spent>>
  BY DEF Listed, downstream, history
<1>4. outcome \notin Calls
  BY GatewayAssumption DEF Outcomes
<1>5. outcome = "listed" => listed'[t] \in inForce[t]
  <2>1. listed'[t] = value
    BY <1>1, <1>3 DEF GatewayInv, Session, GatewayTypes
  <2>2. value \in inForce[t] \cup {None}
    BY <1>2 DEF OwnAnswer
  <2>. QED BY <2>1, <2>2 DEF Matches
<1>. HIDE DEF outcome, value
<1>. QED BY <1>2, <1>3, <1>4, <1>5, EndStep DEF Inside

LEMMA FinishedStep ==
    ASSUME GatewayInv, NEW t \in Calls, Finished(t)
    PROVE  GatewayInv'
<1>. DEFINE value == Head(answers).value
<1>1. t \in Tasks /\ "call" \in Kinds
  BY DEF Tasks, Kinds
<1>2. /\ pc[t] = "call" /\ answers # <<>> /\ answers' = Tail(answers) /\ UNCHANGED <<nextId, wire>>
      /\ OwnAnswer(t, Head(answers)) /\ Head(answers).kind = "call"
  BY <1>1, AnswerIsRead DEF Finished
<1>3. Ends(t, value) /\ UNCHANGED <<version, policy, ran, mode, pinned, listed, inForce, ruled, spent>>
  BY DEF Finished, downstream, history, mine
<1>4. value = None \/ (value = t /\ ran[t] = 1)
  BY <1>2 DEF OwnAnswer
<1>5. value # "listed" /\ (value \in Calls => value = t /\ ran[t] = 1)
  BY <1>1, <1>4, GatewayAssumption DEF Outcomes, Tasks
<1>. HIDE DEF value
<1>. QED BY <1>2, <1>3, <1>5, EndStep DEF Inside

LEMMA TimeOutStep ==
    ASSUME GatewayInv, NEW t \in Calls, TimeOut(t)
    PROVE  GatewayInv'
<1>1. "timeout" \notin Calls
  BY GatewayAssumption DEF Outcomes
<1>2. /\ Inside(t) /\ Ends(t, "timeout")
      /\ UNCHANGED <<nextId, wire, answers, version, policy, ran, mode, pinned, listed, inForce, ruled, spent>>
  BY DEF TimeOut, Waiting, Inside, Kinds, downstream, history, mine
<1>. QED BY <1>1, <1>2, EndStep

LEMMA FailStep ==
    ASSUME GatewayInv, NEW t \in Calls, Fail(t)
    PROVE  GatewayInv'
<1>1. "connection error" \notin Calls
  BY GatewayAssumption DEF Outcomes
<1>2. /\ Inside(t) /\ Ends(t, "connection error")
      /\ answers' = answers \/ (answers # <<>> /\ answers' = Tail(answers))
      /\ UNCHANGED <<nextId, wire, version, policy, ran, mode, pinned, listed, inForce, ruled, spent>>
  BY DEF Fail, Broken, InRpc, Waiting, Inside, Kinds, downstream, history, mine
<1>. QED BY <1>1, <1>2, EndStep


\* The decision: a call goes by the policy as it is, with its approval consumed if it is a retry.
LEMMA DecideGoes ==
    ASSUME GatewayInv, NEW t \in Calls, NEW as, Decide(t, as),
           t \notin spent, ~OnItsWay(t), ran[t] = 0, result[t] = None
    PROVE  /\ \E place \in {"list", "call", "done"} :
                 /\ GoTo(t, place)
                 /\ place = "call" => policy.effect # "deny" /\ (mode'[t] = "retry" <=> t \in spent')
                 /\ place # "call" => spent' = spent
                 /\ place # "done" => result' = result
                 /\ result'[t] \notin Calls /\ result'[t] # "listed"
                 /\ result'[t] # None => place = "done"
           /\ spent' \in {spent, spent \cup {t}} /\ pinned' = [pinned EXCEPT ![t] = policy.pin]
           /\ \E m : mode' = [mode EXCEPT ![t] = m]
           /\ DOMAIN result' = Tasks /\ \A u \in Tasks : u # t => result'[u] = result[u]
<1>. DEFINE verdict == Verdict(t, as)
            m == IF Asks(as) /\ ApprovedFor[t] # None THEN "retry" ELSE as
<1>1. t \in Tasks /\ DOMAIN mode = Tasks /\ DOMAIN result = Tasks
  BY DEF Tasks, GatewayInv, Session, GatewayTypes
<1>2. /\ mode' = [mode EXCEPT ![t] = m] /\ pinned' = [pinned EXCEPT ![t] = policy.pin]
      /\ \/ verdict \in {"list", "call"} /\ GoTo(t, verdict) /\ result' = result
         \/ verdict \notin {"list", "call"} /\ GoTo(t, "done") /\ result' = [result EXCEPT ![t] = verdict]
      /\ spent' = IF verdict = "call" /\ (Asks(as) \/ as = "retry") THEN spent \cup {t} ELSE spent
  BY DEF Decide, Goes, Ends
<1>3. verdict \in {"list", "call", "refused", "approval required"}
  BY DEF Verdict
<1>4. verdict = "call" => policy.effect # "deny" /\ ~(Asks(as) /\ ApprovedFor[t] = None)
  BY DEF Verdict
<1>5. mode'[t] = m /\ (verdict = "call" => (m = "retry" <=> Asks(as) \/ as = "retry"))
  BY <1>1, <1>2, <1>4
<1>6. None \notin Calls /\ None # "listed" /\ "refused" \notin Calls /\ "approval required" \notin Calls
  BY GatewayAssumption DEF Outcomes, Tasks
<1>. HIDE DEF verdict, m
<1>7. CASE verdict \in {"list", "call"} /\ GoTo(t, verdict) /\ result' = result
  BY <1>1, <1>2, <1>4, <1>5, <1>6, <1>7
<1>8. CASE verdict \notin {"list", "call"} /\ GoTo(t, "done") /\ result' = [result EXCEPT ![t] = verdict]
  <2>1. verdict \in {"refused", "approval required"} /\ result'[t] = verdict
    BY <1>1, <1>3, <1>8
  <2>. QED BY <1>1, <1>2, <1>6, <1>8, <2>1
<1>. QED BY <1>2, <1>7, <1>8

LEMMA VerifiedStep ==
    ASSUME GatewayInv, NEW t \in Calls, Verified(t)
    PROVE  GatewayInv'
<1>. USE DEF GatewayInv
<1>. DEFINE value == Head(answers).value
<1>1. t \in Tasks /\ "list" \in Kinds /\ t # Boot
  BY GatewayAssumption DEF Tasks, Kinds
<1>2. /\ pc[t] = "list" /\ answers # <<>> /\ answers' = Tail(answers) /\ UNCHANGED <<nextId, wire>>
      /\ OwnAnswer(t, Head(answers)) /\ Head(answers).kind = "list"
  BY <1>1, AnswerIsRead DEF Verified
<1>3. /\ listed' = [listed EXCEPT ![t] = value]
      /\ UNCHANGED <<version, policy, ran, inForce, ruled>>
      /\ \/ value # None /\ value = pinned[t] /\ Decide(t, mode[t])
         \/ /\ Ends(t, IF value = None THEN "connection error" ELSE "refused")
            /\ UNCHANGED <<mode, pinned, spent>>
  BY DEF Verified, downstream
<1>4. value \in inForce[t] \cup {None}
  BY <1>2 DEF OwnAnswer
<1>5. listed'[t] = value
  BY <1>1, <1>3 DEF Session, GatewayTypes
<1>6. /\ CallIsRuled(t) /\ Inside(t) /\ t \notin spent /\ ~OnItsWay(t) /\ ran[t] = 0 /\ result[t] = None
      /\ policy \in ruled[t] /\ version \in inForce[t] /\ \E p \in ruled[t] : p.pin = pinned[t]
  <2>1. CallIsRuled(t) /\ Inside(t)
    BY <1>2 DEF CallsAreRuled, Inside
  <2>2. ~OnItsWay(t) /\ ~(ran[t] > 0) /\ ran[t] \in Nat
    BY <1>2 DEF Session, CallsAreOnce, GatewayTypes
  <2>. QED BY <1>2, <2>1, <2>2 DEF CallIsRuled
<1>. HIDE DEF value
<1>7. /\ listed' = [listed EXCEPT ![t] = value] /\ wire' \subseteq wire
      /\ UNCHANGED <<nextId, version, policy, ran, inForce, ruled>>
  BY <1>2, <1>3
<1>8. CASE value # None /\ value = pinned[t] /\ Decide(t, mode[t])
  <2>1. PICK place \in {"list", "call", "done"} :
                 /\ GoTo(t, place)
                 /\ place = "call" => policy.effect # "deny" /\ (mode'[t] = "retry" <=> t \in spent')
                 /\ place # "call" => spent' = spent
                 /\ place # "done" => result' = result
                 /\ result'[t] \notin Calls /\ result'[t] # "listed"
                 /\ result'[t] # None => place = "done"
    BY <1>6, <1>8, DecideGoes
  <2>2. /\ spent' \in {spent, spent \cup {t}} /\ pinned' = [pinned EXCEPT ![t] = policy.pin]
        /\ \E m : mode' = [mode EXCEPT ![t] = m]
        /\ DOMAIN result' = Tasks /\ \A u \in Tasks : u # t => result'[u] = result[u]
    BY <1>6, <1>8, DecideGoes
  <2>3. /\ spent' \subseteq Calls /\ inForce' \in [Tasks -> SUBSET Versions]
        /\ DOMAIN mode' = Tasks /\ DOMAIN pinned' = Tasks /\ DOMAIN listed' = Tasks /\ DOMAIN ruled' = Tasks
        /\ pinned'[t] = policy.pin
    BY <1>1, <1>3, <2>2 DEF Session, GatewayTypes
  <2>4. \A u \in Tasks : u # t =>
               /\ mode'[u] = mode[u] /\ pinned'[u] = pinned[u] /\ listed'[u] = listed[u]
               /\ result'[u] = result[u] /\ inForce'[u] = inForce[u] /\ ruled'[u] = ruled[u]
               /\ u \in spent' <=> u \in spent
    BY <1>3, <2>2 DEF Session, GatewayTypes
  <2>5. place \in Kinds \cup {"done"}
    BY DEF Kinds
  <2>6. /\ Session' /\ pc'[t] = place /\ (OnItsWay(t)' => OnItsWay(t))
        /\ \A u \in Calls : u # t => CallIsRuled(u)'
    BY <1>1, <1>2, <1>7, <2>1, <2>2, <2>3, <2>4, <2>5, TaskStep
  <2>7. place = "call" => Ruled(t)'
    BY <1>3, <1>4, <1>5, <1>6, <1>8, <2>1 DEF Ruled
  <2>8. CallIsRuled(t)'
    BY <1>6, <1>7, <2>1, <2>3, <2>6, <2>7 DEF CallIsRuled, Inside
  <2>. QED BY <2>6, <2>8 DEF CallsAreRuled
<1>9. CASE /\ Ends(t, IF value = None THEN "connection error" ELSE "refused")
           /\ UNCHANGED <<mode, pinned, spent>>
  <2>1. "connection error" \notin Calls /\ "refused" \notin Calls
    BY GatewayAssumption DEF Outcomes
  <2>. DEFINE outcome == IF value = None THEN "connection error" ELSE "refused"
  <2>2. outcome \notin Calls /\ outcome # "listed" /\ Ends(t, outcome)
    BY <1>9, <2>1
  <2>. HIDE DEF outcome
  <2>. QED BY <1>2, <1>3, <1>6, <1>9, <2>2, EndStep
<1>. QED BY <1>3, <1>8, <1>9

LEMMA ArriveStep ==
    ASSUME GatewayInv, NEW t \in Calls, NEW as \in {"list", "call"}, Arrive(t, as)
    PROVE  GatewayInv'
<1>. USE DEF GatewayInv
<1>1. t \in Tasks /\ t # Boot
  BY GatewayAssumption DEF Tasks
<1>2. /\ pc[t] = "idle"
      /\ \/ policy.pin = None /\ Decide(t, as)
         \/ /\ mode' = [mode EXCEPT ![t] = as] /\ pinned' = [pinned EXCEPT ![t] = policy.pin]
            /\ GoTo(t, "list") /\ result' = result /\ spent' = spent
      /\ inForce' = [inForce EXCEPT ![t] = {version}] /\ ruled' = [ruled EXCEPT ![t] = {policy}]
      /\ UNCHANGED <<nextId, version, policy, ran, wire, answers, listed>>
  BY DEF Arrive, downstream, Goes
<1>3. /\ inForce'[t] = {version} /\ ruled'[t] = {policy}
      /\ \A u \in Tasks : u # t => inForce'[u] = inForce[u] /\ ruled'[u] = ruled[u]
      /\ inForce' \in [Tasks -> SUBSET Versions] /\ DOMAIN ruled' = Tasks /\ DOMAIN listed' = Tasks
  BY <1>1, <1>2 DEF Session, GatewayTypes
<1>4. /\ t \notin spent /\ ~OnItsWay(t) /\ ran[t] = 0 /\ result[t] = None
  <2>1. CallIsRuled(t)
    BY DEF CallsAreRuled
  <2>2. ~OnItsWay(t) /\ ~(ran[t] > 0) /\ ran[t] \in Nat
    BY <1>2 DEF Session, CallsAreOnce, GatewayTypes
  <2>. QED BY <1>2, <2>1, <2>2 DEF CallIsRuled
<1>5. \E place \in {"list", "call", "done"} :
                 /\ GoTo(t, place)
                 /\ place = "call" =>
                        policy.effect # "deny" /\ policy.pin = None /\ (mode'[t] = "retry" <=> t \in spent')
                 /\ place # "call" => spent' = spent
                 /\ result'[t] \notin Calls /\ result'[t] # "listed"
                 /\ result'[t] # None => place = "done"
  <2>1. CASE policy.pin = None /\ Decide(t, as)
    BY <1>4, <2>1, DecideGoes
  <2>2. CASE /\ mode' = [mode EXCEPT ![t] = as] /\ pinned' = [pinned EXCEPT ![t] = policy.pin]
             /\ GoTo(t, "list") /\ result' = result /\ spent' = spent
    <3>1. None \notin Calls /\ None # "listed"
      BY GatewayAssumption DEF Outcomes, Tasks
    <3>. QED BY <1>4, <2>2, <3>1
  <2>. QED BY <1>2, <2>1, <2>2
<1>6. /\ spent' \in {spent, spent \cup {t}} /\ pinned' = [pinned EXCEPT ![t] = policy.pin]
      /\ \E m : mode' = [mode EXCEPT ![t] = m]
      /\ DOMAIN result' = Tasks /\ \A u \in Tasks : u # t => result'[u] = result[u]
  <2>1. CASE policy.pin = None /\ Decide(t, as)
    BY <1>4, <2>1, DecideGoes
  <2>2. CASE /\ mode' = [mode EXCEPT ![t] = as] /\ pinned' = [pinned EXCEPT ![t] = policy.pin]
             /\ GoTo(t, "list") /\ result' = result /\ spent' = spent
    BY <2>2 DEF Session, GatewayTypes
  <2>. QED BY <1>2, <2>1, <2>2
<1>7. PICK place \in {"list", "call", "done"} :
                 /\ GoTo(t, place)
                 /\ place = "call" =>
                        policy.effect # "deny" /\ policy.pin = None /\ (mode'[t] = "retry" <=> t \in spent')
                 /\ place # "call" => spent' = spent
                 /\ result'[t] \notin Calls /\ result'[t] # "listed"
                 /\ result'[t] # None => place = "done"
  BY <1>5
<1>8. /\ spent' \subseteq Calls /\ DOMAIN mode' = Tasks /\ DOMAIN pinned' = Tasks /\ pinned'[t] = policy.pin
  BY <1>1, <1>6 DEF Session, GatewayTypes
<1>9. \A u \in Tasks : u # t =>
               /\ mode'[u] = mode[u] /\ pinned'[u] = pinned[u] /\ listed'[u] = listed[u]
               /\ result'[u] = result[u] /\ inForce'[u] = inForce[u] /\ ruled'[u] = ruled[u]
               /\ u \in spent' <=> u \in spent
  BY <1>2, <1>3, <1>6
<1>10. place \in Kinds \cup {"done"}
  BY DEF Kinds
<1>11. /\ Session' /\ pc'[t] = place /\ (OnItsWay(t)' => OnItsWay(t))
       /\ \A u \in Calls : u # t => CallIsRuled(u)'
  BY <1>1, <1>2, <1>3, <1>6, <1>7, <1>8, <1>9, <1>10, TaskStep
<1>12. CallIsRuled(t)'
  BY <1>2, <1>3, <1>4, <1>7, <1>8, <1>11 DEF CallIsRuled, Ruled, Inside
<1>. QED BY <1>11, <1>12 DEF CallsAreRuled

-----------------------------------------------------------------------------
\* The task that connects is none of the calls.
LEMMA BootStep ==
    ASSUME GatewayInv, NEW place \in {"initialize", "list", "done"}, GoTo(Boot, place),
           UNCHANGED <<nextId, version, policy, mode, pinned, listed, result, inForce, ruled, spent, ran>>,
           wire' \subseteq wire, answers' = answers \/ (answers # <<>> /\ answers' = Tail(answers))
    PROVE  GatewayInv'
<1>. USE DEF GatewayInv
<1>1. Boot \in Tasks /\ Boot \notin Calls /\ place \in Kinds \cup {"done"} /\ place # "call"
  BY GatewayAssumption DEF Tasks, Kinds
<1>2. /\ spent' \subseteq Calls /\ inForce' \in [Tasks -> SUBSET Versions] /\ DOMAIN result' = Tasks
      /\ DOMAIN mode' = Tasks /\ DOMAIN pinned' = Tasks /\ DOMAIN listed' = Tasks /\ DOMAIN ruled' = Tasks
  BY DEF Session, GatewayTypes
<1>3. Session' /\ \A u \in Calls : u # Boot => CallIsRuled(u)'
  BY <1>1, <1>2, TaskStep
<1>. QED BY <1>1, <1>3 DEF CallsAreRuled

\* Connecting; a failure closes what was opened.
LEMMA ConnectStep == ASSUME GatewayInv, Connect \/ Initialized \/ Ready \/ BootFails PROVE GatewayInv'
<1>. USE DEF mine, history, downstream, Goes, Answer
<1>1. CASE Connect
  BY <1>1, BootStep DEF Connect
<1>2. CASE Initialized
  BY <1>2, BootStep DEF Initialized
<1>3. CASE Ready
  BY <1>3, BootStep DEF Ready
<1>4. CASE BootFails
  BY <1>4, BootStep DEF BootFails
<1>. QED BY <1>1, <1>2, <1>3, <1>4

\* The downstream process and its lines; a task that skips one.
LEMMA DownstreamStep ==
    ASSUME GatewayInv,
           \/ \E t \in Tasks : Skip(t)
           \/ \E kind \in {"notification", "no JSON"} : Noise(kind)
           \/ Disconnect \/ Stop
    PROVE  GatewayInv'
<1>. USE DEF mine, history, downstream
<1>1. /\ version \in Versions /\ inForce \in [Tasks -> SUBSET Versions] /\ DOMAIN ruled = Tasks
      /\ answers \in Seq(Lines) /\ \A t \in Tasks : Inside(t) /\ t \in Calls => policy \in ruled[t] /\ version \in inForce[t]
  BY DEF GatewayInv, Session, GatewayTypes, CallsAreRuled, CallIsRuled
<1>. DEFINE Same == Quiet /\ UNCHANGED <<version, policy, inForce, ruled>>
<1>2. CASE \E t \in Tasks : Skip(t)
  <2>1. Same /\ wire' = wire /\ answers # <<>> /\ answers' = Tail(answers)
    BY <1>2 DEF Skip, Quiet
  <2>. QED BY <1>1, <2>1, ReadOne, QuietStep DEF GatewayInv, Session
<1>3. CASE \E kind \in {"notification", "no JSON"} : Noise(kind)
  <2>1. PICK kind \in {"notification", "no JSON"} : Noise(kind)
    BY <1>3
  <2>. DEFINE line == [id |-> 0, kind |-> kind, value |-> None]
  <2>2. line \in Lines /\ line.id = 0
    BY DEF Lines
  <2>3. Same /\ wire' = wire /\ answers' = Append(answers, line)
    BY <2>1 DEF Noise, Quiet
  <2>. HIDE DEF line
  <2>4. answers' \in Seq(Lines) /\ Unread' = Unread \cup {line}
    BY <2>2, <2>3, WriteOne DEF GatewayInv, Session
  <2>. QED BY <1>1, <2>2, <2>3, <2>4, QuietStep
<1>4. CASE Disconnect \/ Stop
  <2>1. Same /\ wire' = {} /\ answers' = answers
    BY <1>4 DEF Disconnect, Stop, Quiet
  <2>. QED BY <1>1, <2>1, QuietStep DEF Unread
<1>. QED BY <1>2, <1>3, <1>4

\* A new declaration and a new policy are in force for who is inside.
LEMMA RedeclareStep ==
    ASSUME GatewayInv, NEW v \in Versions, Redeclare(v)
    PROVE  GatewayInv'
<1>1. /\ version' = v /\ inForce' = [t \in Tasks |-> IF Inside(t) THEN inForce[t] \cup {v} ELSE inForce[t]]
      /\ Quiet /\ UNCHANGED <<policy, wire, answers, ruled>>
  BY DEF Redeclare, mine, session, Quiet
<1>2. /\ inForce \in [Tasks -> SUBSET Versions] /\ DOMAIN ruled = Tasks /\ answers \in Seq(Lines)
      /\ \A t \in Tasks : Inside(t) /\ t \in Calls => policy \in ruled[t] /\ version \in inForce[t]
  BY DEF GatewayInv, Session, GatewayTypes, CallsAreRuled, CallIsRuled
<1>3. inForce' \in [Tasks -> SUBSET Versions]
  BY <1>1, <1>2
<1>4. \A t \in Tasks : inForce[t] \subseteq inForce'[t] /\ (Inside(t) => v \in inForce'[t])
  BY <1>1
<1>. QED BY <1>1, <1>2, <1>3, <1>4, QuietStep DEF Unread

LEMMA ReloadStep ==
    ASSUME GatewayInv, NEW p \in Policies, reload_policy(p)
    PROVE  GatewayInv'
<1>1. /\ policy' = p /\ ruled' = [t \in Tasks |-> IF Inside(t) THEN ruled[t] \cup {p} ELSE ruled[t]]
      /\ Quiet /\ UNCHANGED <<version, wire, answers, inForce>>
  BY DEF reload_policy, mine, session, downstream, Quiet
<1>2. /\ inForce \in [Tasks -> SUBSET Versions] /\ version \in Versions /\ answers \in Seq(Lines)
      /\ \A t \in Tasks : Inside(t) /\ t \in Calls => policy \in ruled[t] /\ version \in inForce[t]
  BY DEF GatewayInv, Session, GatewayTypes, CallsAreRuled, CallIsRuled
<1>3. DOMAIN ruled' = Tasks /\ \A t \in Tasks : ruled[t] \subseteq ruled'[t] /\ (Inside(t) => p \in ruled'[t])
  BY <1>1
<1>. QED BY <1>1, <1>2, <1>3, QuietStep DEF Unread

LEMMA GatewayRests == ASSUME GatewayInv, UNCHANGED vars PROVE GatewayInv'
<1>1. /\ Quiet /\ UNCHANGED <<version, policy, wire, answers, inForce, ruled>>
  BY DEF vars, downstream, session, mine, history, Quiet
<1>2. /\ inForce \in [Tasks -> SUBSET Versions] /\ version \in Versions /\ answers \in Seq(Lines) /\ DOMAIN ruled = Tasks
      /\ \A t \in Tasks : Inside(t) /\ t \in Calls => policy \in ruled[t] /\ version \in inForce[t]
  BY DEF GatewayInv, Session, GatewayTypes, CallsAreRuled, CallIsRuled
<1>. QED BY <1>1, <1>2, QuietStep DEF Unread

LEMMA GatewayStep == GatewayInv /\ [Next]_vars => GatewayInv'
<1>. SUFFICES ASSUME GatewayInv, [Next]_vars PROVE GatewayInv'
  OBVIOUS
<1>1. CASE \E t \in Tasks : Send(t) \/ Skip(t)
  BY <1>1, SendStep, DownstreamStep
<1>2. CASE \E t \in Calls : \/ \E as \in {"list", "call"} : Arrive(t, as)
                           \/ Verified(t) \/ Listed(t) \/ Finished(t)
                           \/ TimeOut(t) \/ Fail(t)
  BY <1>2, ArriveStep, VerifiedStep, ListedStep, FinishedStep, TimeOutStep, FailStep
<1>3. CASE \E r \in wire, how \in {"result", "error"} : Serve(r, how)
  BY <1>3, ServeStep
<1>4. CASE (\E kind \in {"notification", "no JSON"} : Noise(kind)) \/ Disconnect \/ Stop
  BY <1>4, DownstreamStep
<1>5. CASE Connect \/ Initialized \/ Ready \/ BootFails
  BY <1>5, ConnectStep
<1>6. CASE (\E v \in Versions : Redeclare(v)) \/ (\E p \in Policies : reload_policy(p))
  BY <1>6, RedeclareStep, ReloadStep
<1>7. CASE UNCHANGED vars
  BY <1>7, GatewayRests
<1>. QED BY <1>1, <1>2, <1>3, <1>4, <1>5, <1>6, <1>7 DEF Next

LEMMA GatewayGoal == GatewayInv => AnswerIsOwn
<1>. SUFFICES ASSUME GatewayInv, NEW t \in Calls
              PROVE  /\ result[t] \in Calls => result[t] = t /\ ran[t] = 1
                     /\ ran[t] <= 1
                     /\ result[t] = "listed" => listed[t] \in inForce[t]
                     /\ ran[t] > 0 => Ruled(t)
  BY DEF AnswerIsOwn, Ruled
<1>1. CallIsRuled(t) /\ ran[t] <= 1
  BY DEF GatewayInv, CallsAreRuled, Session, CallsAreOnce
<1>. QED BY <1>1 DEF CallIsRuled

\* Over any number of requests, declarations and policies, a result is that of the
\* request's own call (_rpc, route_call, verify_tool_schema).
THEOREM AnswersStayOwn == Spec => []AnswerIsOwn
<1>. QED BY GatewayInit, GatewayStep, GatewayGoal, PTL DEF Spec
=============================================================================
