-------------------------------- MODULE Services --------------------------------
(***************************************************************************)
(* The services around the core side by side: each behaviour is one of       *)
(* McpGateway, McpRouting, CredentialStore, ThreadStores, WebhookDelivery,   *)
(* OAuthFlow, Dashboard or LoginLimiter, and the variables of the others do   *)
(* not change.                                                             *)
(***************************************************************************)
EXTENDS McpGateway

CONSTANTS
    Gateways, Names, Tokens, Agents, DefaultAgent, ArgumentSets,        \* McpRouting
    Procs, Accounts, Backends, MaxTokens, MaxFaults,                    \* CredentialStore
    DatabaseUrls, Workers, Idents, MaxStores, MaxCloses,                \* ThreadStores
    Configs, Ranges, Texts, MaxLength, MaxNotices,                      \* WebhookDelivery
    Servers, URLs, Loopback, Internal, Codes, MaxLogins,                \* OAuthFlow
    Browsers, Identities, Idle, Hard, MaxEntries, MaxIds, MaxTime,      \* Dashboard
    Address, Window, MaxAttempts                                        \* LoginLimiter

VARIABLES
    part,
    gw, asked, reached,                                                 \* McpRouting
    kept, keyring, file, lock, doing, at, read, issued, faults,         \* CredentialStore
    good, late, out, quiet, lost,
    backend, ident, ended, local, byIdent, all, opened, closed,         \* ThreadStores
    where, using, closes,
    config, notice, turn, address, sent, refused, notices,              \* WebhookDelivery
    server, step, attempt, hint, found, meta, shown, callback, token,   \* OAuthFlow
    requested,
    now, proxied, sessions, cookie, ids, inside, decided,               \* Dashboard
    clock, attempts, stage, calls, alone, lone                          \* LoginLimiter

routing     == <<gw, asked, reached>>
credentials == <<kept, keyring, file, lock, doing, at, read, issued, faults, good, late,
                 out, quiet, lost>>
threads     == <<backend, ident, ended, local, byIdent, all, opened, closed, where, using, closes>>
posts       == <<config, notice, turn, address, sent, refused, notices>>
login       == <<server, step, attempt, hint, found, meta, shown, callback, token, requested>>
dashboard   == <<now, proxied, sessions, cookie, ids, inside, decided>>
limiter     == <<clock, attempts, stage, calls, alone, lone>>
suite       == <<part, vars, routing, credentials, threads, posts, login, dashboard, limiter>>

-----------------------------------------------------------------------------
Routing == INSTANCE McpRouting

\* An account is a server that credentials are stored for.
Credentials == INSTANCE CredentialStore WITH Servers <- Accounts, backend <- kept

Stores == INSTANCE ThreadStores WITH Urls <- DatabaseUrls, Threads <- Workers

Posts == INSTANCE WebhookDelivery WITH pinned <- address

OAuth == INSTANCE OAuthFlow WITH MaxAttempts <- MaxLogins

Board == INSTANCE Dashboard WITH Clients <- Browsers

Limiter == INSTANCE LoginLimiter WITH Clients <- Browsers

-----------------------------------------------------------------------------
\* What the proofs take from the constants: names, texts and the answers of a name server
\* are sequences, a configuration is finite, limits are numbers, and None is none of the
\* values that a field holds.
ArgumentValues == UNION {{args[k] : k \in DOMAIN args} : args \in ArgumentSets}
ArgumentKeys   == UNION {DOMAIN args : args \in ArgumentSets}
NamePieces     == {"."} \cup UNION {DOMAIN g.tools : g \in Gateways}
                        \cup UNION {{n[i] : i \in DOMAIN n} : n \in Names}
ToolPlaces     == [home : NamePieces, tool : Names]
ForwardedCalls == [home : NamePieces, tool : Names, agent : Agents,
                   arguments : UNION {[D -> ArgumentValues] : D \in SUBSET ArgumentKeys},
                   resource : {None}, approval : ArgumentValues \cup {None}]

ASSUME RoutingAssumption ==
    /\ \A g \in Gateways :
          /\ IsFiniteSet(DOMAIN g.tools)
          /\ \A t \in DOMAIN g.tokens : g.tokens[t] \in Agents
    /\ DefaultAgent \in Agents
    /\ Names \subseteq Seq(NamePieces) \ {<<>>}
    /\ None \notin ToolPlaces /\ None \notin ForwardedCalls

ASSUME CredentialsAssumption ==
    None \notin Nat \cup Accounts \cup Procs \cup {"save", "delete", "clear"}

ASSUME ThreadsAssumption == None \notin Nat \cup Idents

Letters == {"space", "redacted", "zwsp"} \cup UNION {{text[i] : i \in DOMAIN text} : text \in Texts}

ASSUME PostsAssumption ==
    /\ Texts \subseteq Seq(Letters) /\ MaxLength \in Nat
    /\ \A c \in Configs : \A i \in DOMAIN Posts!Platforms : c.urls[Posts!Platforms[i]] # None =>
          \A answer \in Ranges[c.urls[Posts!Platforms[i]].host] : answer # <<>> => 1 \in DOMAIN answer
    /\ \A text \in Texts : None # [raw |-> text, text |-> Posts!Sanitize(text)]

ASSUME BoardAssumption ==
    /\ IsFiniteSet(Browsers) /\ None \notin Browsers
    /\ Idle \in Nat /\ Hard \in Nat /\ Window \in Nat
    /\ MaxEntries \in Nat /\ MaxAttempts \in Nat /\ MaxIds \in Nat

-----------------------------------------------------------------------------
\* The parts that a behaviour is not about, each in a fixed state.
GatewayOff ==
    /\ gateway = "closed" /\ alive = FALSE /\ version = None /\ policy = None /\ changes = 0
    /\ nextId = 0 /\ holder = None /\ wire = {} /\ answers = <<>>
    /\ pc = [t \in Tasks |-> "idle"] /\ waitId = [t \in Tasks |-> 0]
    /\ mode = [t \in Tasks |-> None] /\ pinned = [t \in Tasks |-> None]
    /\ listed = [t \in Tasks |-> None] /\ result = [t \in Tasks |-> None]
    /\ inForce = [t \in Tasks |-> {}] /\ ruled = [t \in Tasks |-> {}]
    /\ spent = {} /\ ran = [t \in Calls |-> 0]
RoutingOff == gw = None /\ asked = None /\ reached = None
CredentialsOff ==
    /\ kept = "file" /\ keyring = <<>> /\ file = <<>> /\ lock = None /\ doing = <<>> /\ at = <<>>
    /\ read = <<>> /\ issued = 0 /\ faults = 0 /\ good = {} /\ late = {}
    /\ out = {} /\ quiet = {} /\ lost = {}
ThreadsOff ==
    /\ backend = "sql" /\ ident = <<>> /\ ended = {} /\ local = <<>> /\ byIdent = <<>> /\ all = {}
    /\ opened = 0 /\ closed = {} /\ where = <<>> /\ using = <<>> /\ closes = 0
PostsOff ==
    /\ config = None /\ notice = None /\ turn = 1 /\ address = None
    /\ sent = {} /\ refused = {} /\ notices = 0
LoginOff ==
    /\ server = None /\ step = "done" /\ attempt = 0 /\ hint = None /\ found = None /\ meta = None
    /\ shown = FALSE /\ callback = None /\ token = None /\ requested = {}
DashboardOff ==
    /\ now = 0 /\ proxied = FALSE /\ sessions = <<>> /\ cookie = <<>> /\ ids = 0
    /\ inside = <<>> /\ decided = None
LimiterOff ==
    /\ clock = 0 /\ attempts = <<>> /\ stage = <<>> /\ calls = <<>> /\ alone = None /\ lone = <<>>

Parts == {"gateway", "routing", "credentials", "threads", "posts", "login", "dashboard", "limiter"}

ServicesInit ==
    /\ part \in Parts
    /\ IF part = "gateway"     THEN Init             ELSE GatewayOff
    /\ IF part = "routing"     THEN Routing!Init     ELSE RoutingOff
    /\ IF part = "credentials" THEN Credentials!Init ELSE CredentialsOff
    /\ IF part = "threads"     THEN Stores!Init     ELSE ThreadsOff
    /\ IF part = "posts"       THEN Posts!Init       ELSE PostsOff
    /\ IF part = "login"       THEN OAuth!Init       ELSE LoginOff
    /\ IF part = "dashboard"   THEN Board!Init       ELSE DashboardOff
    /\ IF part = "limiter"     THEN Limiter!Init     ELSE LimiterOff

ServicesNext ==
    \/ part = "gateway" /\ Next
       /\ UNCHANGED <<part, routing, credentials, threads, posts, login, dashboard, limiter>>
    \/ part = "routing" /\ Routing!Next
       /\ UNCHANGED <<part, vars, credentials, threads, posts, login, dashboard, limiter>>
    \/ part = "credentials" /\ Credentials!Next
       /\ UNCHANGED <<part, vars, routing, threads, posts, login, dashboard, limiter>>
    \/ part = "threads" /\ Stores!Next
       /\ UNCHANGED <<part, vars, routing, credentials, posts, login, dashboard, limiter>>
    \/ part = "posts" /\ Posts!Next
       /\ UNCHANGED <<part, vars, routing, credentials, threads, login, dashboard, limiter>>
    \/ part = "login" /\ OAuth!Next
       /\ UNCHANGED <<part, vars, routing, credentials, threads, posts, dashboard, limiter>>
    \/ part = "dashboard" /\ Board!Next
       /\ UNCHANGED <<part, vars, routing, credentials, threads, posts, login, limiter>>
    \/ part = "limiter" /\ Limiter!Next
       /\ UNCHANGED <<part, vars, routing, credentials, threads, posts, login, dashboard>>

ServicesSpec == ServicesInit /\ [][ServicesNext]_suite
-----------------------------------------------------------------------------
\* A listed name, called, reaches the tool it was listed for or nothing.
CallsReachTheirTool == part = "routing" => Routing!CallsReachTheirTool

\* What is loaded for a server is a token its authorization server still takes, and
\* nothing after a logout, unless a fault left it spent and nothing has been saved since.
StoredTokenIsGood == part = "credentials" => Credentials!StoredTokenIsGood

\* Writing one server's record changes no other's.
OthersKept == [][part = "credentials" => Credentials!KeepsOthers]_suite

\* Threads never share a SQLite store, and every open one is closed by close().
EachThreadItsStore == part = "threads" => Stores!EachThreadItsStore

\* Notices go to public or allowed addresses, harmless, and once to every platform.
NoticesStayInBounds == part = "posts" => Posts!NoticesStayInBounds

\* No request of a login to a remote server goes to an internal address or in clear.
RequestsStayOutside == part = "login" => OAuth!RequestsStayOutside

\* A code is sent only to the issuer that was expected, for the callback of this login.
CodesGoToTheirIssuer == [][part = "login" => OAuth!CodeGoesToItsIssuer]_suite

\* Failures recorded apart from other calls of the limiter are counted while they should.
FailuresAreLimited == part = "limiter" => Limiter!FailuresAreLimited

\* Only a live session or the token decides, in the name that came with the request.
SessionsGuardDecisions == [][part = "dashboard" => Board!GuardsDecision]_suite
=============================================================================
