------------------------------- MODULE OAuthFlow -------------------------------
(***************************************************************************)
(* Logging in to an MCP server over HTTP: tools are listed                    *)
(* (cli/mcp_connections.py), a 401 leads to the discovery of the authorization  *)
(* server (cli/mcp_auth.py), to a login in the browser whose answer comes to a   *)
(* server on the loopback interface, and to an exchange of the code for tokens   *)
(* (cli/mcp_oauth.py); then the tools are listed again.                       *)
(*                                                                         *)
(* The MCP server, the authorization server and the name server answer anything; *)
(* so does whoever sends a request to the callback server, but for the state,     *)
(* which only the browser is shown. Well-known paths of one origin are one URL.  *)
(***************************************************************************)
EXTENDS Naturals, Sequences, FiniteSets, SequencesExt

CONSTANTS
    Servers,        \* URLs of the MCP server that is configured
    URLs,           \* URLs metadata may name: [scheme, host]
    Loopback,       \* hosts that are the loopback interface (is_loopback_host)
    Internal,       \* hosts that are refused by name or literal address (_is_private_or_metadata_ip)
    Codes,          \* authorization codes
    MaxAttempts,    \* MAX_AUTH_RETRY_ATTEMPTS
    None

VARIABLES
    server,     \* the URL of the MCP server
    step,       \* what the command line does next
    attempt,    \* _auth_attempt
    hint,       \* of the 401: [metadata, legacy], URLs or None
    found,      \* the authorization server that resource metadata names, or None
    meta,       \* the metadata of the authorization server, or None
    shown,      \* whether the browser has the authorization URL, and so the state
    callback,   \* the last callback [code, state, iss, error], whether it is heard (answered)
                \* and one was wrong (validation_error), or None
    token,      \* the token that is stored for the server, or None
    requested   \* history: requests made, [what, url, address, code]

vars == <<server, step, attempt, hint, found, meta, shown, callback, token, requested>>

NoHint == [metadata |-> None, legacy |-> None]

Init ==
    /\ server \in Servers /\ step = "list" /\ attempt = 0
    /\ hint = NoHint /\ found = None /\ meta = None
    /\ shown = FALSE /\ callback = None
    /\ token = None /\ requested = {}

-----------------------------------------------------------------------------
(***************************************************************************)
(* Requests: _validate_https_endpoint, _resolve_pinned_ip, _open_url.        *)
(***************************************************************************)
Local(url) == url.host \in Loopback

\* Mutant of AllowLoopback: its default.
AllowLoopbackDefault == TRUE

\* What a server that is not on the loopback interface names must not be on it.
AllowLoopback == Local(server)

ValidEndpoint(url, loopback) ==
    /\ url.scheme \in {"http", "https"}
    /\ Local(url) => loopback
    /\ url.scheme = "https" \/ Local(url)
    /\ url.host \notin Internal

\* What a host resolves to. Each address is looked at, and the first is dialled.
Answers == {<<"public">>, <<"private">>, <<"public", "private">>}
Dialled(url, answer) ==
    IF Local(url) THEN "loopback"
    ELSE IF "private" \in ToSet(answer) THEN None ELSE answer[1]

\* _open_url: a request that is valid goes out, with or without a code.
Open(what, url, loopback, answer, code) ==
    /\ ValidEndpoint(url, loopback)
    /\ Dialled(url, answer) # None
    /\ requested' = requested \cup {[what |-> what, url |-> url, address |-> Dialled(url, answer), code |-> code]}

Fails == step' = "failed"

-----------------------------------------------------------------------------
(***************************************************************************)
(* _discover_streamable_http_tools.                                        *)
(***************************************************************************)
\* The transport lists the tools, with the token when there is one.
List(status) ==
    /\ step = "list"
    /\ IF ~ValidEndpoint(server, TRUE) \/ status \notin {200, 401} THEN Fails
       ELSE IF status = 200 THEN step' = "listed"
       ELSE IF attempt >= MaxAttempts THEN Fails ELSE step' = "probe"
    /\ UNCHANGED <<server, attempt, hint, found, meta, shown, callback, token, requested>>

\* discover_mcp_tools_generic waits so long; the login does not let it interrupt.
TimeOut ==
    /\ step = "list" /\ Fails
    /\ UNCHANGED <<server, attempt, hint, found, meta, shown, callback, token, requested>>

-----------------------------------------------------------------------------
(***************************************************************************)
(* discover_mcp_auth_requirements.                                         *)
(***************************************************************************)
\* Step 1 and 2: 401 with a Bearer challenge, or 403 for want of a scope.
Probe(status, bearer, metadata, legacy) ==
    /\ step = "probe"
    /\ \E answer \in Answers : Open("probe", server, AllowLoopback, answer, None)
    /\ IF status \in {401, 403} /\ bearer /\ (metadata = None \/ ValidEndpoint(metadata, AllowLoopback))
       THEN hint' = [metadata |-> metadata, legacy |-> legacy] /\ step' = "resource"
       ELSE Fails /\ UNCHANGED hint
    /\ UNCHANGED <<server, attempt, found, meta, shown, callback, token>>

\* build_protected_resource_metadata_discovery_urls
ResourceURLs == IF hint.metadata = None THEN <<server>> ELSE <<hint.metadata, server>>

\* Step 3: from the first URL that has it, the first authorization server; a resource that
\* is another's, or none named, ends it all. A legacy hint goes without.
Resource(i, resource, as) ==
    /\ step = "resource"
    /\ hint.metadata # None \/ hint.legacy = None
    /\ i \in DOMAIN ResourceURLs
    /\ \E answer \in Answers : Open("resource", ResourceURLs[i], AllowLoopback, answer, None)
    /\ IF resource = "other" \/ as = None THEN Fails /\ UNCHANGED found
       ELSE IF ValidEndpoint(as, AllowLoopback) THEN found' = as /\ step' = "issuer"
                                                ELSE Fails /\ UNCHANGED found
    /\ UNCHANGED <<server, attempt, hint, meta, shown, callback, token>>

\* No URL has it (404 and the like), or none is asked.
NoResource ==
    /\ step = "resource"
    /\ step' = "issuer"
    /\ UNCHANGED <<server, attempt, hint, found, meta, shown, callback, token, requested>>

\* Step 4: whose metadata is expected.
ExpectedIssuer ==
    IF found # None THEN found ELSE IF hint.legacy # None THEN hint.legacy ELSE server

\* Mutant of Trusted: the token endpoint may be anywhere.
TrustedIssuer(m) ==
    /\ m.issuer = ExpectedIssuer
    /\ ValidEndpoint(m.authorize, AllowLoopback) /\ ValidEndpoint(m.token, AllowLoopback)
    /\ m.register = None \/ ValidEndpoint(m.register, AllowLoopback)

\* The issuer must be that one, and the token endpoint on its host.
Trusted(m) ==
    /\ m.issuer = ExpectedIssuer
    /\ ValidEndpoint(m.authorize, AllowLoopback) /\ ValidEndpoint(m.token, AllowLoopback)
    /\ m.token.host = m.issuer.host
    /\ m.register = None \/ ValidEndpoint(m.register, AllowLoopback)

Issuer(m) ==
    /\ step = "issuer"
    /\ \E answer \in Answers : Open("issuer", ExpectedIssuer, AllowLoopback, answer, None)
    /\ IF Trusted(m) THEN meta' = m /\ step' = "register" ELSE Fails /\ UNCHANGED meta
    /\ UNCHANGED <<server, attempt, hint, found, shown, callback, token>>

\* A request that is refused, an error of the server, or nothing found.
Abort ==
    /\ step \in {"probe", "resource", "issuer", "register", "exchange"}
    /\ Fails
    /\ UNCHANGED <<server, attempt, hint, found, meta, shown, callback, token, requested>>

-----------------------------------------------------------------------------
(***************************************************************************)
(* perform_oauth_flow and its callback server.                             *)
(***************************************************************************)
\* register_dynamic_client
Registered ==
    /\ meta.register # None
    /\ \E answer \in Answers : Open("register", meta.register, AllowLoopback, answer, None)

\* A client that is not known yet is registered; then the browser is opened.
Register(known) ==
    /\ step = "register"
    /\ IF known THEN UNCHANGED requested ELSE Registered
    /\ shown' = TRUE /\ step' = "wait"
    /\ UNCHANGED <<server, attempt, hint, found, meta, callback, token>>

Listening == step \in {"register", "wait", "exchange"}

\* IsolatedCallbackHandler.do_GET: a request with another Host or path leaves no trace. The
\* first callback that is answered is kept, right or wrong, and later ones are turned away
\* (duplicate_detected). Of one with an error nothing else is looked at.
Unheard == callback # None => ~callback.heard

Kept(code, state, iss, error) ==
    [heard |-> TRUE, code |-> code, state |-> state, iss |-> iss, error |-> error,
     wrong |-> \/ callback # None /\ callback.wrong
               \/ error = None /\ (state # "own" \/ iss \notin {None, meta.issuer} \/ code = None)]

Callback(code, state, iss, error) ==
    /\ Listening /\ Unheard
    /\ state = "own" => shown
    /\ error # None => code = None /\ state = "other" /\ iss = None
    /\ callback' = Kept(code, state, iss, error)
    /\ UNCHANGED <<server, step, attempt, hint, found, meta, shown, token, requested>>

\* One that cannot be answered is replaced by the next, but for its validation_error.
Unanswered(wrong) ==
    /\ Listening /\ Unheard
    /\ callback # None /\ callback.wrong => wrong
    /\ callback' = [heard |-> FALSE, wrong |-> wrong]
    /\ UNCHANGED <<server, step, attempt, hint, found, meta, shown, token, requested>>

\* Mutant of Valid: the state is not compared, neither now nor by the handler.
ValidAnyState ==
    callback.error = None /\ callback.code # None /\ callback.iss \in {None, meta.issuer}

\* OAuthCallbackState.validate
Valid ==
    /\ ~callback.wrong /\ callback.error = None /\ callback.code # None
    /\ callback.state = "own"
    /\ callback.iss \in {None, meta.issuer}

Wait ==
    /\ step = "wait"
    /\ IF Unheard THEN Fails        \* the time is over
       ELSE IF Valid THEN step' = "exchange" ELSE Fails
    /\ UNCHANGED <<server, attempt, hint, found, meta, shown, callback, token, requested>>

\* The code for a token, which is stored; then the tools are listed again.
Exchange ==
    /\ step = "exchange"
    /\ \E answer \in Answers : Open("token", meta.token, AllowLoopback, answer, callback.code)
    /\ token' = callback.code
    /\ step' = "list" /\ attempt' = attempt + 1
    /\ hint' = NoHint /\ found' = None /\ meta' = None
    /\ shown' = FALSE /\ callback' = None
    /\ UNCHANGED server

Metadata == [issuer : URLs, authorize : URLs, token : URLs, register : URLs \cup {None}]
Optional == URLs \cup {None}

Next ==
    \/ \E status \in {200, 401, 500} : List(status)
    \/ TimeOut
    \/ \E status \in {200, 401, 403}, bearer \in BOOLEAN, metadata, legacy \in Optional :
          Probe(status, bearer, metadata, legacy)
    \/ \E i \in 1 .. 2, resource \in {"this", "other"}, as \in Optional : Resource(i, resource, as)
    \/ NoResource
    \/ \E m \in Metadata : Issuer(m)
    \/ Abort
    \/ \E known \in BOOLEAN : Register(known)
    \/ \E code \in Codes \cup {None}, state \in {"own", "other"}, iss \in Optional, error \in {None, "denied"} :
          Callback(code, state, iss, error)
    \/ \E wrong \in BOOLEAN : Unanswered(wrong)
    \/ Wait
    \/ Exchange

Spec == Init /\ [][Next]_vars
-----------------------------------------------------------------------------
\* Whatever a remote server and the name server answer, no request of a login goes to the
\* loopback interface, to a private address, or in clear.
RequestsStayOutside ==
    ~Local(server) =>
        \A r \in requested : r.url.scheme = "https" /\ ~Local(r.url) /\ r.address = "public"

\* A code is sent only while a callback with the state of this login is kept, the first
\* that was answered, and to the host of the issuer this login expected and asked.
CodeGoesToItsIssuer ==
    \A r \in requested' \ requested :
        r.what = "token" =>
            /\ shown /\ callback.state = "own" /\ r.code = callback.code
            /\ r.url.host = ExpectedIssuer.host
            /\ callback.iss \in {None, ExpectedIssuer}
            /\ \E q \in requested : q.what = "issuer" /\ q.url = ExpectedIssuer
CodesGoToTheirIssuer == [][CodeGoesToItsIssuer]_vars
=============================================================================
