------------------------------- MODULE Dashboard -------------------------------
(***************************************************************************)
(* The dashboard (dashboard/app.py, auth.py, routes.py, core_client.py): logins  *)
(* with the token, sessions with an idle and a hard limit, and decisions about    *)
(* one approval. The middleware of a request runs in the event loop; its handler   *)
(* runs in a thread, later, with the session the middleware found. Whether the       *)
(* limiter lets a login through is left open here (LoginLimiter).              *)
(*                                                                         *)
(* A session's id stands for its CSRF token too; a page of a session has it.     *)
(***************************************************************************)
EXTENDS Naturals, FiniteSets

CONSTANTS
    Clients,        \* browsers and programs, each with one request at a time
    Identities,     \* what a form or the header of the proxy names
    Idle, Hard,     \* SESSION_IDLE_TIMEOUT_SECONDS, SESSION_HARD_TIMEOUT_SECONDS
    MaxEntries,     \* SESSION_MAX_ENTRIES
    MaxIds, MaxTime,\* bounds on sessions made and on the clock
    None

VARIABLES
    now,
    proxied,        \* whether a trusted proxy sends the identity in a header
    sessions,       \* per id, [identity, born, active] or None
    cookie,         \* per client, the id in its cookie or None
    ids,            \* sessions made so far
    inside,         \* per client, its request with the session found, or None
    decided         \* who has decided about the approval, or None

vars == <<now, proxied, sessions, cookie, ids, inside, decided>>

SessionIds == 1 .. MaxIds
Live       == {s \in SessionIds : sessions[s] # None}

Init ==
    /\ now = 0 /\ proxied \in BOOLEAN
    /\ sessions = [s \in SessionIds |-> None] /\ cookie = [c \in Clients |-> None] /\ ids = 0
    /\ inside = [c \in Clients |-> None]
    /\ decided = None

Tick ==
    /\ now < MaxTime /\ now' = now + 1
    /\ UNCHANGED <<proxied, sessions, cookie, ids, inside, decided>>

-----------------------------------------------------------------------------
(***************************************************************************)
(* The middleware.                                                         *)
(***************************************************************************)
\* Each is a POST. A login has the token or another, and a name in its form or from the
\* proxy; what else a request has, in its header or from a page of a session.
LoginNames == Identities \cup {None}
Logins == [what : {"login"}, token : BOOLEAN, bearer : {FALSE}, name : LoginNames]
Orders == [what : {"decide"}, bearer : BOOLEAN, page : {"own", None},
           name : IF proxied THEN LoginNames ELSE {None}] \cup
          [what : {"logout"}, bearer : BOOLEAN, page : {"own", None}, name : {None}]

\* Mutant of Expired: the idle limit is left out.
ExpiredHard(s) == sessions[s].born + Hard <= now

\* prune_sessions and the check of the request's own session.
Expired(s) == sessions[s].born + Hard <= now \/ sessions[s].active + Idle <= now

\* Of those the most recently active stay; of equals, the newer.
Later(s, u) == sessions[s].active > sessions[u].active
               \/ (sessions[s].active = sessions[u].active /\ s > u)
Fresh == {s \in Live : ~Expired(s)}
Kept  == {s \in Fresh : Cardinality({u \in Fresh : Later(u, s)}) < MaxEntries}

\* The session of a request: of the token in its header, or of its cookie; with a proxy the
\* identity is the proxy's, and without its header there is none.
Session(c, r) ==
    IF r.bearer THEN [identity |-> "bearer-api", source |-> "bearer"]
    ELSE IF cookie[c] = None \/ cookie[c] \notin Kept THEN None
    ELSE IF proxied THEN [identity |-> r.name,
                         source |-> IF r.name = None THEN "missing" ELSE "proxy"]
    ELSE [identity |-> sessions[cookie[c]].identity, source |-> "session"]

\* For the property alone: the limits, told apart from the code's test of them.
InTime(s) == now < sessions[s].active + Idle /\ now < sessions[s].born + Hard

\* security_middleware, for what it lets through: an own origin, or the token.
Arrive(c, r, own) ==
    /\ inside[c] = None
    /\ r.bearer \/ own
    /\ LET found == IF r.what = "login" THEN None ELSE Session(c, r)
           mine  == r.what # "login" /\ cookie[c] \in Kept
       IN  /\ sessions' = [s \in SessionIds |->
                              IF s \notin Kept THEN None
                              ELSE IF mine /\ s = cookie[c]
                                   THEN [sessions[s] EXCEPT !.active = now] ELSE sessions[s]]
           /\ IF r.what # "login" /\ found = None THEN UNCHANGED inside
              ELSE inside' = [inside EXCEPT ![c] =
                                 [request |-> r, session |-> found,
                                  timely |-> mine /\ r.what = "decide" => InTime(cookie[c])]]
    /\ UNCHANGED <<now, proxied, cookie, ids, decided>>

Answered(c) == inside' = [inside EXCEPT ![c] = None]
Handles(c, what) == inside[c] # None /\ inside[c].request.what = what

-----------------------------------------------------------------------------
(***************************************************************************)
(* The handlers.                                                           *)
(***************************************************************************)
\* login_submit: refused by the limiter, or for a wrong token.
LoginRefused(c) ==
    /\ Handles(c, "login")
    /\ Answered(c)
    /\ UNCHANGED <<now, proxied, sessions, cookie, ids, decided>>

\* The right token makes a new session in place of the old.
Login(c) ==
    /\ Handles(c, "login") /\ inside[c].request.token /\ ids < MaxIds
    /\ LET named == inside[c].request.name
           rest  == [s \in SessionIds |-> IF s = cookie[c] THEN None ELSE sessions[s]]
       IN  IF proxied /\ named = None
           THEN sessions' = rest /\ UNCHANGED <<ids, cookie>>
           ELSE /\ ids' = ids + 1 /\ cookie' = [cookie EXCEPT ![c] = ids + 1]
                /\ sessions' = [rest EXCEPT ![ids + 1] =
                                   [identity |-> IF named = None THEN "dashboard-approver" ELSE named,
                                    born |-> now, active |-> now]]
    /\ Answered(c)
    /\ UNCHANGED <<now, proxied, decided>>

\* The CSRF token of the session that was found; the bearer token goes without.
PageFits(c) ==
    \/ inside[c].session.source = "bearer" /\ inside[c].request.page = None
    \/ inside[c].session.source # "bearer" /\ inside[c].request.page = "own"

Logout(c) ==
    /\ Handles(c, "logout")
    /\ IF inside[c].session.source # "bearer" /\ PageFits(c)
       THEN /\ sessions' = [s \in SessionIds |-> IF s = cookie[c] THEN None ELSE sessions[s]]
            /\ cookie' = [cookie EXCEPT ![c] = None]
       ELSE UNCHANGED <<sessions, cookie>>
    /\ Answered(c)
    /\ UNCHANGED <<now, proxied, ids, decided>>

\* approve_approval, reject_approval: the store takes the first decision, of either kind.
Decide(c) ==
    /\ Handles(c, "decide")
    /\ IF inside[c].session.source # "missing" /\ PageFits(c) /\ decided = None
       THEN decided' = inside[c].session.identity
       ELSE UNCHANGED decided
    /\ Answered(c)
    /\ UNCHANGED <<now, proxied, sessions, cookie, ids>>

\* Of a behaviour the part up to the decision is of interest.
Next ==
    /\ decided = None
    /\ \/ Tick
       \/ \E c \in Clients :
             \/ \E r \in Logins \cup Orders, own \in BOOLEAN : Arrive(c, r, own)
             \/ LoginRefused(c) \/ Login(c) \/ Logout(c) \/ Decide(c)

Spec == Init /\ [][Next]_vars
-----------------------------------------------------------------------------
\* Who decides has the token, or a session that was in its limits when the request came
\* in; and behind a proxy the decision is in the name the proxy gave for that request.
DecidedBy(c) ==
    /\ inside[c] # None
    /\ inside[c].request.what = "decide"
    /\ \/ inside[c].request.bearer /\ decided' = "bearer-api"
       \/ /\ inside[c].timely /\ inside[c].request.page = "own"
          /\ proxied => inside[c].request.name # None /\ decided' = inside[c].request.name

\* Past the bound of the session table go no more than the logins tried side by side.
TableHolds == Cardinality(Live) <= MaxEntries + Cardinality(Clients)

\* Both, at every step.
GuardsDecision == TableHolds' /\ (decided' # decided => \E c \in Clients : DecidedBy(c))
SessionsGuardDecisions == [][GuardsDecision]_vars
=============================================================================
