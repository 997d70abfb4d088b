---------------------------- MODULE WebhookDelivery ----------------------------
(***************************************************************************)
(* Webhooks (core/webhooks.py): a notice goes to each configured platform in  *)
(* turn. The URL is validated and its host resolved, and the POST goes to the  *)
(* address found then, whatever the name server says later. What fails is       *)
(* logged and the next platform has its turn; nothing is sent again.           *)
(*                                                                         *)
(* A text is the sequence of the pieces that matter: "url" (a scheme and "://"), *)
(* "secret", "at" (the sign), "everyone", "newline"; "redacted" and "zwsp" are    *)
(* what the code puts in.                                                   *)
(***************************************************************************)
EXTENDS Naturals, Sequences, FiniteSets

CONSTANTS
    Configs,    \* [urls: per platform [scheme, host, user] or None; allowed: set of hosts]
    Ranges,     \* per host, the sequences of addresses a resolution may find
    Texts,      \* texts of the request: tool, action, resource, agent
    MaxLength,  \* of a field (256 characters)
    MaxNotices, \* bound on notices
    None

Platforms == <<"slack", "discord", "teams">>

VARIABLES
    config,
    notice,     \* the notice that is sent, [raw, text], or None
    turn,       \* index of the platform that has its turn
    pinned,     \* the address its URL was validated with, or None
    sent,       \* history: POSTs of this notice, [platform, url, address, notice]
    refused,    \* history: platforms of this notice whose URL was refused
    notices     \* bound counter

vars == <<config, notice, turn, pinned, sent, refused, notices>>

-----------------------------------------------------------------------------
(***************************************************************************)
(* Texts: sanitize_webhook_field.                                          *)
(***************************************************************************)
Break(c) == c \in {"newline", "space"}

\* The positions in a set, in order.
InOrder(set) ==
    [i \in 1 .. Cardinality(set) |-> CHOOSE k \in set : Cardinality({j \in set : j < k}) = i - 1]

\* Newlines become one space; those at the ends go.
OneLine(text) ==
    LET solid == {i \in DOMAIN text : ~Break(text[i])}
        kept  == InOrder({i \in DOMAIN text : /\ \E first, last \in solid : first <= i /\ i <= last
                                              /\ text[i] # "newline" \/ text[i-1] # "newline"})
    IN  [i \in DOMAIN kept |-> IF text[kept[i]] = "newline" THEN "space" ELSE text[kept[i]]]

\* scheme://userinfo@: from a "url" to the last "at" with no break and no slash between
\* (the "://" of another URL has slashes).
Userinfo(text, u, a) ==
    /\ text[u] = "url" /\ text[a] = "at" /\ u + 1 < a
    /\ \A k \in u+1 .. a-1 : ~Break(text[k]) /\ text[k] # "url"

\* Positions of user information: all but the first become nothing, that one "redacted".
Hidden(text)  == {k \in DOMAIN text : \E u, a \in DOMAIN text : u < k /\ k < a /\ Userinfo(text, u, a)}
Redact(text) ==
    LET kept == InOrder({k \in DOMAIN text : k \notin Hidden(text) \/ (k - 1) \notin Hidden(text)})
    IN  [i \in DOMAIN kept |-> IF kept[i] \in Hidden(text) THEN "redacted" ELSE text[kept[i]]]

Truncate(text) == SubSeq(text, 1, IF Len(text) < MaxLength THEN Len(text) ELSE MaxLength)

\* A mention gets a character of no width after its "at", which moves what follows.
Mentions(text) == {k \in 1 .. Len(text) - 1 : text[k] = "at" /\ text[k+1] = "everyone"}
Moved(text, k) == k + Cardinality({j \in Mentions(text) : j < k})
Neutralize(text) ==
    [i \in 1 .. Len(text) + Cardinality(Mentions(text)) |->
        IF \E k \in DOMAIN text : Moved(text, k) = i
        THEN text[CHOOSE k \in DOMAIN text : Moved(text, k) = i] ELSE "zwsp"]

\* Mutant of Sanitize: shortened before it is redacted.
SanitizeShortened(text) == Neutralize(Redact(Truncate(OneLine(text))))

Sanitize(text) == Neutralize(Truncate(Redact(OneLine(text))))

-----------------------------------------------------------------------------
(***************************************************************************)
(* Destinations: validate_webhook_url.                                     *)
(***************************************************************************)
\* _is_prohibited_ip; an IPv4 address in IPv6 is what it stands for.
ProhibitedRanges == {"loopback", "private", "link_local", "reserved", "multicast", "unspecified",
                     "metadata", "shared", "this_network"}
Prohibited(address) == address.range \in ProhibitedRanges \/ address.mapped \in ProhibitedRanges

\* _resolve_webhook_ips: every address is looked at, the first is used.
Resolved(answer, private) ==
    IF answer = <<>> \/ (~private /\ \E i \in DOMAIN answer : Prohibited(answer[i]))
    THEN None ELSE answer[1]

LocalNames == {"localhost", "localhost.localdomain", "ip6-localhost", "ip6-loopback"}

\* The address to pin, or None for a URL that is refused.
Validated(url, answer) ==
    IF url.user \/ url.host = None THEN None
    ELSE IF url.host \in config.allowed
         THEN IF url.scheme \in {"http", "https"} THEN Resolved(answer, TRUE) ELSE None
         ELSE IF url.scheme = "https" /\ url.host \notin LocalNames
              THEN Resolved(answer, FALSE) ELSE None

-----------------------------------------------------------------------------
(***************************************************************************)
(* Dispatch: send_approval_required, send_policy_denied.                    *)
(***************************************************************************)
Init ==
    /\ config \in Configs /\ notice = None /\ turn = 1 /\ pinned = None
    /\ sent = {} /\ refused = {} /\ notices = 0

\* is_configured, and the payload with the fields of the request.
Notify ==
    /\ notice = None /\ notices < MaxNotices
    /\ \E i \in DOMAIN Platforms : config.urls[Platforms[i]] # None
    /\ \E text \in Texts : notice' = [raw |-> text, text |-> Sanitize(text)]
    /\ notices' = notices + 1
    /\ turn' = 1 /\ sent' = {} /\ refused' = {}
    /\ UNCHANGED <<config, pinned>>

Platform == Platforms[turn]
URL      == config.urls[Platform]

NextTurn ==
    IF turn < Len(Platforms) THEN turn' = turn + 1 /\ UNCHANGED notice
                             ELSE turn' = 1 /\ notice' = None

Skip ==
    /\ notice # None /\ pinned = None /\ URL = None
    /\ NextTurn
    /\ UNCHANGED <<config, pinned, sent, refused, notices>>

\* validate_webhook_url in _dispatch_safe: a refusal is logged.
Validate ==
    /\ notice # None /\ pinned = None /\ URL # None /\ Platform \notin refused
    /\ \E answer \in Ranges[URL.host] :
          LET address == Validated(URL, answer)
          IN  IF address = None
              THEN refused' = refused \cup {Platform} /\ NextTurn /\ UNCHANGED pinned
              ELSE pinned' = address /\ UNCHANGED <<turn, notice, refused>>
    /\ UNCHANGED <<config, sent, notices>>

Posted(address) ==
    /\ sent' = sent \cup {[platform |-> Platform, url |-> URL, address |-> address, notice |-> notice]}
    /\ pinned' = None
    /\ NextTurn
    /\ UNCHANGED <<config, refused, notices>>

\* Mutant of Post: the connection resolves the host again.
PostResolved ==
    /\ pinned # None
    /\ \E answer \in Ranges[URL.host] : answer # <<>> /\ Posted(answer[1])

\* _post_json: to the pinned address, without a proxy and without redirects. An answer, an
\* error and a timeout end it alike.
Post == pinned # None /\ Posted(pinned)

Next == Notify \/ Skip \/ Validate \/ Post
Spec == Init /\ [][Next]_vars
-----------------------------------------------------------------------------
\* A POST goes to no address that is not for all to reach, but of a host that is allowed,
\* although the name server may answer otherwise each time (validate_webhook_url, _post_json).
PostsStayOutside ==
    \A post \in sent : post.url.host \in config.allowed
                       \/ (post.url.scheme = "https" /\ ~Prohibited(post.address))

\* Wherever a field is cut off, no mention that would notify everyone is posted, and a
\* secret only when the request has it outside of a URL's user information.
PostsAreHarmless ==
    \A post \in sent :
        LET text == post.notice.text
            line == OneLine(post.notice.raw)
        IN  /\ \A k \in 1 .. Len(text) - 1 : ~(text[k] = "at" /\ text[k+1] = "everyone")
            /\ (\E k \in DOMAIN text : text[k] = "secret") =>
                  \E k \in DOMAIN line : /\ line[k] = "secret"
                                        /\ \A u \in 1 .. k-1, a \in k+1 .. Len(line) : ~Userinfo(line, u, a)

\* When a notice is done every configured platform had its turn, once at most.
EveryPlatformHasItsTurn ==
    /\ \A p, q \in sent : p.platform = q.platform => p = q
    /\ notices > 0 /\ notice = None =>
          \A i \in DOMAIN Platforms :
              config.urls[Platforms[i]] # None =>
                  Platforms[i] \in refused \/ \E post \in sent : post.platform = Platforms[i]

\* All three, at every step of every notice.
NoticesStayInBounds == PostsStayOutside /\ PostsAreHarmless /\ EveryPlatformHasItsTurn
=============================================================================
