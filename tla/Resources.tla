------------------------------- MODULE Resources -------------------------------
(***************************************************************************)
(* Resource matching (core/resources.py): normalisation and rule patterns   *)
(* of the kinds path, url, host, identifier and exact.                      *)
(*                                                                         *)
(* A resource or a rule pattern is a text; PathIn, HostIn, UrlIn and        *)
(* WordsIn say how the text is cut into parts, which is all the functions   *)
(* of the code look at.  Length limits are left out.  Ports are spelled     *)
(* without leading zeros.                                                   *)
(***************************************************************************)
EXTENDS Naturals, Sequences, SequencesExt

CONSTANTS
    Texts,      \* resources and patterns
    PathIn,     \* a text cut at "/": [abs, parts]
    HostIn,     \* a text cut at ".": [labels, dot, port, user]
    UrlIn,      \* a text as a URL: [scheme, host, path], scheme None if it has none
    WordsIn,    \* a text cut at spaces
    Glob,       \* what a segment pattern with a "*" inside matches
    Lower,      \* lower case of parts and words
    Idna,       \* punycode, lower case, of host labels
    None

Kinds == {"any", "none", "exact", "path", "url", "host", "identifier"}

\* A part that holds a NUL, a backslash or an encoded traversal token.
Forbidden == "%2e%2e"

Refused == [ok |-> FALSE]
LowerAll(s) == [i \in DOMAIN s |-> Lower[s[i]]]

-----------------------------------------------------------------------------
(***************************************************************************)
(* Paths.                                                                  *)
(***************************************************************************)
Step(acc, part) ==
    CASE ~acc.ok -> acc
      [] acc.ok /\ part \in {"", "."} -> acc
      [] acc.ok /\ part = ".." /\ acc.segs = <<>> -> Refused
      [] acc.ok /\ part = ".." /\ acc.segs # <<>> -> [acc EXCEPT !.segs = Front(@)]
      [] OTHER -> [acc EXCEPT !.segs = Append(@, part)]

\* normalize_path: no empty path, no forbidden part, "." and ".." resolved, no
\* escape from the start of the path.
NormalizePath(p, sensitive) ==
    IF (~p.abs /\ p.parts = <<>>) \/ Forbidden \in ToSet(p.parts)
    THEN Refused
    ELSE FoldLeft(Step, [ok |-> TRUE, abs |-> p.abs, segs |-> <<>>],
                  IF sensitive THEN p.parts ELSE LowerAll(p.parts))

Collapse(segs, part) ==
    IF part = "" \/ (part = "**" /\ segs # <<>> /\ Last(segs) = "**")
    THEN segs ELSE Append(segs, part)

\* _parse_pattern_segments: "." and ".." are not resolved in a pattern.
ParsePattern(p, sensitive) ==
    IF (~p.abs /\ p.parts = <<>>) \/ {Forbidden, "?"} \cap ToSet(p.parts) # {}
    THEN Refused
    ELSE [ok |-> TRUE, abs |-> p.abs,
          segs |-> FoldLeft(Collapse, <<>>, IF sensitive THEN p.parts ELSE LowerAll(p.parts))]

SegmentMatches(pat, seg) ==
    pat = "*" \/ pat = seg \/ (pat \in DOMAIN Glob /\ seg \in Glob[pat])

\* What a list of segment patterns covers: "**" stands for any number of
\* segments.  Starts(pats, segs)[i] is where what the patterns from i on cover may
\* begin, to end with the segments.  (PathMatcher is the algorithm that decides it.)
Starts(pats, segs) ==
    LET starts[i \in 1..Len(pats) + 1] ==
            IF i > Len(pats) THEN {Len(segs) + 1}
            ELSE IF pats[i] = "**" THEN {j \in 1..Len(segs) + 1 : \E k \in starts[i + 1] : j <= k}
            ELSE {j \in 1..Len(segs) : SegmentMatches(pats[i], segs[j]) /\ j + 1 \in starts[i + 1]}
    IN starts

Covers(pats, segs) == 1 \in Starts(pats, segs)[1]

\* match_path.
MatchPath(pattern, path, sensitive) ==
    LET p == ParsePattern(pattern, sensitive)
        n == NormalizePath(path, sensitive)
    IN p.ok /\ n.ok /\ p.abs = n.abs /\ Covers(p.segs, n.segs)

-----------------------------------------------------------------------------
(***************************************************************************)
(* Hosts and URLs.                                                         *)
(***************************************************************************)
\* normalize_host: one trailing dot is dropped; no user, no empty label.
NormalizeHost(h) ==
    IF h.user \/ h.labels = <<>> \/ "" \in ToSet(h.labels)
    THEN Refused
    ELSE [ok |-> TRUE, labels |-> [i \in DOMAIN h.labels |-> Idna[h.labels[i]]], port |-> h.port]

\* In a host pattern "*" stands for one or more labels; labels are put in lower
\* case and not in punycode.
HostCovers(pattern, host) ==
    LET pats == FoldLeft(LAMBDA acc, l : acc \o IF l = "*" THEN <<"*", "**">> ELSE <<l>>,
                         <<>>, LowerAll(pattern.labels))
    IN pattern.port = host.port /\ Covers(pats, host.labels)

MatchHost(pattern, h) ==
    LET n == NormalizeHost(h) IN n.ok /\ HostCovers(pattern, n)

DefaultPort(scheme) == IF scheme = "http" THEN 80 ELSE 443
WithoutDefault(port, scheme) == IF port = DefaultPort(scheme) THEN 0 ELSE port

\* normalize_url: http and https only; the port of the scheme is left out; the
\* path is normalised, an empty one is "/".
NormalizeUrl(u) ==
    LET h == NormalizeHost(u.host)
        p == NormalizePath([u.path EXCEPT !.abs = TRUE], TRUE)
    IN IF u.scheme \notin {"http", "https"} \/ ~h.ok \/ ~p.ok
       THEN Refused
       ELSE [ok |-> TRUE, scheme |-> u.scheme, path |-> p,
             host |-> [h EXCEPT !.port = WithoutDefault(@, u.scheme)]]

\* match_url: a pattern without a scheme is a pattern for the host alone.
MatchUrl(pattern, u) ==
    LET n    == NormalizeUrl(u)
        port == WithoutDefault(pattern.host.port, pattern.scheme)
    IN /\ n.ok
       /\ IF pattern.scheme = None
          THEN HostCovers(pattern.host, n.host)
          ELSE /\ pattern.scheme = n.scheme
               /\ HostCovers([pattern.host EXCEPT !.port = port], n.host)
               /\ LET p == ParsePattern([pattern.path EXCEPT !.abs = TRUE], TRUE)
                  IN p.ok /\ Covers(p.segs, n.path.segs)

-----------------------------------------------------------------------------
(***************************************************************************)
(* Exact texts and the entry points.                                       *)
(***************************************************************************)
\* Shell tokens that a command pattern must name itself to cover.
Shell == {"&&", "||", ";", "|", "&", ">"}

\* The kind "exact" has patterns with a star as their last or first word: they
\* cover what begins or ends with the rest.  (A pattern that ends in "/*" is left
\* out.)
MatchExact(pattern, text, sensitive) ==
    LET p == IF sensitive THEN WordsIn[pattern] ELSE LowerAll(WordsIn[pattern])
        t == IF sensitive THEN WordsIn[text] ELSE LowerAll(WordsIn[text])
    IN \/ p = t
       \/ /\ Len(p) > 1 /\ Last(p) = "*" /\ p[1] # "*"
          /\ Len(t) >= Len(p) /\ SubSeq(t, 1, Len(p) - 1) = Front(p)
          /\ ToSet(t) \cap Shell \subseteq ToSet(p)
       \/ /\ Len(p) > 1 /\ p[1] = "*" /\ Len(t) >= Len(p)
          /\ SubSeq(t, Len(t) - Len(p) + 2, Len(t)) = Tail(p)

MatchIdentifier(pattern, id) == pattern = id \/ (pattern \in DOMAIN Glob /\ id \in Glob[pattern])

\* validate_resource_syntax.
ValidFor(kind, text) ==
    CASE kind = "path" -> NormalizePath(PathIn[text], TRUE).ok
      [] kind = "url"  -> NormalizeUrl(UrlIn[text]).ok
      [] kind = "host" -> NormalizeHost(HostIn[text]).ok
      [] kind \in {"any", "none", "exact", "identifier"} -> TRUE

\* match_resource.
MatchResource(pattern, text, kind, sensitive) ==
    CASE kind = "path"       -> MatchPath(PathIn[pattern], PathIn[text], sensitive)
      [] kind = "url"        -> MatchUrl(UrlIn[pattern], UrlIn[text])
      [] kind = "host"       -> MatchHost(HostIn[pattern], HostIn[text])
      [] kind = "identifier" -> MatchIdentifier(pattern, text)
      [] kind = "any"        -> TRUE
      [] kind = "none"       -> FALSE
      [] kind = "exact"      -> MatchExact(pattern, text, sensitive)
=============================================================================
