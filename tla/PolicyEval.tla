------------------------------ MODULE PolicyEval -------------------------------
(***************************************************************************)
(* Policies (core/policy.py): loading, evaluation rule by rule, and the     *)
(* snapshot of a policy that the gates of a store share.                    *)
(*                                                                         *)
(* Argument constraints are named by a schema; Satisfying says which        *)
(* arguments satisfy one (Constraints is how that is decided).  Tools,      *)
(* actions, agents and values of the trusted context are names.             *)
(***************************************************************************)
EXTENDS Resources

CONSTANTS
    Files,      \* policies as parsed from JSON: [rules, strict]
    Requests,   \* [tool, action, agent, resource, context, arguments]
    Similar,    \* <<operator, candidate, value>> accepted by a string operator
    Satisfying  \* per schema, and per strictness, the arguments that satisfy it

\* A resource that is "*" or left out; a request without one.
Star       == "*"
NoResource == "no resource"

\* A file is a list of rules, each with all fields; "*" is no text of its own.
FileRules == UNION {{file.rules[k] : k \in DOMAIN file.rules} : file \in Files}

ASSUME PolicyAssumption ==
    /\ Star \notin Texts /\ NoResource \notin Texts
    /\ \A file \in Files :
          /\ file = [rules |-> file.rules, strict |-> file.strict]
          /\ file.rules \in Seq(FileRules)
    /\ \A r \in FileRules :
          r = [effect |-> r.effect, tool |-> r.tool, action |-> r.action, agent |-> r.agent,
               resource |-> r.resource, kind |-> r.kind, sensitive |-> r.sensitive,
               conditions |-> r.conditions, constraints |-> r.constraints]

VARIABLES
    live,       \* the policy a gate has loaded
    snapshot,   \* the policy in the shared store, as its mapping
    synced,     \* history: the gate has published or repaired the snapshot
    policy,     \* what is being evaluated
    source,     \* "live" or "snapshot"
    query,      \* the request
    pc, i,      \* the loop of evaluate_detailed, and its next rule
    matching,   \* effects of the rules that matched so far
    verdict     \* decision and code

store == <<snapshot, synced>>
ask   == <<policy, source, query>>
vars  == <<live, store, ask, pc, i, matching, verdict>>

-----------------------------------------------------------------------------
(***************************************************************************)
(* Loading and saving.                                                     *)
(***************************************************************************)
\* Rule.__post_init__: the kind of a rule that names none.
KindOf(m) ==
    IF m.kind # None THEN m.kind
    ELSE IF m.resource = Star THEN "any"
    ELSE IF m.resource = NoResource THEN "none" ELSE "exact"

\* What _rule_from_mapping and the constructor accept.
Accepted(m) ==
    /\ m.effect \in {"ALLOW", "DENY", "ASK"}
    /\ m.kind \in (Kinds \ {"any", "none"}) \cup {None}
    /\ ~m.sensitive => KindOf(m) \in {"path", "exact"}
    /\ m.constraints # None => m.effect # "DENY"

FromMapping(m) == [m EXCEPT !.kind = KindOf(m)]

\* Mutant of ToMapping: case sensitivity is not written.
ToMappingSensitive(r) ==
    [r EXCEPT !.kind = IF @ \in {"exact", "any", "none"} THEN None ELSE @, !.sensitive = TRUE]

\* to_dict leaves out the kinds it takes for the default.
ToMapping(r) == [r EXCEPT !.kind = IF @ \in {"exact", "any", "none"} THEN None ELSE @]

Loads(file)    == \A k \in DOMAIN file.rules : Accepted(file.rules[k])
Loaded(file)   == [file EXCEPT !.rules = [k \in DOMAIN @ |-> FromMapping(@[k])]]
Saved(p)       == [p EXCEPT !.rules = [k \in DOMAIN @ |-> ToMapping(@[k])]]
Nothing        == [rules |-> <<>>, strict |-> FALSE]

\* What an older version left in the store: no kinds, case, constraints, strictness.
Older(p) ==
    [rules |-> [k \in DOMAIN p.rules |->
                   [p.rules[k] EXCEPT !.kind = None, !.sensitive = TRUE, !.constraints = None]],
     strict |-> FALSE]

-----------------------------------------------------------------------------
(***************************************************************************)
(* One rule.                                                               *)
(***************************************************************************)
\* Condition.matches.
Holds(c, context) ==
    /\ c.field \in DOMAIN context
    /\ CASE c.operator = "equals"    -> context[c.field] = c.value
         [] c.operator = "notEquals" -> context[c.field] # c.value
         [] c.operator = "in"        -> context[c.field] \in c.value
         [] OTHER -> <<c.operator, context[c.field], c.value>> \in Similar

\* matches_tool_action, and the agent.
Candidate(r, q) ==
    /\ r.tool \in {Star, q.tool}
    /\ r.action \in {Star, q.action}
    /\ r.agent \in {None, q.agent}

\* The resource can be read as the kind of the rule.
Readable(r, q) ==
    \/ r.kind \in {"any", "none"}
    \/ q.resource # NoResource /\ ValidFor(r.kind, q.resource)

ResourceFits(r, q) ==
    \/ r.resource = Star
    \/ r.resource = NoResource /\ q.resource = NoResource
    \/ /\ r.resource \in Texts /\ q.resource # NoResource
       /\ MatchResource(r.resource, q.resource, r.kind, r.sensitive)

Matches(r, q) ==
    /\ Candidate(r, q)
    /\ ResourceFits(r, q)
    /\ \A c \in r.conditions : Holds(c, q.context)

\* The arguments break the rule's constraints.
Violates(r, q, strict) ==
    r.constraints # None /\ q.arguments \notin Satisfying[r.constraints][strict]

-----------------------------------------------------------------------------
(***************************************************************************)
(* evaluate_detailed.                                                      *)
(***************************************************************************)
Verdict(decision, code) == [decision |-> decision, code |-> code]
NoVerdict == Verdict("none", "none")

Init ==
    /\ \E file \in Files : Loads(file) /\ live = Loaded(file)
    /\ snapshot \in {Nothing, Older(live)} /\ synced = FALSE
    /\ policy = Nothing /\ source = "live" /\ query \in Requests
    /\ pc = "idle" /\ i = 1 /\ matching = {} /\ verdict = NoVerdict

\* sync_authoritative_policy, for a snapshot of the same version: none is stored,
\* or it differs from the policy.
Sync ==
    /\ pc = "idle"
    /\ snapshot' = Saved(live)
    /\ synced' = TRUE
    /\ UNCHANGED <<live, ask, pc, i, matching, verdict>>

\* evaluate is asked about the gate's policy, or about the one read from the store.
Ask(src) ==
    /\ pc = "idle"
    /\ policy' = IF src = "live" THEN live ELSE Loaded(snapshot)
    /\ src = "snapshot" => Loads(snapshot)
    /\ source' = src
    /\ pc' = "kinds" /\ i' = 1 /\ matching' = {} /\ verdict' = NoVerdict
    /\ UNCHANGED <<live, store, query>>

Conclude(v) == pc' = "done" /\ verdict' = v /\ UNCHANGED <<live, store, ask, i, matching>>
Rule == policy.rules[i]
More == i <= Len(policy.rules)

\* First every candidate's kind must be able to read the resource.
CheckKind ==
    /\ pc = "kinds" /\ More
    /\ IF Candidate(Rule, query) /\ ~Readable(Rule, query)
       THEN Conclude(Verdict("DENY", "RESOURCE_INVALID"))
       ELSE i' = i + 1 /\ UNCHANGED <<live, store, ask, pc, matching, verdict>>

KindsChecked ==
    /\ pc = "kinds" /\ ~More
    /\ pc' = "match" /\ i' = 1
    /\ UNCHANGED <<live, store, ask, matching, verdict>>

\* Then the constraints of every matching rule must hold.
Match ==
    /\ pc = "match" /\ More
    /\ IF Matches(Rule, query) /\ Violates(Rule, query, policy.strict)
       THEN Conclude(Verdict("DENY", "CONSTRAINT_VIOLATION"))
       ELSE /\ i' = i + 1
            /\ matching' = matching \cup IF Matches(Rule, query) THEN {Rule.effect} ELSE {}
            /\ UNCHANGED <<live, store, ask, pc, verdict>>

\* Deny overrides, then approval, then allow; the default is to deny.
Precedence(effects) ==
    IF "DENY" \in effects THEN Verdict("DENY", "POLICY_DENIED")
    ELSE IF "ASK" \in effects THEN Verdict("ASK", "APPROVAL_REQUIRED")
    ELSE IF "ALLOW" \in effects THEN Verdict("ALLOW", "none")
    ELSE Verdict("DENY", "DEFAULT_DENIED")

Decide ==
    /\ pc = "match" /\ ~More
    /\ Conclude(Precedence(matching))

Return ==
    /\ pc = "done"
    /\ pc' = "idle" /\ policy' = Nothing
    /\ i' = 1 /\ matching' = {} /\ verdict' = NoVerdict
    /\ UNCHANGED <<live, store, source, query>>

Next ==
    \/ Sync
    \/ \E src \in {"live", "snapshot"} : Ask(src)
    \/ CheckKind \/ KindsChecked \/ Match \/ Decide \/ Return

Spec == Init /\ [][Next]_vars
-----------------------------------------------------------------------------
\* What a set of rules says of a request, whatever their order.
Meaning(R, q, strict) ==
    IF \E r \in R : Candidate(r, q) /\ ~Readable(r, q)
    THEN Verdict("DENY", "RESOURCE_INVALID")
    ELSE IF \E r \in R : Matches(r, q) /\ Violates(r, q, strict)
    THEN Verdict("DENY", "CONSTRAINT_VIOLATION")
    ELSE Precedence({r.effect : r \in {m \in R : Matches(m, q)}})

\* Rules whose kind is the one their resource has by default, or a pattern kind.
Survives(r) == r.kind = "exact" => r.resource \in Texts

TypeOK ==
    /\ pc \in {"idle", "kinds", "match", "done"}
    /\ i \in 1..Len(policy.rules) + 1
    /\ matching \subseteq {"ALLOW", "DENY", "ASK"}
    /\ source \in {"live", "snapshot"} /\ synced \in BOOLEAN
    /\ query \in Requests

\* "Ordering in the JSON file has no effect" (docs policies.mdx): decision and code
\* follow from the set of rules, and they are the same for the copy in the shared
\* store once the gate has synchronised it, unless a rule says "exact" of a
\* resource that is not a text, which the copy loses.
DecisionIsOrderFree ==
    pc = "done" /\ (source = "snapshot" => synced /\ \A k \in DOMAIN live.rules : Survives(live.rules[k]))
        => verdict = Meaning({live.rules[k] : k \in DOMAIN live.rules}, query, live.strict)
=============================================================================
