---------------------------- MODULE DecisionsProofs ----------------------------
(***************************************************************************)
(* Theorems about the parts of Decisions.                                  *)
(*                                                                         *)
(* PolicyEval, for policies of any length, any rules and any way texts      *)
(* match: what the loops over a list of rules conclude does not depend on   *)
(* the order of the list, and the copy in the shared store decides as the   *)
(* policy does.  PathMatcher, for lists of any length.  RecordMachine, for  *)
(* any clock readings and lifetimes.  StoredRequest, for values of any depth  *)
(* and any stores.  Constraints, for specs and values of any depth.            *)
(***************************************************************************)
EXTENDS Decisions, SequenceTheorems, TLAPS

RulesOf(p) == {p.rules[k] : k \in DOMAIN p.rules}

\* The rules are a list, and each has an effect.
IsPolicy(p) ==
    /\ p.rules \in Seq(RulesOf(p))
    /\ \A r \in RulesOf(p) : r.effect \in {"ALLOW", "DENY", "ASK"}

Unreadable(r) == Candidate(r, query) /\ ~Readable(r, query)
Breaks(r)     == Matches(r, query) /\ Violates(r, query, policy.strict)

\* Where the policy that is evaluated comes from.
OriginInv ==
    /\ \E file \in Files : Loads(file) /\ live = Loaded(file)
    /\ synced => snapshot = Saved(live)
    /\ snapshot \in {Nothing, Older(live), Saved(live)}
    /\ IsPolicy(policy)
    /\ pc # "idle" => /\ source = "live" => policy = live
                      /\ source = "snapshot" /\ synced => policy = Loaded(Saved(live))

\* What each loop has found so far.
LoopInv ==
    /\ pc \in {"kinds", "match"} => i \in 1 .. Len(policy.rules) + 1
    /\ pc = "kinds" => matching = {} /\ \A k \in 1 .. i - 1 : ~Unreadable(policy.rules[k])
    /\ pc = "match" => /\ \A k \in DOMAIN policy.rules : ~Unreadable(policy.rules[k])
                       /\ \A k \in 1 .. i - 1 : ~Breaks(policy.rules[k])
                       /\ matching = {policy.rules[k].effect :
                                        k \in {j \in 1 .. i - 1 : Matches(policy.rules[j], query)}}
    /\ pc = "done" => verdict = Meaning(RulesOf(policy), query, policy.strict)

Inv == TypeOK /\ OriginInv /\ LoopInv

-----------------------------------------------------------------------------
(***************************************************************************)
(* Loading and saving.                                                     *)
(***************************************************************************)
\* A rule has these fields.
Shaped(r) ==
    r = [effect |-> r.effect, tool |-> r.tool, action |-> r.action, agent |-> r.agent,
         resource |-> r.resource, kind |-> r.kind, sensitive |-> r.sensitive,
         conditions |-> r.conditions, constraints |-> r.constraints]

\* A policy is a record of a list of such rules and a flag.
ShapedPolicy(p) ==
    /\ p = [rules |-> p.rules, strict |-> p.strict]
    /\ p.rules \in Seq(RulesOf(p))
    /\ \A r \in RulesOf(p) : Shaped(r)

LEMMA ListOfItsMembers ==
    ASSUME NEW S, NEW p, p \in Seq(S)
    PROVE  p \in Seq({p[k] : k \in DOMAIN p}) /\ DOMAIN p = 1 .. Len(p) /\ Len(p) \in Nat
<1>1. PICK n \in Nat : p \in [1 .. n -> S]
  BY SeqDef
<1>2. p \in Seq({p[k] : k \in DOMAIN p})
  BY <1>1, SeqDef
<1> QED
  BY <1>2

LEMMA FilesAreShaped == \A file \in Files : ShapedPolicy(file)
<1> SUFFICES ASSUME NEW file \in Files PROVE ShapedPolicy(file)
  OBVIOUS
<1>1. file.rules \in Seq(RulesOf(file))
  BY PolicyAssumption, ListOfItsMembers DEF RulesOf
<1>2. RulesOf(file) \subseteq FileRules
  BY DEF RulesOf, FileRules
<1>3. \A r \in FileRules : Shaped(r)
  BY PolicyAssumption DEF Shaped
<1>4. file = [rules |-> file.rules, strict |-> file.strict]
  BY PolicyAssumption
<1> QED
  BY <1>1, <1>2, <1>3, <1>4 DEF ShapedPolicy

\* Replacing a kind keeps the rest of a rule.
LEMMA ReplacedKind ==
    ASSUME NEW r, Shaped(r), NEW kind
    PROVE  /\ Shaped([r EXCEPT !.kind = kind])
           /\ [r EXCEPT !.kind = kind].kind = kind
           /\ [r EXCEPT !.kind = kind].effect = r.effect
           /\ [r EXCEPT !.kind = kind].resource = r.resource
<1>1. [r EXCEPT !.kind = kind].kind = kind
  BY DEF Shaped
<1>2. [r EXCEPT !.kind = kind].effect = r.effect
  BY DEF Shaped
<1>3. [r EXCEPT !.kind = kind].resource = r.resource
  BY DEF Shaped
<1>4. [r EXCEPT !.kind = kind] =
          [effect |-> r.effect, tool |-> r.tool, action |-> r.action, agent |-> r.agent,
           resource |-> r.resource, kind |-> kind, sensitive |-> r.sensitive,
           conditions |-> r.conditions, constraints |-> r.constraints]
  BY DEF Shaped
<1>5. Shaped([r EXCEPT !.kind = kind])
  BY <1>4 DEF Shaped
<1> QED
  BY <1>1, <1>2, <1>3, <1>5

LEMMA ReplacedTwice ==
    ASSUME NEW r, Shaped(r), NEW kind, NEW other
    PROVE  [[r EXCEPT !.kind = kind] EXCEPT !.kind = other] = [r EXCEPT !.kind = other]
  BY DEF Shaped

LEMMA OlderRule ==
    ASSUME NEW r, Shaped(r)
    PROVE  Shaped([r EXCEPT !.kind = None, !.sensitive = TRUE, !.constraints = None])
<1> DEFINE s == [r EXCEPT !.kind = None, !.sensitive = TRUE, !.constraints = None]
<1>1. DOMAIN s = DOMAIN r
  OBVIOUS
<1>2. s = [x \in DOMAIN r |-> s[x]]
  OBVIOUS
<1>3. DOMAIN r = {"effect", "tool", "action", "agent", "resource", "kind", "sensitive",
                  "conditions", "constraints"}
  BY DEF Shaped
<1> HIDE DEF s
<1>4. Shaped(s)
  BY <1>1, <1>2, <1>3 DEF Shaped
<1> QED
  BY <1>4 DEF s

\* A list of as many shaped rules makes a shaped policy.
LEMMA AsManyRules ==
    ASSUME NEW p, ShapedPolicy(p), NEW q, q = [rules |-> q.rules, strict |-> q.strict],
           q.rules = [k \in DOMAIN p.rules |-> q.rules[k]],
           \A k \in DOMAIN p.rules : Shaped(q.rules[k])
    PROVE  ShapedPolicy(q) /\ DOMAIN q.rules = DOMAIN p.rules
<1>1. DOMAIN p.rules = 1 .. Len(p.rules) /\ Len(p.rules) \in Nat
  BY DEF ShapedPolicy
<1>2. q.rules \in [1 .. Len(p.rules) -> RulesOf(q)]
  BY <1>1 DEF RulesOf
<1>3. q.rules \in Seq(RulesOf(q))
  BY <1>1, <1>2, SeqDef
<1>4. \A r \in RulesOf(q) : Shaped(r)
  BY DEF RulesOf
<1> QED
  BY <1>3, <1>4 DEF ShapedPolicy

LEMMA LoadedShape ==
    ASSUME NEW p, ShapedPolicy(p)
    PROVE  /\ ShapedPolicy(Loaded(p)) /\ DOMAIN Loaded(p).rules = DOMAIN p.rules
           /\ \A k \in DOMAIN p.rules : Loaded(p).rules[k] = FromMapping(p.rules[k])
           /\ Loaded(p).strict = p.strict
<1>1. Loaded(p) = [rules |-> [k \in DOMAIN p.rules |-> FromMapping(p.rules[k])], strict |-> p.strict]
  BY DEF Loaded, ShapedPolicy
<1>2. \A k \in DOMAIN p.rules : Shaped(FromMapping(p.rules[k]))
  BY ReplacedKind DEF FromMapping, ShapedPolicy, RulesOf
<1> HIDE DEF Loaded, FromMapping
<1>3. /\ Loaded(p) = [rules |-> Loaded(p).rules, strict |-> Loaded(p).strict]
      /\ Loaded(p).rules = [k \in DOMAIN p.rules |-> Loaded(p).rules[k]]
      /\ \A k \in DOMAIN p.rules : Loaded(p).rules[k] = FromMapping(p.rules[k])
      /\ Loaded(p).strict = p.strict
  BY <1>1
<1> QED
  BY <1>2, <1>3, AsManyRules

LEMMA SavedShape ==
    ASSUME NEW p, ShapedPolicy(p)
    PROVE  /\ ShapedPolicy(Saved(p)) /\ DOMAIN Saved(p).rules = DOMAIN p.rules
           /\ \A k \in DOMAIN p.rules : Saved(p).rules[k] = ToMapping(p.rules[k])
           /\ Saved(p).strict = p.strict
<1>1. Saved(p) = [rules |-> [k \in DOMAIN p.rules |-> ToMapping(p.rules[k])], strict |-> p.strict]
  BY DEF Saved, ShapedPolicy
<1>2. ASSUME NEW k \in DOMAIN p.rules PROVE Shaped(ToMapping(p.rules[k]))
  <2>1. Shaped(p.rules[k])
    BY DEF ShapedPolicy, RulesOf
  <2>2. PICK kind : ToMapping(p.rules[k]) = [p.rules[k] EXCEPT !.kind = kind]
    BY DEF ToMapping
  <2> QED
    BY <2>1, <2>2, ReplacedKind
<1>3. /\ Saved(p) = [rules |-> Saved(p).rules, strict |-> Saved(p).strict]
      /\ Saved(p).rules = [k \in DOMAIN p.rules |-> Saved(p).rules[k]]
      /\ \A k \in DOMAIN p.rules : Saved(p).rules[k] = ToMapping(p.rules[k])
      /\ Saved(p).strict = p.strict
  BY <1>1
<1> QED
  BY <1>2, <1>3, AsManyRules

LEMMA OlderShape ==
    ASSUME NEW p, ShapedPolicy(p)
    PROVE  ShapedPolicy(Older(p))
<1>1. \A k \in DOMAIN p.rules :
         Shaped([p.rules[k] EXCEPT !.kind = None, !.sensitive = TRUE, !.constraints = None])
  BY OlderRule DEF ShapedPolicy, RulesOf
<1>2. /\ Older(p) = [rules |-> Older(p).rules, strict |-> Older(p).strict]
      /\ Older(p).rules = [k \in DOMAIN p.rules |-> Older(p).rules[k]]
      /\ \A k \in DOMAIN p.rules : Older(p).rules[k] =
            [p.rules[k] EXCEPT !.kind = None, !.sensitive = TRUE, !.constraints = None]
  BY DEF Older
<1>3. \A k \in DOMAIN p.rules : Shaped(Older(p).rules[k])
  BY <1>1, <1>2
<1> QED
  BY <1>2, <1>3, AsManyRules

LEMMA NothingShape == ShapedPolicy(Nothing)
<1>1. <<>> \in Seq(RulesOf(Nothing)) /\ DOMAIN <<>> = {}
  OBVIOUS
<1>2. RulesOf(Nothing) = {}
  BY <1>1 DEF RulesOf, Nothing
<1> QED
  BY <1>1, <1>2 DEF ShapedPolicy, Nothing


\* What was loaded once is loaded again from what was saved, unless a rule says "exact"
\* of a resource that is no text.
LEMMA LoadsWhatItSaved ==
    ASSUME NEW file \in Files, Loads(file), NEW p, p = Loaded(file),
           \A k \in DOMAIN p.rules : Survives(p.rules[k])
    PROVE  Loaded(Saved(p)) = p
<1>1. /\ ShapedPolicy(file) /\ ShapedPolicy(p) /\ ShapedPolicy(Saved(p))
      /\ DOMAIN p.rules = DOMAIN file.rules /\ DOMAIN Saved(p).rules = DOMAIN p.rules
  BY FilesAreShaped, LoadedShape, SavedShape
<1>2. ASSUME NEW k \in DOMAIN p.rules PROVE FromMapping(ToMapping(p.rules[k])) = p.rules[k]
  <2> DEFINE m == file.rules[k]
             r == p.rules[k]
  <2>1. Shaped(m) /\ Accepted(m) /\ r = FromMapping(m)
    BY <1>1, LoadedShape DEF ShapedPolicy, RulesOf, Loads
  <2>2. Shaped(r) /\ r.kind = KindOf(m) /\ r.resource = m.resource
    <3> HIDE DEF m, r
    <3> QED
      BY <2>1, ReplacedKind DEF FromMapping
  <2>3. Survives(r)
    OBVIOUS
  <2> HIDE DEF m, r
  <2>4. CASE r.kind \in {"exact", "any", "none"}
    <3>1. ToMapping(r) = [r EXCEPT !.kind = None]
      <4>1. [r EXCEPT !.kind = IF @ \in {"exact", "any", "none"} THEN None ELSE @] = [r EXCEPT !.kind = None]
        BY <2>4
      <4> QED
        BY <4>1 DEF ToMapping
    <3>2. [r EXCEPT !.kind = None].kind = None /\ [r EXCEPT !.kind = None].resource = r.resource
      BY <2>2, ReplacedKind
    <3>3. KindOf([r EXCEPT !.kind = None]) = r.kind
      BY <2>1, <2>2, <2>3, <2>4, <3>2, PolicyAssumption
         DEF KindOf, Accepted, Survives, Star, NoResource, Kinds
    <3>4. FromMapping([r EXCEPT !.kind = None]) = [r EXCEPT !.kind = r.kind]
      BY <2>2, <3>3, ReplacedTwice DEF FromMapping
    <3>5. [r EXCEPT !.kind = r.kind] = r
      BY <2>2 DEF Shaped
    <3> QED
      BY <3>1, <3>4, <3>5 DEF r
  <2>5. CASE r.kind \notin {"exact", "any", "none"}
    <3>1. ToMapping(r) = r
      BY <2>2, <2>5 DEF ToMapping, Shaped
    <3>2. r.kind = m.kind /\ m.kind # None
      BY <2>2, <2>5 DEF KindOf
    <3>3. FromMapping(r) = r
      BY <2>2, <3>2 DEF FromMapping, KindOf, Shaped
    <3> QED
      BY <3>1, <3>3 DEF r
  <2> QED
    BY <2>4, <2>5
<1>3. \A k \in DOMAIN p.rules : Loaded(Saved(p)).rules[k] = p.rules[k]
  BY <1>1, <1>2, LoadedShape, SavedShape
<1>4. /\ ShapedPolicy(Loaded(Saved(p))) /\ DOMAIN Loaded(Saved(p)).rules = DOMAIN p.rules
      /\ Loaded(Saved(p)).strict = p.strict
  BY <1>1, LoadedShape, SavedShape
<1>5. Loaded(Saved(p)).rules = p.rules
  BY <1>1, <1>3, <1>4 DEF ShapedPolicy
<1> QED
  BY <1>1, <1>4, <1>5 DEF ShapedPolicy

LEMMA LoadedIsPolicy ==
    ASSUME NEW p, ShapedPolicy(p), Loads(p)
    PROVE  IsPolicy(Loaded(p))
<1>1. ShapedPolicy(Loaded(p)) /\ DOMAIN Loaded(p).rules = DOMAIN p.rules
  BY LoadedShape
<1>2. ASSUME NEW k \in DOMAIN p.rules
      PROVE  Loaded(p).rules[k].effect \in {"ALLOW", "DENY", "ASK"}
  <2>1. Shaped(p.rules[k]) /\ Accepted(p.rules[k])
    BY DEF ShapedPolicy, RulesOf, Loads
  <2>2. FromMapping(p.rules[k]).effect = p.rules[k].effect
    BY <2>1, ReplacedKind DEF FromMapping
  <2>3. p.rules[k].effect \in {"ALLOW", "DENY", "ASK"}
    BY <2>1 DEF Accepted
  <2> QED
    BY <2>2, <2>3, LoadedShape
<1> QED
  BY <1>1, <1>2 DEF IsPolicy, ShapedPolicy, RulesOf

LEMMA NothingIsPolicy == IsPolicy(Nothing) /\ Len(Nothing.rules) = 0
<1>1. RulesOf(Nothing) = {}
  BY DEF RulesOf, Nothing
<1>2. <<>> \in Seq({}) /\ Len(<<>>) = 0
  OBVIOUS
<1> QED
  BY <1>1, <1>2 DEF IsPolicy, Nothing

LEMMA PolicyRange ==
    ASSUME NEW p, IsPolicy(p)
    PROVE  DOMAIN p.rules = 1 .. Len(p.rules) /\ Len(p.rules) \in Nat
BY DEF IsPolicy

-----------------------------------------------------------------------------
(***************************************************************************)
(* The invariant.                                                          *)
(***************************************************************************)
LEMMA InvInit == Init => Inv
<1> SUFFICES ASSUME Init PROVE Inv
  OBVIOUS
<1> USE DEF Init
<1>1. IsPolicy(policy) /\ Len(policy.rules) = 0
  BY NothingIsPolicy
<1>2. TypeOK
  <2>1. i \in 1 .. Len(policy.rules) + 1
    BY <1>1
  <2>2. synced \in BOOLEAN
    OBVIOUS
  <2> QED
    BY <2>1, <2>2 DEF TypeOK
<1>3. OriginInv
  BY <1>1 DEF OriginInv
<1>4. LoopInv
  BY DEF LoopInv
<1> QED
  BY <1>2, <1>3, <1>4 DEF Inv

\* What can be read from the shared store.
LEMMA SnapshotIsShaped ==
    ASSUME OriginInv
    PROVE  /\ ShapedPolicy(snapshot)
           /\ IsPolicy(live)
<1>1. PICK file \in Files : Loads(file) /\ live = Loaded(file)
  BY DEF OriginInv
<1>2. ShapedPolicy(live) /\ IsPolicy(live)
  BY <1>1, FilesAreShaped, LoadedShape, LoadedIsPolicy
<1>3. ShapedPolicy(snapshot)
  BY <1>2, NothingShape, OlderShape, SavedShape DEF OriginInv
<1> QED
  BY <1>2, <1>3

LEMMA SyncStep == Inv /\ Sync => Inv'
<1> SUFFICES ASSUME Inv, Sync PROVE Inv'
  OBVIOUS
<1> USE DEF Sync, ask
<1>1. TypeOK'
  BY DEF Inv, TypeOK
<1>2. OriginInv'
  BY DEF Inv, OriginInv, IsPolicy, RulesOf
<1>3. LoopInv'
  BY DEF Inv, LoopInv
<1> QED
  BY <1>1, <1>2, <1>3 DEF Inv

LEMMA AskStep == ASSUME Inv, NEW src \in {"live", "snapshot"}, Ask(src) PROVE Inv'
<1>1. IsPolicy(policy')
  <2>1. CASE src = "live"
    BY <2>1, SnapshotIsShaped DEF Ask, Inv
  <2>2. CASE src = "snapshot"
    <3>1. policy' = Loaded(snapshot) /\ Loads(snapshot)
      BY <2>2 DEF Ask
    <3> QED
      BY <3>1, SnapshotIsShaped, LoadedIsPolicy DEF Inv
  <2> QED
    BY <2>1, <2>2
<1>2. DOMAIN policy'.rules = 1 .. Len(policy'.rules) /\ Len(policy'.rules) \in Nat
  BY <1>1, PolicyRange
<1>3. TypeOK'
  BY <1>2 DEF Inv, TypeOK, Ask, store
<1>4. OriginInv'
  <2>1. source' = "live" => policy' = live'
    BY DEF Ask
  <2>2. source' = "snapshot" /\ synced' => policy' = Loaded(Saved(live'))
    BY DEF Ask, store, Inv, OriginInv
  <2>3. IsPolicy(policy)'
    BY <1>1 DEF IsPolicy, RulesOf
  <2> QED
    BY <2>1, <2>2, <2>3 DEF Ask, store, Inv, OriginInv
<1>5. LoopInv'
  BY <1>2 DEF LoopInv, Ask
<1> QED
  BY <1>3, <1>4, <1>5 DEF Inv

\* The loops leave the policies and the query alone.
LEMMA LoopKeepsOrigin ==
    ASSUME OriginInv, pc # "idle", UNCHANGED <<live, store, ask>>
    PROVE  OriginInv'
BY DEF OriginInv, store, ask, IsPolicy, RulesOf

LEMMA CheckKindStep == Inv /\ CheckKind => Inv'
<1> SUFFICES ASSUME Inv, CheckKind PROVE Inv'
  OBVIOUS
<1>1. IsPolicy(policy) /\ DOMAIN policy.rules = 1 .. Len(policy.rules) /\ Len(policy.rules) \in Nat
  BY PolicyRange DEF Inv, OriginInv
<1>2. i \in 1 .. Len(policy.rules) /\ pc = "kinds"
  BY <1>1 DEF Inv, TypeOK, CheckKind, More
<1>3. OriginInv'
  BY <1>2, LoopKeepsOrigin DEF Inv, CheckKind, Conclude
<1>4. CASE Unreadable(Rule)
  <2>1. Conclude(Verdict("DENY", "RESOURCE_INVALID"))
    BY <1>4 DEF CheckKind, Unreadable
  <2>2. Rule \in RulesOf(policy)
    BY <1>1, <1>2 DEF Rule, RulesOf
  <2>3. Meaning(RulesOf(policy), query, policy.strict) = Verdict("DENY", "RESOURCE_INVALID")
    BY <2>2, <1>4 DEF Meaning, Unreadable
  <2>4. TypeOK'
    BY <2>1 DEF Conclude, Inv, TypeOK, store, ask
  <2>5. LoopInv'
    BY <2>1, <2>3 DEF Conclude, LoopInv, ask, Meaning, RulesOf
  <2> QED
    BY <1>3, <2>4, <2>5 DEF Inv
<1>5. CASE ~Unreadable(Rule)
  <2>1. i' = i + 1 /\ UNCHANGED <<live, store, ask, pc, matching, verdict>>
    BY <1>5 DEF CheckKind, Unreadable
  <2>2. TypeOK'
    BY <2>1, <1>1, <1>2 DEF Inv, TypeOK, store, ask
  <2>3. \A k \in 1 .. i' - 1 : ~Unreadable(policy.rules[k])
    BY <2>1, <1>1, <1>2, <1>5 DEF Inv, LoopInv, Rule
  <2>4. LoopInv'
    BY <2>1, <2>3, <1>1, <1>2 DEF Inv, TypeOK, LoopInv, Unreadable, ask
  <2> QED
    BY <1>3, <2>2, <2>4 DEF Inv
<1> QED
  BY <1>4, <1>5

LEMMA KindsCheckedStep == Inv /\ KindsChecked => Inv'
<1> SUFFICES ASSUME Inv, KindsChecked PROVE Inv'
  OBVIOUS
<1> USE DEF KindsChecked, ask
<1>1. IsPolicy(policy) /\ DOMAIN policy.rules = 1 .. Len(policy.rules) /\ Len(policy.rules) \in Nat
  BY PolicyRange DEF Inv, OriginInv
<1>2. i = Len(policy.rules) + 1
  BY <1>1 DEF Inv, TypeOK, More
<1>3. OriginInv'
  BY LoopKeepsOrigin DEF Inv
<1>4. TypeOK'
  BY <1>1 DEF Inv, TypeOK, store
<1>5. \A k \in DOMAIN policy.rules : ~Unreadable(policy.rules[k])
  BY <1>1, <1>2 DEF Inv, LoopInv
<1>6. matching = {}
  BY DEF Inv, LoopInv
<1>7. LoopInv'
  BY <1>1, <1>5, <1>6 DEF LoopInv, Unreadable
<1> QED
  BY <1>3, <1>4, <1>7 DEF Inv

\* The effects of the matching rules up to some rule, and up to the next.
LEMMA OneMoreRule ==
    ASSUME NEW R, NEW n \in Nat, NEW q
    PROVE  {R[k].effect : k \in {j \in 1 .. n + 1 : Matches(R[j], q)}} =
             {R[k].effect : k \in {j \in 1 .. n : Matches(R[j], q)}}
               \cup IF Matches(R[n + 1], q) THEN {R[n + 1].effect} ELSE {}
<1>1. 1 .. n + 1 = (1 .. n) \cup {n + 1}
  OBVIOUS
<1> QED
  BY <1>1

LEMMA MatchStep == Inv /\ Match => Inv'
<1> SUFFICES ASSUME Inv, Match PROVE Inv'
  OBVIOUS
<1>1. IsPolicy(policy) /\ DOMAIN policy.rules = 1 .. Len(policy.rules) /\ Len(policy.rules) \in Nat
  BY PolicyRange DEF Inv, OriginInv
<1>2. i \in 1 .. Len(policy.rules) /\ pc = "match"
  BY <1>1 DEF Inv, TypeOK, Match, More
<1>3. OriginInv'
  BY <1>2, LoopKeepsOrigin DEF Inv, Match, Conclude
<1>4. Rule \in RulesOf(policy) /\ Rule.effect \in {"ALLOW", "DENY", "ASK"}
  BY <1>1, <1>2 DEF Rule, RulesOf, IsPolicy
<1>5. \A r \in RulesOf(policy) : ~Unreadable(r)
  BY <1>2 DEF Inv, LoopInv, RulesOf
<1>6. CASE Breaks(Rule)
  <2>1. Conclude(Verdict("DENY", "CONSTRAINT_VIOLATION"))
    BY <1>6 DEF Match, Breaks
  <2>2. Meaning(RulesOf(policy), query, policy.strict) = Verdict("DENY", "CONSTRAINT_VIOLATION")
    BY <1>4, <1>5, <1>6 DEF Meaning, Unreadable, Breaks
  <2>3. TypeOK'
    BY <2>1 DEF Conclude, Inv, TypeOK, store, ask
  <2>4. LoopInv'
    BY <2>1, <2>2 DEF Conclude, LoopInv, ask, Meaning, RulesOf
  <2> QED
    BY <1>3, <2>3, <2>4 DEF Inv
<1>7. CASE ~Breaks(Rule)
  <2>1. /\ i' = i + 1 /\ UNCHANGED <<live, store, ask, pc, verdict>>
        /\ matching' = matching \cup IF Matches(Rule, query) THEN {Rule.effect} ELSE {}
    BY <1>7 DEF Match, Breaks
  <2>2. TypeOK'
    <3>1. i' \in 1 .. Len(policy'.rules) + 1
      BY <2>1, <1>1, <1>2 DEF ask
    <3>2. matching' \subseteq {"ALLOW", "DENY", "ASK"}
      BY <2>1, <1>4 DEF Inv, TypeOK
    <3> QED
      BY <2>1, <3>1, <3>2 DEF Inv, TypeOK, store, ask
  <2>3. \A k \in 1 .. i' - 1 : ~Breaks(policy.rules[k])
    BY <2>1, <1>1, <1>2, <1>7 DEF Inv, LoopInv, Rule
  <2>4. matching' = {policy.rules[k].effect :
                       k \in {j \in 1 .. i' - 1 : Matches(policy.rules[j], query)}}
    <3>1. i - 1 \in Nat /\ (i - 1) + 1 = i /\ i' - 1 = (i - 1) + 1
      BY <1>1, <1>2, <2>1
    <3>2. matching = {policy.rules[k].effect :
                        k \in {j \in 1 .. i - 1 : Matches(policy.rules[j], query)}}
      BY <1>2 DEF Inv, LoopInv
    <3> QED
      BY <2>1, <3>1, <3>2, OneMoreRule DEF Rule
  <2>5. LoopInv'
    BY <2>1, <2>3, <2>4, <1>1, <1>2 DEF Inv, TypeOK, LoopInv, Unreadable, Breaks, ask
  <2> QED
    BY <1>3, <2>2, <2>5 DEF Inv
<1> QED
  BY <1>6, <1>7

LEMMA DecideStep == Inv /\ Decide => Inv'
<1> SUFFICES ASSUME Inv, Decide PROVE Inv'
  OBVIOUS
<1>1. IsPolicy(policy) /\ DOMAIN policy.rules = 1 .. Len(policy.rules) /\ Len(policy.rules) \in Nat
  BY PolicyRange DEF Inv, OriginInv
<1>2. i - 1 = Len(policy.rules) /\ pc = "match"
  BY <1>1 DEF Inv, TypeOK, Decide, More
<1>3. Conclude(Precedence(matching))
  BY DEF Decide
<1>4. OriginInv'
  BY <1>2, <1>3, LoopKeepsOrigin DEF Inv, Conclude
<1>5. TypeOK'
  BY <1>3 DEF Conclude, Inv, TypeOK, store, ask
<1>6. matching = {r.effect : r \in {m \in RulesOf(policy) : Matches(m, query)}}
  BY <1>1, <1>2 DEF Inv, LoopInv, RulesOf
<1>7. \A r \in RulesOf(policy) : ~Unreadable(r) /\ ~Breaks(r)
  BY <1>1, <1>2 DEF Inv, LoopInv, RulesOf
<1>8. Meaning(RulesOf(policy), query, policy.strict) = Precedence(matching)
  BY <1>6, <1>7 DEF Meaning, Unreadable, Breaks
<1>9. LoopInv'
  BY <1>3, <1>8 DEF Conclude, LoopInv, ask, Meaning, RulesOf
<1> QED
  BY <1>4, <1>5, <1>9 DEF Inv

LEMMA ReturnStep == Inv /\ Return => Inv'
<1> SUFFICES ASSUME Inv, Return PROVE Inv'
  OBVIOUS
<1> USE DEF Return, store
<1>1. policy' = Nothing /\ IsPolicy(policy') /\ Len(policy'.rules) = 0
  BY NothingIsPolicy
<1>2. i' \in 1 .. Len(policy'.rules) + 1
  BY <1>1
<1>3. TypeOK'
  BY <1>2 DEF Inv, TypeOK
<1>4. OriginInv'
  BY <1>1 DEF Inv, OriginInv, IsPolicy, RulesOf
<1>5. LoopInv'
  BY DEF LoopInv
<1> QED
  BY <1>3, <1>4, <1>5 DEF Inv

LEMMA StutterStep == Inv /\ UNCHANGED vars => Inv'
<1> SUFFICES ASSUME Inv, UNCHANGED vars PROVE Inv'
  OBVIOUS
<1> USE DEF vars, store, ask
<1>1. TypeOK'
  BY DEF Inv, TypeOK
<1>2. OriginInv'
  BY DEF Inv, OriginInv, IsPolicy, RulesOf
<1>3. LoopInv'
  BY DEF Inv, LoopInv, Unreadable, Breaks, Meaning, RulesOf
<1> QED
  BY <1>1, <1>2, <1>3 DEF Inv

LEMMA InvStep == Inv /\ [Next]_vars => Inv'
BY SyncStep, AskStep, CheckKindStep, KindsCheckedStep, MatchStep, DecideStep, ReturnStep,
   StutterStep DEF Next

LEMMA InvGivesOrderFree == Inv => DecisionIsOrderFree
<1> SUFFICES ASSUME Inv, pc = "done",
                    source = "snapshot" => synced /\ \A k \in DOMAIN live.rules : Survives(live.rules[k])
             PROVE  verdict = Meaning(RulesOf(live), query, live.strict)
  BY DEF DecisionIsOrderFree, RulesOf
<1>1. verdict = Meaning(RulesOf(policy), query, policy.strict)
  BY DEF Inv, LoopInv
<1>2. policy = live
  <2>1. CASE source = "live"
    BY <2>1 DEF Inv, OriginInv
  <2>2. CASE source = "snapshot"
    <3>1. PICK file \in Files : Loads(file) /\ live = Loaded(file)
      BY DEF Inv, OriginInv
    <3>2. policy = Loaded(Saved(live))
      BY <2>2 DEF Inv, OriginInv
    <3> QED
      BY <2>2, <3>1, <3>2, LoadsWhatItSaved
  <2> QED
    BY <2>1, <2>2 DEF Inv, TypeOK
<1> QED
  BY <1>1, <1>2

-----------------------------------------------------------------------------
(***************************************************************************)
(* The loop of PathMatcher, and what a list of patterns covers.            *)
(***************************************************************************)
\* How the patterns from h on may be laid over the segments from j on: where each begins.
Lays(ps, ss, k, a, b) ==
    IF ps[k] = "**" THEN a <= b ELSE b = a + 1 /\ Paths!SegmentMatches(ps[k], ss[a])
Layouts(ps, ss, h, j) ==
    {f \in [h .. Len(ps) + 1 -> 1 .. Len(ss) + 1] :
        /\ f[h] = j /\ f[Len(ps) + 1] = Len(ss) + 1
        /\ \A k \in h .. Len(ps) : Lays(ps, ss, k, f[k], f[k + 1])}

\* The recursive definition of Starts has a solution, and so says what it seems to.
LEMMA StartsRecursion ==
    ASSUME NEW ps, NEW ss, Len(ps) \in Nat, Len(ss) \in Nat
    PROVE  /\ Paths!Starts(ps, ss)[Len(ps) + 1] = {Len(ss) + 1}
           /\ \A h \in 1 .. Len(ps) : ps[h] = "**" =>
                  Paths!Starts(ps, ss)[h] =
                      {j \in 1 .. Len(ss) + 1 : \E k \in Paths!Starts(ps, ss)[h + 1] : j <= k}
           /\ \A h \in 1 .. Len(ps) : ps[h] # "**" =>
                  Paths!Starts(ps, ss)[h] =
                      {j \in 1 .. Len(ss) : /\ Paths!SegmentMatches(ps[h], ss[j])
                                            /\ j + 1 \in Paths!Starts(ps, ss)[h + 1]}
<1>. DEFINE m == Len(ps)
            n == Len(ss)
            Body(s, h) ==
                IF h > m THEN {n + 1}
                ELSE IF ps[h] = "**" THEN {j \in 1 .. n + 1 : \E k \in s[h + 1] : j <= k}
                ELSE {j \in 1 .. n : Paths!SegmentMatches(ps[h], ss[j]) /\ j + 1 \in s[h + 1]}
            W(h) == {j \in 1 .. n + 1 : Layouts(ps, ss, h, j) # {}}
            w    == [h \in 1 .. m + 1 |-> W(h)]
<1>1. W(m + 1) = {n + 1}
  <2>1. ASSUME NEW j \in W(m + 1) PROVE j = n + 1
    BY <2>1 DEF Layouts
  <2>2. [k \in m + 1 .. m + 1 |-> n + 1] \in Layouts(ps, ss, m + 1, n + 1)
    BY DEF Layouts
  <2>. QED BY <2>1, <2>2
<1>2. ASSUME NEW h \in 1 .. m, NEW j \in 1 .. n + 1, NEW b \in W(h + 1), Lays(ps, ss, h, j, b)
      PROVE  j \in W(h)
  <2>1. PICK f \in Layouts(ps, ss, h + 1, b) : TRUE
    OBVIOUS
  <2>. DEFINE g == [k \in h .. m + 1 |-> IF k = h THEN j ELSE f[k]]
  <2>2. f \in [h + 1 .. m + 1 -> 1 .. n + 1] /\ f[h + 1] = b /\ f[m + 1] = n + 1
        /\ \A k \in h + 1 .. m : Lays(ps, ss, k, f[k], f[k + 1])
    BY <2>1 DEF Layouts
  <2>3. g \in [h .. m + 1 -> 1 .. n + 1] /\ g[h] = j /\ \A k \in h + 1 .. m + 1 : g[k] = f[k]
    BY <2>2
  <2>. HIDE DEF g
  <2>4. ASSUME NEW k \in h .. m PROVE Lays(ps, ss, k, g[k], g[k + 1])
    <3>1. CASE k = h
      BY <1>2, <2>2, <2>3, <3>1
    <3>2. CASE k # h
      BY <2>2, <2>3, <3>2
    <3>. QED BY <3>1, <3>2
  <2>5. g[m + 1] = n + 1
    BY <2>2, <2>3
  <2>6. g \in Layouts(ps, ss, h, j)
    BY <2>3, <2>4, <2>5 DEF Layouts
  <2>. QED BY <2>6
<1>3. ASSUME NEW h \in 1 .. m, NEW j \in W(h)
      PROVE  \E b \in W(h + 1) : Lays(ps, ss, h, j, b)
  <2>1. PICK f \in Layouts(ps, ss, h, j) : TRUE
    OBVIOUS
  <2>2. f \in [h .. m + 1 -> 1 .. n + 1] /\ f[h] = j /\ f[m + 1] = n + 1
        /\ \A k \in h .. m : Lays(ps, ss, k, f[k], f[k + 1])
    BY <2>1 DEF Layouts
  <2>. DEFINE g == [k \in h + 1 .. m + 1 |-> f[k]]
  <2>3. g \in [h + 1 .. m + 1 -> 1 .. n + 1] /\ \A k \in h + 1 .. m + 1 : g[k] = f[k]
    BY <2>2
  <2>. HIDE DEF g
  <2>4. g \in Layouts(ps, ss, h + 1, f[h + 1])
    <3>1. g[h + 1] = f[h + 1] /\ g[m + 1] = n + 1
      BY <2>2, <2>3
    <3>2. ASSUME NEW k \in h + 1 .. m PROVE Lays(ps, ss, k, g[k], g[k + 1])
      <4>1. g[k] = f[k] /\ g[k + 1] = f[k + 1]
        BY <2>3
      <4>. QED BY <2>2, <4>1
    <3>. QED BY <2>3, <3>1, <3>2 DEF Layouts
  <2>5. f[h + 1] \in 1 .. n + 1 /\ Lays(ps, ss, h, j, f[h + 1])
    BY <2>2
  <2>. QED BY <2>4, <2>5
<1>. HIDE DEF W
<1>4. \A h \in 1 .. m + 1 : w[h] = Body(w, h)
  <2>1. w[m + 1] = Body(w, m + 1)
    <3>1. w[m + 1] = W(m + 1) /\ m + 1 > m
      OBVIOUS
    <3>. QED BY <1>1, <3>1
  <2>2. ASSUME NEW h \in 1 .. m PROVE w[h] = Body(w, h)
    <3>1. w[h] = W(h) /\ w[h + 1] = W(h + 1) /\ ~(h > m)
      OBVIOUS
    <3>2. W(h) \subseteq 1 .. n + 1 /\ W(h + 1) \subseteq 1 .. n + 1
      BY DEF W
    <3>. HIDE DEF w
    <3>3. CASE ps[h] = "**"
      <4>1. \A j \in 1 .. n + 1 : j \in W(h) <=> \E b \in W(h + 1) : j <= b
        BY <1>2, <1>3, <3>3 DEF Lays
      <4>. QED BY <3>1, <3>2, <3>3, <4>1
    <3>4. CASE ps[h] # "**"
      <4>1. ASSUME NEW j \in W(h)
            PROVE  j \in 1 .. n /\ Paths!SegmentMatches(ps[h], ss[j]) /\ j + 1 \in W(h + 1)
        <5>1. PICK b \in W(h + 1) : Lays(ps, ss, h, j, b)
          BY <1>3
        <5>. QED BY <3>2, <3>4, <5>1 DEF Lays
      <4>2. ASSUME NEW j \in 1 .. n, Paths!SegmentMatches(ps[h], ss[j]), j + 1 \in W(h + 1)
            PROVE  j \in W(h)
        <5>1. Lays(ps, ss, h, j, j + 1)
          BY <3>4, <4>2 DEF Lays
        <5>. QED BY <1>2, <4>2, <5>1
      <4>. QED BY <3>1, <3>4, <4>1, <4>2
    <3>. QED BY <3>3, <3>4
  <2>. HIDE DEF w, Body
  <2>3. \A h \in 1 .. m + 1 : h \in 1 .. m \/ h = m + 1
    OBVIOUS
  <2>. QED BY <2>1, <2>2, <2>3
<1>5. w = [h \in 1 .. m + 1 |-> Body(w, h)]
  BY <1>4
<1>6. Paths!Starts(ps, ss) = CHOOSE s : s = [h \in 1 .. m + 1 |-> Body(s, h)]
  BY DEF Paths!Starts
<1>. HIDE DEF w
<1>7. Paths!Starts(ps, ss) = [h \in 1 .. m + 1 |-> Body(Paths!Starts(ps, ss), h)]
  BY <1>5, <1>6
<1>8. \A h \in 1 .. m + 1 : Paths!Starts(ps, ss)[h] = Body(Paths!Starts(ps, ss), h)
  BY <1>7
<1>9. Paths!Starts(ps, ss)[m + 1] = {n + 1}
  <2>1. m + 1 \in 1 .. m + 1 /\ m + 1 > m
    OBVIOUS
  <2>. QED BY <1>8, <2>1
<1>10. ASSUME NEW h \in 1 .. m
       PROVE  Paths!Starts(ps, ss)[h] =
                 IF ps[h] = "**" THEN {j \in 1 .. n + 1 : \E k \in Paths!Starts(ps, ss)[h + 1] : j <= k}
                 ELSE {j \in 1 .. n : /\ Paths!SegmentMatches(ps[h], ss[j])
                                      /\ j + 1 \in Paths!Starts(ps, ss)[h + 1]}
  <2>1. h \in 1 .. m + 1 /\ ~(h > m)
    OBVIOUS
  <2>. QED BY <1>8, <2>1
<1>. QED BY <1>9, <1>10

\* Both lists of a pair are lists.
LEMMA ListsHaveLengths ==
    /\ \A p \in PathPatterns : Len(p) \in Nat
    /\ \A s \in PathInputs : Len(s) \in Nat
BY PathsAssumption

-----------------------------------------------------------------------------
\* A longer stretch for the last "**" is still to be tried, and would match.
Waiting == star # 0 /\ \E k \in Paths!Starts(pats, segs)[star + 1] : k > resume

PathTypes ==
    /\ pats \in PathPatterns /\ segs \in PathInputs
    /\ pIdx \in 1 .. Len(pats) + 1 /\ sIdx \in 1 .. Len(segs) + 1
    /\ star \in 0 .. Len(pats) /\ resume \in 0 .. Len(segs) + 1
    /\ steps \in Nat /\ answer \in {"running", "yes", "no"}

StarInv ==
    star # 0 => pats[star] = "**" /\ star < pIdx /\ resume \in 1 .. sIdx

\* The pair of positions, or a longer stretch, covers the input if anything does.
SearchInv ==
    1 \in Paths!Starts(pats, segs)[1]
        <=> (sIdx \in Paths!Starts(pats, segs)[pIdx] \/ Waiting)

\* The patterns since the last "**" have eaten one segment each: what a longer
\* stretch would match, the current pattern would match as much further on.
StretchInv ==
    star # 0 => /\ sIdx <= Len(segs) => /\ pIdx - star = sIdx - resume + 1
                                        /\ \A k \in Paths!Starts(pats, segs)[star + 1] :
                                              k > resume => k + (pIdx - star - 1) \in Paths!Starts(pats, segs)[pIdx]
                /\ sIdx > Len(segs) => ~Waiting

\* Each stretch of the last "**" costs at most the patterns after it.
StepsInv ==
    /\ star = 0 => steps < pIdx
    /\ star # 0 => steps < (resume - 1) * Len(pats) + pIdx

PathInv ==
    /\ PathTypes
    /\ answer = "running" => StarInv /\ SearchInv /\ StretchInv /\ StepsInv
    /\ answer # "running" => answer = "yes" <=> 1 \in Paths!Starts(pats, segs)[1]
    /\ steps <= (Len(segs) + 1) * (Len(pats) + 1)

LEMMA PathsStart == ASSUME Paths!Init PROVE PathInv
<1>1. pats \in PathPatterns /\ segs \in PathInputs /\ Len(pats) \in Nat /\ Len(segs) \in Nat
  BY ListsHaveLengths DEF Paths!Init
<1>2. (Len(segs) + 1) * (Len(pats) + 1) >= 0
  BY <1>1
<1>3. PathTypes
  BY <1>1 DEF Paths!Init, PathTypes
<1>4. StarInv /\ SearchInv /\ StretchInv /\ StepsInv
  BY DEF Paths!Init, StarInv, SearchInv, StretchInv, StepsInv, Waiting
<1>. QED BY <1>2, <1>3, <1>4 DEF PathInv, Paths!Init

LEMMA StarBound ==
    ASSUME NEW m \in Nat, NEW n \in Nat, NEW p \in 1 .. m + 1, NEW r \in 1 .. n + 1, NEW c \in Nat,
           c < (r - 1) * m + p
    PROVE  c + 1 <= (n + 1) * (m + 1)
<1>1. (r - 1) * m <= n * m
  OBVIOUS
<1>2. (n + 1) * (m + 1) = n * m + n + m + 1
  OBVIOUS
<1>. QED BY <1>1, <1>2

LEMMA PathsStep ==
    ASSUME PathInv, Paths!Next
    PROVE  PathInv'
<1>. DEFINE m == Len(pats)
            n == Len(segs)
<1>1. PICK A : A = Paths!Starts(pats, segs)
  OBVIOUS
<1>2. m \in Nat /\ n \in Nat /\ pats' = pats /\ segs' = segs /\ steps' = steps + 1
  BY ListsHaveLengths DEF PathInv, PathTypes, Paths!Next, Paths!Tick, Paths!Advance, Paths!Remember,
       Paths!Resume, Paths!Mismatch, Paths!SkipStars, Paths!Conclude
<1>3. answer = "running"
  BY DEF Paths!Next, Paths!Scanning, Paths!Advance, Paths!Remember,
       Paths!Resume, Paths!Mismatch, Paths!SkipStars, Paths!Conclude
<1>4. A = Paths!Starts(pats', segs')
  BY <1>1, <1>2
<1>5. /\ A[m + 1] = {n + 1}
      /\ \A h \in 1 .. m : pats[h] = "**" =>
            A[h] = {j \in 1 .. n + 1 : \E k \in A[h + 1] : j <= k}
      /\ \A h \in 1 .. m : pats[h] # "**" =>
            A[h] = {j \in 1 .. n : Paths!SegmentMatches(pats[h], segs[j]) /\ j + 1 \in A[h + 1]}
  <2>1. PICK B : B = Paths!Starts(pats, segs)
    OBVIOUS
  <2>2. /\ B[m + 1] = {n + 1}
        /\ \A h \in 1 .. m : pats[h] = "**" =>
              B[h] = {j \in 1 .. n + 1 : \E k \in B[h + 1] : j <= k}
        /\ \A h \in 1 .. m : pats[h] # "**" =>
              B[h] = {j \in 1 .. n : Paths!SegmentMatches(pats[h], segs[j]) /\ j + 1 \in B[h + 1]}
    BY <1>2, <2>1, StartsRecursion
  <2>. QED BY <1>1, <2>1, <2>2
<1>6. ASSUME NEW h \in 1 .. m + 1 PROVE A[h] \subseteq 1 .. n + 1
  <2>1. h \in 1 .. m \/ h = m + 1
    BY <1>2
  <2>. QED BY <1>2, <1>5, <2>1
<1>7. PathTypes /\ StarInv /\ SearchInv /\ StretchInv /\ StepsInv
  BY <1>3 DEF PathInv
<1>8. (steps + 1 <= (n + 1) * (m + 1))
  <2>1. /\ pIdx \in 1 .. m + 1 /\ steps \in Nat /\ resume \in 0 .. n + 1 /\ star \in 0 .. m
        /\ star # 0 => resume \in 1 .. n + 1
    BY <1>2, <1>7 DEF PathTypes, StarInv
  <2>2. CASE star = 0
    <3>1. steps + 1 <= m + 1
      BY <1>2, <1>7, <2>1, <2>2 DEF StepsInv
    <3>2. m + 1 <= (n + 1) * (m + 1)
      BY <1>2
    <3>. QED BY <1>2, <2>1, <3>1, <3>2
  <2>3. CASE star # 0
    BY <1>2, <1>7, <2>1, <2>3, StarBound DEF StepsInv
  <2>. QED BY <2>2, <2>3
<1>9. \A h \in 1 .. m + 1 : h \in 1 .. m \/ h = m + 1
  BY <1>2
<1>. HIDE DEF m, n
\* What the assumptions and the goal say, with the lists and A named once.
<1>10. /\ pIdx \in 1 .. m + 1 /\ sIdx \in 1 .. n + 1 /\ star \in 0 .. m /\ resume \in 0 .. n + 1
       /\ steps \in Nat
       /\ star # 0 => pats[star] = "**" /\ star < pIdx /\ resume \in 1 .. sIdx
  BY <1>7 DEF PathTypes, StarInv, m, n
<1>11. 1 \in A[1] <=> (sIdx \in A[pIdx] \/ (star # 0 /\ \E k \in A[star + 1] : k > resume))
  BY <1>1, <1>7 DEF SearchInv, Waiting
<1>12. star # 0 /\ sIdx <= n => /\ pIdx - star = sIdx - resume + 1
                                /\ \A k \in A[star + 1] : k > resume => k + (pIdx - star - 1) \in A[pIdx]
  BY <1>1, <1>7 DEF StretchInv, n
<1>13. star # 0 /\ sIdx > n => \A k \in A[star + 1] : ~(k > resume)
  BY <1>1, <1>7 DEF StretchInv, Waiting, n
<1>14. (star = 0 => steps < pIdx) /\ (star # 0 => steps < (resume - 1) * m + pIdx)
  BY <1>7 DEF StepsInv, m
<1>. DEFINE Continues ==
       /\ answer' = "running"
       /\ pIdx' \in 1 .. m + 1 /\ sIdx' \in 1 .. n + 1 /\ star' \in 0 .. m /\ resume' \in 0 .. n + 1
       /\ star' # 0 => pats[star'] = "**" /\ star' < pIdx' /\ resume' \in 1 .. sIdx'
     Searches ==
       1 \in A[1] <=> (sIdx' \in A[pIdx'] \/ (star' # 0 /\ \E k \in A[star' + 1] : k > resume'))
     Stretches ==
       star' # 0 /\ sIdx' <= n => /\ pIdx' - star' = sIdx' - resume' + 1
                                  /\ \A k \in A[star' + 1] : k > resume' => k + (pIdx' - star' - 1) \in A[pIdx']
     Exhausted ==
       star' # 0 /\ sIdx' > n => \A k \in A[star' + 1] : ~(k > resume')
     Counts ==
       (star' = 0 => steps + 1 < pIdx') /\ (star' # 0 => steps + 1 < (resume' - 1) * m + pIdx')
<1>15. ASSUME Continues, Searches, Stretches, Exhausted, Counts
       PROVE  PathInv'
  <2>1. PathTypes'
    BY <1>2, <1>7, <1>10, <1>15 DEF PathTypes, m, n
  <2>2. StarInv'
    BY <1>2, <1>15 DEF StarInv
  <2>3. SearchInv'
    BY <1>4, <1>15 DEF SearchInv, Waiting
  <2>4. StretchInv'
    BY <1>2, <1>4, <1>15 DEF StretchInv, Waiting, n
  <2>5. StepsInv'
    BY <1>2, <1>15 DEF StepsInv, m
  <2>. QED BY <1>2, <1>8, <1>15, <2>1, <2>2, <2>3, <2>4, <2>5 DEF PathInv, m, n
<1>16. ASSUME answer' \in {"yes", "no"}, UNCHANGED <<pIdx, sIdx, star, resume>>,
              answer' = "yes" <=> 1 \in A[1]
       PROVE  PathInv'
  <2>1. PathTypes'
    BY <1>2, <1>7, <1>10, <1>16 DEF PathTypes
  <2>. QED BY <1>2, <1>4, <1>8, <1>16, <2>1 DEF PathInv, m, n
<1>. HIDE DEF Continues, Searches, Stretches, Exhausted, Counts
<1>17. CASE Paths!Advance
  <2>1. /\ sIdx <= n /\ pIdx \in 1 .. m /\ pats[pIdx] # "**" /\ Paths!SegmentMatches(pats[pIdx], segs[sIdx])
        /\ sIdx' = sIdx + 1 /\ pIdx' = pIdx + 1 /\ star' = star /\ resume' = resume /\ answer' = answer
    BY <1>2, <1>10, <1>17 DEF Paths!Advance, Paths!Scanning, Paths!Fits, m, n
  <2>2. A[pIdx] = {j \in 1 .. n : Paths!SegmentMatches(pats[pIdx], segs[j]) /\ j + 1 \in A[pIdx + 1]}
    BY <1>5, <2>1
  <2>3. Continues
    BY <1>2, <1>3, <1>10, <2>1 DEF Continues
  <2>4. Searches
    <3>1. sIdx \in A[pIdx] <=> sIdx + 1 \in A[pIdx + 1]
      BY <1>2, <1>10, <2>1, <2>2
    <3>. QED BY <1>11, <2>1, <3>1 DEF Searches
  <2>5. Stretches
    <3>1. SUFFICES ASSUME star # 0, sIdx + 1 <= n
                   PROVE  /\ (pIdx + 1) - star = (sIdx + 1) - resume + 1
                          /\ \A k \in A[star + 1] : k > resume => k + ((pIdx + 1) - star - 1) \in A[pIdx + 1]
      BY <2>1 DEF Stretches
    <3>2. (pIdx + 1) - star = (sIdx + 1) - resume + 1
      BY <1>2, <1>10, <1>12, <2>1, <3>1
    <3>3. ASSUME NEW k \in A[star + 1], k > resume
          PROVE  k + ((pIdx + 1) - star - 1) \in A[pIdx + 1]
      <4>1. k \in 1 .. n + 1
        BY <1>2, <1>6, <1>10, <2>1, <3>3
      <4>2. (k + (pIdx - star - 1)) + 1 \in A[pIdx + 1]
        BY <1>12, <2>1, <2>2, <3>1, <3>3
      <4>3. (k + (pIdx - star - 1)) + 1 = k + ((pIdx + 1) - star - 1)
        BY <1>2, <1>10, <4>1
      <4>. QED BY <4>2, <4>3
    <3>. QED BY <3>2, <3>3
  <2>6. Exhausted
    <3>1. SUFFICES ASSUME star # 0, sIdx + 1 > n, NEW k \in A[star + 1], k > resume
                   PROVE  FALSE
      BY <2>1 DEF Exhausted
    <3>2. k \in 1 .. n + 1
      BY <1>2, <1>6, <1>10, <2>1, <3>1
    <3>3. k + (pIdx - star - 1) \in A[pIdx] /\ pIdx - star = sIdx - resume + 1
      BY <1>12, <2>1, <3>1
    <3>4. k + (pIdx - star - 1) \in 1 .. n
      BY <2>2, <3>3
    <3>. QED BY <1>2, <1>10, <2>1, <3>1, <3>2, <3>3, <3>4
  <2>7. Counts
    <3>1. PICK c : c = (resume - 1) * m
      OBVIOUS
    <3>2. c \in Int
      BY <1>2, <1>10, <3>1 DEF m
    <3>. QED BY <1>2, <1>10, <1>14, <2>1, <3>1, <3>2 DEF Counts
  <2>. QED BY <1>15, <2>3, <2>4, <2>5, <2>6, <2>7
<1>18. CASE Paths!Remember
  <2>1. /\ sIdx <= n /\ pIdx \in 1 .. m /\ pats[pIdx] = "**"
        /\ star' = pIdx /\ resume' = sIdx /\ pIdx' = pIdx + 1 /\ sIdx' = sIdx /\ answer' = answer
    BY <1>2, <1>10, <1>18 DEF Paths!Remember, Paths!Scanning, Paths!AtStars, m, n
  <2>2. A[pIdx] = {j \in 1 .. n + 1 : \E k \in A[pIdx + 1] : j <= k}
    BY <1>5, <2>1
  <2>3. A[pIdx + 1] \subseteq 1 .. n + 1
    BY <1>2, <1>6, <1>10, <2>1
  <2>4. Continues
    BY <1>2, <1>3, <1>10, <2>1 DEF Continues
  <2>5. Searches
    <3>1. sIdx \in A[pIdx] <=> (sIdx \in A[pIdx + 1] \/ \E k \in A[pIdx + 1] : k > sIdx)
      <4>1. \A k \in A[pIdx + 1] : sIdx <= k <=> (k = sIdx \/ k > sIdx)
        BY <1>2, <1>10, <2>3
      <4>. QED BY <1>10, <2>2, <4>1
    <3>2. ASSUME star # 0, NEW k \in A[star + 1], k > resume PROVE sIdx \in A[pIdx]
      <4>1. k + (pIdx - star - 1) \in A[pIdx] /\ pIdx - star = sIdx - resume + 1
        BY <1>12, <2>1, <3>2
      <4>2. k \in 1 .. n + 1
        BY <1>2, <1>6, <1>10, <2>1, <3>2
      <4>3. sIdx <= k + (pIdx - star - 1)
        BY <1>2, <1>10, <3>2, <4>1, <4>2
      <4>4. PICK l \in A[pIdx + 1] : k + (pIdx - star - 1) <= l
        BY <2>2, <4>1
      <4>5. sIdx <= l
        BY <1>2, <1>10, <2>1, <2>3, <4>2, <4>3, <4>4
      <4>. QED BY <1>10, <2>2, <4>4, <4>5
    <3>3. 1 \in A[1] <=> sIdx \in A[pIdx]
      BY <1>11, <3>2
    <3>4. pIdx # 0
      BY <1>2, <1>10
    <3>. QED BY <2>1, <3>1, <3>3, <3>4 DEF Searches
  <2>6. Stretches
    <3>1. (pIdx + 1) - pIdx = sIdx - sIdx + 1 /\ (pIdx + 1) - pIdx - 1 = 0
      BY <1>2, <1>10
    <3>2. \A k \in A[pIdx + 1] : k + 0 \in A[pIdx + 1]
      BY <1>2, <2>3
    <3>. QED BY <2>1, <3>1, <3>2 DEF Stretches
  <2>7. Exhausted
    BY <1>2, <1>10, <2>1 DEF Exhausted
  <2>8. Counts
    <3>1. steps < (sIdx - 1) * m + pIdx
      <4>1. CASE star = 0
        <5>1. (sIdx - 1) * m >= 0
          BY <1>2, <1>10 DEF m
        <5>2. (sIdx - 1) * m \in Int
          BY <1>2, <1>10 DEF m
        <5>. QED BY <1>10, <1>14, <4>1, <5>1, <5>2
      <4>2. CASE star # 0
        <5>1. resume \in Nat /\ sIdx \in Nat /\ resume <= sIdx /\ m \in Nat
          BY <1>2, <1>10, <4>2 DEF m
        <5>2. (resume - 1) * m <= (sIdx - 1) * m
          BY <5>1
        <5>3. (resume - 1) * m \in Int /\ (sIdx - 1) * m \in Int
          BY <5>1
        <5>. QED BY <1>10, <1>14, <4>2, <5>2, <5>3
      <4>. QED BY <4>1, <4>2
    <3>2. (sIdx - 1) * m \in Int /\ pIdx \in Nat /\ pIdx # 0
      BY <1>2, <1>10 DEF m
    <3>. QED BY <1>10, <2>1, <3>1, <3>2 DEF Counts
  <2>. QED BY <1>15, <2>4, <2>5, <2>6, <2>7, <2>8
<1>19. ASSUME sIdx <= n, ~Paths!Fits, ~Paths!AtStars
       PROVE  sIdx \notin A[pIdx]
  <2>1. CASE pIdx = m + 1
    <3>1. n \in Nat /\ sIdx <= n /\ A[pIdx] = {n + 1}
      BY <1>2, <1>5, <1>19, <2>1
    <3>. QED BY <3>1
  <2>2. CASE pIdx \in 1 .. m
    <3>1. pats[pIdx] # "**" /\ ~Paths!SegmentMatches(pats[pIdx], segs[sIdx])
      BY <1>2, <1>19, <2>2 DEF Paths!Fits, Paths!AtStars, m
    <3>2. A[pIdx] = {j \in 1 .. n : Paths!SegmentMatches(pats[pIdx], segs[j]) /\ j + 1 \in A[pIdx + 1]}
      BY <1>5, <2>2, <3>1
    <3>. QED BY <3>1, <3>2
  <2>. QED BY <1>9, <1>10, <2>1, <2>2
<1>20. CASE Paths!Resume
  <2>1. /\ sIdx <= n /\ ~Paths!Fits /\ ~Paths!AtStars /\ star # 0
        /\ pIdx' = star + 1 /\ resume' = resume + 1 /\ sIdx' = resume + 1
        /\ star' = star /\ answer' = answer
    BY <1>20 DEF Paths!Resume, Paths!Scanning, n
  <2>2. A[star + 1] \subseteq 1 .. n + 1
    BY <1>2, <1>6, <1>10, <2>1
  <2>3. Continues
    BY <1>2, <1>3, <1>10, <2>1 DEF Continues
  <2>4. Searches
    <3>1. 1 \in A[1] <=> \E k \in A[star + 1] : k > resume
      BY <1>11, <1>19, <2>1
    <3>2. \A k \in A[star + 1] : k > resume <=> (k = resume + 1 \/ k > resume + 1)
      BY <1>2, <1>10, <2>2
    <3>. QED BY <2>1, <3>1, <3>2 DEF Searches
  <2>5. Stretches
    <3>1. (star + 1) - star = (resume + 1) - (resume + 1) + 1 /\ (star + 1) - star - 1 = 0
      BY <1>2, <1>10
    <3>2. \A k \in A[star + 1] : k + 0 \in A[star + 1]
      BY <1>2, <2>2
    <3>. QED BY <2>1, <3>1, <3>2 DEF Stretches
  <2>6. Exhausted
    BY <1>2, <1>10, <2>1, <2>2 DEF Exhausted
  <2>7. Counts
    <3>1. resume \in Nat /\ m \in Nat /\ star \in Nat /\ star # 0 /\ pIdx \in Nat /\ pIdx <= m + 1
      BY <1>2, <1>10, <2>1 DEF m
    <3>2. PICK c : c = (resume - 1) * m
      OBVIOUS
    <3>3. c \in Int /\ ((resume + 1) - 1) * m = c + m
      BY <3>1, <3>2
    <3>4. steps < c + pIdx
      BY <1>14, <2>1, <3>2
    <3>5. steps + 1 < (c + m) + (star + 1)
      BY <1>10, <3>1, <3>3, <3>4
    <3>. QED BY <2>1, <3>3, <3>5 DEF Counts
  <2>. QED BY <1>15, <2>3, <2>4, <2>5, <2>6, <2>7
<1>21. CASE Paths!Mismatch
  <2>1. /\ sIdx <= n /\ ~Paths!Fits /\ ~Paths!AtStars /\ star = 0
        /\ answer' = "no" /\ UNCHANGED <<pIdx, sIdx, star, resume>>
    BY <1>21 DEF Paths!Mismatch, Paths!Scanning, n
  <2>2. 1 \notin A[1]
    BY <1>11, <1>19, <2>1
  <2>. QED BY <1>16, <2>1, <2>2
<1>22. CASE Paths!SkipStars
  <2>1. /\ sIdx = n + 1 /\ pIdx \in 1 .. m /\ pats[pIdx] = "**"
        /\ pIdx' = pIdx + 1 /\ sIdx' = sIdx /\ star' = star /\ resume' = resume /\ answer' = answer
    BY <1>2, <1>10, <1>22 DEF Paths!SkipStars, Paths!AtStars, m, n
  <2>2. A[pIdx] = {j \in 1 .. n + 1 : \E k \in A[pIdx + 1] : j <= k}
    BY <1>5, <2>1
  <2>3. A[pIdx + 1] \subseteq 1 .. n + 1
    BY <1>2, <1>6, <1>10, <2>1
  <2>4. Continues
    BY <1>2, <1>3, <1>10, <2>1 DEF Continues
  <2>5. n \in Nat /\ sIdx > n
    BY <1>2, <2>1 DEF n
  <2>6. Searches
    <3>1. sIdx \in A[pIdx] <=> sIdx \in A[pIdx + 1]
      <4>1. \A k \in A[pIdx + 1] : sIdx <= k <=> k = sIdx
        BY <2>1, <2>3, <2>5
      <4>. QED BY <1>10, <2>2, <4>1
    <3>. QED BY <1>11, <2>1, <3>1 DEF Searches
  <2>7. Stretches
    BY <2>1, <2>5 DEF Stretches
  <2>8. Exhausted
    BY <1>13, <2>1, <2>5 DEF Exhausted
  <2>9. Counts
    <3>1. PICK c : c = (resume - 1) * m
      OBVIOUS
    <3>2. c \in Int
      BY <1>2, <1>10, <3>1 DEF m
    <3>. QED BY <1>2, <1>10, <1>14, <2>1, <3>1, <3>2 DEF Counts
  <2>. QED BY <1>15, <2>4, <2>6, <2>7, <2>8, <2>9
<1>23. CASE Paths!Conclude
  <2>1. /\ sIdx = n + 1 /\ ~Paths!AtStars /\ UNCHANGED <<pIdx, sIdx, star, resume>>
        /\ answer' = IF pIdx > m THEN "yes" ELSE "no"
    BY <1>2, <1>10, <1>23 DEF Paths!Conclude, m, n
  <2>2. n \in Nat /\ sIdx > n
    BY <1>2, <2>1 DEF n
  <2>3. 1 \in A[1] <=> sIdx \in A[pIdx]
    BY <1>11, <1>13, <2>2
  <2>4. CASE pIdx = m + 1
    <3>1. pIdx > m
      BY <1>2, <2>4 DEF m
    <3>2. sIdx \in A[pIdx]
      BY <1>5, <2>1, <2>4 DEF m, n
    <3>. QED BY <1>16, <2>1, <2>3, <3>1, <3>2
  <2>5. CASE pIdx \in 1 .. m
    <3>1. ~(pIdx > m) /\ pats[pIdx] # "**"
      BY <1>2, <2>1, <2>5 DEF Paths!AtStars, m
    <3>2. A[pIdx] = {j \in 1 .. n : Paths!SegmentMatches(pats[pIdx], segs[j]) /\ j + 1 \in A[pIdx + 1]}
      BY <1>5, <2>5, <3>1 DEF m, n
    <3>3. sIdx \notin A[pIdx]
      BY <2>1, <2>2, <3>2
    <3>. QED BY <1>16, <2>1, <2>3, <3>1, <3>3
  <2>. QED BY <1>9, <1>10, <2>4, <2>5
<1>. QED BY <1>17, <1>18, <1>20, <1>21, <1>22, <1>23 DEF Paths!Next

-----------------------------------------------------------------------------
(***************************************************************************)
(* One record and its transition methods.                                  *)
(***************************************************************************)
\* A record that can still move has come by the one way that leads to its state.
RecordInv ==
    /\ Record!TypeOK /\ Record!WellFormed(rec)
    /\ rec.state = "PENDING"  => rec.version = 1 /\ path = {"PENDING"}
    /\ rec.state = "APPROVED" => rec.version = 2 /\ path = {"PENDING", "APPROVED"}
    /\ Record!ConsumedOnlyThroughApproval

LEMMA RecordStarts == ASSUME Record!Init PROVE RecordInv
<1>1. PICK f \in Fingerprints, p \in Policies, t \in 0 .. MaxTime, ttl \in 1 .. MaxTTL :
          rec = Record!Created(f, p, t, ttl)
  BY DEF Record!Init
<1>2. t \in Nat /\ t + ttl \in Nat /\ t + ttl > t
  BY RecordAssumption
<1>3. rec = [state |-> "PENDING", fp |-> f, policy |-> p,
             createdAt |-> t, expiresAt |-> t + ttl, stateAt |-> t,
             decisionAt |-> -1, consumedAt |-> -1, version |-> 1]
  BY <1>1 DEF Record!Created, Record!NoTime
<1>. HIDE DEF Record!Init
<1>4. rec \in Record!Record
  BY <1>2, <1>3 DEF Record!Record, Record!States, Record!NoTime
<1>5. Record!WellFormed(rec)
  BY <1>2, <1>3 DEF Record!WellFormed, Record!NoTime
<1>6. path = {"PENDING"} /\ path \subseteq Record!States
  BY DEF Record!Init, Record!States
<1>. QED BY <1>3, <1>4, <1>5, <1>6 DEF RecordInv, Record!TypeOK, Record!ConsumedOnlyThroughApproval

\* Every transition method leaves a record that can move in a state of its own.
LEMMA RecordMoves ==
    ASSUME RecordInv, NEW t \in Nat, NEW s \in Record!States \ {"PENDING"},
           NEW d \in Nat \cup {Record!NoTime}, NEW c \in Nat \cup {Record!NoTime},
           Record!Step(Record!NextRecord(rec, s, t, d, c)),
           rec.state \in {"PENDING", "APPROVED"},
           s \in {"APPROVED", "REJECTED"} => d # Record!NoTime /\ rec.state = "PENDING",
           s = "CONSUMED" => rec.state = "APPROVED" /\ d = rec.decisionAt /\ c = t /\ t < rec.expiresAt,
           s # "CONSUMED" => c = Record!NoTime
    PROVE  RecordInv'
<1>1. /\ rec \in Record!Record /\ Record!WellFormed(rec)
      /\ rec' = Record!NextRecord(rec, s, t, d, c) /\ path' = path \cup {s}
  BY DEF RecordInv, Record!TypeOK, Record!Step, Record!NextRecord
<1>2. /\ rec'.state = s /\ rec'.fp = rec.fp /\ rec'.policy = rec.policy
      /\ rec'.createdAt = rec.createdAt /\ rec'.expiresAt = rec.expiresAt /\ rec'.stateAt = t
      /\ rec'.decisionAt = d /\ rec'.consumedAt = c /\ rec'.version = rec.version + 1
  BY <1>1 DEF Record!NextRecord
<1>3. rec' \in Record!Record
  BY <1>1 DEF Record!Record, Record!NextRecord
<1>4. Record!WellFormed(rec')
  BY <1>1, <1>2 DEF Record!WellFormed, Record!NoTime, Record!Record
<1>5. s = "APPROVED" => rec'.version = 2 /\ path' = {"PENDING", "APPROVED"}
  BY <1>1, <1>2 DEF RecordInv
<1>6. s = "CONSUMED" => /\ path' = {"PENDING", "APPROVED", "CONSUMED"}
                        /\ rec'.version = 3 /\ rec'.consumedAt < rec'.expiresAt
  BY <1>1, <1>2 DEF RecordInv
<1>7. path' \subseteq Record!States
  BY <1>1 DEF RecordInv, Record!TypeOK
<1>. QED
  BY <1>2, <1>3, <1>4, <1>5, <1>6, <1>7 DEF RecordInv, Record!TypeOK, Record!ConsumedOnlyThroughApproval

LEMMA RecordStep ==
    ASSUME RecordInv, Record!Next
    PROVE  RecordInv'
<1>1. PICK t \in 0 .. MaxTime : \/ Record!Approve(t) \/ Record!Reject(t) \/ Record!Cancel(t)
                               \/ Record!Expire(t) \/ Record!Invalidate(t) \/ Record!Consume(t)
  BY DEF Record!Next
<1>2. t \in Nat /\ t # Record!NoTime
  BY RecordAssumption DEF Record!NoTime
<1>3. rec.decisionAt \in Nat \cup {Record!NoTime} /\ rec.expiresAt \in Nat
  BY DEF RecordInv, Record!TypeOK, Record!Record
<1>4. CASE Record!Approve(t)
  BY <1>2, <1>4, RecordMoves DEF Record!Approve, Record!CanDecide, Record!Approved, Record!States
<1>5. CASE Record!Reject(t)
  BY <1>2, <1>5, RecordMoves DEF Record!Reject, Record!CanDecide, Record!Rejected, Record!States
<1>6. CASE Record!Cancel(t)
  BY <1>2, <1>3, <1>6, RecordMoves DEF Record!Cancel, Record!CanCancel, Record!Cancelled, Record!States
<1>7. CASE Record!Expire(t)
  BY <1>2, <1>3, <1>7, RecordMoves DEF Record!Expire, Record!CanExpire, Record!Expired, Record!States
<1>8. CASE Record!Invalidate(t)
  BY <1>2, <1>3, <1>8, RecordMoves
     DEF Record!Invalidate, Record!CanInvalidate, Record!Invalidated, Record!States
<1>9. CASE Record!Consume(t)
  BY <1>2, <1>3, <1>9, RecordMoves
     DEF Record!Consume, Record!CanConsume, Record!NotExpired, Record!Consumed, Record!States
<1>. QED BY <1>1, <1>4, <1>5, <1>6, <1>7, <1>8, <1>9

-----------------------------------------------------------------------------
(***************************************************************************)
(* StoredRequest.  What a value holds, its text, the value read back and the *)
(* redacted value are defined by recursion over how deep a value is: each is *)
(* an instance of Recursion.                                               *)
(***************************************************************************)
HeightOf(v) == Height[v]
Back(v)     == Rows!Parsed[Rows!Text[v]]

\* Of the values with a text, the flattest one gives the text its depth.
SourcesOf(text) == {v \in Values : Rows!Text[v] = text}
Flattest(text)  == CHOOSE v \in SourcesOf(text) : \A w \in SourcesOf(text) : Height[v] <= Height[w]
TextHeight(text) == Height[Flattest(text)]

InsideRec   == INSTANCE Recursion WITH S <- Values, Rank <- HeightOf, Step <- Rows!InsideOf
TextRec     == INSTANCE Recursion WITH S <- Values, Rank <- HeightOf, Step <- Rows!TextOf
RedactedRec == INSTANCE Recursion WITH S <- Values, Rank <- HeightOf, Step <- Rows!RedactedOf
ParsedRec   == INSTANCE Recursion WITH S <- Rows!CanonicalTexts, Rank <- TextHeight, Step <- Rows!ParsedOf

LEMMA ValuesAreRanked == InsideRec!Ranked /\ TextRec!Ranked /\ RedactedRec!Ranked
BY ValuesAssumption DEF InsideRec!Ranked, TextRec!Ranked, RedactedRec!Ranked, HeightOf

LEMMA PartsAreValues ==
    ASSUME NEW v \in Values, Rows!Nested(v), NEW k \in DOMAIN Rows!Parts(v)
    PROVE  Rows!Parts(v)[k] \in Values /\ Height[Rows!Parts(v)[k]] < Height[v]
BY ValuesAssumption DEF Shallower

LEMMA InsideLocal == InsideRec!Local
<1>. SUFFICES ASSUME NEW v \in Values, NEW g, NEW h,
                     \A w \in Values : HeightOf(w) < HeightOf(v) => g[w] = h[w]
              PROVE  Rows!InsideOf(g, v) = Rows!InsideOf(h, v)
  BY DEF InsideRec!Local
<1>1. ASSUME Rows!Nested(v), NEW k \in DOMAIN Rows!Parts(v) PROVE g[Rows!Parts(v)[k]] = h[Rows!Parts(v)[k]]
  BY <1>1, PartsAreValues DEF HeightOf
<1>. QED BY <1>1 DEF Rows!InsideOf

LEMMA TextLocal == TextRec!Local
<1>. SUFFICES ASSUME NEW v \in Values, NEW g, NEW h,
                     \A w \in Values : HeightOf(w) < HeightOf(v) => g[w] = h[w]
              PROVE  Rows!TextOf(g, v) = Rows!TextOf(h, v)
  BY DEF TextRec!Local
<1>1. ASSUME Rows!Nested(v), NEW k \in DOMAIN Rows!Parts(v) PROVE g[Rows!Parts(v)[k]] = h[Rows!Parts(v)[k]]
  BY <1>1, PartsAreValues DEF HeightOf
<1>2. Rows!Nested(v) => [k \in DOMAIN Rows!Parts(v) |-> g[Rows!Parts(v)[k]]]
                        = [k \in DOMAIN Rows!Parts(v) |-> h[Rows!Parts(v)[k]]]
  BY <1>1
<1>. QED BY <1>2 DEF Rows!TextOf

LEMMA InsideRecursion == \A v \in Values : Rows!Inside[v] = Rows!InsideOf(Rows!Inside, v)
<1>1. \E f : f = [v \in Values |-> Rows!InsideOf(f, v)]
  BY ValuesAreRanked, InsideLocal, InsideRec!RecursionHolds
<1>2. Rows!Inside = [v \in Values |-> Rows!InsideOf(Rows!Inside, v)]
  BY <1>1 DEF Rows!Inside
<1>. QED BY <1>2

LEMMA TextRecursion == \A v \in Values : Rows!Text[v] = Rows!TextOf(Rows!Text, v)
<1>1. \E f : f = [v \in Values |-> Rows!TextOf(f, v)]
  BY ValuesAreRanked, TextLocal, TextRec!RecursionHolds
<1>2. Rows!Text = [v \in Values |-> Rows!TextOf(Rows!Text, v)]
  BY <1>1 DEF Rows!Text
<1>. QED BY <1>2

LEMMA RedactedLocal == RedactedRec!Local
<1>. SUFFICES ASSUME NEW v \in Values, NEW g, NEW h,
                     \A w \in Values : HeightOf(w) < HeightOf(v) => g[w] = h[w]
              PROVE  Rows!RedactedOf(g, v) = Rows!RedactedOf(h, v)
  BY DEF RedactedRec!Local
<1>1. ASSUME Rows!Nested(v), NEW k \in DOMAIN Rows!Parts(v) PROVE g[Rows!Parts(v)[k]] = h[Rows!Parts(v)[k]]
  BY <1>1, PartsAreValues DEF HeightOf
<1>2. Rows!Nested(v) =>
          [k \in DOMAIN Rows!Parts(v) |->
              IF Rows!Hidden(v, k) THEN [str |-> "[REDACTED]"] ELSE g[Rows!Parts(v)[k]]]
          = [k \in DOMAIN Rows!Parts(v) |->
              IF Rows!Hidden(v, k) THEN [str |-> "[REDACTED]"] ELSE h[Rows!Parts(v)[k]]]
  BY <1>1
<1>. QED BY <1>2 DEF Rows!RedactedOf

LEMMA RedactedRecursion == \A v \in Values : Rows!Redacted[v] = Rows!RedactedOf(Rows!Redacted, v)
<1>1. \E f : f = [v \in Values |-> Rows!RedactedOf(f, v)]
  BY ValuesAreRanked, RedactedLocal, RedactedRec!RecursionHolds
<1>2. Rows!Redacted = [v \in Values |-> Rows!RedactedOf(Rows!Redacted, v)]
  BY <1>1 DEF Rows!Redacted
<1>. QED BY <1>2

\* What is made like a value has its form and the given parts.
LEMMA LikeForm ==
    ASSUME NEW v, NEW parts
    PROVE  /\ Rows!Nested(Rows!Like(v, parts)) /\ Rows!Parts(Rows!Like(v, parts)) = parts
           /\ Rows!Is(Rows!Like(v, parts), "list") <=> Rows!Is(v, "list")
           /\ Rows!Is(Rows!Like(v, parts), "obj") <=> ~Rows!Is(v, "list")
           /\ \A form \in {"num", "int", "float", "nan", "lone"} : ~Rows!Is(Rows!Like(v, parts), form)
BY DEF Rows!Like, Rows!Nested, Rows!Parts, Rows!Is

\* The forms of values exclude each other.
LEMMA OneForm ==
    ASSUME NEW v \in Values
    PROVE  /\ Rows!Is(v, "int") => /\ v = [int |-> v.int] /\ ~Rows!Nested(v)
                                   /\ ~Rows!Is(v, "float")
           /\ Rows!Is(v, "float") => v = [float |-> v.float] /\ ~Rows!Nested(v)
           /\ Rows!Nested(v) => /\ ~Rows!Is(v, "int") /\ ~Rows!Is(v, "float")
                                /\ Rows!Is(v, "obj") <=> ~Rows!Is(v, "list")
                                /\ v = Rows!Like(v, Rows!Parts(v))
           /\ ~Rows!Is(v, "num")
<1>1. PICK form \in Forms : DOMAIN v = {form} /\ v = [f \in {form} |-> v[form]]
  BY ValuesAssumption
<1>2. \A f \in {"int", "float", "list", "obj", "num"} : Rows!Is(v, f) <=> f = form
  BY <1>1 DEF Rows!Is
<1>3. Rows!Is(v, "int") => v = [int |-> v.int]
  BY <1>1, <1>2
<1>4. Rows!Is(v, "float") => v = [float |-> v.float]
  BY <1>1, <1>2
<1>5. Rows!Is(v, "list") => v = [list |-> v.list]
  BY <1>1, <1>2
<1>6. Rows!Is(v, "obj") => v = [obj |-> v.obj]
  BY <1>1, <1>2
<1>7. form # "num"
  BY DEF Forms
<1>8. Rows!Nested(v) => v = Rows!Like(v, Rows!Parts(v))
  BY <1>2, <1>5, <1>6 DEF Rows!Nested, Rows!Like, Rows!Parts
<1>. QED BY <1>2, <1>3, <1>4, <1>7, <1>8 DEF Rows!Nested

\* Texts by the form of the value.
LEMMA TextForms ==
    ASSUME NEW v \in Values
    PROVE  /\ Rows!Is(v, "int") => Rows!Text[v] = [num |-> v.int]
           /\ Rows!Is(v, "float") => Rows!Text[v] = [num |-> v.float]
           /\ Rows!Nested(v) => Rows!Text[v] = Rows!Like(v, [k \in DOMAIN Rows!Parts(v) |->
                                                                Rows!Text[Rows!Parts(v)[k]]])
           /\ ~Rows!Is(v, "int") /\ ~Rows!Is(v, "float") /\ ~Rows!Nested(v) => Rows!Text[v] = v
<1>1. Rows!Text[v] = Rows!TextOf(Rows!Text, v)
  BY TextRecursion
<1>2. Rows!Is(v, "int") => ~Rows!Is(v, "float") /\ ~Rows!Nested(v)
  BY OneForm
<1>3. Rows!Is(v, "float") => ~Rows!Is(v, "int") /\ ~Rows!Nested(v)
  BY OneForm
<1>4. Rows!Nested(v) => ~Rows!Is(v, "int") /\ ~Rows!Is(v, "float")
  BY OneForm
<1>. QED BY <1>1, <1>2, <1>3, <1>4 DEF Rows!TextOf

LEMMA NestedText ==
    ASSUME NEW v \in Values, Rows!Nested(v)
    PROVE  /\ Rows!Nested(Rows!Text[v]) /\ ~Rows!Is(Rows!Text[v], "num")
           /\ Rows!Is(Rows!Text[v], "list") <=> Rows!Is(v, "list")
           /\ Rows!Parts(Rows!Text[v]) = [k \in DOMAIN Rows!Parts(v) |-> Rows!Text[Rows!Parts(v)[k]]]
<1>. DEFINE parts == [k \in DOMAIN Rows!Parts(v) |-> Rows!Text[Rows!Parts(v)[k]]]
<1>1. Rows!Text[v] = Rows!Like(v, parts)
  BY TextForms
<1>. HIDE DEF parts
<1>2. Rows!Parts(Rows!Text[v]) = parts
  BY <1>1, LikeForm
<1>3. Rows!Nested(Rows!Text[v]) /\ ~Rows!Is(Rows!Text[v], "num")
  BY <1>1, LikeForm
<1>4. Rows!Is(Rows!Text[v], "list") <=> Rows!Is(v, "list")
  BY <1>1, LikeForm
<1>. QED BY <1>2, <1>3, <1>4 DEF parts

LEMMA TextIsNested ==
    ASSUME NEW v \in Values
    PROVE  /\ Rows!Nested(Rows!Text[v]) => Rows!Nested(v)
           /\ Rows!Is(Rows!Text[v], "num") => Rows!Is(v, "int") \/ Rows!Is(v, "float")
<1>1. CASE Rows!Is(v, "int") \/ Rows!Is(v, "float")
  <2>1. \A n : ~Rows!Nested([num |-> n])
    BY DEF Rows!Nested, Rows!Is
  <2>. QED BY <1>1, <2>1, TextForms
<1>2. CASE Rows!Nested(v)
  <2>1. ~Rows!Is(Rows!Text[v], "num")
    BY <1>2, NestedText
  <2>. QED BY <1>2, <2>1
<1>3. CASE ~Rows!Is(v, "int") /\ ~Rows!Is(v, "float") /\ ~Rows!Nested(v)
  BY <1>3, TextForms, OneForm
<1>. QED BY <1>1, <1>2, <1>3

LEMMA FlattestSource ==
    ASSUME NEW text \in Rows!CanonicalTexts
    PROVE  /\ Flattest(text) \in Values /\ Rows!Text[Flattest(text)] = text
           /\ \A v \in Values : Rows!Text[v] = text => TextHeight(text) <= Height[v]
<1>1. SourcesOf(text) \in SUBSET Values /\ SourcesOf(text) # {}
  BY DEF SourcesOf, Rows!CanonicalTexts
<1>2. \E v \in SourcesOf(text) : \A w \in SourcesOf(text) : HeightOf(v) <= HeightOf(w)
  BY <1>1, ValuesAreRanked, TextRec!LeastRank
<1>3. /\ Flattest(text) \in SourcesOf(text)
      /\ \A w \in SourcesOf(text) : Height[Flattest(text)] <= Height[w]
  BY <1>2 DEF Flattest, HeightOf
<1>. QED BY <1>1, <1>3 DEF SourcesOf, TextHeight

LEMMA TextsAreRanked == ParsedRec!Ranked
BY FlattestSource, ValuesAssumption DEF ParsedRec!Ranked, TextHeight

LEMMA PartsAreTexts ==
    ASSUME NEW text \in Rows!CanonicalTexts, Rows!Nested(text), NEW k \in DOMAIN Rows!Parts(text)
    PROVE  Rows!Parts(text)[k] \in Rows!CanonicalTexts /\ TextHeight(Rows!Parts(text)[k]) < TextHeight(text)
<1>. DEFINE v == Flattest(text)
<1>1. v \in Values /\ Rows!Text[v] = text /\ TextHeight(text) = Height[v]
  BY FlattestSource DEF TextHeight
<1>. HIDE DEF v
<1>2. Rows!Nested(v)
  BY <1>1, TextIsNested
<1>3. Rows!Parts(text) = [l \in DOMAIN Rows!Parts(v) |-> Rows!Text[Rows!Parts(v)[l]]]
  BY <1>1, <1>2, NestedText
<1>4. k \in DOMAIN Rows!Parts(v) /\ Rows!Parts(text)[k] = Rows!Text[Rows!Parts(v)[k]]
  BY <1>3
<1>. DEFINE w == Rows!Parts(v)[k]
<1>5. w \in Values /\ Height[w] < Height[v]
  BY <1>1, <1>2, <1>4, PartsAreValues
<1>6. Rows!Text[w] \in Rows!CanonicalTexts
  BY <1>5 DEF Rows!CanonicalTexts
<1>7. TextHeight(Rows!Text[w]) <= Height[w]
  BY <1>5, <1>6, FlattestSource
<1>8. TextHeight(Rows!Text[w]) \in Nat /\ Height[w] \in Nat /\ Height[v] \in Nat
  BY <1>1, <1>5, <1>6, TextsAreRanked, ValuesAssumption DEF ParsedRec!Ranked
<1>9. TextHeight(Rows!Text[w]) < TextHeight(text)
  BY <1>1, <1>5, <1>7, <1>8
<1>. QED BY <1>4, <1>6, <1>9

LEMMA ParsedLocal == ParsedRec!Local
<1>. SUFFICES ASSUME NEW text \in Rows!CanonicalTexts, NEW g, NEW h,
                     \A w \in Rows!CanonicalTexts : TextHeight(w) < TextHeight(text) => g[w] = h[w]
              PROVE  Rows!ParsedOf(g, text) = Rows!ParsedOf(h, text)
  BY DEF ParsedRec!Local
<1>1. ASSUME Rows!Nested(text), NEW k \in DOMAIN Rows!Parts(text)
      PROVE  g[Rows!Parts(text)[k]] = h[Rows!Parts(text)[k]]
  BY <1>1, PartsAreTexts
<1>2. Rows!Nested(text) => [k \in DOMAIN Rows!Parts(text) |-> g[Rows!Parts(text)[k]]]
                           = [k \in DOMAIN Rows!Parts(text) |-> h[Rows!Parts(text)[k]]]
  BY <1>1
<1>. QED BY <1>2 DEF Rows!ParsedOf

LEMMA ParsedRecursion == \A text \in Rows!CanonicalTexts : Rows!Parsed[text] = Rows!ParsedOf(Rows!Parsed, text)
<1>1. \E f : f = [text \in Rows!CanonicalTexts |-> Rows!ParsedOf(f, text)]
  BY TextsAreRanked, ParsedLocal, ParsedRec!RecursionHolds
<1>2. Rows!Parsed = [text \in Rows!CanonicalTexts |-> Rows!ParsedOf(Rows!Parsed, text)]
  BY <1>1 DEF Rows!Parsed
<1>. QED BY <1>2

\* What is read back from a text, by the form of the value it was the text of.
LEMMA BackForms ==
    ASSUME NEW v \in Values
    PROVE  /\ Back(v) \in Values
           /\ Rows!Is(v, "int") => Back(v) = [int |-> v.int]
           /\ Rows!Is(v, "float") => Back(v) = [int |-> v.float]
           /\ Rows!Nested(v) => Back(v) = Rows!Like(v, [k \in DOMAIN Rows!Parts(v) |->
                                                           Back(Rows!Parts(v)[k])])
           /\ ~Rows!Is(v, "int") /\ ~Rows!Is(v, "float") /\ ~Rows!Nested(v) => Back(v) = v
<1>. DEFINE text == Rows!Text[v]
<1>1. Back(v) = Rows!ParsedOf(Rows!Parsed, text)
  BY ParsedRecursion DEF Back, Rows!CanonicalTexts
<1>2. Back(v) \in Values
  BY ValuesAssumption DEF Back
<1>. HIDE DEF text
<1>3. \A n : text = [num |-> n] => Back(v) = [int |-> n]
  <2>. SUFFICES ASSUME NEW n, text = [num |-> n] PROVE Back(v) = [int |-> n]
    OBVIOUS
  <2>1. Rows!Is(text, "num") /\ text.num = n /\ ~Rows!Nested(text)
    BY DEF Rows!Is, Rows!Nested
  <2>2. Rows!ParsedOf(Rows!Parsed, text) = [int |-> text.num]
    BY <2>1 DEF Rows!ParsedOf
  <2>. QED BY <1>1, <2>1, <2>2
<1>4. Rows!Is(v, "int") => Back(v) = [int |-> v.int]
  BY <1>3, TextForms DEF text
<1>5. Rows!Is(v, "float") => Back(v) = [int |-> v.float]
  BY <1>3, TextForms DEF text
<1>6. ASSUME Rows!Nested(v)
      PROVE  Back(v) = Rows!Like(v, [k \in DOMAIN Rows!Parts(v) |-> Back(Rows!Parts(v)[k])])
  <2>1. /\ Rows!Nested(text) /\ ~Rows!Is(text, "num") /\ (Rows!Is(text, "list") <=> Rows!Is(v, "list"))
        /\ Rows!Parts(text) = [k \in DOMAIN Rows!Parts(v) |-> Rows!Text[Rows!Parts(v)[k]]]
    BY <1>6, NestedText DEF text
  <2>2. Back(v) = Rows!Like(text, [k \in DOMAIN Rows!Parts(text) |-> Rows!Parsed[Rows!Parts(text)[k]]])
    BY <1>1, <2>1 DEF Rows!ParsedOf
  <2>3. [k \in DOMAIN Rows!Parts(text) |-> Rows!Parsed[Rows!Parts(text)[k]]]
        = [k \in DOMAIN Rows!Parts(v) |-> Back(Rows!Parts(v)[k])]
    BY <2>1 DEF Back
  <2>4. \A parts : Rows!Like(text, parts) = Rows!Like(v, parts)
    BY <2>1 DEF Rows!Like
  <2>. QED BY <2>2, <2>3, <2>4
<1>7. ASSUME ~Rows!Is(v, "int"), ~Rows!Is(v, "float"), ~Rows!Nested(v) PROVE Back(v) = v
  <2>1. text = v /\ ~Rows!Is(text, "num")
    BY <1>7, TextForms, OneForm DEF text
  <2>. QED BY <1>1, <1>7, <2>1 DEF Rows!ParsedOf
<1>. QED BY <1>2, <1>4, <1>5, <1>6, <1>7

\* Reading back a text and writing it again gives the text.
LEMMA TextOfBack == \A v \in Values : Rows!Text[Back(v)] = Rows!Text[v]
<1>. DEFINE Bad == {v \in Values : Rows!Text[Back(v)] # Rows!Text[v]}
<1>. SUFFICES ASSUME Bad # {} PROVE FALSE
  OBVIOUS
<1>1. PICK v \in Bad : \A w \in Bad : HeightOf(v) <= HeightOf(w)
  <2>1. Bad \in SUBSET Values
    OBVIOUS
  <2>. HIDE DEF Bad
  <2>. QED BY <2>1, ValuesAreRanked, TextRec!LeastRank
<1>2. v \in Values /\ Rows!Text[Back(v)] # Rows!Text[v] /\ Back(v) \in Values
  BY BackForms
<1>3. CASE Rows!Nested(v)
  <2>. DEFINE parts == Rows!Parts(v)
              back  == [k \in DOMAIN parts |-> Back(parts[k])]
  <2>1. ASSUME NEW k \in DOMAIN parts PROVE Rows!Text[Back(parts[k])] = Rows!Text[parts[k]]
    <3>1. parts[k] \in Values /\ Height[parts[k]] < Height[v]
      BY <1>2, <1>3, PartsAreValues
    <3>2. Height[parts[k]] \in Nat /\ Height[v] \in Nat
      BY <1>2, <3>1, ValuesAssumption
    <3>3. parts[k] \notin Bad
      BY <1>1, <3>1, <3>2 DEF HeightOf
    <3>. QED BY <3>1, <3>3
  <2>2. Back(v) = Rows!Like(v, back)
    BY <1>2, <1>3, BackForms
  <2>3. /\ Rows!Nested(Back(v)) /\ Rows!Parts(Back(v)) = back
        /\ Rows!Is(Back(v), "list") <=> Rows!Is(v, "list")
    <3>. HIDE DEF back
    <3>. QED BY <2>2, LikeForm
  <2>4. Rows!Text[Back(v)] = Rows!Like(Back(v), [k \in DOMAIN back |-> Rows!Text[back[k]]])
    BY <1>2, <2>3, TextForms
  <2>5. [k \in DOMAIN back |-> Rows!Text[back[k]]] = [k \in DOMAIN parts |-> Rows!Text[parts[k]]]
    BY <2>1
  <2>6. \A f : Rows!Like(Back(v), f) = Rows!Like(v, f)
    BY <2>3 DEF Rows!Like
  <2>7. Rows!Text[v] = Rows!Like(v, [k \in DOMAIN parts |-> Rows!Text[parts[k]]])
    BY <1>2, <1>3, TextForms
  <2>. QED BY <1>2, <2>4, <2>5, <2>6, <2>7
<1>4. CASE ~Rows!Nested(v)
  <2>1. \A n : [int |-> n] \in Values => Rows!Text[[int |-> n]] = [num |-> n]
    BY TextForms DEF Rows!Is
  <2>2. CASE Rows!Is(v, "int")
    BY <1>2, <2>1, <2>2, BackForms, TextForms
  <2>3. CASE Rows!Is(v, "float")
    <3>1. Back(v) = [int |-> v.float] /\ Rows!Text[v] = [num |-> v.float]
      BY <1>2, <2>3, BackForms, TextForms
    <3>. QED BY <1>2, <2>1, <3>1
  <2>4. CASE ~Rows!Is(v, "int") /\ ~Rows!Is(v, "float")
    BY <1>2, <1>4, <2>4, BackForms
  <2>. QED BY <2>2, <2>3, <2>4
<1>. QED BY <1>3, <1>4

\* What is in a value is a value at some depth, and is in it once more when it is read back.
InsideIsTyped(v) == \A level \in Rows!Inside[v] : level[1] \in Nat /\ level[2] \in Values
InsideIsBack(v)  ==
    \A level \in Rows!Inside[Back(v)] :
        \E other \in Rows!Inside[v] :
            other[2] \in Values /\ other[1] = level[1] /\ level[2] = Back(other[2])

LEMMA InsideForms ==
    ASSUME NEW v \in Values, NEW level \in Rows!Inside[v]
    PROVE  \/ level = <<0, v>>
           \/ /\ Rows!Nested(v)
              /\ \E k \in DOMAIN Rows!Parts(v) :
                     \E below \in Rows!Inside[Rows!Parts(v)[k]] : level = <<below[1] + 1, below[2]>>
BY InsideRecursion DEF Rows!InsideOf, Rows!Deeper

LEMMA InsideParts ==
    ASSUME NEW v \in Values
    PROVE  /\ <<0, v>> \in Rows!Inside[v]
           /\ Rows!Nested(v) => \A k \in DOMAIN Rows!Parts(v) :
                  \A below \in Rows!Inside[Rows!Parts(v)[k]] : <<below[1] + 1, below[2]>> \in Rows!Inside[v]
BY InsideRecursion DEF Rows!InsideOf, Rows!Deeper

LEMMA InsideTyped == \A v \in Values : InsideIsTyped(v)
<1>. DEFINE Bad == {v \in Values : ~InsideIsTyped(v)}
<1>. SUFFICES ASSUME Bad # {} PROVE FALSE
  OBVIOUS
<1>1. PICK v \in Bad : \A w \in Bad : HeightOf(v) <= HeightOf(w)
  <2>1. Bad \in SUBSET Values
    OBVIOUS
  <2>. HIDE DEF Bad
  <2>. QED BY <2>1, ValuesAreRanked, TextRec!LeastRank
<1>2. v \in Values /\ ~InsideIsTyped(v)
  OBVIOUS
<1>3. PICK level \in Rows!Inside[v] : ~(level[1] \in Nat /\ level[2] \in Values)
  BY <1>2 DEF InsideIsTyped
<1>4. CASE level = <<0, v>>
  BY <1>2, <1>3, <1>4
<1>5. ASSUME Rows!Nested(v), NEW k \in DOMAIN Rows!Parts(v),
             NEW below \in Rows!Inside[Rows!Parts(v)[k]], level = <<below[1] + 1, below[2]>>
      PROVE  FALSE
  <2>1. Rows!Parts(v)[k] \in Values /\ Height[Rows!Parts(v)[k]] < Height[v]
    BY <1>2, <1>5, PartsAreValues
  <2>2. Height[Rows!Parts(v)[k]] \in Nat /\ Height[v] \in Nat
    BY <1>2, <2>1, ValuesAssumption
  <2>3. InsideIsTyped(Rows!Parts(v)[k])
    BY <1>1, <2>1, <2>2 DEF HeightOf
  <2>4. below[1] \in Nat /\ below[2] \in Values
    BY <2>3 DEF InsideIsTyped
  <2>. QED BY <1>3, <1>5, <2>4
<1>. QED BY <1>2, <1>4, <1>5, InsideForms

LEMMA InsideBack == \A v \in Values : InsideIsBack(v)
<1>. DEFINE Bad == {v \in Values : ~InsideIsBack(v)}
<1>. SUFFICES ASSUME Bad # {} PROVE FALSE
  OBVIOUS
<1>1. PICK v \in Bad : \A w \in Bad : HeightOf(v) <= HeightOf(w)
  <2>1. Bad \in SUBSET Values
    OBVIOUS
  <2>. HIDE DEF Bad
  <2>. QED BY <2>1, ValuesAreRanked, TextRec!LeastRank
<1>2. v \in Values /\ ~InsideIsBack(v) /\ Back(v) \in Values
  BY BackForms
<1>3. PICK level \in Rows!Inside[Back(v)] :
          ~\E other \in Rows!Inside[v] :
              other[2] \in Values /\ other[1] = level[1] /\ level[2] = Back(other[2])
  BY <1>2 DEF InsideIsBack
<1>4. CASE level = <<0, Back(v)>>
  <2>1. <<0, v>> \in Rows!Inside[v]
    BY <1>2, InsideParts
  <2>. QED BY <1>2, <1>3, <1>4, <2>1
<1>5. ASSUME Rows!Nested(Back(v)), NEW k \in DOMAIN Rows!Parts(Back(v)),
             NEW below \in Rows!Inside[Rows!Parts(Back(v))[k]], level = <<below[1] + 1, below[2]>>
      PROVE  FALSE
  <2>1. Rows!Nested(v)
    <3>1. \A n : ~Rows!Nested([int |-> n])
      BY DEF Rows!Nested, Rows!Is
    <3>. QED BY <1>2, <1>5, <3>1, BackForms
  <2>. DEFINE back == [l \in DOMAIN Rows!Parts(v) |-> Back(Rows!Parts(v)[l])]
  <2>2. Rows!Parts(Back(v)) = back
    <3>1. Back(v) = Rows!Like(v, back)
      BY <1>2, <2>1, BackForms
    <3>. HIDE DEF back
    <3>. QED BY <3>1, LikeForm
  <2>3. k \in DOMAIN Rows!Parts(v) /\ Rows!Parts(Back(v))[k] = Back(Rows!Parts(v)[k])
    BY <1>5, <2>2
  <2>. DEFINE w == Rows!Parts(v)[k]
  <2>4. w \in Values /\ Height[w] < Height[v]
    BY <1>2, <2>1, <2>3, PartsAreValues
  <2>5. Height[w] \in Nat /\ Height[v] \in Nat
    BY <1>2, <2>4, ValuesAssumption
  <2>6. InsideIsBack(w)
    BY <1>1, <2>4, <2>5 DEF HeightOf
  <2>7. PICK other \in Rows!Inside[w] :
            other[2] \in Values /\ other[1] = below[1] /\ below[2] = Back(other[2])
    BY <1>5, <2>3, <2>6 DEF InsideIsBack
  <2>8. <<other[1] + 1, other[2]>> \in Rows!Inside[v]
    BY <1>2, <2>1, <2>3, <2>7, InsideParts
  <2>. QED BY <1>3, <1>5, <2>7, <2>8
<1>. QED BY <1>2, <1>4, <1>5, InsideForms

\* Without a sensitive key, redaction changes nothing.
LEMMA RedactedSame == \A v \in Values : ~Rows!Secret(v) => Rows!Redacted[v] = v
<1>. DEFINE Bad == {v \in Values : ~Rows!Secret(v) /\ Rows!Redacted[v] # v}
<1>. SUFFICES ASSUME Bad # {} PROVE FALSE
  OBVIOUS
<1>1. PICK v \in Bad : \A w \in Bad : HeightOf(v) <= HeightOf(w)
  <2>1. Bad \in SUBSET Values
    OBVIOUS
  <2>. HIDE DEF Bad
  <2>. QED BY <2>1, ValuesAreRanked, TextRec!LeastRank
<1>2. v \in Values /\ ~Rows!Secret(v) /\ Rows!Redacted[v] # v
  OBVIOUS
<1>3. Rows!Redacted[v] = Rows!RedactedOf(Rows!Redacted, v)
  BY <1>2, RedactedRecursion
<1>4. Rows!Nested(v)
  BY <1>2, <1>3 DEF Rows!RedactedOf
<1>. DEFINE parts == Rows!Parts(v)
<1>5. ASSUME NEW k \in DOMAIN parts PROVE ~Rows!Hidden(v, k) /\ Rows!Redacted[parts[k]] = parts[k]
  <2>1. parts[k] \in Values /\ Height[parts[k]] < Height[v]
    BY <1>2, <1>4, PartsAreValues
  <2>2. Height[parts[k]] \in Nat /\ Height[v] \in Nat
    BY <1>2, <2>1, ValuesAssumption
  <2>3. ~Rows!Secret(parts[k])
    <3>. SUFFICES ASSUME NEW level \in Rows!Inside[parts[k]], Rows!Is(level[2], "obj")
                  PROVE  DOMAIN level[2].obj \cap Sensitive = {}
      BY DEF Rows!Secret
    <3>1. <<level[1] + 1, level[2]>> \in Rows!Inside[v]
      BY <1>2, <1>4, InsideParts
    <3>. DEFINE up == <<level[1] + 1, level[2]>>
    <3>2. up \in Rows!Inside[v] /\ up[2] = level[2]
      BY <3>1
    <3>. HIDE DEF up
    <3>. QED BY <1>2, <3>2 DEF Rows!Secret
  <2>4. ~Rows!Hidden(v, k)
    <3>1. <<0, v>> \in Rows!Inside[v]
      BY <1>2, InsideParts
    <3>2. Rows!Is(v, "obj") => DOMAIN v.obj \cap Sensitive = {}
      BY <1>2, <3>1 DEF Rows!Secret
    <3>3. Rows!Is(v, "obj") => parts = v.obj
      BY <1>2, <1>4, OneForm DEF Rows!Parts
    <3>. QED BY <3>2, <3>3 DEF Rows!Hidden
  <2>. QED BY <1>1, <2>1, <2>2, <2>3, <2>4 DEF HeightOf
<1>6. [k \in DOMAIN parts |-> IF Rows!Hidden(v, k) THEN [str |-> "[REDACTED]"]
                             ELSE Rows!Redacted[parts[k]]] = parts
  <2>1. parts = [k \in DOMAIN parts |-> parts[k]]
    BY <1>2, <1>4, ValuesAssumption DEF Shallower
  <2>. HIDE DEF parts
  <2>. QED BY <1>5, <2>1
<1>7. Rows!Redacted[v] = Rows!Like(v, parts)
  BY <1>3, <1>4, <1>6 DEF Rows!RedactedOf
<1>8. v = Rows!Like(v, parts)
  BY <1>2, <1>4, OneForm
<1>. QED BY <1>2, <1>7, <1>8

\* A value that is read back is accepted if it was, unless a float was too large for an int.
LEMMA BackIsCanonical ==
    ASSUME NEW v \in Values, Rows!Canonical(v, 1), ~Rows!Wide(v)
    PROVE  Rows!Canonical(Back(v), 1) /\ Rows!Canonical(Back(v), 0)
<1>. SUFFICES ASSUME NEW level \in Rows!Inside[Back(v)]
              PROVE  /\ 1 + level[1] <= MaxNesting /\ 0 + level[1] <= MaxNesting
                     /\ Rows!Acceptable(level[2])
  BY DEF Rows!Canonical
<1>1. PICK other \in Rows!Inside[v] :
          other[2] \in Values /\ other[1] = level[1] /\ level[2] = Back(other[2])
  BY InsideBack DEF InsideIsBack
<1>2. 1 + other[1] <= MaxNesting /\ Rows!Acceptable(other[2])
  BY DEF Rows!Canonical
<1>3. other[1] \in Nat /\ MaxNesting \in Int
  BY InsideTyped, RowsAssumption DEF InsideIsTyped
<1>4. Rows!Acceptable(Back(other[2]))
  <2>. DEFINE w == other[2]
  <2>1. w \in Values
    BY <1>1
  <2>2. \A n : n <= MaxSafe => Rows!Acceptable([int |-> n])
    BY DEF Rows!Acceptable, Rows!Is
  <2>3. CASE Rows!Is(w, "int")
    <3>1. w.int <= MaxSafe
      BY <1>2, <2>3 DEF Rows!Acceptable
    <3>. QED BY <2>1, <2>2, <2>3, <3>1, BackForms
  <2>4. CASE Rows!Is(w, "float")
    <3>1. ~(w.float > MaxSafe) /\ w.float \in Int /\ MaxSafe \in Int
      BY <2>1, <2>4, ValuesAssumption, RowsAssumption DEF Rows!Wide
    <3>2. w.float <= MaxSafe
      BY <3>1
    <3>. QED BY <2>1, <2>2, <2>4, <3>2, BackForms
  <2>5. CASE Rows!Nested(w)
    <3>. DEFINE back == [k \in DOMAIN Rows!Parts(w) |-> Back(Rows!Parts(w)[k])]
    <3>1. Back(w) = Rows!Like(w, back)
      BY <2>1, <2>5, BackForms
    <3>. HIDE DEF back
    <3>. QED BY <3>1, LikeForm DEF Rows!Acceptable
  <2>6. CASE ~Rows!Is(w, "int") /\ ~Rows!Is(w, "float") /\ ~Rows!Nested(w)
    BY <1>2, <2>1, <2>6, BackForms
  <2>. QED BY <2>3, <2>4, <2>5, <2>6
<1>5. 1 + level[1] <= MaxNesting /\ 0 + level[1] <= MaxNesting
  BY <1>1, <1>2, <1>3
<1>. QED BY <1>1, <1>4, <1>5

\* Nor does it hold a sensitive key if it held none.
LEMMA BackIsOpen ==
    ASSUME NEW v \in Values, ~Rows!Secret(v)
    PROVE  ~Rows!Secret(Back(v))
<1>. SUFFICES ASSUME NEW level \in Rows!Inside[Back(v)], Rows!Is(level[2], "obj")
              PROVE  DOMAIN level[2].obj \cap Sensitive = {}
  BY DEF Rows!Secret
<1>1. PICK other \in Rows!Inside[v] :
          other[2] \in Values /\ other[1] = level[1] /\ level[2] = Back(other[2])
  BY InsideBack DEF InsideIsBack
<1>. DEFINE w == other[2]
<1>2. w \in Values /\ Rows!Is(Back(w), "obj")
  BY <1>1
<1>3. Rows!Is(w, "obj") /\ DOMAIN Back(w).obj = DOMAIN w.obj
  <2>1. \A n : ~Rows!Is([int |-> n], "obj")
    BY DEF Rows!Is
  <2>2. ~Rows!Is(w, "int") /\ ~Rows!Is(w, "float")
    BY <1>2, <2>1, BackForms
  <2>3. CASE Rows!Nested(w)
    <3>. DEFINE back == [k \in DOMAIN Rows!Parts(w) |-> Back(Rows!Parts(w)[k])]
    <3>1. Back(w) = Rows!Like(w, back) /\ DOMAIN back = DOMAIN Rows!Parts(w)
      BY <1>2, <2>3, BackForms
    <3>. HIDE DEF back
    <3>2. ~Rows!Is(w, "list")
      BY <1>2, <3>1, LikeForm
    <3>3. Rows!Is(w, "obj")
      BY <2>3, <3>2 DEF Rows!Nested
    <3>4. Back(w) = [obj |-> back] /\ Rows!Parts(w) = w.obj
      BY <3>1, <3>2 DEF Rows!Like, Rows!Parts
    <3>. QED BY <3>1, <3>3, <3>4
  <2>4. CASE ~Rows!Nested(w)
    BY <1>2, <2>2, <2>4, BackForms
  <2>. QED BY <2>3, <2>4
<1>. QED BY <1>1, <1>3 DEF Rows!Secret

-----------------------------------------------------------------------------
Columns(r) ==
    /\ r = [payload |-> r.payload, checksum |-> r.checksum]
    /\ r.payload = [arguments |-> r.payload.arguments, fingerprint |-> r.payload.fingerprint,
                    state |-> r.payload.state, epoch |-> r.payload.epoch]
    /\ r.payload.arguments \in Rows!CanonicalTexts /\ r.payload.state \in DOMAIN Rows!Follows

\* What a store writes is sealed with its key and is of the request.
Genuine(r) ==
    /\ Columns(r)
    /\ \E s \in Stores : r.checksum = Rows!Mac(s.key, r.payload) /\ r.payload.epoch = s.epoch
    /\ r.payload.fingerprint = Rows!Fingerprint(request)
    /\ ~Rows!Secret(request) => r.payload.arguments = Rows!Text[request]

\* Whoever changes a row has only checksums that were written before, or none with a key.
Sealed(r) == (\E w \in written : r.checksum = w.checksum) \/ r.checksum[1] = "v1"

RowsInv ==
    /\ request \in Asked /\ touched \in BOOLEAN
    /\ written # {} => Rows!Bound(request)
    /\ \A w \in written : Genuine(w)
    /\ row # None => /\ Columns(row) /\ Sealed(row)
                     /\ ~touched => row \in written

LEMMA ReadAgain ==
    ASSUME NEW text \in Rows!CanonicalTexts
    PROVE  Rows!Parsed[text] \in Values
BY ValuesAssumption DEF Rows!CanonicalTexts

\* A row that a store reads has a payload that was written under its key and epoch.
LEMMA ReadIsWritten ==
    ASSUME RowsInv, row # None, NEW s \in Stores, Rows!Sound(s, row)
    PROVE  \E w \in written : w.payload = row.payload /\ w.checksum[1] = s.key /\ w.payload.epoch = s.epoch
<1>1. row.checksum = Rows!Mac(s.key, row.payload) /\ row.payload.epoch = s.epoch
  BY DEF Rows!Sound
<1>2. row.checksum[1] = s.key /\ row.checksum[2] = row.payload
  BY <1>1 DEF Rows!Mac
<1>3. PICK w \in written : row.checksum = w.checksum
  BY <1>2, RowsAssumption DEF RowsInv, Sealed
<1>4. PICK t \in Stores : w.checksum = Rows!Mac(t.key, w.payload)
  BY DEF RowsInv, Genuine
<1>5. w.checksum[2] = w.payload
  BY <1>4 DEF Rows!Mac
<1>. QED BY <1>1, <1>2, <1>3, <1>5

LEMMA WrittenIsGenuine ==
    ASSUME RowsInv, NEW s \in Stores, NEW args \in Values, NEW state \in DOMAIN Rows!Follows,
           ~Rows!Secret(request) => ~Rows!Secret(args) /\ Rows!Text[args] = Rows!Text[request]
    PROVE  Genuine(Rows!Serialize(s, args, Rows!Fingerprint(request), state))
<1>. DEFINE stored == IF s.redacts THEN Rows!Redacted[args] ELSE args
            text   == Rows!Text[stored]
            r      == Rows!Serialize(s, args, Rows!Fingerprint(request), state)
<1>1. stored \in Values
  BY ValuesAssumption
<1>2. text \in Rows!CanonicalTexts
  BY <1>1 DEF Rows!CanonicalTexts
<1>3. ~Rows!Secret(request) => text = Rows!Text[request]
  BY RedactedSame
<1>4. /\ r.payload = [arguments |-> text, fingerprint |-> Rows!Fingerprint(request),
                      state |-> state, epoch |-> s.epoch]
      /\ r = [payload |-> r.payload, checksum |-> Rows!Mac(s.key, r.payload)]
  BY DEF Rows!Serialize, Rows!Payload
<1>. HIDE DEF text, r
<1>5. /\ r.payload.arguments = text /\ r.payload.fingerprint = Rows!Fingerprint(request)
      /\ r.payload.state = state /\ r.payload.epoch = s.epoch
      /\ r.checksum = Rows!Mac(s.key, r.payload)
  BY <1>4
<1>6. Genuine(r)
  BY <1>2, <1>3, <1>4, <1>5 DEF Genuine, Columns
<1>. QED BY <1>6 DEF r

LEMMA RowsStart == ASSUME Rows!Init PROVE RowsInv
BY DEF Rows!Init, RowsInv

LEMMA WriteKeeps ==
    ASSUME RowsInv, Rows!Bound(request), NEW r, Genuine(r), Rows!Write(r)
    PROVE  RowsInv'
<1>1. row' = r /\ written' = written \cup {r} /\ touched' = FALSE /\ request' = request
  BY DEF Rows!Write
<1>2. \A w : Genuine(w) => Genuine(w)'
  BY <1>1 DEF Genuine, Columns
<1>3. Sealed(row)'
  BY <1>1 DEF Sealed
<1>4. Columns(row)'
  BY <1>1 DEF Genuine, Columns
<1>. QED BY <1>1, <1>2, <1>3, <1>4 DEF RowsInv, Rows!Bound

LEMMA SaveStep ==
    ASSUME RowsInv, NEW s \in Stores, Rows!Save(s)
    PROVE  RowsInv'
<1>1. request \in Values
  BY RowsAssumption DEF RowsInv
<1>2. "PENDING" \in DOMAIN Rows!Follows
  BY DEF Rows!Follows
<1>. DEFINE r == Rows!Serialize(s, request, Rows!Fingerprint(request), "PENDING")
<1>3. Genuine(r)
  BY <1>1, <1>2, WrittenIsGenuine
<1>4. Rows!Bound(request) /\ Rows!Write(r)
  BY DEF Rows!Save
<1>. HIDE DEF r
<1>. QED BY <1>3, <1>4, WriteKeeps

LEMMA MoveStep ==
    ASSUME RowsInv, NEW s \in Stores, Rows!Move(s)
    PROVE  RowsInv'
<1>. DEFINE args == Rows!Parsed[row.payload.arguments]
            d == Rows!Deserialize(s, row)
<1>1. row # None /\ Rows!Sound(s, row) /\ d.arguments = args /\ d.state = row.payload.state
      /\ d.fingerprint = row.payload.fingerprint
  BY DEF Rows!Move, Rows!Deserialize, Rows!Corrupt
<1>2. PICK state \in Rows!Follows[row.payload.state] :
          Rows!Write(Rows!Serialize(s, args, row.payload.fingerprint, state))
  BY <1>1 DEF Rows!Move
<1>3. Columns(row)
  BY <1>1 DEF RowsInv
<1>4. args \in Values
  BY <1>3, ReadAgain DEF Columns
<1>5. state \in DOMAIN Rows!Follows
  BY <1>2, <1>3 DEF Columns, Rows!Follows
<1>6. PICK w \in written : w.payload = row.payload
  BY <1>1, ReadIsWritten
<1>7. /\ row.payload.fingerprint = Rows!Fingerprint(request)
      /\ ~Rows!Secret(request) => row.payload.arguments = Rows!Text[request]
  BY <1>6 DEF RowsInv, Genuine
<1>8. request \in Values /\ Rows!Bound(request)
  BY <1>6, RowsAssumption DEF RowsInv
<1>9. ~Rows!Secret(request) => ~Rows!Secret(args) /\ Rows!Text[args] = Rows!Text[request]
  BY <1>7, <1>8, BackIsOpen, TextOfBack DEF Back
<1>. HIDE DEF args, d
<1>10. Genuine(Rows!Serialize(s, args, Rows!Fingerprint(request), state))
  BY <1>4, <1>5, <1>9, WrittenIsGenuine
<1>. QED BY <1>2, <1>7, <1>8, <1>10, WriteKeeps

LEMMA ChangeKeeps ==
    ASSUME RowsInv, row # None, NEW r, Columns(r), Sealed(r), Rows!Change(r)
    PROVE  RowsInv'
<1>1. row' = r /\ touched' = TRUE /\ written' = written /\ request' = request
  BY DEF Rows!Change
<1>2. \A w : Genuine(w) => Genuine(w)'
  BY <1>1 DEF Genuine, Columns
<1>3. Sealed(row)'
  BY <1>1 DEF Sealed
<1>4. Columns(row)'
  BY <1>1 DEF Columns
<1>. QED BY <1>1, <1>2, <1>3, <1>4 DEF RowsInv, Rows!Bound

LEMMA TwoFields ==
    ASSUME NEW p, p = [arguments |-> p.arguments, fingerprint |-> p.fingerprint,
                       state |-> p.state, epoch |-> p.epoch],
           NEW x, NEW y
    PROVE  [p EXCEPT !.arguments = x, !.fingerprint = y]
           = [arguments |-> x, fingerprint |-> y, state |-> p.state, epoch |-> p.epoch]
<1>. DEFINE names == {"arguments", "fingerprint", "state", "epoch"}
            q == [p EXCEPT !.arguments = x, !.fingerprint = y]
<1>1. DOMAIN p = names
  OBVIOUS
<1>2. DOMAIN q = names
  BY <1>1
<1>3. q.arguments = x /\ q.fingerprint = y /\ q.state = p.state /\ q.epoch = p.epoch
  BY <1>1
<1>4. q = [name \in names |-> q[name]]
  BY <1>2
<1>. HIDE DEF q
<1>5. q = [arguments |-> x, fingerprint |-> y, state |-> p.state, epoch |-> p.epoch]
  BY <1>3, <1>4
<1>. QED BY <1>5 DEF q

LEMMA TwoColumns ==
    ASSUME NEW r, r = [payload |-> r.payload, checksum |-> r.checksum], NEW x, NEW y
    PROVE  [r EXCEPT !.payload.arguments = x, !.payload.fingerprint = y]
           = [payload |-> [r.payload EXCEPT !.arguments = x, !.fingerprint = y], checksum |-> r.checksum]
<1>. DEFINE q == [r EXCEPT !.payload.arguments = x, !.payload.fingerprint = y]
<1>1. DOMAIN q = {"payload", "checksum"} /\ q.checksum = r.checksum
  OBVIOUS
<1>2. q.payload = [r.payload EXCEPT !.arguments = x, !.fingerprint = y]
  OBVIOUS
<1>3. q = [column \in {"payload", "checksum"} |-> q[column]]
  BY <1>1
<1>. HIDE DEF q
<1>4. q = [payload |-> [r.payload EXCEPT !.arguments = x, !.fingerprint = y], checksum |-> r.checksum]
  BY <1>1, <1>2, <1>3
<1>. QED BY <1>4 DEF q

LEMMA DamageStep ==
    ASSUME RowsInv, Rows!Damage
    PROVE  RowsInv'
<1>1. row # None /\ Columns(row) /\ Sealed(row)
  BY DEF RowsInv, Rows!Damage
<1>2. /\ row = [payload |-> row.payload, checksum |-> row.checksum]
      /\ row.payload = [arguments |-> row.payload.arguments, fingerprint |-> row.payload.fingerprint,
                        state |-> row.payload.state, epoch |-> row.payload.epoch]
      /\ row.payload.arguments \in Rows!CanonicalTexts /\ row.payload.state \in DOMAIN Rows!Follows
  BY <1>1 DEF Columns
<1>3. \A v \in Asked : Rows!Text[v] \in Rows!CanonicalTexts
  BY RowsAssumption DEF Rows!CanonicalTexts
<1>4. ASSUME NEW p, NEW c, p = [arguments |-> p.arguments, fingerprint |-> p.fingerprint,
                               state |-> p.state, epoch |-> p.epoch],
             p.arguments \in Rows!CanonicalTexts, p.state \in DOMAIN Rows!Follows
      PROVE  Columns([payload |-> p, checksum |-> c])
  BY <1>4 DEF Columns
<1>5. CASE \E state \in DOMAIN Rows!Follows : Rows!Change([row EXCEPT !.payload.state = state])
  <2>1. PICK state \in DOMAIN Rows!Follows : Rows!Change([row EXCEPT !.payload.state = state])
    BY <1>5
  <2>. DEFINE r == [row EXCEPT !.payload.state = state]
  <2>2. r = [payload |-> [row.payload EXCEPT !.state = state], checksum |-> row.checksum]
    BY <1>2
  <2>3. Columns(r) /\ r.checksum = row.checksum
    BY <1>2, <2>2 DEF Columns
  <2>4. Sealed(r)
    BY <1>1, <2>3 DEF Sealed
  <2>. HIDE DEF r
  <2>. QED BY <1>1, <2>1, <2>3, <2>4, ChangeKeeps DEF r
<1>6. CASE \E v \in Asked : Rows!Bound(v) /\ Rows!Change([row EXCEPT !.payload.arguments = Rows!Text[v]])
  <2>1. PICK v \in Asked : Rows!Change([row EXCEPT !.payload.arguments = Rows!Text[v]])
    BY <1>6
  <2>. DEFINE r == [row EXCEPT !.payload.arguments = Rows!Text[v]]
  <2>2. r = [payload |-> [row.payload EXCEPT !.arguments = Rows!Text[v]], checksum |-> row.checksum]
    BY <1>2
  <2>3. Columns(r) /\ r.checksum = row.checksum
    BY <1>2, <1>3, <2>2 DEF Columns
  <2>4. Sealed(r)
    BY <1>1, <2>3 DEF Sealed
  <2>. HIDE DEF r
  <2>. QED BY <1>1, <2>1, <2>3, <2>4, ChangeKeeps DEF r
<1>7. CASE \E s \in Stores : Rows!Change([row EXCEPT !.payload.epoch = s.epoch])
  <2>1. PICK s \in Stores : Rows!Change([row EXCEPT !.payload.epoch = s.epoch])
    BY <1>7
  <2>. DEFINE r == [row EXCEPT !.payload.epoch = s.epoch]
  <2>2. r = [payload |-> [row.payload EXCEPT !.epoch = s.epoch], checksum |-> row.checksum]
    BY <1>2
  <2>3. Columns(r) /\ r.checksum = row.checksum
    BY <1>2, <2>2 DEF Columns
  <2>4. Sealed(r)
    BY <1>1, <2>3 DEF Sealed
  <2>. HIDE DEF r
  <2>. QED BY <1>1, <2>1, <2>3, <2>4, ChangeKeeps DEF r
<1>8. CASE Rows!Change([row EXCEPT !.checksum = Rows!Unkeyed(row.payload)])
  <2>. DEFINE r == [row EXCEPT !.checksum = Rows!Unkeyed(row.payload)]
  <2>1. r = [payload |-> row.payload, checksum |-> Rows!Unkeyed(row.payload)]
    BY <1>2
  <2>2. Columns(r) /\ r.checksum = Rows!Unkeyed(row.payload)
    BY <1>2, <2>1 DEF Columns
  <2>3. Sealed(r)
    BY <2>2 DEF Sealed, Rows!Unkeyed
  <2>. HIDE DEF r
  <2>. QED BY <1>1, <1>8, <2>2, <2>3, ChangeKeeps DEF r
<1>9. CASE \E v \in Asked : /\ Rows!Bound(v)
                            /\ Rows!Change([row EXCEPT !.payload.arguments = Rows!Text[v],
                                                       !.payload.fingerprint = Rows!Fingerprint(v)])
  <2>1. PICK v \in Asked : Rows!Change([row EXCEPT !.payload.arguments = Rows!Text[v],
                                                   !.payload.fingerprint = Rows!Fingerprint(v)])
    BY <1>9
  <2>. DEFINE r == [row EXCEPT !.payload.arguments = Rows!Text[v],
                               !.payload.fingerprint = Rows!Fingerprint(v)]
              p == [row.payload EXCEPT !.arguments = Rows!Text[v], !.fingerprint = Rows!Fingerprint(v)]
  <2>2. r = [payload |-> p, checksum |-> row.checksum]
    <3>1. row = [payload |-> row.payload, checksum |-> row.checksum]
      BY <1>2
    <3>. QED BY <3>1, TwoColumns
  <2>3. p = [arguments |-> Rows!Text[v], fingerprint |-> Rows!Fingerprint(v),
             state |-> row.payload.state, epoch |-> row.payload.epoch]
    <3>1. row.payload = [arguments |-> row.payload.arguments, fingerprint |-> row.payload.fingerprint,
                         state |-> row.payload.state, epoch |-> row.payload.epoch]
      BY <1>2
    <3>. QED BY <3>1, TwoFields
  <2>. HIDE DEF p, r
  <2>4. Columns(r) /\ r.checksum = row.checksum
    BY <1>2, <1>3, <2>2, <2>3 DEF Columns
  <2>5. Sealed(r)
    BY <1>1, <2>4 DEF Sealed
  <2>. QED BY <1>1, <2>1, <2>4, <2>5, ChangeKeeps DEF r
<1>10. CASE \E w \in written : w # row /\ Rows!Change(w)
  <2>1. PICK w \in written : Rows!Change(w)
    BY <1>10
  <2>2. Columns(w) /\ Sealed(w)
    BY DEF RowsInv, Genuine, Sealed
  <2>. QED BY <1>1, <2>1, <2>2, ChangeKeeps
<1>. QED BY <1>5, <1>6, <1>7, <1>8, <1>9, <1>10 DEF Rows!Damage

LEMMA RowsStep == ASSUME RowsInv, Rows!Next PROVE RowsInv'
BY SaveStep, MoveStep, DamageStep DEF Rows!Next

LEMMA RowsRest == ASSUME RowsInv, UNCHANGED rows PROVE RowsInv'
BY DEF RowsInv, rows, Genuine, Columns, Sealed, Rows!Bound

LEMMA RowsGoal ==
    ASSUME RowsInv
    PROVE  Rows!ReadsWhatWasSaved
<1>. SUFFICES ASSUME row # None, NEW s \in Stores
              PROVE  LET d == Rows!Deserialize(s, row)
                     IN /\ d.ok => /\ Rows!Text[d.arguments] = Rows!Text[request]
                                   /\ \E w \in written : /\ w.checksum[1] = s.key
                                                         /\ w.payload.epoch = s.epoch
                                                         /\ w.payload.state = d.state
                        /\ /\ ~touched /\ row.checksum[1] = s.key /\ row.payload.epoch = s.epoch
                           /\ ~Rows!Wide(request) /\ ~Rows!Secret(request)
                           => d.ok
  BY DEF Rows!ReadsWhatWasSaved
<1>. DEFINE args == Rows!Parsed[row.payload.arguments]
            d == Rows!Deserialize(s, row)
<1>1. ASSUME d.ok
      PROVE  /\ Rows!Text[d.arguments] = Rows!Text[request]
             /\ \E w \in written : /\ w.checksum[1] = s.key /\ w.payload.epoch = s.epoch
                                   /\ w.payload.state = d.state
  <2>1. /\ Rows!Sound(s, row) /\ Rows!Restorable(args, row.payload.fingerprint)
        /\ d.arguments = args /\ d.state = row.payload.state
    BY <1>1 DEF Rows!Deserialize, Rows!Corrupt
  <2>. HIDE DEF args, d
  <2>2. PICK w \in written : w.payload = row.payload /\ w.checksum[1] = s.key /\ w.payload.epoch = s.epoch
    BY <2>1, ReadIsWritten
  <2>3. row.payload.fingerprint = Rows!Fingerprint(request)
    BY <2>2 DEF RowsInv, Genuine
  <2>4. Rows!Fingerprint(args) = Rows!Fingerprint(request)
    BY <2>1, <2>3 DEF Rows!Restorable
  <2>5. Rows!Text[args] = Rows!Text[request]
    BY <2>4 DEF Rows!Fingerprint
  <2>. QED BY <2>1, <2>2, <2>5
<1>2. ASSUME ~touched, row.checksum[1] = s.key, row.payload.epoch = s.epoch,
             ~Rows!Wide(request), ~Rows!Secret(request)
      PROVE  d.ok
  <2>1. row \in written /\ Genuine(row) /\ Rows!Bound(request) /\ request \in Values
    BY <1>2, RowsAssumption DEF RowsInv
  <2>2. /\ row.payload.fingerprint = Rows!Fingerprint(request)
        /\ row.payload.arguments = Rows!Text[request]
    BY <1>2, <2>1 DEF Genuine
  <2>3. row.checksum = Rows!Mac(s.key, row.payload)
    BY <1>2, <2>1 DEF Genuine, Rows!Mac
  <2>4. args = Back(request)
    BY <2>2 DEF Back
  <2>. HIDE DEF args
  <2>5. Rows!Canonical(args, 0) /\ Rows!Canonical(args, 1)
    BY <1>2, <2>1, <2>4, BackIsCanonical DEF Rows!Bound
  <2>6. Rows!Text[args] = Rows!Text[request]
    BY <2>1, <2>4, TextOfBack
  <2>7. Rows!Sound(s, row)
    BY <1>2, <2>2, <2>3, <2>5, <2>6 DEF Rows!Sound, args
  <2>8. Rows!Restorable(args, row.payload.fingerprint)
    BY <2>2, <2>5, <2>6 DEF Rows!Restorable, Rows!Bound, Rows!Fingerprint
  <2>. QED BY <2>7, <2>8 DEF Rows!Deserialize, args
<1>. QED BY <1>1, <1>2

LEMMA RowsTyped == ASSUME RowsInv PROVE Rows!TypeOK
BY DEF RowsInv, Genuine, Columns, Rows!TypeOK

-----------------------------------------------------------------------------
(***************************************************************************)
(* Schemas of Constraints.  Acceptance and evaluation are defined by         *)
(* recursion over how much deeper they may go.                              *)
(***************************************************************************)
LEMMA FieldWith ==
    ASSUME NEW m, NEW key, NEW v, NEW k, NEW default
    PROVE  Limits!Field(Limits!With(m, key, v), k, default)
           = IF k = key THEN v ELSE Limits!Field(m, k, default)
BY DEF Limits!With, Limits!Field

SpecCalls == Specs \X Nat
RoomOf(call) == IF call[2] < MaxDepth THEN MaxDepth - call[2] ELSE 0
AcceptedRec == INSTANCE Recursion WITH S <- SpecCalls, Rank <- RoomOf, Step <- Limits!AcceptedOf

LEMMA SpecsAreRanked == AcceptedRec!Ranked
<1>. SUFFICES ASSUME NEW call \in SpecCalls PROVE RoomOf(call) \in Nat
  BY DEF AcceptedRec!Ranked
<1>1. call[2] \in Nat
  BY DEF SpecCalls
<1>. QED BY <1>1, EditsAssumption DEF RoomOf

LEMMA AcceptedLocal == AcceptedRec!Local
<1>. SUFFICES ASSUME NEW call \in SpecCalls, NEW g, NEW h,
                     \A c \in SpecCalls : RoomOf(c) < RoomOf(call) => g[c] = h[c]
              PROVE  Limits!AcceptedOf(g, call) = Limits!AcceptedOf(h, call)
  BY DEF AcceptedRec!Local
<1>. DEFINE spec == call[1]
            depth == call[2]
<1>1. spec \in Specs /\ depth \in Nat
  BY DEF SpecCalls
<1>. HIDE DEF spec, depth
<1>2. ASSUME depth < MaxDepth, NEW inner \in Specs PROVE g[<<inner, depth + 1>>] = h[<<inner, depth + 1>>]
  <2>1. <<inner, depth + 1>> \in SpecCalls
    BY <1>1 DEF SpecCalls
  <2>2. RoomOf(<<inner, depth + 1>>) < RoomOf(call)
    BY <1>1, <1>2, EditsAssumption DEF RoomOf, depth
  <2>. QED BY <2>1, <2>2
<1>3. CASE depth < MaxDepth
  <2>1. "items" \in DOMAIN spec => g[<<spec.items, depth + 1>>] = h[<<spec.items, depth + 1>>]
    BY <1>1, <1>2, <1>3, SpecsAssumption
  <2>2. "properties" \in DOMAIN spec => \A name \in DOMAIN spec.properties :
            g[<<spec.properties[name], depth + 1>>] = h[<<spec.properties[name], depth + 1>>]
    BY <1>1, <1>2, <1>3, SpecsAssumption
  <2>. QED BY <2>1, <2>2 DEF Limits!AcceptedOf, spec, depth
<1>4. CASE ~(depth < MaxDepth)
  BY <1>4 DEF Limits!AcceptedOf, Limits!Speaks, spec, depth
<1>. QED BY <1>3, <1>4

LEMMA AcceptedRecursion ==
    \A call \in SpecCalls : Limits!Accepted[call] = Limits!AcceptedOf(Limits!Accepted, call)
<1>1. \E f : f = [call \in SpecCalls |-> Limits!AcceptedOf(f, call)]
  BY SpecsAreRanked, AcceptedLocal, AcceptedRec!RecursionHolds
<1>2. Limits!Accepted = [call \in SpecCalls |-> Limits!AcceptedOf(Limits!Accepted, call)]
  BY <1>1 DEF Limits!Accepted, SpecCalls
<1>. QED BY <1>2

PassCalls == Specs \X Mappings \X BOOLEAN \X Nat
DepthLeft(call) == IF call[4] <= MaxDepth THEN MaxDepth + 1 - call[4] ELSE 0
PassesStep(passes, call) == Limits!PassesOf(passes, call[1], call[2], call[3], call[4])
PassesRec == INSTANCE Recursion WITH S <- PassCalls, Rank <- DepthLeft, Step <- PassesStep

LEMMA PassesAreRanked == PassesRec!Ranked
<1>. SUFFICES ASSUME NEW call \in PassCalls PROVE DepthLeft(call) \in Nat
  BY DEF PassesRec!Ranked
<1>1. call[4] \in Nat
  BY DEF PassCalls
<1>. QED BY <1>1, EditsAssumption DEF DepthLeft

\* What a value is checked against is a spec again, and what is checked a mapping.
LEMMA FitsAlike ==
    ASSUME NEW spec \in Specs, NEW fields \in Mappings, NEW name \in DOMAIN fields,
           NEW strict \in BOOLEAN, NEW depth, NEW g, NEW h,
           \A s \in Specs, f \in Mappings :
               g[<<s, f, strict, depth + 1>>] = h[<<s, f, strict, depth + 1>>]
    PROVE  Limits!FitsOf(g, spec, fields[name], strict, depth)
           = Limits!FitsOf(h, spec, fields[name], strict, depth)
<1>. DEFINE x == fields[name]
<1>1. x.t = "object" => x.v \in Mappings
  BY MappingsAssumption
<1>2. x.t = "array" => \A k \in DOMAIN x.v : [item |-> x.v[k]] \in Mappings
  BY MappingsAssumption
<1>3. "items" \in DOMAIN spec => Limits!ItemSchema(spec.items) \in Specs
  BY SpecsAssumption
<1>. HIDE DEF x
<1>4. x.t = "object" => g[<<spec, x.v, strict, depth + 1>>] = h[<<spec, x.v, strict, depth + 1>>]
  BY <1>1
<1>5. x.t = "array" /\ "items" \in DOMAIN spec => \A k \in DOMAIN x.v :
          g[<<Limits!ItemSchema(spec.items), [item |-> x.v[k]], strict, depth + 1>>]
          = h[<<Limits!ItemSchema(spec.items), [item |-> x.v[k]], strict, depth + 1>>]
  BY <1>2, <1>3
<1>6. Limits!FitsOf(g, spec, x, strict, depth) = Limits!FitsOf(h, spec, x, strict, depth)
  BY <1>4, <1>5 DEF Limits!FitsOf
<1>. QED BY <1>6 DEF x

LEMMA PassesLocal == PassesRec!Local
<1>. SUFFICES ASSUME NEW call \in PassCalls, NEW g, NEW h,
                     \A c \in PassCalls : DepthLeft(c) < DepthLeft(call) => g[c] = h[c]
              PROVE  PassesStep(g, call) = PassesStep(h, call)
  BY DEF PassesRec!Local
<1>. DEFINE s == call[1]
            fields == call[2]
            strict == call[3]
            depth == call[4]
            props == Limits!Field(s, "properties", <<>>)
<1>1. s \in Specs /\ fields \in Mappings /\ strict \in BOOLEAN /\ depth \in Nat
  BY DEF PassCalls
<1>2. \A name \in DOMAIN props : props[name] \in Specs
  BY <1>1, SpecsAssumption DEF Limits!Field
<1>. HIDE DEF s, fields, strict, depth, props
<1>3. CASE depth <= MaxDepth
  <2>1. ASSUME NEW t \in Specs, NEW f \in Mappings
        PROVE  g[<<t, f, strict, depth + 1>>] = h[<<t, f, strict, depth + 1>>]
    <3>1. <<t, f, strict, depth + 1>> \in PassCalls
      BY <1>1 DEF PassCalls
    <3>2. DepthLeft(<<t, f, strict, depth + 1>>) < DepthLeft(call)
      BY <1>1, <1>3, EditsAssumption DEF DepthLeft, depth
    <3>. QED BY <3>1, <3>2
  <2>2. \A name \in DOMAIN props \cap DOMAIN fields :
            Limits!FitsOf(g, props[name], fields[name], strict, depth)
            = Limits!FitsOf(h, props[name], fields[name], strict, depth)
    BY <1>1, <1>2, <2>1, FitsAlike
  <2>. QED BY <2>2 DEF PassesStep, Limits!PassesOf, s, fields, strict, depth, props
<1>4. CASE ~(depth <= MaxDepth)
  BY <1>4 DEF PassesStep, Limits!PassesOf, depth
<1>. QED BY <1>3, <1>4

LEMMA PassesRecursion ==
    ASSUME NEW s \in Specs, NEW fields \in Mappings, NEW strict \in BOOLEAN, NEW depth \in Nat
    PROVE  Limits!PassesNested[<<s, fields, strict, depth>>]
           = Limits!PassesOf(Limits!PassesNested, s, fields, strict, depth)
<1>1. \E f : f = [call \in PassCalls |-> PassesStep(f, call)]
  BY PassesAreRanked, PassesLocal, PassesRec!RecursionHolds
<1>2. \E f : f = [call \in PassCalls |-> Limits!PassesOf(f, call[1], call[2], call[3], call[4])]
  BY <1>1 DEF PassesStep
<1>3. Limits!PassesNested = [call \in PassCalls |->
          Limits!PassesOf(Limits!PassesNested, call[1], call[2], call[3], call[4])]
  BY <1>2 DEF Limits!PassesNested, PassCalls
<1>4. <<s, fields, strict, depth>> \in PassCalls
  BY DEF PassCalls
<1>. QED BY <1>3, <1>4
-----------------------------------------------------------------------------
(***************************************************************************)
(* Edits of a schema.                                                      *)
(***************************************************************************)
IsSpec(spec, type) == spec \in Specs /\ "type" \in DOMAIN spec /\ spec.type = type

\* What a property of the schema may be.
Kind(name, spec) ==
    /\ name = "n" => OfNumber(spec)
    /\ name = "l" => IsSpec(spec, "array")
    /\ name = "o" => IsSpec(spec, "object")

LimitsInv ==
    /\ edits \in 0..MaxEdits /\ regex \in Regexes \cup {<<>>}
    /\ "properties" \in DOMAIN schema /\ DOMAIN Limits!Props = {"n", "l", "o"}
    /\ \A name \in {"n", "l", "o"} : Kind(name, Limits!Props[name])
    /\ Limits!SchemaAccepted(schema)

\* A spec that has nothing but a type, or nothing, is accepted at the top.
LEMMA UntouchedAccepted ==
    ASSUME NEW spec \in Specs, DOMAIN spec \subseteq {"type"},
           "type" \in DOMAIN spec => spec.type \in Limits!Types
    PROVE  Limits!Accepted[<<spec, 0>>]
<1>1. Limits!Accepted[<<spec, 0>>] = Limits!AcceptedOf(Limits!Accepted, <<spec, 0>>)
  BY AcceptedRecursion DEF SpecCalls
<1>2. \A keys : "type" \notin keys => ~Limits!Speaks(spec, keys)
  BY DEF Limits!Speaks
<1>. HIDE DEF Limits!Types
<1>3. Limits!InOrder(spec)
  BY <1>2 DEF Limits!InOrder
<1>4. ~Limits!Speaks(spec, {"items", "properties"})
  BY <1>2
<1>5. \A K \in {Limits!Numeric, Limits!Textual, Limits!Arrays, Limits!Objects} :
          ~Limits!Speaks(spec, K)
  <2>1. \A K \in {Limits!Numeric, Limits!Textual, Limits!Arrays, Limits!Objects} : "type" \notin K
    BY DEF Limits!Numeric, Limits!Textual, Limits!Arrays, Limits!Objects
  <2>. QED BY <1>2, <2>1
<1>6. "items" \notin DOMAIN spec /\ "properties" \notin DOMAIN spec
  BY <1>4 DEF Limits!Speaks
<1>. HIDE DEF Limits!Speaks
<1>. QED BY <1>1, <1>3, <1>4, <1>5, <1>6 DEF Limits!AcceptedOf

LEMMA LimitsStart == ASSUME Limits!Init PROVE LimitsInv
<1>1. PICK n \in {[type |-> "integer"], Limits!Untyped} :
          schema = [properties |-> Limits!With(Limits!Untouched, "n", n)]
  <2>1. Limits!With(Limits!Untouched, "n", [type |-> "integer"]) = Limits!Untouched
    BY DEF Limits!With, Limits!Untouched
  <2>. QED BY <2>1 DEF Limits!Init
<1>. DEFINE props == Limits!With(Limits!Untouched, "n", n)
<1>2. "properties" \in DOMAIN schema /\ Limits!Props = props /\ schema.properties = props
  BY <1>1 DEF Limits!Props
<1>3. /\ DOMAIN props = {"n", "l", "o"} /\ props["n"] = n
      /\ props["l"] = [type |-> "array"] /\ props["o"] = [type |-> "object"]
  BY DEF Limits!Untouched, Limits!With
<1>4. /\ n \in Specs /\ DOMAIN n \subseteq {"type"}
      /\ "type" \in DOMAIN n => n.type = "integer"
  <2>1. Limits!Untouched["n"] = [type |-> "integer"]
    BY DEF Limits!Untouched
  <2>2. CASE n = [type |-> "integer"]
    BY <2>1, <2>2, SpecsAssumption
  <2>3. CASE n = Limits!Untyped
    <3>1. DOMAIN n = {}
      BY <2>3 DEF Limits!Untyped
    <3>. QED BY <2>3, <3>1, SpecsAssumption
  <2>. QED BY <1>1, <2>2, <2>3
<1>5. /\ Limits!Untouched["l"] = [type |-> "array"]
      /\ Limits!Untouched["o"] = [type |-> "object"]
  BY DEF Limits!Untouched
<1>6. /\ props["l"] \in Specs /\ DOMAIN props["l"] = {"type"} /\ props["l"].type = "array"
      /\ props["o"] \in Specs /\ DOMAIN props["o"] = {"type"} /\ props["o"].type = "object"
  BY <1>3, <1>5, SpecsAssumption
<1>. HIDE DEF props
<1>7. \A name \in {"n", "l", "o"} : Kind(name, props[name])
  <2>1. Kind("n", props["n"])
    BY <1>3, <1>4 DEF Kind, OfNumber
  <2>2. Kind("l", props["l"]) /\ Kind("o", props["o"])
    BY <1>6 DEF Kind, IsSpec
  <2>. QED BY <2>1, <2>2
<1>8. Limits!SchemaAccepted(schema)
  <2>1. {"integer", "array", "object"} \subseteq Limits!Types
    BY DEF Limits!Types
  <2>2. /\ Limits!Accepted[<<props["n"], 0>>] /\ Limits!Accepted[<<props["l"], 0>>]
        /\ Limits!Accepted[<<props["o"], 0>>]
    BY <1>3, <1>4, <1>6, <2>1, UntouchedAccepted
  <2>. QED BY <1>2, <1>3, <2>2 DEF Limits!SchemaAccepted
<1>9. edits \in 0..MaxEdits /\ regex \in Regexes \cup {<<>>}
  BY EditsAssumption DEF Limits!Init
<1>. QED BY <1>2, <1>3, <1>7, <1>8, <1>9 DEF LimitsInv

\* Any edit keeps the schema accepted; what it may replace is one property or another
\* keyword.
LEMMA Replaced ==
    ASSUME LimitsInv, Limits!Edited, NEW name \in {"n", "l", "o"}, NEW spec, Kind(name, spec),
           schema' = Limits!With(schema, "properties", Limits!With(Limits!Props, name, spec))
    PROVE  LimitsInv'
<1>. DEFINE props == Limits!With(Limits!Props, name, spec)
<1>1. /\ "properties" \in DOMAIN schema'
      /\ (Limits!Props)' = props
  BY DEF Limits!With, Limits!Props
<1>2. DOMAIN Limits!Props = {"n", "l", "o"}
  BY DEF LimitsInv
<1>3. /\ DOMAIN props = {"n", "l", "o"} /\ props[name] = spec
      /\ \A other \in {"n", "l", "o"} : other # name => props[other] = Limits!Props[other]
  BY <1>2 DEF Limits!With
<1>. HIDE DEF props
<1>4. \A other \in {"n", "l", "o"} : Kind(other, props[other])
  BY <1>3 DEF LimitsInv
<1>5. /\ edits' \in 0..MaxEdits /\ regex' \in Regexes \cup {<<>>}
      /\ Limits!SchemaAccepted(schema')
  BY EditsAssumption DEF LimitsInv, Limits!Edited
<1>. QED BY <1>1, <1>3, <1>4, <1>5 DEF LimitsInv, Kind, IsSpec, OfNumber

\* A spec with one more keyword of its type is a spec.
LEMMA MoreOfNumbers ==
    ASSUME NEW spec, OfNumber(spec), NEW more \in Limits!Bounded(spec) \cup Limits!TypedAs(spec)
    PROVE  OfNumber(more)
<1>1. more \in Specs
  BY SpecsAssumption DEF OfNumber
<1>2. CASE more \in Limits!Bounded(spec)
  <2>1. PICK key \in Limits!Numeric, b \in Bounds : more = Limits!With(spec, key, b)
    BY <1>2 DEF Limits!Bounded
  <2>2. key # "type"
    BY <2>1 DEF Limits!Numeric
  <2>. QED BY <1>1, <2>1, <2>2 DEF Limits!With, OfNumber
<1>3. CASE more \in Limits!TypedAs(spec)
  <2>1. PICK type \in {"integer", "string"} : more = Limits!With(spec, "type", type)
    BY <1>3 DEF Limits!TypedAs
  <2>. QED BY <1>1, <2>1 DEF Limits!With, OfNumber
<1>. QED BY <1>2, <1>3

LEMMA MoreOfArrays ==
    ASSUME NEW spec, IsSpec(spec, "array"), NEW more \in Limits!Sized(spec) \cup Limits!Itemized(spec)
    PROVE  IsSpec(more, "array")
<1>1. more \in Specs
  BY SpecsAssumption DEF IsSpec
<1>2. \E key \in {"minItems", "maxItems", "items"} : \E v : more = Limits!With(spec, key, v)
  BY DEF Limits!Sized, Limits!Itemized
<1>. QED BY <1>1, <1>2 DEF Limits!With, IsSpec

LEMMA ObjectForms ==
    ASSUME NEW spec, NEW more \in Limits!Required(spec) \cup Limits!Closed(spec) \cup Limits!Declared(spec)
    PROVE  \E key \in {"required", "additionalProperties", "properties"} :
               \E v : more = Limits!With(spec, key, v)
<1>1. CASE more \in Limits!Required(spec)
  BY <1>1 DEF Limits!Required
<1>2. CASE more \in Limits!Closed(spec)
  BY <1>2 DEF Limits!Closed
<1>3. CASE more \in Limits!Declared(spec)
  <2>1. PICK name \in {"n", "z"} \ DOMAIN Limits!Declares(spec), b \in Bounds :
            more = Limits!With(spec, "properties",
                               Limits!With(Limits!Declares(spec), name, [exclusiveMaximum |-> b]))
    BY <1>3 DEF Limits!Declared
  <2>. QED BY <2>1
<1>. QED BY <1>1, <1>2, <1>3

LEMMA MoreOfObjects ==
    ASSUME NEW spec, IsSpec(spec, "object"),
           NEW more \in Limits!Required(spec) \cup Limits!Closed(spec) \cup Limits!Declared(spec)
    PROVE  IsSpec(more, "object")
<1>1. more \in Specs
  BY SpecsAssumption DEF IsSpec
<1>2. \E key \in {"required", "additionalProperties", "properties"} : \E v : more = Limits!With(spec, key, v)
  BY ObjectForms
<1>. QED BY <1>1, <1>2 DEF Limits!With, IsSpec

LEMMA KeywordAdded ==
    ASSUME LimitsInv, Limits!Edited, NEW key, NEW v, key # "properties",
           schema' = Limits!With(schema, key, v)
    PROVE  LimitsInv'
<1>1. "properties" \in DOMAIN schema' /\ (Limits!Props)' = Limits!Props
  BY DEF Limits!With, Limits!Props, LimitsInv
<1>2. /\ edits' \in 0..MaxEdits /\ regex' \in Regexes \cup {<<>>}
      /\ Limits!SchemaAccepted(schema')
  BY EditsAssumption DEF LimitsInv, Limits!Edited
<1>. QED BY <1>1, <1>2 DEF LimitsInv, Kind, IsSpec, OfNumber

\* What an edit is: one more keyword at the top, or a property with one more keyword.
MoreOf(name, spec) ==
    IF name = "n" THEN Limits!Bounded(spec) \cup Limits!TypedAs(spec)
    ELSE IF name = "l" THEN Limits!Sized(spec) \cup Limits!Itemized(spec)
    ELSE Limits!Required(spec) \cup Limits!Closed(spec) \cup Limits!Declared(spec)
EditedAt(name) ==
    \E spec \in MoreOf(name, Limits!Props[name]) :
        /\ Kind(name, spec)
        /\ schema' = Limits!With(schema, "properties", Limits!With(Limits!Props, name, spec))

LEMMA EditForms ==
    ASSUME LimitsInv, Limits!Next
    PROVE  /\ Limits!Edited
           /\ \/ \E name \in {"n", "l", "o"} : EditedAt(name)
              \/ schema' \in Limits!Required(schema) \cup Limits!Closed(schema)
<1>1. Limits!Edited
  BY DEF Limits!Next, Limits!AddBound, Limits!AddType, Limits!AddLength, Limits!AddItems,
         Limits!Require, Limits!Close, Limits!Declare
<1>2. /\ OfNumber(Limits!Props["n"])
      /\ IsSpec(Limits!Props["l"], "array")
      /\ IsSpec(Limits!Props["o"], "object")
  BY DEF LimitsInv, Kind
<1>3. \/ Limits!Replace("n", Limits!Bounded(Limits!Props["n"]))
      \/ Limits!Replace("n", Limits!TypedAs(Limits!Props["n"]))
      \/ Limits!Replace("l", Limits!Sized(Limits!Props["l"]))
      \/ Limits!Replace("l", Limits!Itemized(Limits!Props["l"]))
      \/ Limits!Replace("o", Limits!Required(Limits!Props["o"]))
      \/ Limits!Replace("o", Limits!Closed(Limits!Props["o"]))
      \/ Limits!Replace("o", Limits!Declared(Limits!Props["o"]))
      \/ schema' \in Limits!Required(schema) \cup Limits!Closed(schema)
  BY DEF Limits!Next, Limits!AddBound, Limits!AddType, Limits!AddLength, Limits!AddItems,
         Limits!Require, Limits!Close, Limits!Declare
<1>4. /\ Limits!Replace("n", Limits!Bounded(Limits!Props["n"])) => EditedAt("n")
      /\ Limits!Replace("n", Limits!TypedAs(Limits!Props["n"])) => EditedAt("n")
  BY <1>2, MoreOfNumbers DEF Limits!Replace, EditedAt, MoreOf, Kind
<1>5. /\ Limits!Replace("l", Limits!Sized(Limits!Props["l"])) => EditedAt("l")
      /\ Limits!Replace("l", Limits!Itemized(Limits!Props["l"])) => EditedAt("l")
  BY <1>2, MoreOfArrays DEF Limits!Replace, EditedAt, MoreOf, Kind
<1>6. /\ Limits!Replace("o", Limits!Required(Limits!Props["o"])) => EditedAt("o")
      /\ Limits!Replace("o", Limits!Closed(Limits!Props["o"])) => EditedAt("o")
      /\ Limits!Replace("o", Limits!Declared(Limits!Props["o"])) => EditedAt("o")
  BY <1>2, MoreOfObjects DEF Limits!Replace, EditedAt, MoreOf, Kind
<1>. QED BY <1>1, <1>3, <1>4, <1>5, <1>6

LEMMA LimitsStep == ASSUME LimitsInv, Limits!Next PROVE LimitsInv'
<1>1. CASE schema' \in Limits!Required(schema) \cup Limits!Closed(schema)
  <2>1. \E key \in {"required", "additionalProperties"} : \E v : schema' = Limits!With(schema, key, v)
    BY <1>1 DEF Limits!Required, Limits!Closed
  <2>. QED BY <2>1, EditForms, KeywordAdded
<1>2. CASE \E name \in {"n", "l", "o"} : EditedAt(name)
  BY <1>2, EditForms, Replaced DEF EditedAt
<1>. QED BY <1>1, <1>2, EditForms

LEMMA LimitsRest == ASSUME LimitsInv, UNCHANGED limits PROVE LimitsInv'
BY DEF LimitsInv, Kind, IsSpec, OfNumber, limits, Limits!Props

-----------------------------------------------------------------------------
\* A schema is at least as strict as another if it requires and declares as much, and
\* lets in no more fields.
LEMMA Stricter ==
    ASSUME NEW s, NEW t, NEW passes, NEW fields, NEW strict, NEW depth,
           DOMAIN Limits!Declares(s) \subseteq DOMAIN Limits!Declares(t),
           \A name \in DOMAIN Limits!Declares(s) : Limits!Declares(t)[name] = Limits!Declares(s)[name],
           Limits!Field(s, "required", {}) \subseteq Limits!Field(t, "required", {}),
           \/ Limits!Field(s, "additionalProperties", ~strict)
           \/ /\ ~Limits!Field(t, "additionalProperties", ~strict)
              /\ DOMAIN Limits!Declares(t) = DOMAIN Limits!Declares(s),
           Limits!PassesOf(passes, t, fields, strict, depth)
    PROVE  Limits!PassesOf(passes, s, fields, strict, depth)
BY DEF Limits!PassesOf, Limits!Declares

LEMMA StricterKeyword ==
    ASSUME NEW s, NEW t \in Limits!Required(s) \cup Limits!Closed(s) \cup Limits!Declared(s),
           NEW passes, NEW fields, NEW strict \in BOOLEAN, NEW depth,
           Limits!Speaks(s, {"properties", "required"}), ~Limits!Opens(s, t, strict),
           Limits!PassesOf(passes, t, fields, strict, depth)
    PROVE  Limits!PassesOf(passes, s, fields, strict, depth)
<1>1. \/ Limits!Field(s, "additionalProperties", ~strict)
      \/ /\ ~Limits!Field(t, "additionalProperties", ~strict)
         /\ DOMAIN Limits!Declares(t) = DOMAIN Limits!Declares(s)
  BY DEF Limits!Opens
<1>2. /\ DOMAIN Limits!Declares(s) \subseteq DOMAIN Limits!Declares(t)
      /\ \A name \in DOMAIN Limits!Declares(s) : Limits!Declares(t)[name] = Limits!Declares(s)[name]
      /\ Limits!Field(s, "required", {}) \subseteq Limits!Field(t, "required", {})
  <2>1. CASE t \in Limits!Required(s)
    <3>1. PICK name \in {"n", "l"} :
              t = Limits!With(s, "required", Limits!Field(s, "required", {}) \cup {name})
      BY <2>1 DEF Limits!Required
    <3>. QED BY <3>1, FieldWith DEF Limits!Declares
  <2>2. CASE t \in Limits!Closed(s)
    <3>1. PICK more \in BOOLEAN : t = Limits!With(s, "additionalProperties", more)
      BY <2>2 DEF Limits!Closed
    <3>. QED BY <3>1, FieldWith DEF Limits!Declares
  <2>3. CASE t \in Limits!Declared(s)
    <3>1. PICK name \in {"n", "z"} \ DOMAIN Limits!Declares(s), b \in Bounds :
              t = Limits!With(s, "properties",
                              Limits!With(Limits!Declares(s), name, [exclusiveMaximum |-> b]))
      BY <2>3 DEF Limits!Declared
    <3>2. /\ Limits!Declares(t) = Limits!With(Limits!Declares(s), name, [exclusiveMaximum |-> b])
          /\ Limits!Field(t, "required", {}) = Limits!Field(s, "required", {})
      BY <3>1, FieldWith DEF Limits!Declares
    <3>. QED BY <3>1, <3>2 DEF Limits!With
  <2>. QED BY <2>1, <2>2, <2>3
<1>. QED BY <1>1, <1>2, Stricter

\* A spec is at least as strict as another for a value if it is so for all kinds of it.
Fits(spec, x, strict) == Limits!FitsOf(Limits!PassesNested, spec, x, strict, 0)
IsValue(x) == \E fields \in Arguments : \E name \in DOMAIN fields : x = fields[name]

LEMMA ValuesAreTyped ==
    ASSUME NEW x, IsValue(x)
    PROVE  /\ x.t = "integer" => x.v \in Int
           /\ x.t = "string" => x.v \in Nat
           /\ x.t = "array" => Len(x.v) \in Nat
           /\ x.t = "object" => x.v \in Mappings
<1>1. PICK fields \in Arguments : \E name \in DOMAIN fields : x = fields[name]
  BY DEF IsValue
<1>2. PICK name \in DOMAIN fields : x = fields[name]
  BY <1>1
<1>3. fields \in Mappings
  BY MappingsAssumption
<1>4. x.t = "array" => x.v \in Seq({x.v[k] : k \in DOMAIN x.v})
  BY <1>2, <1>3, MappingsAssumption
<1>5. x.t = "array" => Len(x.v) \in Nat
  BY <1>4, LenProperties
<1>. QED BY <1>2, <1>3, <1>5, MappingsAssumption

\* A spec of numbers says nothing of other values, save for its type.
LEMMA NumbersFit ==
    ASSUME NEW spec, OfNumber(spec), NEW x, IsValue(x), NEW strict
    PROVE  Fits(spec, x, strict) <=> /\ Limits!TypeFits(spec, x)
                                     /\ x.t = "integer" => Limits!InBounds(spec, x)
<1>1. \A key : key \notin Limits!Numeric \cup {"type"} => key \notin DOMAIN spec
  BY DEF OfNumber
<1>2. /\ "minLength" \notin DOMAIN spec /\ "maxLength" \notin DOMAIN spec
      /\ "pattern" \notin DOMAIN spec /\ "enum" \notin DOMAIN spec
      /\ "minItems" \notin DOMAIN spec /\ "maxItems" \notin DOMAIN spec
      /\ "items" \notin DOMAIN spec /\ "properties" \notin DOMAIN spec
      /\ "required" \notin DOMAIN spec
  BY <1>1 DEF Limits!Numeric
<1>3. /\ \A n \in Int : /\ Limits!LengthFits(spec, n, "minLength", "maxLength")
                        /\ Limits!LengthFits(spec, n, "minItems", "maxItems")
      /\ x \in Limits!Field(spec, "pattern", {x}) /\ x \in Limits!Field(spec, "enum", {x})
      /\ ~Limits!Speaks(spec, {"properties", "required"})
  BY <1>2 DEF Limits!LengthFits, Limits!Field, Limits!Speaks
<1>4. (x.t = "string" => x.v \in Int) /\ (x.t = "array" => Len(x.v) \in Int)
  BY ValuesAreTyped
<1>. QED BY <1>2, <1>3, <1>4 DEF Fits, Limits!FitsOf

\* What spec asks for of a number is not more than what more asks for.
LEMMA BoundsNarrow ==
    ASSUME NEW spec, NEW more, NEW x, x.v \in Int,
           \A key \in Limits!Numeric \cap DOMAIN spec : key \in DOMAIN more /\ more[key] = spec[key],
           Limits!InBounds(more, x)
    PROVE  Limits!InBounds(spec, x)
<1>1. \A k \in Limits!Numeric : \A default :
          \/ Limits!Field(spec, k, default) = default
          \/ Limits!Field(spec, k, default) = Limits!Field(more, k, default)
  BY DEF Limits!Field
<1>2. \A default :
          /\ \/ Limits!Field(spec, "minimum", default) = default
             \/ Limits!Field(spec, "minimum", default) = Limits!Field(more, "minimum", default)
          /\ \/ Limits!Field(spec, "maximum", default) = default
             \/ Limits!Field(spec, "maximum", default) = Limits!Field(more, "maximum", default)
          /\ \/ Limits!Field(spec, "exclusiveMinimum", default) = default
             \/ Limits!Field(spec, "exclusiveMinimum", default)
                = Limits!Field(more, "exclusiveMinimum", default)
          /\ \/ Limits!Field(spec, "exclusiveMaximum", default) = default
             \/ Limits!Field(spec, "exclusiveMaximum", default)
                = Limits!Field(more, "exclusiveMaximum", default)
  BY <1>1 DEF Limits!Numeric
<1>. QED BY <1>2 DEF Limits!InBounds

\* The types that a spec of numbers asks for.
LEMMA NumberTypes ==
    ASSUME NEW spec, OfNumber(spec), NEW x
    PROVE  Limits!TypeFits(spec, x) <=>
               IF "type" \in DOMAIN spec THEN x.t = spec.type
               ELSE Limits!Speaks(spec, Limits!Numeric) => x.t = "integer"
<1>1. /\ ~Limits!Speaks(spec, Limits!Textual) /\ ~Limits!Speaks(spec, Limits!Arrays)
      /\ ~Limits!Speaks(spec, Limits!Objects)
  BY DEF OfNumber, Limits!Speaks, Limits!Numeric, Limits!Textual, Limits!Arrays, Limits!Objects
<1>2. CASE "type" \in DOMAIN spec
  <2>1. Limits!Field(spec, "type", "any") = spec.type /\ spec.type \in {"integer", "string"}
    BY <1>2 DEF OfNumber, Limits!Field
  <2>2. CASE spec.type = "integer"
    <3>1. Limits!Field(spec, "type", "any") = "integer"
      BY <2>1, <2>2
    <3>2. Limits!TypeFits(spec, x) <=> x.t = "integer"
      BY <3>1, Zenon DEF Limits!TypeFits
    <3>. QED BY <1>2, <2>2, <3>2
  <2>3. CASE spec.type = "string"
    <3>1. Limits!Field(spec, "type", "any") = "string"
      BY <2>1, <2>3
    <3>2. Limits!TypeFits(spec, x) <=> x.t = "string"
      BY <3>1, Zenon DEF Limits!TypeFits
    <3>. QED BY <1>2, <2>3, <3>2
  <2>. QED BY <2>1, <2>2, <2>3
<1>3. CASE "type" \notin DOMAIN spec
  <2>1. Limits!Field(spec, "type", "any") = "any"
    BY <1>3 DEF Limits!Field
  <2>. HIDE DEF Limits!Speaks, Limits!Numeric, Limits!Textual, Limits!Arrays, Limits!Objects
  <2>2. Limits!TypeFits(spec, x) <=> (Limits!Speaks(spec, Limits!Numeric) => x.t = "integer")
    BY <1>1, <2>1 DEF Limits!TypeFits
  <2>. QED BY <1>3, <2>2
<1>. QED BY <1>2, <1>3

LEMMA NumbersNarrow ==
    ASSUME NEW spec, OfNumber(spec), NEW more \in Limits!Bounded(spec) \cup Limits!TypedAs(spec),
           ~Limits!Retypes(spec, more), NEW x, IsValue(x), NEW strict, Fits(more, x, strict)
    PROVE  Fits(spec, x, strict)
<1>1. OfNumber(more)
  BY MoreOfNumbers
<1>2. /\ Limits!TypeFits(more, x)
      /\ x.t = "integer" => Limits!InBounds(more, x)
  BY <1>1, NumbersFit
<1>3. \/ \E key \in Limits!Numeric \ DOMAIN spec, b \in Bounds : more = Limits!With(spec, key, b)
      \/ /\ "type" \notin DOMAIN spec
         /\ \E type \in {"integer", "string"} : more = Limits!With(spec, "type", type)
  BY DEF Limits!Bounded, Limits!TypedAs
<1>4. \A key \in DOMAIN spec : key \in DOMAIN more /\ more[key] = spec[key]
  BY <1>3 DEF Limits!With
<1>5. x.t = "integer" => Limits!InBounds(spec, x)
  BY <1>2, <1>4, ValuesAreTyped, BoundsNarrow
<1>6. Limits!TypeFits(spec, x)
  <2>1. Limits!Speaks(spec, Limits!Numeric) => Limits!Speaks(more, Limits!Numeric)
    BY <1>4 DEF Limits!Speaks
  <2>2. CASE "type" \in DOMAIN spec
    BY <1>1, <1>2, <1>4, <2>2, NumberTypes
  <2>3. CASE "type" \notin DOMAIN spec /\ "type" \notin DOMAIN more
    BY <1>1, <1>2, <2>1, <2>3, NumberTypes
  <2>4. CASE "type" \notin DOMAIN spec /\ "type" \in DOMAIN more
    <3>1. ~Limits!Speaks(spec, Limits!Numeric) \/ more.type = "integer"
      BY <2>4 DEF Limits!Retypes, Limits!Field
    <3>. QED BY <1>1, <1>2, <2>4, <3>1, NumberTypes
  <2>. QED BY <2>2, <2>3, <2>4
<1>. QED BY <1>5, <1>6, NumbersFit

LEMMA ArraysNarrow ==
    ASSUME NEW spec, IsSpec(spec, "array"), NEW more \in Limits!Sized(spec) \cup Limits!Itemized(spec),
           NEW x, IsValue(x), NEW strict, Fits(more, x, strict)
    PROVE  Fits(spec, x, strict)
<1>1. PICK key \in {"minItems", "maxItems", "items"} :
          key \notin DOMAIN spec /\ \E v : more = Limits!With(spec, key, v)
  BY DEF Limits!Sized, Limits!Itemized
<1>2. PICK v : more = Limits!With(spec, key, v)
  BY <1>1
<1>3. Limits!Field(spec, "type", "any") = "array" /\ Limits!Field(more, "type", "any") = "array"
  BY <1>1, <1>2 DEF IsSpec, Limits!Field, Limits!With
<1>4. Limits!TypeFits(more, x) => x.t = "array"
  BY <1>3, Zenon DEF Limits!TypeFits
<1>5. x.t = "array" => Limits!TypeFits(spec, x)
  BY <1>3, Zenon DEF Limits!TypeFits
<1>6. x.t = "array" /\ Len(x.v) \in Nat
  BY <1>4, ValuesAreTyped DEF Fits, Limits!FitsOf
<1>7. Limits!LengthFits(spec, Len(x.v), "minItems", "maxItems")
  <2>1. Limits!LengthFits(more, Len(x.v), "minItems", "maxItems")
    BY <1>6 DEF Fits, Limits!FitsOf
  <2>2. \A k \in {"minItems", "maxItems"} : \A default :
            \/ Limits!Field(spec, k, default) = default
            \/ Limits!Field(spec, k, default) = Limits!Field(more, k, default)
    BY <1>1, <1>2 DEF Limits!Field, Limits!With
  <2>. QED BY <1>6, <2>1, <2>2 DEF Limits!LengthFits
<1>8. x \in Limits!Field(spec, "enum", {x})
  <2>1. Limits!Field(spec, "enum", {x}) = Limits!Field(more, "enum", {x})
    BY <1>1, <1>2 DEF Limits!Field, Limits!With
  <2>. QED BY <2>1 DEF Fits, Limits!FitsOf
<1>9. "items" \in DOMAIN spec => "items" \in DOMAIN more /\ more.items = spec.items
  BY <1>1, <1>2 DEF Limits!With
<1>. QED BY <1>5, <1>6, <1>7, <1>8, <1>9 DEF Fits, Limits!FitsOf

LEMMA ObjectsNarrow ==
    ASSUME NEW spec, IsSpec(spec, "object"),
           NEW more \in Limits!Required(spec) \cup Limits!Closed(spec) \cup Limits!Declared(spec),
           NEW strict \in BOOLEAN, ~Limits!Opens(spec, more, strict),
           NEW x, IsValue(x), Fits(more, x, strict)
    PROVE  Fits(spec, x, strict)
<1>1. PICK key \in {"required", "additionalProperties", "properties"} :
          \E v : more = Limits!With(spec, key, v)
  BY ObjectForms
<1>2. PICK v : more = Limits!With(spec, key, v)
  BY <1>1
<1>3. Limits!Field(spec, "type", "any") = "object" /\ Limits!Field(more, "type", "any") = "object"
  BY <1>1, <1>2 DEF IsSpec, Limits!Field, Limits!With
<1>4. Limits!TypeFits(more, x) => x.t = "object"
  BY <1>3, Zenon DEF Limits!TypeFits
<1>5. x.t = "object" => Limits!TypeFits(spec, x)
  BY <1>3, Zenon DEF Limits!TypeFits
<1>6. x.t = "object" /\ x.v \in Mappings
  BY <1>4, ValuesAreTyped DEF Fits, Limits!FitsOf
<1>7. x \in Limits!Field(spec, "enum", {x})
  <2>1. Limits!Field(spec, "enum", {x}) = Limits!Field(more, "enum", {x})
    BY <1>1, <1>2 DEF Limits!Field, Limits!With
  <2>. QED BY <2>1 DEF Fits, Limits!FitsOf
<1>8. ASSUME Limits!Speaks(spec, {"properties", "required"})
      PROVE  Limits!PassesNested[<<spec, x.v, strict, 1>>]
  <2>2. Limits!Speaks(more, {"properties", "required"})
    BY <1>2, <1>8 DEF Limits!Speaks, Limits!With
  <2>3. Limits!PassesNested[<<more, x.v, strict, 1>>]
    BY <1>6, <2>2 DEF Fits, Limits!FitsOf
  <2>4. spec \in Specs /\ more \in Specs
    BY MoreOfObjects DEF IsSpec
  <2>5. Limits!PassesOf(Limits!PassesNested, more, x.v, strict, 1)
    BY <1>6, <2>3, <2>4, PassesRecursion
  <2>6. Limits!PassesOf(Limits!PassesNested, spec, x.v, strict, 1)
    BY <1>8, <2>5, StricterKeyword
  <2>. QED BY <1>6, <2>4, <2>6, PassesRecursion
<1>. QED BY <1>5, <1>6, <1>7, <1>8 DEF Fits, Limits!FitsOf

\* Arguments that a schema with a stricter property lets through.
LEMMA NarrowedRestricts ==
    ASSUME LimitsInv, NEW name \in {"n", "l", "o"}, NEW spec,
           schema' = Limits!With(schema, "properties", Limits!With(Limits!Props, name, spec)),
           NEW fields \in Arguments, NEW strict \in BOOLEAN,
           \A x : IsValue(x) /\ Fits(spec, x, strict) => Fits(Limits!Props[name], x, strict),
           Limits!Passes(schema', fields, strict)
    PROVE  Limits!Passes(schema, fields, strict)
<1>. DEFINE props == Limits!With(Limits!Props, name, spec)
<1>1. /\ "properties" \in DOMAIN schema /\ DOMAIN Limits!Props = {"n", "l", "o"}
      /\ Limits!Props = schema.properties
  BY DEF LimitsInv, Limits!Props
<1>2. /\ DOMAIN props = DOMAIN Limits!Props /\ props[name] = spec
      /\ \A other \in DOMAIN Limits!Props : other # name => props[other] = Limits!Props[other]
  BY <1>1 DEF Limits!With
<1>3. /\ Limits!Field(schema', "properties", <<>>) = props
      /\ Limits!Field(schema, "properties", <<>>) = Limits!Props
      /\ Limits!Field(schema', "required", {}) = Limits!Field(schema, "required", {})
      /\ Limits!Field(schema', "additionalProperties", ~strict)
         = Limits!Field(schema, "additionalProperties", ~strict)
  BY <1>1 DEF Limits!Field, Limits!With
<1>. HIDE DEF props
<1>4. Limits!PassesOf(Limits!PassesNested, schema', fields, strict, 0)
  BY DEF Limits!Passes
<1>5. ASSUME NEW other \in DOMAIN Limits!Props \cap DOMAIN fields
      PROVE  Fits(Limits!Props[other], fields[other], strict)
  <2>1. Fits(props[other], fields[other], strict)
    BY <1>2, <1>3, <1>4 DEF Limits!PassesOf, Fits
  <2>2. IsValue(fields[other])
    BY DEF IsValue
  <2>. QED BY <1>2, <2>1, <2>2
<1>6. Limits!PassesOf(Limits!PassesNested, schema, fields, strict, 0)
  BY <1>2, <1>3, <1>4, <1>5 DEF Limits!PassesOf, Fits
<1>. QED BY <1>6 DEF Limits!Passes

LEMMA EditRestricts ==
    ASSUME LimitsInv, Limits!Next, NEW fields \in Arguments, NEW strict \in BOOLEAN,
           Limits!Passes(schema', fields, strict), ~Limits!Loosens(schema, schema', strict)
    PROVE  Limits!Passes(schema, fields, strict)
<1>1. CASE schema' \in Limits!Required(schema) \cup Limits!Closed(schema)
  <2>1. Limits!Speaks(schema, {"properties", "required"})
    BY DEF LimitsInv, Limits!Speaks
  <2>2. ~Limits!Opens(schema, schema', strict)
    BY DEF Limits!Loosens
  <2>. QED BY <1>1, <2>1, <2>2, StricterKeyword DEF Limits!Passes
<1>2. CASE \E name \in {"n", "l", "o"} : EditedAt(name)
  <2>0. PICK name \in {"n", "l", "o"} : EditedAt(name)
    BY <1>2
  <2>1. PICK spec \in MoreOf(name, Limits!Props[name]) :
            schema' = Limits!With(schema, "properties", Limits!With(Limits!Props, name, spec))
    BY <2>0 DEF EditedAt
  <2>2. DOMAIN Limits!Props = {"n", "l", "o"} /\ Limits!Props = schema.properties
    BY DEF LimitsInv, Limits!Props
  <2>3. schema'.properties[name] = spec
    BY <2>1, <2>2 DEF Limits!With
  <2>4. /\ OfNumber(Limits!Props["n"]) /\ IsSpec(Limits!Props["l"], "array")
        /\ IsSpec(Limits!Props["o"], "object")
    BY DEF LimitsInv, Kind
  <2>5. ASSUME NEW x, IsValue(x), Fits(spec, x, strict) PROVE Fits(Limits!Props[name], x, strict)
    <3>1. CASE name = "n"
      <4>1. ~Limits!Retypes(Limits!Props["n"], spec)
        BY <2>2, <2>3, <3>1 DEF Limits!Loosens
      <4>. QED BY <2>1, <2>4, <2>5, <3>1, <4>1, NumbersNarrow DEF MoreOf
    <3>2. CASE name = "l"
      BY <2>1, <2>4, <2>5, <3>2, ArraysNarrow DEF MoreOf
    <3>3. CASE name = "o"
      <4>1. ~Limits!Opens(Limits!Props["o"], spec, strict)
        BY <2>2, <2>3, <3>3 DEF Limits!Loosens
      <4>. QED BY <2>1, <2>4, <2>5, <3>3, <4>1, ObjectsNarrow DEF MoreOf
    <3>. QED BY <3>1, <3>2, <3>3
  <2>. QED BY <2>1, <2>5, NarrowedRestricts
<1>. QED BY <1>1, <1>2, EditForms

-----------------------------------------------------------------------------
(***************************************************************************)
(* A behaviour of Decisions is about one part.                             *)
(***************************************************************************)
SuiteInv ==
    /\ part \in {"policy", "paths", "record", "rows", "limits"}
    /\ IF part = "policy" THEN Inv ELSE pc = "idle"
    /\ part = "paths" => PathInv
    /\ part = "record" => RecordInv
    /\ part = "rows" => RowsInv
    /\ part = "limits" => LimitsInv

LEMMA SuiteStarts == ASSUME DecisionsInit PROVE SuiteInv
<1>1. CASE part = "policy"
  BY <1>1, InvInit DEF DecisionsInit, SuiteInv
<1>2. CASE part # "policy"
  <2>1. PolicyOff /\ pc = "idle"
    BY <1>2 DEF DecisionsInit, PolicyOff
  <2>. QED
    BY <1>2, <2>1, PathsStart, RecordStarts, RowsStart, LimitsStart DEF DecisionsInit, SuiteInv
<1>. QED BY <1>1, <1>2

LEMMA PathsRest == ASSUME PathInv, UNCHANGED paths PROVE PathInv'
BY DEF PathInv, PathTypes, StarInv, SearchInv, StretchInv, StepsInv, Waiting, paths

LEMMA RecordRests == ASSUME RecordInv, UNCHANGED record PROVE RecordInv'
BY DEF RecordInv, record, Record!TypeOK, Record!ConsumedOnlyThroughApproval, Record!WellFormed

LEMMA SuiteStep == ASSUME SuiteInv, [DecisionsNext]_suite PROVE SuiteInv'
<1>1. part' = part
  BY DEF DecisionsNext, suite
<1>2. ASSUME part = "paths" PROVE PathInv'
  <2>1. PathInv
    BY <1>2 DEF SuiteInv
  <2>2. Paths!Next \/ UNCHANGED paths
    BY <1>2 DEF DecisionsNext, suite
  <2>. QED BY <2>1, <2>2, PathsStep, PathsRest
<1>3. ASSUME part = "record" PROVE RecordInv'
  <2>1. RecordInv
    BY <1>3 DEF SuiteInv
  <2>2. Record!Next \/ UNCHANGED record
    BY <1>3 DEF DecisionsNext, suite
  <2>. QED BY <2>1, <2>2, RecordStep, RecordRests
<1>4. ASSUME part = "rows" PROVE RowsInv'
  <2>1. RowsInv
    BY <1>4 DEF SuiteInv
  <2>2. Rows!Next \/ UNCHANGED rows
    BY <1>4 DEF DecisionsNext, suite
  <2>. QED BY <2>1, <2>2, RowsStep, RowsRest
<1>5. ASSUME part = "limits" PROVE LimitsInv'
  <2>1. LimitsInv
    BY <1>5 DEF SuiteInv
  <2>2. Limits!Next \/ UNCHANGED limits
    BY <1>5 DEF DecisionsNext, suite
  <2>. QED BY <2>1, <2>2, LimitsStep, LimitsRest
<1>6. ASSUME part = "policy" PROVE Inv'
  <2>1. Inv
    BY <1>6 DEF SuiteInv
  <2>2. [Next]_vars
    BY <1>6 DEF DecisionsNext, suite
  <2>. QED BY <2>1, <2>2, InvStep
<1>7. ASSUME part # "policy" PROVE pc' = pc
  BY <1>7 DEF DecisionsNext, suite, vars
<1>. QED BY <1>1, <1>2, <1>3, <1>4, <1>5, <1>6, <1>7 DEF SuiteInv

LEMMA SuiteInvariant == DecisionsSpec => []SuiteInv
<1>1. DecisionsInit => SuiteInv
  BY SuiteStarts
<1>2. SuiteInv /\ [DecisionsNext]_suite => SuiteInv'
  BY SuiteStep
<1>. QED BY <1>1, <1>2, PTL DEF DecisionsSpec

\* The loop of core/resources.py that remembers one "**" instead of backtracking
\* answers what the patterns mean, for lists of any length, and takes at most
\* (n + 1) * (m + 1) iterations for n segments and m patterns.
THEOREM PathsAreMatched == DecisionsSpec => []MatcherAgrees
<1>1. SuiteInv => MatcherAgrees
  BY DEF SuiteInv, PathInv, MatcherAgrees, Paths!MatcherAgrees, Paths!Covers
<1>. QED BY <1>1, SuiteInvariant, PTL

\* A consumed record was approved first and nothing else happened to it, and it was
\* consumed before it expired, by the clock of the consumer.
THEOREM ConsumptionNeedsApproval == DecisionsSpec => []ConsumedOnlyThroughApproval
<1>1. SuiteInv => ConsumedOnlyThroughApproval
  BY DEF SuiteInv, RecordInv, ConsumedOnlyThroughApproval
<1>. QED BY <1>1, SuiteInvariant, PTL

\* What _deserialize of a store with the right key and epoch returns is the request a
\* human was asked about, argument by argument, in a state that such a store wrote,
\* whatever else wrote into the database; and a row nobody touched can be read: for
\* values of any depth, stores of any number and any history of transitions.
THEOREM StoredRequestsComeBack == DecisionsSpec => []ReadsWhatWasSaved
<1>1. SuiteInv => ReadsWhatWasSaved
  BY RowsGoal DEF SuiteInv, ReadsWhatWasSaved
<1>. QED BY <1>1, SuiteInvariant, PTL

\* What is decided follows from the set of the rules, in whatever order the file lists
\* them, and the copy in the shared store decides the same after synchronisation.
THEOREM DecisionsAreOrderFree == DecisionsSpec => []DecisionIsOrderFree
<1>1. SuiteInv => DecisionIsOrderFree
  <2>1. pc = "idle" => DecisionIsOrderFree
    BY DEF DecisionIsOrderFree
  <2>. QED BY <2>1, InvGivesOrderFree DEF SuiteInv
<1>. QED BY <1>1, SuiteInvariant, PTL

\* An edit of a schema lets through arguments that were refused before only if it opens a
\* closed object, declares a field more in one, or gives a bound without a type the type
\* of other values; in whatever order the edits come, for values and specs of any depth,
\* any bounds and both settings of strict_arguments.
THEOREM EditsRestrict == DecisionsSpec => EditsOnlyRestrict
<1>1. SuiteInv /\ [DecisionsNext]_suite =>
          [part = "limits" =>
              \A fields \in Arguments, strict \in BOOLEAN :
                  Limits!Passes(schema', fields, strict)
                      => \/ Limits!Passes(schema, fields, strict)
                         \/ Limits!Loosens(schema, schema', strict)]_suite
  <2>. SUFFICES ASSUME SuiteInv, DecisionsNext, part = "limits",
                       NEW fields \in Arguments, NEW strict \in BOOLEAN,
                       Limits!Passes(schema', fields, strict),
                       ~Limits!Loosens(schema, schema', strict)
                PROVE  Limits!Passes(schema, fields, strict)
    OBVIOUS
  <2>1. LimitsInv /\ Limits!Next
    BY DEF SuiteInv, DecisionsNext
  <2>. QED BY <2>1, EditRestricts
<1>. QED BY <1>1, SuiteInvariant, PTL DEF DecisionsSpec, EditsOnlyRestrict

\* In every part each variable keeps to its type: the matching loop's positions stay in
\* its lists, a record stays a record, a row keeps the columns of its table, and what the
\* author of a schema saves stays a schema that is accepted.
THEOREM PartsKeepTheirTypes == DecisionsSpec => []PartsTypeOK
<1>1. SuiteInv => PartsTypeOK
  <2>. SUFFICES ASSUME SuiteInv PROVE PartsTypeOK
    OBVIOUS
  <2>1. part = "policy" => TypeOK
    BY DEF SuiteInv, Inv
  <2>2. part = "paths" => Paths!TypeOK
    BY DEF SuiteInv, PathInv, PathTypes, Paths!TypeOK
  <2>3. part = "record" => Record!TypeOK
    BY DEF SuiteInv, RecordInv
  <2>4. part = "rows" => Rows!TypeOK
    BY RowsTyped DEF SuiteInv
  <2>5. part = "limits" => Limits!TypeOK
    BY DEF SuiteInv, LimitsInv, Limits!TypeOK
  <2>. QED BY <2>1, <2>2, <2>3, <2>4, <2>5 DEF SuiteInv, PartsTypeOK
<1>. QED BY <1>1, SuiteInvariant, PTL
===============================================================================
