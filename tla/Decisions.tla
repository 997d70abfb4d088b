------------------------------- MODULE Decisions -------------------------------
(***************************************************************************)
(* How a call is decided and what becomes of its record: each behaviour is   *)
(* one of PolicyEval, PathMatcher, RecordMachine, StoredRequest or           *)
(* Constraints, and the variables of the others do not change in it.        *)
(***************************************************************************)
EXTENDS PolicyEval

CONSTANTS
    PathPatterns, PathInputs,                               \* PathMatcher
    Approvals, Fingerprints, Policies, MaxTime, MaxTTL,     \* RecordMachine
    Values, Asked, Sensitive, Stores, MaxSafe, MaxNesting,  \* StoredRequest
    Regexes, Specs, Mappings, Arguments, Bounds,            \* Constraints
    Items, MaxDepth, MaxEdits,
    Height                                                  \* how deep a value is nested

\* Patterns and paths are lists; lifetimes and clock readings are bounded by numbers.
PatternParts == UNION {{p[k] : k \in DOMAIN p} : p \in PathPatterns}
InputParts   == UNION {{s[k] : k \in DOMAIN s} : s \in PathInputs}

ASSUME PathsAssumption ==
    /\ PathPatterns \subseteq Seq(PatternParts)
    /\ PathInputs \subseteq Seq(InputParts)

ASSUME RecordAssumption == MaxTime \in Nat /\ MaxTTL \in Nat

VARIABLES
    part,
    pats, segs, pIdx, sIdx, star, resume, steps, answer,    \* PathMatcher
    rec, path,                                              \* RecordMachine
    request, row, written, touched,                         \* StoredRequest
    schema, edits, regex                                    \* Constraints

paths  == <<pats, segs, pIdx, sIdx, star, resume, steps, answer>>
record == <<rec, path>>
rows   == <<request, row, written, touched>>
limits == <<schema, edits, regex>>
suite  == <<part, vars, paths, record, rows, limits>>

-----------------------------------------------------------------------------
Paths == INSTANCE PathMatcher WITH Patterns <- PathPatterns, Inputs <- PathInputs

Record == INSTANCE RecordMachine

Rows == INSTANCE StoredRequest WITH NoRow <- None

\* A value has one form and is finitely deep; what reading back a text or redacting a
\* value gives is a value again.  "v1" marks a checksum that has no key.
Forms == {"int", "float", "nan", "str", "lone", "list", "obj"}
Shallower(v) ==
    LET parts == Rows!Parts(v)
    IN /\ parts = [k \in DOMAIN parts |-> parts[k]]
       /\ \A k \in DOMAIN parts : parts[k] \in Values /\ Height[parts[k]] < Height[v]

ASSUME ValuesAssumption ==
    \A v \in Values :
        /\ \E form \in Forms : DOMAIN v = {form} /\ v = [f \in {form} |-> v[form]]
        /\ Height[v] \in Nat
        /\ Rows!Nested(v) => Shallower(v)
        /\ Rows!Is(v, "float") => v.float \in Int
        /\ Rows!Redacted[v] \in Values
        /\ Rows!Parsed[Rows!Text[v]] \in Values

ASSUME RowsAssumption ==
    /\ Asked \subseteq Values
    /\ \A s \in Stores : s.key # "v1"
    /\ MaxSafe \in Int /\ MaxNesting \in Int

Limits == INSTANCE Constraints WITH Patterns <- Regexes

ASSUME EditsAssumption == MaxDepth \in Nat /\ MaxEdits \in Nat

\* A spec that is only bounds of a number and a type.
OfNumber(spec) ==
    /\ spec \in Specs /\ DOMAIN spec \subseteq Limits!Numeric \cup {"type"}
    /\ "type" \in DOMAIN spec => spec.type \in {"integer", "string"}

\* What is in a spec is a spec, and so is a spec with one more keyword or field.
ASSUME SpecsAssumption ==
    /\ \A name \in {"n", "l", "o"} : Limits!Untouched[name] \in Specs
    /\ Limits!Untyped \in Specs
    /\ \A spec \in Specs :
          /\ "items" \in DOMAIN spec => {spec.items, Limits!ItemSchema(spec.items)} \subseteq Specs
          /\ "properties" \in DOMAIN spec =>
                 \A name \in DOMAIN spec.properties : spec.properties[name] \in Specs
          /\ OfNumber(spec) => Limits!Bounded(spec) \cup Limits!TypedAs(spec) \subseteq Specs
          /\ "type" \in DOMAIN spec =>
                 /\ spec.type = "array" => Limits!Sized(spec) \cup Limits!Itemized(spec) \subseteq Specs
                 /\ spec.type = "object" => Limits!Required(spec) \cup Limits!Closed(spec)
                                            \cup Limits!Declared(spec) \subseteq Specs

\* What is in arguments is an argument: numbers are numbers and arrays are lists.
ASSUME MappingsAssumption ==
    /\ Arguments \subseteq Mappings /\ Bounds \subseteq Int
    /\ \A fields \in Mappings : \A name \in DOMAIN fields :
          LET x == fields[name]
          IN /\ x.t = "integer" => x.v \in Int
             /\ x.t = "string" => x.v \in Nat
             /\ x.t = "array" => /\ x.v \in Seq({x.v[k] : k \in DOMAIN x.v})
                                 /\ \A k \in DOMAIN x.v : [item |-> x.v[k]] \in Mappings
             /\ x.t = "object" => x.v \in Mappings

\* The parts that a behaviour is not about, each in a fixed state.
PathsOff ==
    /\ pats = <<>> /\ segs = <<>> /\ pIdx = 1 /\ sIdx = 1 /\ star = 0 /\ resume = 0
    /\ steps = 0 /\ answer = "no"
RecordOff == rec = None /\ path = {}
LimitsOff == schema = <<>> /\ edits = 0 /\ regex = <<>>
RowsOff == request = None /\ row = None /\ written = {} /\ touched = FALSE
PolicyOff ==
    /\ live = Nothing /\ snapshot = Nothing /\ synced = FALSE /\ policy = Nothing
    /\ source = "live" /\ query = CHOOSE q \in Requests : TRUE
    /\ pc = "idle" /\ i = 1 /\ matching = {} /\ verdict = NoVerdict

DecisionsInit ==
    \/ part = "policy" /\ Init /\ PathsOff /\ RecordOff /\ RowsOff /\ LimitsOff
    \/ part = "paths" /\ Paths!Init /\ PolicyOff /\ RecordOff /\ RowsOff /\ LimitsOff
    \/ part = "record" /\ Record!Init /\ PolicyOff /\ PathsOff /\ RowsOff /\ LimitsOff
    \/ part = "rows" /\ Rows!Init /\ PolicyOff /\ PathsOff /\ RecordOff /\ LimitsOff
    \/ part = "limits" /\ Limits!Init /\ PolicyOff /\ PathsOff /\ RecordOff /\ RowsOff

DecisionsNext ==
    \/ part = "policy" /\ Next /\ UNCHANGED <<part, paths, record, rows, limits>>
    \/ part = "paths" /\ Paths!Next /\ UNCHANGED <<part, vars, record, rows, limits>>
    \/ part = "record" /\ Record!Next /\ UNCHANGED <<part, vars, paths, rows, limits>>
    \/ part = "rows" /\ Rows!Next /\ UNCHANGED <<part, vars, paths, record, limits>>
    \/ part = "limits" /\ Limits!Next /\ UNCHANGED <<part, vars, paths, record, rows>>

DecisionsSpec == DecisionsInit /\ [][DecisionsNext]_suite
-----------------------------------------------------------------------------
\* Every variable keeps to its type.
PartsTypeOK ==
    /\ part \in {"policy", "paths", "record", "rows", "limits"}
    /\ part = "policy" => TypeOK
    /\ part = "paths" => Paths!TypeOK
    /\ part = "record" => Record!TypeOK
    /\ part = "rows" => Rows!TypeOK
    /\ part = "limits" => Limits!TypeOK

\* The matching loop computes what a pattern means, in bounded time.
MatcherAgrees == part = "paths" => Paths!MatcherAgrees

\* A consumed record was approved once and nothing else happened to it.
ConsumedOnlyThroughApproval == part = "record" => Record!ConsumedOnlyThroughApproval

\* A stored request is read back as it was asked, or not at all.
ReadsWhatWasSaved == part = "rows" => Rows!ReadsWhatWasSaved

\* A text that is accepted as a pattern has no repeat in a group that is repeated.
AcceptedPatternsStayFlat == part = "limits" => Limits!AcceptedPatternsStayFlat

\* An edit of a schema lets through arguments it refused before only if it is one of the
\* loosening ones.
EditsOnlyRestrict ==
    [][part = "limits" =>
           \A fields \in Arguments, strict \in BOOLEAN :
               Limits!Passes(schema', fields, strict)
                   => \/ Limits!Passes(schema, fields, strict)
                      \/ Limits!Loosens(schema, schema', strict)]_suite
=============================================================================
