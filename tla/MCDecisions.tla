----------------------------- MODULE MCDecisions ------------------------------
(***************************************************************************)
(* The sequential parts of the core in one run: texts and how they are cut,  *)
(* rules, requests, values, patterns and specs for Decisions.               *)
(***************************************************************************)
EXTENDS Decisions, TLC

-----------------------------------------------------------------------------
(***************************************************************************)
(* Texts of resources, and how they are cut.                               *)
(***************************************************************************)
SomeTexts == {"/srv/a", "/srv/x/../key", "/srv/../../key", "/srv/**", "/SRV/key",
              "https://Io.:443/a", "http://io/b", "https://io", "io", "git push", "git *",
              "git push && rm"}

Abs(parts) == [abs |-> TRUE, parts |-> parts]
Rel(parts) == [abs |-> FALSE, parts |-> parts]

PathOf ==
    "/srv/a"         :> Abs(<<"srv", "a">>) @@
    "/srv/x/../key"  :> Abs(<<"srv", "x", "..", "key">>) @@
    "/srv/../../key" :> Abs(<<"srv", "..", "..", "key">>) @@
    "/srv/**"        :> Abs(<<"srv", "**">>) @@
    "/SRV/key"       :> Abs(<<"SRV", "key">>) @@
    [t \in SomeTexts |-> Rel(<<t>>)]

Name(labels, dot, port) == [labels |-> labels, dot |-> dot, port |-> port, user |-> FALSE]
HostOf ==
    "io" :> Name(<<"io">>, FALSE, 0) @@ [t \in SomeTexts |-> Name(<<t>>, FALSE, 0)]

NoUrl(t) == [scheme |-> None, host |-> HostOf[t], path |-> Rel(<<>>)]
UrlOf ==
    "https://Io.:443/a" :> [scheme |-> "https", host |-> Name(<<"Io">>, TRUE, 443), path |-> Abs(<<"a">>)] @@
    "http://io/b"  :> [scheme |-> "http", host |-> Name(<<"io">>, FALSE, 0), path |-> Abs(<<"b">>)] @@
    "https://io"   :> [scheme |-> "https", host |-> Name(<<"io">>, FALSE, 0), path |-> Rel(<<>>)] @@
    [t \in SomeTexts |-> NoUrl(t)]

SomeGlob == "a*" :> {"a", "ab"}

WordsOf ==
    "git push"       :> <<"git", "push">> @@
    "git *"          :> <<"git", "*">> @@
    "git push && rm" :> <<"git", "push", "&&", "rm">> @@
    [t \in SomeTexts |-> <<t>>]

LowerOf == "SRV" :> "srv" @@ "Io" :> "io" @@
           [l \in SomeTexts \cup {"srv", "a", "b", "x", "key", ".", "..", "*", "**", "io", "git",
                                  "push", "&&", "rm"} |-> l]

-----------------------------------------------------------------------------
(***************************************************************************)
(* Rules and requests.                                                     *)
(***************************************************************************)
\* A rule as a file has it, on any tool for any agent.
File(effect, resource, kind) ==
    [effect |-> effect, tool |-> Star, action |-> Star, agent |-> None, resource |-> resource,
     kind |-> kind, sensitive |-> TRUE, conditions |-> {}, constraints |-> None]

Rules ==
    { File("ALLOW", "/srv/**", "path"),
      [File("DENY", "/SRV/key", "path") EXCEPT !.sensitive = FALSE],
      [File("ALLOW", Star, None) EXCEPT !.tool = "fs", !.constraints = "short"],
      File("ASK", Star, "exact"),
      File("ALLOW", "https://io", "url"),
      File("ASK", "git *", None),
      [File("DENY", NoResource, None) EXCEPT !.agent = "bot"],
      [File("ASK", "io", "host") EXCEPT
           !.conditions = {[field |-> "env", operator |-> "in", value |-> {"prod"}]}] }

FileTable == [rules : {<<r>> : r \in Rules} \cup (Rules \X Rules) \cup
                      {f \in Rules \X Rules \X Rules : f[1] # f[2] /\ f[2] # f[3] /\ f[1] # f[3]},
              strict : {FALSE}] \cup
             [rules : Rules \X Rules, strict : {TRUE}]

RequestTable ==
    [tool : {"fs"}, action : {"read"}, agent : {"bot"},
     resource : {"/srv/a", "/srv/x/../key", "/srv/../../key", "https://Io.:443/a", "git push",
                 "git push && rm", NoResource},
     context : {[env |-> "prod"]}, arguments : {"short", "extra"}]

\* "extra" has an argument more, which is refused when arguments are strict.
Satisfied == "short" :> [strict \in BOOLEAN |-> IF strict THEN {"short"} ELSE {"short", "extra"}]

-----------------------------------------------------------------------------
PathTable  == SeqOf({"a", "a*", "*", "**"}, 4)
InputTable == SeqOf({"a", "ab"}, 4)

-----------------------------------------------------------------------------
(***************************************************************************)
(* Constraints and rows.                                                   *)
(***************************************************************************)
Num(v) == [t |-> "integer", v |-> v]
Txt(n) == [t |-> "string", v |-> n]
Arr(s) == [t |-> "array", v |-> s]
Obj(f) == [t |-> "object", v |-> f]

ArgumentTable ==
    [n : {Num(0), Num(1), Num(2)}, l : {Arr(<<>>), Arr(<<Num(0)>>), Arr(<<Num(2), Obj(<<>>)>>)},
     o : {Obj(<<>>), Obj([n |-> Num(0)]), Obj([n |-> Num(1), z |-> Num(0)])}] \cup
    [n : {Num(-1), Txt(1)}, z : {Num(0)}] \cup [l : {Num(0)}] \cup [o : {Obj([l |-> Arr(<<>>)])}]

\* Every field is an argument mapping of its own, as is every item.
Elements(x) == IF x.t = "array" THEN {x.v[k] : k \in DOMAIN x.v} ELSE {}
FieldsOf(mappings) == UNION {{m[name] : name \in DOMAIN m} : m \in mappings}
ObjectsIn(values)  == {x.v : x \in {y \in values : y.t = "object"}}
ItemsIn(values)    == {[item |-> e] : e \in UNION {Elements(x) : x \in values}}
Nested(mappings)   == LET values == FieldsOf(mappings) IN ObjectsIn(values) \cup ItemsIn(values)
MappingTable ==
    LET inner == Nested(ArgumentTable)
    IN ArgumentTable \cup inner \cup Nested(inner) \cup Nested(Nested(inner))

Option(key, values) == {<<>>} \cup {(key :> v) : v \in values}
Join(fs, gs)        == {f @@ g : f \in fs, g \in gs}
Typed(type, fs)     == {[type |-> type] @@ f : f \in fs}

SomeBounds == {0, 2}
Leaves     == {[type |-> "string"]} \cup {[minimum |-> b] : b \in SomeBounds}
SomeItems  == Leaves \cup {[items |-> [type |-> "string"]]}
Ceilings   == {[exclusiveMaximum |-> b] : b \in SomeBounds}
SpecTable ==
    Leaves \cup SomeItems \cup {[properties |-> [item |-> s]] : s \in SomeItems} \cup
    Ceilings \cup
    Join(Option("type", {"integer", "string"}),
         Join(Join(Option("minimum", SomeBounds), Option("maximum", SomeBounds)),
              Join(Option("exclusiveMinimum", SomeBounds), Option("exclusiveMaximum", SomeBounds)))) \cup
    Typed("array", Join(Join(Option("minItems", 0..1), Option("maxItems", 0..1)),
                        Option("items", SomeItems))) \cup
    Typed("object", Join(Join(Option("required", SUBSET {"n", "l"}),
                              Option("additionalProperties", BOOLEAN)),
                         Option("properties",
                                Join(Option("n", Ceilings), Option("z", Ceilings)) \ {<<>>})))

\* Texts of three characters, alone and within groups that are repeated or not, and lists
\* of repeats.
Pieces == SeqOf({"a", "(", ")", "|", "*", "?", "[", "]", "\\"}, 3)
Around(before, after) == {before \o piece \o after : piece \in Pieces}
Repeated == {<<"a", "*">>, <<"a", "?", "?">>, <<"a", "{64}">>, <<"^">>, <<"\\", "1">>}
PatternTable ==
    Pieces \cup Around(<<"(">>, <<")", "*">>) \cup
    Around(<<"(", "(", "?", ":">>, <<")", "a", ")", "{64}">>) \cup
    Around(<<"(", "[", "^", "]">>, <<"]", "*", ")", "?", "a">>) \cup
    {a \o b \o c \o d : a, b, c, d \in Repeated}

Whole(v)    == [int |-> v]
Float(v)    == [float |-> v]
Redaction   == [str |-> "[REDACTED]"]
Keyed(key, values) == {[obj |-> (key :> v)] : v \in values}
Pairs(a, b)        == {[list |-> <<v, w>>] : v \in a, w \in b}

\* Values by their depth, with what they are when they are read back or redacted.
Singles == {[list |-> <<Whole(0)>>]}
Secrets == Keyed("auth_token", {Whole(0), Whole(1), Redaction} \cup Singles)
Mixed   == Pairs({Float(1), Whole(1)}, Secrets)
Layers ==
    << {Whole(v) : v \in 0..2} \cup {Float(1), Float(2), [nan |-> TRUE], Redaction, [lone |-> TRUE]},
       Singles,
       Secrets \cup Keyed("n", {Whole(1), Float(1), Whole(2), Float(2), [nan |-> TRUE],
                                Redaction, [lone |-> TRUE]}),
       Mixed,
       Keyed("n", Mixed) >>

ValueTable == UNION {Layers[depth] : depth \in 1..5}
AskedTable == Layers[5] \cup {v \in Layers[3] : v.obj # [auth_token |-> Whole(0)]}

\* How deep a value is: the first layer it is in.
FirstIn(layers, v) == CHOOSE depth \in DOMAIN layers :
                          v \in layers[depth] /\ \A d \in 1..depth - 1 : v \notin layers[d]
DepthTable == [v \in ValueTable |-> FirstIn(Layers, v)]

-----------------------------------------------------------------------------
\* TLC evaluates a definition once, but what a configuration gives a constant wherever
\* the constant is used: these are names of the tables above.
SomeFiles        == FileTable
SomeRequests     == RequestTable
SomePathPatterns == PathTable
SomePathInputs   == InputTable
SomeArguments    == ArgumentTable
SomeMappings     == MappingTable
SomeSpecs        == SpecTable
SomePatterns     == PatternTable
SomeValues       == ValueTable
SomeAsked        == AskedTable
DepthOf          == DepthTable

SomeStores == [key : {"k1"}, epoch : {"e1"}, redacts : BOOLEAN] \cup
              {[key |-> "k1", epoch |-> "e2", redacts |-> FALSE],
               [key |-> "k2", epoch |-> "e1", redacts |-> FALSE]}
=============================================================================
