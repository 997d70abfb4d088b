------------------------------ MODULE Constraints ------------------------------
(***************************************************************************)
(* Argument constraints (core/constraints.py): which schemas and patterns   *)
(* are accepted when a policy is loaded, and how arguments are checked      *)
(* against a schema while its author edits it.                             *)
(*                                                                         *)
(* A schema is a mapping from keywords, as in the code.  A value is         *)
(* [t, v]: v is a number, the length of a string, the items of an array or  *)
(* the fields of an object.  Enumerations and patterns are sets of values;  *)
(* numbers are integers.                                                   *)
(***************************************************************************)
EXTENDS Integers, Sequences, FiniteSets, FiniteSetsExt

CONSTANTS
    Patterns,   \* texts of regular expressions, as lists of characters
    Specs,      \* the specs of single values, and the schemas of items
    Mappings,   \* what can be an object: whatever is in one is one
    Arguments,  \* argument mappings
    Bounds,     \* numbers used as bounds
    Items,      \* specs used for the items of an array
    MaxDepth,   \* MAX_CONSTRAINT_DEPTH
    MaxEdits    \* bound on the edits of a schema

VARIABLES
    schema,     \* the constraints of a rule
    edits,      \* bound counter
    regex       \* a pattern to be put into a schema, if nothing else is

vars == <<schema, edits, regex>>

Field(m, key, default) == IF key \in DOMAIN m THEN m[key] ELSE default
With(m, key, v) == [k \in DOMAIN m \cup {key} |-> IF k = key THEN v ELSE m[k]]

Numeric   == {"minimum", "maximum", "exclusiveMinimum", "exclusiveMaximum"}
Textual   == {"minLength", "maxLength", "pattern"}
Arrays    == {"minItems", "maxItems", "items"}
Objects   == {"required", "additionalProperties", "properties"}
Types     == {"string", "number", "integer", "boolean", "array", "object"}
Speaks(spec, keys) == DOMAIN spec \cap keys # {}

-----------------------------------------------------------------------------
(***************************************************************************)
(* Patterns.  The parser (_parse_regex_ast) reads a text character by         *)
(* character; "{64}" stands for any bounded count, "1" for the digit of a    *)
(* backreference and "a" for all characters that mean only themselves.      *)
(* `open` has the branches read so far of each group that is open, the text  *)
(* itself first.  A node is [n |-> "atom"], "anchor" or "class", [n |->       *)
(* "group", branches] or [n |-> "repeat", of, max], max = 0 for no bound.    *)
(* Flags at the start, which the parser strips, are left out: with (?x)     *)
(* among them re leaves out blanks and comments that the parser reads.      *)
(***************************************************************************)
MaxBound    == 64
Repetitions == 1000000       \* MAX_REPETITION_BUDGET
Budget      == 250000000     \* MAX_PATTERN_COST_BUDGET
Input       == 4096          \* MAX_STRING_INPUT_LENGTH

Most == [c \in {"*", "?", "{64}"} |-> CASE c = "*" -> 0 [] c = "?" -> 1 [] OTHER -> 64]

Refused == [mode |-> "refused", open |-> <<>>]
Fresh   == [mode |-> "plain", open |-> <<<<<<>>>>>>]
Node(s, node) ==
    [mode |-> "plain",
     open |-> [s.open EXCEPT ![Len(s.open)][Len(s.open[Len(s.open)])] = Append(@, node)]]
Branched(s) == [mode |-> "plain", open |-> [s.open EXCEPT ![Len(s.open)] = Append(@, <<>>)]]
Opened(s)   == [mode |-> "paren", open |-> Append(s.open, <<<<>>>>)]
Shut(s) ==
    LET depth == Len(s.open)
    IN IF depth = 1 THEN Refused
       ELSE Node([s EXCEPT !.open = SubSeq(@, 1, depth - 1)],
                 [n |-> "group", branches |-> s.open[depth]])

\* A quantifier replaces what it is applied to.
Quantified(s, most) ==
    LET depth == Len(s.open)
        side  == Len(s.open[depth])
        nodes == s.open[depth][side]
        last  == nodes[Len(nodes)]
    IN IF nodes = <<>> \/ last.n \in {"anchor", "repeat"} THEN Refused
       ELSE [mode |-> "lazy",
             open |-> [s.open EXCEPT ![depth][side][Len(nodes)] =
                           [n |-> "repeat", of |-> last, max |-> most]]]

\* A character that is not in a class and not escaped.
Plain(s, c) ==
    CASE c = "|"  -> Branched(s)
      [] c = ")"  -> Shut(s)
      [] c = "^"  -> Node(s, [n |-> "anchor"])
      [] c = "\\" -> [s EXCEPT !.mode = "escape"]
      [] c = "["  -> [s EXCEPT !.mode = "set"]
      [] c = "("  -> Opened(s)
      [] c \in DOMAIN Most -> Quantified(s, Most[c])
      [] OTHER -> Node(s, [n |-> "atom"])

\* A character of a class: "^" and "]" are literal behind its start.
InSet(s, c) ==
    CASE s.mode = "set" /\ c = "^"   -> [s EXCEPT !.mode = "negated"]
      [] s.mode = "class" /\ c = "]" -> Node(s, [n |-> "class"])
      [] c = "\\" -> [s EXCEPT !.mode = "skip"]
      [] OTHER    -> [s EXCEPT !.mode = "class"]

ReadNext(s, c) ==
    CASE s.mode = "refused" -> s
      [] s.mode = "escape"  -> IF c = "1" THEN Refused ELSE Node(s, [n |-> "atom"])
      [] s.mode = "skip"    -> [s EXCEPT !.mode = "class"]
      [] s.mode \in {"set", "negated", "class"} -> InSet(s, c)
      [] s.mode = "paren" /\ c = "?" -> [s EXCEPT !.mode = "query"]
      [] s.mode = "query"   -> IF c = ":" THEN [s EXCEPT !.mode = "plain"] ELSE Refused
      [] s.mode = "lazy" /\ c = "?"  -> [s EXCEPT !.mode = "plain"]
      [] OTHER -> Plain(s, c)

Parsed(text) ==
    LET read[k \in 0..Len(text)] == IF k = 0 THEN Fresh ELSE ReadNext(read[k - 1], text[k])
    IN read[Len(text)]
Parses(s) == s.mode \in {"plain", "paren", "lazy"} /\ Len(s.open) = 1

\* What is in branches, each node with its place and whether it is inside a repeat.
InBranches(at, branches, inside) ==
    UNION {{[at |-> at \o <<k, j>>, node |-> branches[k][j], inside |-> inside]
                : j \in DOMAIN branches[k]} : k \in DOMAIN branches}

\* Mutant of Calls: a group forgets what it is in.
CallsForgetful(c) ==
    IF c.node.n = "repeat" THEN {[at |-> c.at \o <<0>>, node |-> c.node.of, inside |-> TRUE]}
    ELSE IF c.node.n = "group" THEN InBranches(c.at, c.node.branches, FALSE)
    ELSE {}

\* The calls that a call of _check_node makes of itself.
Calls(c) ==
    IF c.node.n = "repeat" THEN {[at |-> c.at \o <<0>>, node |-> c.node.of, inside |-> TRUE]}
    ELSE IF c.node.n = "group" THEN InBranches(c.at, c.node.branches, c.inside)
    ELSE {}

\* All its calls for a pattern, one level of nesting after the other.
Checked(branches, levels) ==
    LET level[d \in 0..levels] ==
            IF d = 0 THEN InBranches(<<>>, branches, FALSE) ELSE UNION {Calls(c) : c \in level[d - 1]}
    IN UNION {level[d] : d \in 0..levels}

\* Two unbounded repeats of one branch have an atom between them.
Delimited(branch) ==
    \A j, k \in DOMAIN branch :
        /\ j < k
        /\ \A l \in {j, k} : branch[l].n = "repeat" /\ branch[l].max = 0
        => \E l \in j..k : branch[l].n = "atom"

\* validate_pattern_safety: no repeat is inside another or of alternatives, and there
\* are few enough of them for inputs as long as the spec's maxLength, if it has one.
PatternAccepted(text, longest) ==
    LET parsed  == Parsed(text)
        pattern == parsed.open[1]
        repeats == {c \in Checked(pattern, Len(text)) : c.node.n = "repeat"}
        free    == Cardinality({c \in repeats : c.node.max = 0})
        times(product, c) == product * (IF c.node.max = 0 THEN 1 ELSE c.node.max)
        product == FoldSet(LAMBDA c, most : times(most, c), 1, repeats)
        size    == IF longest \in 1..Input THEN longest ELSE Input
    IN /\ Parses(parsed)
       /\ \A c \in repeats : /\ ~c.inside /\ c.node.max <= MaxBound
                             /\ c.node.of.n = "group" => Len(c.node.of.branches) = 1
       /\ \A k \in DOMAIN pattern : Delimited(pattern[k])
       /\ Cardinality(repeats) <= 3 /\ free <= 2
       /\ product <= Repetitions
       /\ (IF free = 0 THEN 1 ELSE IF free = 1 THEN size ELSE size * size) * product <= Budget

-----------------------------------------------------------------------------
(***************************************************************************)
(* Schemas.                                                                *)
(***************************************************************************)
\* Bounds of validate_constraints_schema.  (A minimum hides an exclusive one.)
Low(spec)  == Field(spec, "minimum", Field(spec, "exclusiveMinimum", 0))
High(spec) == Field(spec, "maximum", Field(spec, "exclusiveMaximum", 0))
InOrder(spec) ==
    /\ Speaks(spec, {"minimum", "exclusiveMinimum"}) /\ Speaks(spec, {"maximum", "exclusiveMaximum"})
       => Low(spec) <= High(spec)
    /\ {"minLength", "maxLength"} \subseteq DOMAIN spec => spec.minLength <= spec.maxLength

\* A property of a schema at a depth: bounds in order, one kind of constraint unless
\* there is a type, and what is nested in it one level deeper.
AcceptedOf(accepted, call) ==
    LET spec  == call[1]
        depth == call[2]
    IN /\ IF "type" \in DOMAIN spec THEN spec.type \in Types
          ELSE \A K, L \in {Numeric, Textual, Arrays, Objects} :
                   Speaks(spec, K) /\ Speaks(spec, L) => K = L
       /\ InOrder(spec)
       /\ Speaks(spec, {"items", "properties"}) => depth < MaxDepth
       /\ "items" \in DOMAIN spec => accepted[<<spec.items, depth + 1>>]
       /\ "properties" \in DOMAIN spec =>
              \A name \in DOMAIN spec.properties : accepted[<<spec.properties[name], depth + 1>>]
Accepted[call \in Specs \X Nat] == AcceptedOf(Accepted, call)

SchemaAccepted(s) == \A name \in DOMAIN s.properties : Accepted[<<s.properties[name], 0>>]

-----------------------------------------------------------------------------
(***************************************************************************)
(* evaluate_constraints.                                                   *)
(***************************************************************************)
\* The type a spec asks for, in words or by its keywords.
TypeFits(spec, x) ==
    LET type == Field(spec, "type", "any")
    IN CASE type = "string" \/ (type = "any" /\ Speaks(spec, Textual)) -> x.t = "string"
         [] type = "number" \/ (type = "any" /\ Speaks(spec, Numeric)) -> x.t = "integer"
         [] type = "array" \/ (type = "any" /\ Speaks(spec, Arrays)) -> x.t = "array"
         [] type = "object" \/ (type = "any" /\ Speaks(spec, Objects)) -> x.t = "object"
         [] type \in {"integer", "boolean"} -> x.t = type
         [] OTHER -> TRUE

\* Mutant of InBounds: an exclusive minimum replaces the inclusive one.
InBoundsHidden(spec, x) ==
    /\ IF "exclusiveMinimum" \in DOMAIN spec THEN x.v > spec.exclusiveMinimum
       ELSE x.v >= Field(spec, "minimum", x.v)
    /\ x.v <= Field(spec, "maximum", x.v)
    /\ x.v < Field(spec, "exclusiveMaximum", x.v + 1)

InBounds(spec, x) ==
    /\ x.v >= Field(spec, "minimum", x.v)
    /\ x.v <= Field(spec, "maximum", x.v)
    /\ x.v > Field(spec, "exclusiveMinimum", x.v - 1)
    /\ x.v < Field(spec, "exclusiveMaximum", x.v + 1)

LengthFits(spec, n, least, most) == Field(spec, least, n) <= n /\ n <= Field(spec, most, n)

\* One value.  An object is looked into only if the spec declares or requires fields.
ItemSchema(item) == [properties |-> [item |-> item]]
FitsOf(passes, spec, x, strict, depth) ==
    /\ TypeFits(spec, x)
    /\ x.t = "integer" => InBounds(spec, x)
    /\ x.t = "string" => /\ LengthFits(spec, x.v, "minLength", "maxLength")
                         /\ x \in Field(spec, "pattern", {x})
    /\ x \in Field(spec, "enum", {x})
    /\ x.t = "array" =>
           /\ LengthFits(spec, Len(x.v), "minItems", "maxItems")
           /\ "items" \in DOMAIN spec =>
                  \A k \in DOMAIN x.v :
                      passes[<<ItemSchema(spec.items), [item |-> x.v[k]], strict, depth + 1>>]
    /\ x.t = "object" /\ Speaks(spec, {"properties", "required"}) =>
           passes[<<spec, x.v, strict, depth + 1>>]

\* An object: required fields, no undeclared ones if it is closed, each field.
PassesOf(passes, s, fields, strict, depth) ==
    /\ depth <= MaxDepth
    /\ Field(s, "required", {}) \subseteq DOMAIN fields
    /\ LET props == Field(s, "properties", <<>>)
       IN /\ Field(s, "additionalProperties", ~strict) \/ DOMAIN fields \subseteq DOMAIN props
          /\ \A name \in DOMAIN props \cap DOMAIN fields :
                 FitsOf(passes, props[name], fields[name], strict, depth)

PassesNested[call \in Specs \X Mappings \X BOOLEAN \X Nat] ==
    PassesOf(PassesNested, call[1], call[2], call[3], call[4])

Passes(s, fields, strict) == PassesOf(PassesNested, s, fields, strict, 0)

-----------------------------------------------------------------------------
(***************************************************************************)
(* The author of a policy: a number n, which may have no type yet, a list l   *)
(* and an object o, to which keywords are added one by one, and fields to o. *)
(***************************************************************************)
Untyped   == <<>>
Untouched == [n |-> [type |-> "integer"], l |-> [type |-> "array"], o |-> [type |-> "object"]]

Init ==
    /\ schema \in {[properties |-> Untouched], [properties |-> With(Untouched, "n", Untyped)]}
    /\ \/ edits = 0 /\ regex = <<>>
       \/ edits = MaxEdits /\ regex \in Patterns

\* What a spec becomes by a keyword that was not there, by one more required field or
\* by one more declared field.
Bounded(s)  == {With(s, key, b) : key \in Numeric \ DOMAIN s, b \in Bounds}
TypedAs(s)  == IF "type" \in DOMAIN s THEN {} ELSE {With(s, "type", t) : t \in {"integer", "string"}}
Sized(s)    == {With(s, key, b) : key \in {"minItems", "maxItems"} \ DOMAIN s, b \in 0..1}
Itemized(s) == IF "items" \in DOMAIN s THEN {} ELSE {With(s, "items", item) : item \in Items}
Required(s) == {With(s, "required", Field(s, "required", {}) \cup {name}) : name \in {"n", "l"}}
Closed(s) ==
    IF "additionalProperties" \in DOMAIN s THEN {}
    ELSE {With(s, "additionalProperties", more) : more \in BOOLEAN}
Declares(s) == Field(s, "properties", <<>>)
Declared(s) ==
    {With(s, "properties", With(Declares(s), name, [exclusiveMaximum |-> b]))
        : name \in {"n", "z"} \ DOMAIN Declares(s), b \in Bounds}

Props == schema.properties
Replace(name, specs) ==
    \E spec \in specs : schema' = With(schema, "properties", With(Props, name, spec))
Edited == edits < MaxEdits /\ edits' = edits + 1 /\ SchemaAccepted(schema') /\ UNCHANGED regex

AddBound  == Replace("n", Bounded(Props.n)) /\ Edited
AddType   == Replace("n", TypedAs(Props.n)) /\ Edited
AddLength == Replace("l", Sized(Props.l)) /\ Edited
AddItems  == Replace("l", Itemized(Props.l)) /\ Edited
Require   == (schema' \in Required(schema) \/ Replace("o", Required(Props.o))) /\ Edited
Close     == (schema' \in Closed(schema) \/ Replace("o", Closed(Props.o))) /\ Edited
Declare   == Replace("o", Declared(Props.o)) /\ Edited

Next == AddBound \/ AddType \/ AddLength \/ AddItems \/ Require \/ Close \/ Declare

Spec == Init /\ [][Next]_vars
-----------------------------------------------------------------------------
TypeOK ==
    /\ edits \in 0..MaxEdits /\ regex \in Patterns \cup {<<>>}
    /\ DOMAIN Props = {"n", "l", "o"} /\ SchemaAccepted(schema)

\* The edits that let more through.  An object that is looked into and closed, by its
\* own keyword or by strict arguments, is opened or gets a field more; a bound without
\* a type, which only numbers pass, gets the type of what has no bounds.
Opens(s, t, strict) ==
    /\ Speaks(s, {"properties", "required"})
    /\ ~Field(s, "additionalProperties", ~strict)
    /\ \/ Field(t, "additionalProperties", ~strict)
       \/ DOMAIN Declares(t) # DOMAIN Declares(s)
Retypes(s, t) ==
    "type" \notin DOMAIN s /\ Speaks(s, Numeric) /\ Field(t, "type", "integer") # "integer"
Loosens(s, t, strict) ==
    \/ Opens(s, t, strict)
    \/ Opens(s.properties.o, t.properties.o, strict)
    \/ Retypes(s.properties.n, t.properties.n)

\* An edit of a schema, at the top or inside, refuses more arguments and never lets
\* through what was refused before, unless it is one of Loosens: bounds of all four
\* kinds side by side, items, required fields, and fields declared before or after an
\* object is closed; with strict arguments and without.
EditsOnlyRestrict ==
    [][\A fields \in Arguments, strict \in BOOLEAN :
           Passes(schema', fields, strict)
               => Passes(schema, fields, strict) \/ Loosens(schema, schema', strict)]_vars

(***************************************************************************)
(* What a text means, said of its characters and not of a tree.            *)
(***************************************************************************)
\* An odd number of backslashes is before it.
Escaped(text, k) ==
    \E j \in 1..k - 1 :
        /\ (k - j) % 2 = 1 /\ \A i \in j..k - 1 : text[i] = "\\"
        /\ j > 1 => text[j - 1] # "\\"

\* The characters outside classes, and not escaped.  A class goes to the first "]" that
\* is not at its start.
Syntax(text) ==
    LET free(k)    == ~Escaped(text, k)
        first(j)   == IF text[j + 1] = "^" THEN j + 2 ELSE j + 1
        inClass[k \in 1..Len(text)] ==
            \E j \in 1..k - 1 :
                /\ text[j] = "[" /\ free(j) /\ ~inClass[j]
                /\ \A m \in first(j) + 1..k - 1 : text[m] = "]" => ~free(m)
    IN {k \in 1..Len(text) : free(k) /\ ~inClass[k]}

\* "No nested repeats (repeat inside repeat)" and "Total quantifiers of ANY kind across
\* pattern capped" (validate_pattern_safety), however many groups, classes and escapes
\* are in between: in a text that is accepted no group that has a quantifier behind it
\* has one in it, and there are at most three of them.
AcceptedPatternsStayFlat ==
    LET syntax      == Syntax(regex)
        at(c)       == {k \in syntax : regex[k] = c}
        marks       == {k \in syntax : regex[k] \in DOMAIN Most} \ {k + 1 : k \in at("(")}
        repeats     == {k \in marks : regex[k] = "?" => k - 1 \notin marks}
        depth(j, k) == Cardinality(at("(") \cap (j..k)) - Cardinality(at(")") \cap (j..k))
        pairs       == {p \in at("(") \X at(")") :
                           /\ p[1] < p[2] /\ depth(p[1], p[2]) = 0
                           /\ \A k \in p[1]..p[2] - 1 : depth(p[1], k) > 0}
    IN \A longest \in 0..1 : PatternAccepted(regex, longest) =>
           /\ \A p \in pairs : p[2] + 1 \in marks => marks \cap (p[1]..p[2]) = {}
           /\ Cardinality(repeats) <= 3
=============================================================================
