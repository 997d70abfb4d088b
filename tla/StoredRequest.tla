----------------------------- MODULE StoredRequest -----------------------------
(***************************************************************************)
(* How a request survives being stored: its canonical form                 *)
(* (core/canonicalize.py), the envelope that its fingerprint covers          *)
(* (core/request_binding.py), and the row it is written to and read from    *)
(* (_serialize, _deserialize of the stores, ApprovalRecord._from_storage).   *)
(*                                                                         *)
(* Python values: [int], [float] (whole), [nan], [str], [lone] (a string    *)
(* with a lone surrogate), [list] and [obj].  Canonical text: [num], [str],  *)
(* [list], [obj], so 1 and 1.0 have one text.  A digest or a MAC is the      *)
(* tuple of what it is computed from.  Sizes of texts are left out.          *)
(***************************************************************************)
EXTENDS Naturals, Sequences, FiniteSets

CONSTANTS
    Values,     \* the values that a program handles: what is in one, read back or redacted, is one
    Asked,      \* argument values of requests
    Sensitive,  \* keys that contain a redacted word
    Stores,     \* [key, epoch, redacts]
    MaxSafe,    \* MAX_SAFE_INTEGER, in the model's units
    MaxNesting, \* MAX_CANONICAL_DEPTH
    NoRow

VARIABLES
    request,    \* arguments of the request that a human is asked about
    row,        \* the stored row
    written,    \* history: rows as a store wrote them
    touched     \* history: the row was changed by something else than a store

vars == <<request, row, written, touched>>

-----------------------------------------------------------------------------
(***************************************************************************)
(* Canonical form.                                                         *)
(***************************************************************************)
Is(v, form)     == form \in DOMAIN v
Nested(v)       == Is(v, "list") \/ Is(v, "obj")
Parts(v)        == IF Is(v, "list") THEN v.list ELSE v.obj
Like(v, parts)  == IF Is(v, "list") THEN [list |-> parts] ELSE [obj |-> parts]

\* The values in v, itself included, each with the depth it is at.
Deeper(levels)     == {<<level[1] + 1, level[2]>> : level \in levels}
InsideOf(inside, v) ==
    {<<0, v>>} \cup (IF Nested(v) THEN UNION {Deeper(inside[Parts(v)[k]]) : k \in DOMAIN Parts(v)}
                     ELSE {})
Inside[v \in Values] == InsideOf(Inside, v)

\* What canonicalize accepts.
Acceptable(v) == ~Is(v, "nan") /\ ~Is(v, "lone") /\ (Is(v, "int") => v.int <= MaxSafe)
Canonical(v, depth) ==
    \A level \in Inside[v] : depth + level[1] <= MaxNesting /\ Acceptable(level[2])

\* The text it returns: numbers by value, object members in one order.
TextOf(text, v) ==
    CASE Is(v, "int")   -> [num |-> v.int]
      [] Is(v, "float") -> [num |-> v.float]
      [] Nested(v)      -> Like(v, [k \in DOMAIN Parts(v) |-> text[Parts(v)[k]]])
      [] OTHER          -> v
Text[v \in Values] == TextOf(Text, v)

\* json.loads of such a text: a whole number is an int.
ParsedOf(parsed, text) ==
    CASE Is(text, "num") -> [int |-> text.num]
      [] Nested(text)    -> Like(text, [k \in DOMAIN Parts(text) |-> parsed[Parts(text)[k]]])
      [] OTHER           -> text
CanonicalTexts == {Text[v] : v \in Values}
Parsed[text \in CanonicalTexts] == ParsedOf(Parsed, text)

\* redact_sensitive_data.
Hidden(v, k) == Is(v, "obj") /\ k \in Sensitive
RedactedOf(redacted, v) ==
    IF Nested(v)
    THEN Like(v, [k \in DOMAIN Parts(v) |->
                     IF Hidden(v, k) THEN [str |-> "[REDACTED]"] ELSE redacted[Parts(v)[k]]])
    ELSE v
Redacted[v \in Values] == RedactedOf(Redacted, v)

\* request_binding_fingerprint, of the only part of the envelope that varies here.
Bound(v)       == Canonical(v, 1)
Fingerprint(v) == <<"dmint/request-binding", Text[v]>>

-----------------------------------------------------------------------------
(***************************************************************************)
(* Rows.                                                                   *)
(***************************************************************************)
Mac(key, payload) == <<key, payload>>
Unkeyed(payload)  == <<"v1", payload>>

\* _serialize; the two stores write the same columns.
Payload(s, args, fingerprint, state) ==
    [arguments |-> Text[IF s.redacts THEN Redacted[args] ELSE args],
     fingerprint |-> fingerprint, state |-> state, epoch |-> s.epoch]
Serialize(s, args, fingerprint, state) ==
    LET payload == Payload(s, args, fingerprint, state)
    IN [payload |-> payload, checksum |-> Mac(s.key, payload)]

\* What _deserialize asks of a row: its checksum (an old, unkeyed one is refused),
\* canonical arguments, its epoch.
Sound(s, r) ==
    /\ r.checksum = Mac(s.key, r.payload)
    /\ LET args == Parsed[r.payload.arguments]
       IN Canonical(args, 0) /\ Text[args] = r.payload.arguments
    /\ r.payload.epoch = s.epoch

\* Mutant of Restorable: the stored fingerprint is believed.
RestorableTrusting(args, fingerprint) == Bound(args)

\* ApprovalRecord._from_storage computes the fingerprint anew.
Restorable(args, fingerprint) == Bound(args) /\ fingerprint = Fingerprint(args)

Corrupt == [ok |-> FALSE]
Deserialize(s, r) ==
    LET args == Parsed[r.payload.arguments]
    IN IF Sound(s, r) /\ Restorable(args, r.payload.fingerprint)
       THEN [ok |-> TRUE, arguments |-> args, fingerprint |-> r.payload.fingerprint,
             state |-> r.payload.state]
       ELSE Corrupt

-----------------------------------------------------------------------------
(***************************************************************************)
(* Actions.                                                                *)
(***************************************************************************)
Init == request \in Asked /\ row = NoRow /\ written = {} /\ touched = FALSE

Write(r) == row' = r /\ written' = written \cup {r} /\ touched' = FALSE /\ UNCHANGED request

\* ApprovalRecord.create and save_pending.
Save(s) ==
    /\ row = NoRow
    /\ Bound(request)
    /\ Write(Serialize(s, request, Fingerprint(request), "PENDING"))

Follows == [PENDING |-> {"APPROVED", "REJECTED"}, APPROVED |-> {"CONSUMED", "INVALIDATED"},
            REJECTED |-> {}, CONSUMED |-> {}, INVALIDATED |-> {}]

\* A transition reads the row, and writes it anew.
Move(s) ==
    /\ row # NoRow
    /\ LET d == Deserialize(s, row)
       IN d.ok /\ \E state \in Follows[d.state] :
                      Write(Serialize(s, d.arguments, d.fingerprint, state))

\* Something without the key changes the row: a column, or the whole checksum.
Change(r) == row' = r /\ touched' = TRUE /\ UNCHANGED <<request, written>>
Damage ==
    /\ row # NoRow /\ ~touched
    /\ \/ \E state \in DOMAIN Follows : Change([row EXCEPT !.payload.state = state])
       \/ \E v \in Asked : Bound(v) /\ Change([row EXCEPT !.payload.arguments = Text[v]])
       \/ \E s \in Stores : Change([row EXCEPT !.payload.epoch = s.epoch])
       \/ Change([row EXCEPT !.checksum = Unkeyed(row.payload)])
       \/ \E v \in Asked : Bound(v) /\
              Change([row EXCEPT !.payload.arguments = Text[v], !.payload.fingerprint = Fingerprint(v)])
       \/ \E w \in written : w # row /\ Change(w)

Next == (\E s \in Stores : Save(s) \/ Move(s)) \/ Damage

Spec == Init /\ [][Next]_vars
-----------------------------------------------------------------------------
TypeOK ==
    /\ request \in Asked /\ touched \in BOOLEAN
    /\ row # NoRow => row.payload.state \in DOMAIN Follows
    /\ \A w \in written : w.payload.state \in DOMAIN Follows

\* Holds a whole float beyond the safe integers, or a sensitive key.
Wide(v)   == \E level \in Inside[v] : Is(level[2], "float") /\ level[2].float > MaxSafe
Secret(v) == \E level \in Inside[v] : Is(level[2], "obj") /\ DOMAIN level[2].obj \cap Sensitive # {}

\* What a store makes of a row is the request the human was asked about, argument by
\* argument, in a state that a store with the same key and epoch wrote; anything else
\* is reported as corrupt, also a request whose arguments the store itself redacted.
\* And a row nobody else touched is readable, unless its arguments are redacted or
\* hold a float that reads back as an unsafe integer.
ReadsWhatWasSaved ==
    row # NoRow => \A s \in Stores :
        LET d == Deserialize(s, row)
        IN /\ d.ok => /\ Text[d.arguments] = Text[request]
                      /\ \E w \in written : /\ w.checksum[1] = s.key /\ w.payload.epoch = s.epoch
                                            /\ w.payload.state = d.state
           /\ /\ ~touched /\ row.checksum[1] = s.key /\ row.payload.epoch = s.epoch
              /\ ~Wide(request) /\ ~Secret(request)
              => d.ok
=============================================================================
