----------------------------- MODULE JsonSchema -----------------------------
(***************************************************************************)
(* The JSON Schema keywords that the character schema uses, what they ask  *)
(* of a value, and sample values built from a schema.  The validator is a  *)
(* library (github.com/kaptinlin/jsonschema, called in validate.go);       *)
(* "format" is an annotation, so that any text will do for a timestamp,    *)
(* and a number is an integer by its value: 1.0 is one.                    *)
(***************************************************************************)
EXTENDS SheetJson, FiniteSets

Kind == {"null", "boolean", "string", "integer", "number", "array", "object"}

\* A schema with no keyword at all; the constructors below add theirs.
Anything ==
    [kinds |-> Kind, values |-> {}, constant |-> FALSE, instant |-> FALSE,
     range |-> Int, length |-> Nat, items |-> NoMembers,
     required |-> {}, props |-> NoMembers, closed |-> FALSE, keyed |-> FALSE,
     rules |-> {}]

Typed(kinds) == [Anything EXCEPT !.kinds = kinds]

Nothing == Typed({"null"})
Boolean == Typed({"boolean"})
String == Typed({"string"})
Integer == Typed({"integer"})
Number == Typed({"integer", "number"})
AnyObject == Typed({"object"})
Timestamp == [String EXCEPT !.instant = TRUE]

Nullable(s) == [s EXCEPT !.kinds = @ \cup {"null"}]

NonNull(s) == [s EXCEPT !.kinds = @ \ {"null"}]

OneOf(values) == [Anything EXCEPT !.values = values]

Enum(texts) == OneOf({Str(t) : t \in texts})

Constant(v) == [OneOf({v}) EXCEPT !.constant = TRUE]

\* "pattern": the texts among the samples that match it.
Matching(texts) == [String EXCEPT !.values = {Str(t) : t \in texts}]

\* "minimum" and "maximum".
Within(range, s) == [s EXCEPT !.range = range]

Array(s) == [Typed({"array"}) EXCEPT !.items = s]

\* "minItems" and "maxItems".
Sized(length, s) == [s EXCEPT !.length = length]

Object(required, props) ==
    [Typed({"object"}) EXCEPT !.required = required, !.props = props]

\* "additionalProperties": false.
Closed(s) == [s EXCEPT !.closed = TRUE]

\* "patternProperties" over the keys it matches, closed.
Keyed(keys, s) ==
    [Closed(Object({}, [k \in keys |-> s])) EXCEPT !.keyed = TRUE]

\* "if" the member key is text, "then" ..., "else" ....
If(key, text, required, then, else) ==
    [key |-> key, text |-> text, required |-> required, then |-> then,
     else |-> else]

\* "allOf" such rules.
Conditional(rules, s) == [s EXCEPT !.rules = rules]

-----------------------------------------------------------------------------
RECURSIVE Valid(_, _)

\* The members a schema names hold what it says of them.
MembersValid(props, members) ==
    \A k \in DOMAIN props \cap DOMAIN members : Valid(props[k], members[k])

Obeys(members, rule) ==
    IF rule.key \in DOMAIN members /\ members[rule.key] = Str(rule.text)
    THEN rule.required \subseteq DOMAIN members
         /\ MembersValid(rule.then, members)
    ELSE MembersValid(rule.else, members)

\* A value satisfies every keyword of a schema, at every depth.
Valid(s, v) ==
    /\ v.json \in s.kinds
    /\ s.values # {} => InDigits(v) \in s.values
    /\ v.json = "integer" => v.whole \in s.range
    /\ v.json = "array" =>
         /\ Len(v.elems) \in s.length
         /\ s.items # NoMembers =>
              \A i \in DOMAIN v.elems : Valid(s.items, v.elems[i])
    /\ v.json = "object" =>
         /\ s.required \subseteq DOMAIN v.members
         /\ MembersValid(s.props, v.members)
         /\ s.closed => DOMAIN v.members \subseteq DOMAIN s.props
         /\ \A rule \in s.rules : Obeys(v.members, rule)

-----------------------------------------------------------------------------
(* Sample values.                                                          *)

RECURSIVE Sample(_, _)

\* A value with the required members only, or with all of them (whose own
\* members are the required ones); null where the schema allows it.
Sample(s, full) ==
    IF s.values # {} THEN CHOOSE v \in s.values : TRUE
    ELSE IF "null" \in s.kinds THEN Null
    ELSE IF "boolean" \in s.kinds THEN Bool(FALSE)
    ELSE IF "string" \in s.kinds
         THEN Str(IF s.instant THEN "instant" ELSE "text")
    ELSE IF "integer" \in s.kinds
         THEN Whole(CHOOSE n \in 0..2 :
                n \in s.range /\ \A m \in 0..2 : m \in s.range => n <= m)
    ELSE IF "array" \in s.kinds
         THEN Arr([i \in 1..(CHOOSE n \in 0..2 : n \in s.length
                               /\ \A m \in 0..2 : m \in s.length => n <= m)
                     |-> Sample(s.items, FALSE)])
    ELSE Obj([k \in (IF full THEN DOMAIN s.props ELSE s.required) |->
                Sample(s.props[k], FALSE)])
=============================================================================
