------------------------------ MODULE GoDecode ------------------------------
(***************************************************************************)
(* The Go types that go-jsonschema generates, and which documents          *)
(* encoding/json decodes into one of them: its own rules for scalars,      *)
(* pointers, slices and maps, and the UnmarshalJSON methods generated for  *)
(* enumerations and for structs with required or bounded fields.           *)
(***************************************************************************)
EXTENDS SheetJson, FiniteSets

Go(kind) ==
    [kind |-> kind, elem |-> NoMembers, values |-> {}, range |-> Int,
     required |-> {}, fields |-> NoMembers]

GoAny == Go("any")
GoString == Go("string")
GoInt == Go("int")
GoFloat == Go("float64")
GoBool == Go("bool")
GoTime == Go("time")
GoMap == Go("map")

Ptr(t) == [Go("ptr") EXCEPT !.elem = t]

Slice(t) == [Go("slice") EXCEPT !.elem = t, !.range = Nat]

\* A named type whose UnmarshalJSON compares with enumValues_T.
GoEnum(values) == [Go("enum") EXCEPT !.values = values]

GoTexts(texts) == GoEnum({Str(t) : t \in texts})

Struct(fields) == [Go("struct") EXCEPT !.fields = fields]

\* UnmarshalJSON refuses an object without these keys.
Require(keys, t) == [t EXCEPT !.required = keys]

\* A bound looks through a pointer.
Limit(t, range) ==
    IF t.kind = "ptr" THEN Ptr([t.elem EXCEPT !.range = range])
    ELSE [t EXCEPT !.range = range]

\* Faulty variant: a type with no bounds generated.
Boundless(ranges, t) == t

\* UnmarshalJSON checks these fields, a number's value or a slice's length,
\* once the object is decoded.
Bound(ranges, t) ==
    [t EXCEPT !.fields =
        [k \in DOMAIN @ |->
            IF k \in DOMAIN ranges THEN Limit(@[k], ranges[k]) ELSE @[k]]]

\* UnmarshalJSON matches the field with a pattern: these texts do.
Pattern(key, texts, t) ==
    [t EXCEPT !.fields =
        [@ EXCEPT ![key] = [@ EXCEPT !.values = {Str(x) : x \in texts}]]]

-----------------------------------------------------------------------------
\* A null is nothing to a pointer, a slice, a map or an interface, and leaves
\* the zero value anywhere else, which is then checked: an enumeration has no
\* zero member, a struct's required keys are not looked for.
NullDecodes(t) ==
    CASE t.kind = "enum"   -> FALSE
      [] t.kind = "string" -> t.values = {}
      [] t.kind = "int"    -> 0 \in t.range
      [] t.kind = "struct" -> \A k \in DOMAIN t.fields :
                                LET f == t.fields[k]
                                IN  /\ f.kind = "int" => 0 \in f.range
                                    /\ f.kind = "string" => f.values = {}
      [] OTHER             -> TRUE

RECURSIVE Decodes(_, _)

\* json.Unmarshal of the value into a variable of the type succeeds.
Decodes(t, v) ==
    IF t.kind = "ptr" THEN v = Null \/ Decodes(t.elem, v)
    ELSE IF v = Null THEN NullDecodes(t)
    ELSE CASE t.kind = "any"     -> TRUE
           [] t.kind = "string"  -> /\ v.json = "string"
                                    /\ t.values = {} \/ v \in t.values
           [] t.kind = "time"    -> v = Str("instant")
           [] t.kind = "bool"    -> v.json = "boolean"
           [] t.kind = "int"     -> v.json = "integer" /\ v.digits /\ v.whole \in t.range
           [] t.kind = "float64" -> v.json \in {"integer", "number"}
           [] t.kind = "enum"    -> v \in t.values
           [] t.kind = "map"     -> v.json = "object"
           [] t.kind = "slice"   ->
                /\ v.json = "array" /\ Len(v.elems) \in t.range
                /\ \A i \in DOMAIN v.elems : Decodes(t.elem, v.elems[i])
           [] t.kind = "struct"  ->
                /\ v.json = "object" /\ t.required \subseteq DOMAIN v.members
                /\ \A k \in DOMAIN t.fields \cap DOMAIN v.members :
                     Decodes(t.fields[k], v.members[k])
=============================================================================
