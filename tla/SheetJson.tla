------------------------------ MODULE SheetJson ------------------------------
(***************************************************************************)
(* Parsed JSON documents, and the merge patch of internal/jsonmerge.       *)
(*                                                                         *)
(* A value is tagged by its kind.  Texts are kept to the few a schema or a *)
(* generated type tells apart: the members of its enumerations, "1.0.0"    *)
(* for a version, "instant" for an RFC 3339 time, "text" for any other.    *)
(* Of numbers that are no integer one is kept, Fraction; an integer may be *)
(* written in a way that Go's int does not read, as 1.0 or 1e0 is.  The    *)
(* members of an object are distinct, and keys are in the schema's case.   *)
(***************************************************************************)
EXTENDS Integers, Sequences, TLC

Null == [json |-> "null"]

Bool(b) == [json |-> "boolean", truth |-> b]

Str(t) == [json |-> "string", text |-> t]

\* An integer in plain digits, and one written with a fraction or an exponent.
Whole(n) == [json |-> "integer", whole |-> n, digits |-> TRUE]
Pointed(n) == [Whole(n) EXCEPT !.digits = FALSE]

\* The same number in digits; any other value as it is.
InDigits(v) == IF v.json = "integer" THEN Whole(v.whole) ELSE v

Fraction == [json |-> "number"]

Arr(seq) == [json |-> "array", elems |-> seq]

Obj(f) == [json |-> "object", members |-> f]

NoMembers == [k \in {} |-> Null]

\* The integers of a "minimum": 1.
Positive == Nat \ {0}

IsObject(v) == v.json = "object"

\* The object v, or an empty one where there is none.
MembersOf(v) == IF IsObject(v) THEN v.members ELSE NoMembers

-----------------------------------------------------------------------------
\* Faulty variant: a null is merged in like any other value.
MergeKeepingNulls(target, patch) ==
    IF ~ IsObject(patch) THEN patch
    ELSE Obj(patch.members @@ MembersOf(target))

RECURSIVE Merge(_, _)

(***************************************************************************)
(* RFC 7396: a patch that is no object replaces its target; an object      *)
(* merges member by member, a null deleting the member it names, and       *)
(* starts from nothing where the target is no object.                      *)
(***************************************************************************)
Merge(target, patch) ==
    IF ~ IsObject(patch) THEN patch
    ELSE LET old     == MembersOf(target)
             deleted == {k \in DOMAIN patch.members : patch.members[k] = Null}
             kept    == (DOMAIN old \cup DOMAIN patch.members) \ deleted
         IN  Obj([k \in kept |->
                    IF k \notin DOMAIN patch.members THEN old[k]
                    ELSE Merge(IF k \in DOMAIN old THEN old[k] ELSE Null,
                               patch.members[k])])
=============================================================================
