--------------------------- MODULE CharacterSheet ---------------------------
(***************************************************************************)
(* The documents of the /characters resource and what a request makes of   *)
(* them: pkg/domain/character, internal/dto/v1alpha and its mapper.        *)
(*                                                                         *)
(* A sheet is kept to its top-level sections: which are there, and with    *)
(* what value.  The schema (both gates, the generated type's decode and    *)
(* the embedded JSON schema) is the set of required sections and the set   *)
(* of values it refuses.  A merge patch names, per section, a new value,   *)
(* a null (which deletes the section) or nothing.                          *)
(***************************************************************************)
EXTENDS Naturals

CONSTANTS
    Id,          \* character ids, canonical spelling
    RawId,       \* what a request may write where an id is expected
    Canonical,   \* RawId -> Id \cup {BadId}: uuid.Validate and uuid.MustParse
    BadId,       \* the result for a text that is no UUID
    Section,     \* top-level keys of a sheet
    Required,    \* the keys the schema requires
    ServerOwned, \* the keys a patch may not name
    Value,       \* what a section may hold
    Malformed,   \* the values the schema refuses
    Absent,      \* a sheet has no such section; in a patch, the JSON null
    Untouched,   \* a patch does not name the section
    Omitted,     \* the request carries no document (or a JSON null)
    NotObject,   \* the request's document is JSON but no object
    NoVersion,   \* the request carries no version
    NoEntity     \* no character: an empty map slot, an error's zero value

ASSUME CharacterSheetAssumption ==
    /\ Id \subseteq RawId
    /\ Canonical \in [RawId -> Id \cup {BadId}]
    /\ \A id \in Id : Canonical[id] = id
    /\ BadId \notin Id
    /\ Required \subseteq Section
    /\ ServerOwned \subseteq Section
    /\ Malformed \subseteq Value
    /\ Absent \notin Value /\ Untouched \notin Value /\ Absent # Untouched
    /\ NoVersion \notin Nat

Sheet == [Section -> Value \cup {Absent}]

Patch == [Section -> Value \cup {Absent, Untouched}]

ASSUME DocumentAssumption ==
    /\ Omitted \notin Sheet \cup Patch
    /\ NotObject \notin Sheet \cup Patch
    /\ Omitted # NotObject

-----------------------------------------------------------------------------
(* Revisions: pkg/domain/common/version.go.                                *)

MinVersion == 1

Version == Nat \ {0}

\* Faulty variant: any revision a client could have read is good enough.
CheckVersionLax(expected, actual) ==
    IF expected # NoVersion /\ expected < MinVersion THEN "invalid" ELSE "ok"

\* Faulty variant: the client is taken to name the revision it will create.
CheckVersionNext(expected, actual) ==
    IF expected = NoVersion THEN "ok"
    ELSE IF expected < MinVersion THEN "invalid"
    ELSE IF expected # actual + 1 THEN "conflict"
    ELSE "ok"

(***************************************************************************)
(* A client's expected version against the revision just loaded: "ok",     *)
(* "invalid" for a zero, "conflict" for any other revision than that one.  *)
(***************************************************************************)
CheckVersion(expected, actual) ==
    IF expected = NoVersion THEN "ok"
    ELSE IF expected < MinVersion THEN "invalid"
    ELSE IF expected # actual THEN "conflict"
    ELSE "ok"

Entity == [id : Id, version : Version, sheet : Sheet]

ASSUME NoEntityAssumption == NoEntity \notin Entity

NewCharacter(id, sheet) == [id |-> id, version |-> MinVersion, sheet |-> sheet]

ReplaceSheet(e, sheet) == [id |-> e.id, version |-> e.version, sheet |-> sheet]

NextVersion(e) == [id |-> e.id, version |-> e.version + 1, sheet |-> e.sheet]

-----------------------------------------------------------------------------
(* The schema gate, and the edits of the mapper.                           *)

ValidSheet(sheet) ==
    /\ \A s \in Required : sheet[s] # Absent
    /\ \A s \in Section : sheet[s] \notin Malformed

\* Faulty variant: the patch becomes the sheet.
MergePatchReplacing(sheet, patch) ==
    [s \in Section |-> IF patch[s] = Untouched THEN Absent ELSE patch[s]]

\* jsonmerge at the top level: null deletes, a value replaces.
MergePatch(sheet, patch) ==
    [s \in Section |-> IF patch[s] = Untouched THEN sheet[s] ELSE patch[s]]

CreateAccepts(doc) == doc # Omitted /\ ValidSheet(doc)

\* Faulty variant: PUT stores what it is sent.
UpdateAcceptsAny(doc) == TRUE

UpdateAccepts(doc) == doc = Omitted \/ ValidSheet(doc)

UpdateResult(sheet, doc) == IF doc = Omitted THEN sheet ELSE doc

NamesServerOwned(patch) == \E s \in ServerOwned : patch[s] # Untouched

\* Faulty variant: the merged sheet is not validated.
PatchAcceptsUngated(sheet, doc) ==
    doc = Omitted \/ (doc # NotObject /\ ~ NamesServerOwned(doc))

\* The gate runs on the merged sheet, not on the patch.
PatchAccepts(sheet, doc) ==
    \/ doc = Omitted
    \/ /\ doc # NotObject
       /\ ~ NamesServerOwned(doc)
       /\ ValidSheet(MergePatch(sheet, doc))

PatchResult(sheet, doc) == IF doc = Omitted THEN sheet ELSE MergePatch(sheet, doc)

-----------------------------------------------------------------------------
(* Requests as the handlers decode them, and the answers they can give.    *)

CreateRequest == [op : {"create"}, doc : Sheet \cup {Omitted}]

UpdateRequest == [op : {"update"}, raw : RawId, expected : Nat \cup {NoVersion},
                  doc : Sheet \cup {Omitted}]

PatchRequest == [op : {"patch"}, raw : RawId, expected : Nat \cup {NoVersion},
                 doc : Patch \cup {Omitted, NotObject}]

FindRequest == [op : {"find"}, raw : RawId]

Request == CreateRequest \cup UpdateRequest \cup PatchRequest \cup FindRequest

NoRequest == [op |-> "none"]

\* What Update and Patch do to the sheet they loaded, by the request's kind.
EditAccepts(sheet, r) ==
    IF r.op = "update" THEN UpdateAccepts(r.doc) ELSE PatchAccepts(sheet, r.doc)

EditResult(sheet, r) ==
    IF r.op = "update" THEN UpdateResult(sheet, r.doc) ELSE PatchResult(sheet, r.doc)

Status == {"ok", "invalid", "not_found", "conflict"}

Reply == [status : Status, entity : Entity \cup {NoEntity}]

Refusal(status) == [status |-> status, entity |-> NoEntity]

Success(e) == [status |-> "ok", entity |-> e]

NoReply == Refusal("not_found")
=============================================================================
