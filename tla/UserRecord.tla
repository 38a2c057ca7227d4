----------------------------- MODULE UserRecord -----------------------------
(***************************************************************************)
(* The values of the /users resource and what a request makes of them:     *)
(* pkg/domain/user, internal/dto/v1alpha and its mapper.                   *)
(*                                                                         *)
(* Texts are kept as far as the collection's rules look into them: which   *)
(* texts denote the same address or handle, and which denote none.         *)
(***************************************************************************)
EXTENDS Naturals

CONSTANTS
    Id,              \* user ids, canonical spelling
    RawId,           \* what a request may write where an id is expected
    CanonicalId,     \* RawId -> Id \cup {Invalid}: ParseUserID
    Name,            \* combined "First Last" texts
    Nameless,        \* the names without a first or a last part
    RawEmail,        \* texts sent as an address
    CanonicalEmail,  \* RawEmail -> RawEmail \cup {Invalid}: NewEmail
    RawHandle,       \* texts sent as a username
    CanonicalHandle, \* RawHandle -> RawHandle \cup {Invalid}: NewUserHandle
    NoHandle,        \* the empty text, and the handle it denotes: none
    Invalid,         \* a text that denotes nothing
    Omitted,         \* the request leaves the field out
    NoVersion,       \* the request carries no version
    NoUser           \* no user: an empty map slot, an error's zero value

ASSUME UserRecordAssumption ==
    /\ Id \subseteq RawId
    /\ CanonicalId \in [RawId -> Id \cup {Invalid}]
    /\ \A id \in Id : CanonicalId[id] = id
    /\ CanonicalEmail \in [RawEmail -> RawEmail \cup {Invalid}]
    /\ CanonicalHandle \in [RawHandle -> RawHandle \cup {Invalid}]
    /\ \A raw \in RawEmail :
          CanonicalEmail[raw] # Invalid =>
              CanonicalEmail[CanonicalEmail[raw]] = CanonicalEmail[raw]
    /\ \A raw \in RawHandle :
          CanonicalHandle[raw] # Invalid =>
              CanonicalHandle[CanonicalHandle[raw]] = CanonicalHandle[raw]
    /\ NoHandle \in RawHandle /\ CanonicalHandle[NoHandle] = NoHandle
    /\ Nameless \subseteq Name
    /\ Invalid \notin Id \cup RawEmail \cup RawHandle
    /\ Omitted \notin Name \cup RawEmail \cup RawHandle
    /\ NoVersion \notin Nat

MinVersion == 1

User == [id : Id, version : Nat, name : Name, email : RawEmail, handle : RawHandle]

ASSUME NoUserAssumption == NoUser \notin User

\* Faulty variant: the address is kept as it was typed.
NewEmailVerbatim(raw) == IF CanonicalEmail[raw] = Invalid THEN Invalid ELSE raw

NewEmail(raw) == CanonicalEmail[raw]

\* Faulty variant: the handle is kept as it was typed.
NewUserHandleVerbatim(raw) == IF CanonicalHandle[raw] = Invalid THEN Invalid ELSE raw

NewUserHandle(raw) == CanonicalHandle[raw]

\* Faulty variant: two unset handles count as the same.
SameHandleUnset(a, b) == a = b

\* UserHandle.Equal: two unset handles do not count as the same.
SameHandle(a, b) == a # NoHandle /\ b # NoHandle /\ a = b

-----------------------------------------------------------------------------
(* Requests, and the mapper's use of them.                                 *)

CreateRequest == [op : {"create"}, name : Name, email : RawEmail, handle : RawHandle]

UpdateRequest == [op : {"update"}, raw : RawId, expected : Nat \cup {NoVersion},
                  name : Name \cup {Omitted}, email : RawEmail \cup {Omitted},
                  handle : RawHandle \cup {Omitted}]

FindRequest == [op : {"find"}, raw : RawId]

ListRequest == [op : {"list"}]

DeleteRequest == [op : {"delete"}, raw : Id]

Request == CreateRequest \cup UpdateRequest \cup FindRequest \cup ListRequest \cup DeleteRequest

NoRequest == [op |-> "none"]

\* The mapper's mutators accept the fields a request carries.
FieldsAccepted(r) ==
    /\ r.name \notin Nameless
    /\ r.email # Omitted => NewEmail(r.email) # Invalid
    /\ r.handle # Omitted => NewUserHandle(r.handle) # Invalid

NewUser(id, r) ==
    [id |-> id, version |-> MinVersion, name |-> r.name,
     email |-> NewEmail(r.email), handle |-> NewUserHandle(r.handle)]

ApplyUpdate(u, r) ==
    [id |-> u.id, version |-> u.version,
     name |-> IF r.name = Omitted THEN u.name ELSE r.name,
     email |-> IF r.email = Omitted THEN u.email ELSE NewEmail(r.email),
     handle |-> IF r.handle = Omitted THEN u.handle ELSE NewUserHandle(r.handle)]

NextVersion(u) ==
    [id |-> u.id, version |-> u.version + 1, name |-> u.name,
     email |-> u.email, handle |-> u.handle]

CheckVersion(expected, actual) ==
    IF expected = NoVersion THEN "ok"
    ELSE IF expected < MinVersion THEN "invalid"
    ELSE IF expected # actual THEN "conflict"
    ELSE "ok"

Status == {"ok", "invalid", "not_found", "conflict", "exists"}

Reply == [status : Status, users : SUBSET User]

Refusal(status) == [status |-> status, users |-> {}]

Success(users) == [status |-> "ok", users |-> users]

NoReply == Refusal("not_found")
=============================================================================
