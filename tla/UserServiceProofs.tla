------------------------- MODULE UserServiceProofs -------------------------
(***************************************************************************)
(* Proofs about UserService, for any number of goroutines, ids, texts and  *)
(* requests, with and without callers of Delete: first that identities are *)
(* unique, which the store alone decides, then what the history of writes  *)
(* shows of updates, lists and refusals.                                   *)
(***************************************************************************)
EXTENDS UserService, TLAPS

-----------------------------------------------------------------------------
(* What the mapper makes of a request.                                     *)

\* A request of a given kind carries that kind's fields.
LEMMA RequestShape ==
    ASSUME NEW r \in Requests
    PROVE  /\ r.op = "create" => /\ r.name \in Name
                                 /\ r.email \in RawEmail
                                 /\ r.handle \in RawHandle
           /\ r.op = "update" => /\ r.raw \in RawId
                                 /\ r.name \in Name \cup {Omitted}
                                 /\ r.email \in RawEmail \cup {Omitted}
                                 /\ r.handle \in RawHandle \cup {Omitted}
           /\ r.op = "find" => r.raw \in RawId
           /\ r.op = "delete" => r.raw \in Id
<1>1. r \in Request
  BY RequestsAssumption
<1>2. CASE r \in CreateRequest
  BY <1>2 DEF CreateRequest
<1>3. CASE r \in UpdateRequest
  BY <1>3 DEF UpdateRequest
<1>4. CASE r \in FindRequest
  BY <1>4 DEF FindRequest
<1>5. CASE r \in ListRequest
  BY <1>5 DEF ListRequest
<1>6. CASE r \in DeleteRequest
  BY <1>6 DEF DeleteRequest
<1> QED
  BY <1>1, <1>2, <1>3, <1>4, <1>5, <1>6 DEF Request

(***************************************************************************)
(* An accepted text becomes a canonical one (NewEmail, NewUserHandle).     *)
(***************************************************************************)
LEMMA CanonicalTexts ==
    /\ \A raw \in RawEmail : NewEmail(raw) # Invalid =>
          /\ NewEmail(raw) \in RawEmail
          /\ CanonicalEmail[NewEmail(raw)] = NewEmail(raw)
    /\ \A raw \in RawHandle : NewUserHandle(raw) # Invalid =>
          /\ NewUserHandle(raw) \in RawHandle
          /\ CanonicalHandle[NewUserHandle(raw)] = NewUserHandle(raw)
BY UserRecordAssumption DEF NewEmail, NewUserHandle

(***************************************************************************)
(* A new aggregate is a user with canonical texts (UserFromCreateRequest). *)
(***************************************************************************)
LEMMA NewUserCanonical ==
    ASSUME NEW r \in Requests, r.op = "create", FieldsAccepted(r), NEW id \in Id
    PROVE  NewUser(id, r) \in User /\ IsCanonical(NewUser(id, r))
<1>1. /\ r.name \in Name
      /\ r.email \in RawEmail /\ r.email # Omitted
      /\ r.handle \in RawHandle /\ r.handle # Omitted
  BY RequestShape, UserRecordAssumption
<1> QED
  BY <1>1, CanonicalTexts DEF FieldsAccepted, NewUser, User, IsCanonical, MinVersion

(***************************************************************************)
(* Nor does an accepted update leave other texts than canonical ones       *)
(* (ApplyUpdateRequest).                                                   *)
(***************************************************************************)
LEMMA UpdatedUserCanonical ==
    ASSUME NEW r \in Requests, r.op = "update", FieldsAccepted(r),
           NEW u \in User, IsCanonical(u)
    PROVE  ApplyUpdate(u, r) \in User /\ IsCanonical(ApplyUpdate(u, r))
<1>1. /\ r.name \in Name \cup {Omitted}
      /\ r.email \in RawEmail \cup {Omitted}
      /\ r.handle \in RawHandle \cup {Omitted}
  BY RequestShape
<1>2. ApplyUpdate(u, r) \in User
  BY <1>1, CanonicalTexts DEF FieldsAccepted, ApplyUpdate, User
<1>3. IsCanonical(ApplyUpdate(u, r))
  BY <1>1, CanonicalTexts DEF FieldsAccepted, ApplyUpdate, IsCanonical
<1> QED
  BY <1>2, <1>3

\* What Save stores is a canonical user if what it was given is.
LEMMA PersistedCanonical ==
    ASSUME NEW u \in User, IsCanonical(u)
    PROVE  /\ Persisted(u) \in User /\ IsCanonical(Persisted(u))
           /\ Persisted(u).id = u.id
           /\ Persisted(u).email = u.email
           /\ Persisted(u).handle = u.handle
BY DEF Persisted, NextVersion, User, IsCanonical

-----------------------------------------------------------------------------
(* Steps that leave the map alone.                                         *)

\* Both kinds of answer are answers.
LEMMA ReplyTypes ==
    /\ \A status \in Status : Refusal(status) \in Reply
    /\ \A users \in SUBSET User : Success(users) \in Reply
    /\ NoReply \in Reply
BY DEF Refusal, Success, NoReply, Reply, Status

\* The version check ends in a status.
LEMMA CheckVersionStatus ==
    ASSUME NEW expected, NEW actual
    PROVE  CheckVersion(expected, actual) \in {"ok", "invalid", "conflict"}
BY DEF CheckVersion

(***************************************************************************)
(* A handler that answers, or goes on with a canonical aggregate in hand,  *)
(* without touching the map.                                               *)
(***************************************************************************)
LEMMA AnswerKeeps ==
    ASSUME IdentityInv, NEW p \in Proc, NEW r \in Reply, Answer(p, r),
           phase[p] # "idle",
           loaded' \in [Proc -> User \cup {NoUser}],
           UNCHANGED <<store, entity, received, history>>
    PROVE  IdentityInv'
<1>1. TypeOK'
  BY DEF IdentityInv, TypeOK, Answer
<1> QED
  BY <1>1 DEF IdentityInv, IdentitiesUnique

\* Holding a canonical user keeps the invariant.
LEMMA HoldKeeps ==
    ASSUME IdentityInv, NEW p \in Proc, NEW u \in User, Hold(p, u), IsCanonical(u),
           phase[p] # "idle",
           loaded' \in [Proc -> User \cup {NoUser}],
           UNCHANGED <<store, received, history>>
    PROVE  IdentityInv'
<1>1. TypeOK'
  BY NoUserAssumption DEF IdentityInv, TypeOK, Hold
<1>2. \A q \in Proc : entity'[q] # NoUser => IsCanonical(entity'[q])
  BY DEF IdentityInv, TypeOK, Hold
<1> QED
  BY <1>1, <1>2 DEF IdentityInv, IdentitiesUnique

-----------------------------------------------------------------------------
(* The steps.                                                              *)

\* A new request finds the repository as it was.
LEMMA AcceptKeeps ==
    ASSUME IdentityInv, NEW p \in Proc, Accept(p)
    PROVE  IdentityInv'
<1>1. TypeOK'
  BY ReplyTypes DEF IdentityInv, TypeOK, Accept
<1>2. \A q \in Proc : entity'[q] # NoUser => IsCanonical(entity'[q])
  BY DEF IdentityInv, TypeOK, Accept
<1> QED
  BY <1>1, <1>2 DEF IdentityInv, IdentitiesUnique, Accept

\* A create holds a canonical user.
LEMMA CreateKeeps ==
    ASSUME IdentityInv, NEW p \in Proc, Create(p)
    PROVE  IdentityInv'
<1>1. /\ req[p] \in Requests /\ phase[p] # "idle"
      /\ loaded' \in [Proc -> User \cup {NoUser}]
  BY DEF Create, IdentityInv, TypeOK
<1>2. CASE FieldsAccepted(req[p])
  <2>1. PICK id \in Id : Hold(p, NewUser(id, req[p]))
    BY <1>2 DEF Create
  <2> QED
    BY <1>1, <1>2, <2>1, NewUserCanonical, HoldKeeps DEF Create
<1>3. CASE ~ FieldsAccepted(req[p])
  BY <1>1, <1>3, ReplyTypes, AnswerKeeps DEF Create, Refuse, Status
<1> QED
  BY <1>2, <1>3

\* A read writes nothing.
LEMMA FindKeeps ==
    ASSUME IdentityInv, NEW p \in Proc, Find(p)
    PROVE  IdentityInv'
<1>1. PICK r \in Reply : Answer(p, r) /\ UNCHANGED entity
  BY ReplyTypes DEF Find, Refuse, Stored, IdentityInv, TypeOK, Status
<1> QED
  BY <1>1, AnswerKeeps DEF Find, IdentityInv, TypeOK

\* A list writes nothing.
LEMMA FindAllKeeps ==
    ASSUME IdentityInv, NEW p \in Proc, FindAll(p)
    PROVE  IdentityInv'
<1>1. OnFile \in SUBSET User
  BY DEF OnFile, IdentityInv, TypeOK
<1> QED
  BY <1>1, ReplyTypes, AnswerKeeps DEF FindAll, IdentityInv, TypeOK

\* An update holds a canonical user.
LEMMA LoadKeeps ==
    ASSUME IdentityInv, NEW p \in Proc, Load(p)
    PROVE  IdentityInv'
<1> DEFINE r == req[p]
           cur == store[r.raw]
<1>1. /\ r \in Requests /\ r.op = "update" /\ phase[p] # "idle"
      /\ loaded' \in [Proc -> User \cup {NoUser}]
  BY DEF Load, Stored, IdentityInv, TypeOK
<1>2. CASE \E status \in Status : Refuse(p, status)
  BY <1>1, <1>2, ReplyTypes, AnswerKeeps DEF Load, Refuse
<1>3. CASE Stored(r.raw) /\ FieldsAccepted(r) /\ Hold(p, ApplyUpdate(cur, r))
  <2>1. cur \in User /\ IsCanonical(cur)
    BY <1>3 DEF Stored, IdentityInv, TypeOK
  <2> QED
    BY <1>1, <1>3, <2>1, UpdatedUserCanonical, HoldKeeps DEF Load
<1> QED
  BY <1>2, <1>3, CheckVersionStatus DEF Load, Status

(***************************************************************************)
(* Save writes a record only if no other one holds its address or handle;  *)
(* the scan and the write are one critical section.                        *)
(***************************************************************************)
LEMMA SaveKeeps ==
    ASSUME IdentityInv, NEW p \in Proc, Save(p)
    PROVE  IdentityInv'
<1> DEFINE u == entity[p]
           stored == Persisted(u)
<1>1. u \in User /\ IsCanonical(u) /\ phase[p] = "save" /\ u.id \in Id
  BY DEF Save, IdentityInv, TypeOK, User
<1>2. CASE Refuse(p, "conflict") /\ UNCHANGED <<store, history>>
  BY <1>1, <1>2, ReplyTypes, AnswerKeeps DEF Save, Refuse, Status, IdentityInv, TypeOK
<1>3. CASE Refuse(p, "exists") /\ UNCHANGED <<store, history>>
  BY <1>1, <1>3, ReplyTypes, AnswerKeeps DEF Save, Refuse, Status, IdentityInv, TypeOK
<1>4. CASE /\ ~ Taken(u)
           /\ store' = [store EXCEPT ![u.id] = stored]
           /\ history' = [history EXCEPT ![u.id] = Append(@, [from |-> loaded[p], to |-> stored])]
           /\ entity' = [entity EXCEPT ![p] = stored]
           /\ Answer(p, Success({stored}))
  <2>1. /\ stored \in User /\ IsCanonical(stored)
        /\ stored.id = u.id /\ stored.email = u.email /\ stored.handle = u.handle
    BY <1>1, PersistedCanonical
  <2>2. [from |-> loaded[p], to |-> stored] \in Write
    BY <2>1 DEF Write, IdentityInv, TypeOK
  <2>3. TypeOK'
    <3>1. Success({stored}) \in Reply
      BY <2>1, ReplyTypes
    <3> QED
      BY <1>1, <1>4, <2>1, <2>2, <3>1, NoUserAssumption DEF Save, Answer, IdentityInv, TypeOK
  <2>4. /\ store'[u.id] = stored
        /\ \A i \in Id : i # u.id => store'[i] = store[i]
    BY <1>1, <1>4 DEF IdentityInv, TypeOK
  <2>5. \A i \in Id : store'[i] # NoUser => IsCanonical(store'[i])
    BY <2>1, <2>4 DEF IdentityInv
  <2>6. \A q \in Proc : entity'[q] # NoUser => IsCanonical(entity'[q])
    BY <1>4, <2>1 DEF IdentityInv, TypeOK
  <2>7. ASSUME NEW i \in Id, i # u.id, store[i] # NoUser
        PROVE  ~ Clash(stored, store[i]) /\ ~ Clash(store[i], stored)
    BY <1>4, <2>1, <2>7 DEF Taken, SameHandle, Clash, IsCanonical, IdentityInv
  <2>8. IdentitiesUnique'
    <3> SUFFICES ASSUME NEW i \in Id, NEW j \in Id, store'[i] # NoUser, store'[j] # NoUser
                 PROVE  ~ Clash(store'[i], store'[j])
      BY DEF IdentitiesUnique, Clash
    <3>1. CASE i = j
      BY <3>1 DEF Clash
    <3>2. CASE i # u.id /\ j # u.id
      BY <2>4, <3>2 DEF IdentityInv, IdentitiesUnique
    <3>3. CASE i # j /\ (i = u.id \/ j = u.id)
      BY <2>4, <2>7, <3>3
    <3> QED
      BY <3>1, <3>2, <3>3
  <2> QED
    BY <2>3, <2>5, <2>6, <2>8 DEF IdentityInv, IsCanonical
<1> QED
  BY <1>2, <1>3, <1>4 DEF Save

\* Deleting a user lets no two others clash.
LEMMA DeleteKeeps ==
    ASSUME IdentityInv, NEW p \in Proc, Delete(p)
    PROVE  IdentityInv'
<1>1. req[p].raw \in Id
  BY RequestShape DEF Delete, IdentityInv, TypeOK
<1>2. store' \in [Id -> User \cup {NoUser}] /\ history' \in [Id -> Seq(Write)]
  <2>1. CASE Stored(req[p].raw)
    <3>1. [from |-> store[req[p].raw], to |-> NoUser] \in Write
      BY <1>1 DEF IdentityInv, TypeOK, Write
    <3>2. history[req[p].raw] \in Seq(Write)
      BY <1>1 DEF IdentityInv, TypeOK
    <3>3. Append(history[req[p].raw], [from |-> store[req[p].raw], to |-> NoUser]) \in Seq(Write)
      BY <3>1, <3>2
    <3> QED
      BY <1>1, <2>1, <3>3 DEF Delete, IdentityInv, TypeOK
  <2> QED
    BY <2>1 DEF Delete, IdentityInv, TypeOK
<1>3. \A i \in Id : store'[i] \in {store[i], NoUser}
  BY <1>1 DEF Delete, IdentityInv, TypeOK
<1>4. TypeOK'
  BY <1>1, <1>2, <1>3, ReplyTypes DEF Delete, Answer, IdentityInv, TypeOK
<1> QED
  BY <1>3, <1>4 DEF Delete, IdentityInv, IdentitiesUnique

\* The client touches nothing of the server's.
LEMMA DecodeKeeps ==
    ASSUME IdentityInv, NEW p \in Proc, Decode(p)
    PROVE  IdentityInv'
<1>1. TypeOK'
  BY DEF Decode, IdentityInv, TypeOK
<1> QED
  BY <1>1 DEF Decode, IdentityInv, IdentitiesUnique

\* The empty repository satisfies the invariant.
LEMMA IdentityInit == Init => IdentityInv
BY ReplyTypes DEF Init, IdentityInv, TypeOK, IdentitiesUnique

\* Every step keeps the invariant.
LEMMA IdentityNext == IdentityInv /\ [Next]_vars => IdentityInv'
<1> SUFFICES ASSUME IdentityInv, [Next]_vars
             PROVE  IdentityInv'
  OBVIOUS
<1>1. CASE UNCHANGED vars
  BY <1>1 DEF vars, IdentityInv, TypeOK, IdentitiesUnique
<1> QED
  BY <1>1, AcceptKeeps, CreateKeeps, FindKeeps, FindAllKeeps, LoadKeeps, SaveKeeps,
     DeleteKeeps, DecodeKeeps DEF Next, Serve, Quiescent

\* The inductive invariant: everything on file and everything held is
\* canonical, and no two users on file share an address or a handle.
THEOREM IdentitySafe == Spec => []IdentityInv
<1> QED
  BY IdentityInit, IdentityNext, PTL DEF Spec

(***************************************************************************)
(* Type correctness of the users' handlers, map and history.               *)
(***************************************************************************)
THEOREM TypeCorrect == Spec => []TypeOK
<1>1. IdentityInv => TypeOK
  BY DEF IdentityInv
<1> QED
  BY <1>1, IdentitySafe, PTL

(***************************************************************************)
(* No two users on file ever share an address or a handle, in any spelling.*)
(***************************************************************************)
THEOREM IdentitiesStayUnique == Spec => []IdentitiesUnique
<1>1. IdentityInv => IdentitiesUnique
  BY DEF IdentityInv
<1> QED
  BY <1>1, IdentitySafe, PTL

-----------------------------------------------------------------------------
(* The history, and what the goroutines hold of it.                        *)

\* The record on file is what the last write or deletion left.
LastOnFile ==
    \A id \in Id :
        store[id] = IF history[id] = << >> THEN NoUser ELSE history[id][Len(history[id])].to

\* A goroutine that has not reached the repository holds nothing of it.
StartsEmpty ==
    \A p \in Proc : phase[p] = "start" => loaded[p] = NoUser /\ entity[p] = NoUser

\* An update on its way to Save was computed from a record that was on file.
HeldUpdate(p) ==
    /\ loaded[p] # NoUser
    /\ entity[p].id = loaded[p].id
    /\ entity[p].version = loaded[p].version
    /\ \E k \in 1..Len(history[loaded[p].id]) : history[loaded[p].id][k].to = loaded[p]

\* A new user on its way to Save has an id that nobody ever had.
HeldCreate(p) ==
    /\ loaded[p] = NoUser
    /\ entity[p].version = MinVersion
    /\ history[entity[p].id] = << >>
    /\ \A q \in Proc \ {p} : entity[q] # NoUser => entity[q].id # entity[p].id

HeldUsers ==
    \A p \in Proc : phase[p] = "save" =>
        IF req[p].op = "create" THEN HeldCreate(p) ELSE HeldUpdate(p)

\* "exists" is an answer to a request whose method holds a user.
ExistsIsOfAUser ==
    \A p \in Proc : reply[p].status = "exists" => phase[p] = "done" /\ entity[p] # NoUser

(***************************************************************************)
(* The inductive invariant of the accounts clients are given: the history  *)
(* with what goroutines hold of it, and what has been answered.            *)
(***************************************************************************)
UserInv ==
    /\ IdentityInv
    /\ LastOnFile
    /\ StartsEmpty
    /\ HeldUsers
    /\ NoLostUpdate
    /\ ListsAreConsistent
    /\ ExistsIsOfAUser
    /\ ExistsMeansClaimed

\* Every user a request may be refused for, given what its user was before.
Claims(u, old) ==
    \E id \in Id \ {u.id} : \E k \in 1..Len(history[id]) :
        LET v == history[id][k].to
        IN  /\ v # NoUser
            /\ \/ v.email = u.email /\ (old # NoUser => old.email # u.email)
               \/ /\ u.handle # NoHandle /\ v.handle = u.handle
                  /\ old # NoUser => old.handle # u.handle

Deleted(id) == \E k \in 1..Len(history[id]) : history[id][k].to = NoUser

Claimed(p) ==
    Claims(entity[p], IF Deleted(entity[p].id) THEN NoUser ELSE loaded[p])

\* ExistsMeansClaimed says so of every goroutine.
LEMMA ClaimedIs ==
    ExistsMeansClaimed <=> \A p \in Proc : reply[p].status = "exists" => Claimed(p)
<1>1. ASSUME NEW p \in Proc
      PROVE  (NoUser \in {history[entity[p].id][k].to : k \in 1..Len(history[entity[p].id])})
                 <=> Deleted(entity[p].id)
  BY DEF Deleted
<1> QED
  BY <1>1 DEF ExistsMeansClaimed, Claimed, Claims

\* After a step, too.
LEMMA ClaimedNextIs ==
    (\A p \in Proc : reply[p].status = "exists" => Claimed(p))' => ExistsMeansClaimed'
<1>1. ASSUME NEW p \in Proc
      PROVE  (NoUser \in {history[entity[p].id][k].to : k \in 1..Len(history[entity[p].id])})'
                 <=> Deleted(entity[p].id)'
  BY DEF Deleted
<1> QED
  BY <1>1 DEF ExistsMeansClaimed, Claimed, Claims

\* An empty repository has nothing to answer for.
LEMMA UserInit == Init => UserInv
<1> SUFFICES ASSUME Init
             PROVE  UserInv
  OBVIOUS
<1>1. IdentityInv
  BY IdentityInit
<1>2. \A id \in Id : history[id] = << >> /\ store[id] = NoUser
  BY DEF Init
<1>3. \A p \in Proc : phase[p] = "idle" /\ reply[p].status = "not_found" /\ reply[p].users = {}
  BY DEF Init, NoReply, Refusal
<1> QED
  BY <1>1, <1>2, <1>3 DEF UserInv, LastOnFile, StartsEmpty, HeldUsers, NoLostUpdate,
     ListsAreConsistent, ExistsIsOfAUser, ExistsMeansClaimed

-----------------------------------------------------------------------------
(* What no step of another goroutine takes back.                           *)

\* A write once accepted stays on record.
Kept ==
    \A id \in Id : \A k \in 1..Len(history[id]) :
        k \in 1..Len(history'[id]) /\ history'[id][k] = history[id][k]

Others(p) ==
    \A q \in Proc \ {p} :
        /\ phase'[q] = phase[q]
        /\ req'[q] = req[q]
        /\ entity'[q] = entity[q]
        /\ reply'[q] = reply[q]
        /\ loaded'[q] = loaded[q]

\* A claim outlives whatever is written later, a deletion included.
LEMMA ClaimKept ==
    ASSUME UserInv, Kept, NEW p \in Proc, reply[p].status = "exists",
           entity'[p] = entity[p], loaded'[p] = loaded[p]
    PROVE  Claimed(p)'
<1>1. PICK u : u = entity[p]
  OBVIOUS
<1>2. PICK old : old = IF Deleted(u.id) THEN NoUser ELSE loaded[p]
  OBVIOUS
<1>3. u.id \in Id
  BY <1>1 DEF UserInv, ExistsIsOfAUser, IdentityInv, TypeOK, User
<1>4. Claims(u, old)
  BY <1>1, <1>2, ClaimedIs DEF UserInv, Claimed
<1>5. Deleted(u.id) => Deleted(u.id)'
  BY <1>3 DEF Deleted, Kept
<1>6. PICK id \in Id \ {u.id} : \E k \in 1..Len(history[id]) :
          LET v == history[id][k].to
          IN  /\ v # NoUser
              /\ \/ v.email = u.email /\ (old # NoUser => old.email # u.email)
                 \/ /\ u.handle # NoHandle /\ v.handle = u.handle
                    /\ old # NoUser => old.handle # u.handle
  BY <1>4 DEF Claims
<1>7. Claims(u, old)' /\ Claims(u, NoUser)'
  BY <1>6 DEF Claims, Kept
<1>8. PICK new : new = IF Deleted(u.id)' THEN NoUser ELSE loaded[p]
  OBVIOUS
<1>9. Claims(u, new)'
  BY <1>2, <1>5, <1>7, <1>8
<1> QED
  BY <1>1, <1>8, <1>9 DEF Claimed

\* What another goroutine loaded was on file, and still has been.
LEMMA UpdateStaysHeld ==
    ASSUME UserInv, Kept, NEW q \in Proc, HeldUpdate(q),
           entity'[q] = entity[q], loaded'[q] = loaded[q]
    PROVE  HeldUpdate(q)'
<1>1. loaded[q].id \in Id
  BY DEF HeldUpdate, UserInv, IdentityInv, TypeOK, User
<1> QED
  BY <1>1 DEF HeldUpdate, Kept

\* What is left to show of a step of p that does not touch the map.
LEMMA QuietUsers ==
    ASSUME UserInv, IdentityInv', NEW p \in Proc, Others(p), UNCHANGED <<store, history>>,
           phase'[p] = "start" => loaded'[p] = NoUser /\ entity'[p] = NoUser,
           phase'[p] = "save" => IF req'[p].op = "create" THEN HeldCreate(p)' ELSE HeldUpdate(p)',
           \A q \in Proc \ {p} :
               /\ phase[q] = "save" /\ req[q].op = "create"
               /\ entity'[p] # NoUser
               => entity[q].id # entity'[p].id,
           \A u, v \in reply'[p].users : ~ Clash(u, v),
           reply'[p].status = "exists" =>
               phase'[p] = "done" /\ entity'[p] # NoUser /\ Claimed(p)'
    PROVE  UserInv'
<1>1. Kept
  BY DEF Kept
<1>2. LastOnFile' /\ NoLostUpdate'
  BY DEF UserInv, LastOnFile, NoLostUpdate
<1>3. StartsEmpty'
  BY DEF UserInv, StartsEmpty, Others
<1>4. ASSUME NEW q \in Proc \ {p}, phase'[q] = "save"
      PROVE  IF req'[q].op = "create" THEN HeldCreate(q)' ELSE HeldUpdate(q)'
  <2>1. /\ phase[q] = "save" /\ req'[q] = req[q]
        /\ entity'[q] = entity[q] /\ loaded'[q] = loaded[q]
    BY <1>4 DEF Others
  <2>2. CASE req[q].op = "create"
    <3>1. HeldCreate(q)
      BY <2>1, <2>2 DEF UserInv, HeldUsers
    <3>2. ASSUME NEW o \in Proc \ {q}, entity'[o] # NoUser
          PROVE  entity'[o].id # entity[q].id
      <4>1. CASE o = p
        BY <2>1, <2>2, <3>2, <4>1
      <4>2. CASE o # p
        BY <3>1, <3>2, <4>2 DEF Others, HeldCreate
      <4> QED
        BY <4>1, <4>2
    <3> QED
      BY <2>1, <2>2, <3>1, <3>2 DEF HeldCreate
  <2>3. CASE req[q].op # "create"
    BY <1>1, <2>1, <2>3, UpdateStaysHeld DEF UserInv, HeldUsers
  <2> QED
    BY <2>1, <2>2, <2>3
<1>5. HeldUsers'
  BY <1>4 DEF HeldUsers
<1>6. ListsAreConsistent'
  BY DEF UserInv, ListsAreConsistent, Others, Clash
<1>7. ExistsIsOfAUser'
  BY DEF UserInv, ExistsIsOfAUser, Others
<1>8. (\A q \in Proc : reply[q].status = "exists" => Claimed(q))'
  BY <1>1, ClaimKept DEF Others
<1>9. ExistsMeansClaimed'
  BY <1>8, ClaimedNextIs
<1> QED
  BY <1>2, <1>3, <1>5, <1>6, <1>7, <1>9 DEF UserInv

\* A write that follows the history, if nothing of it was deleted.
Follows(id, w) ==
    LET n == Len(history[id])
    IN  (\A k \in 1..n : history[id][k].to # NoUser) /\ w.to # NoUser =>
            /\ w.from = IF n = 0 THEN NoUser ELSE history[id][n].to
            /\ w.to.version = n + 1

\* No other goroutine is about to create a user of that id.
NotCreated(p, id) ==
    \A q \in Proc \ {p} : phase[q] = "save" /\ req[q].op = "create" => entity[q].id # id

\* What is left to show of a step of p that adds w to the history of id.
LEMMA GrowUsers ==
    ASSUME UserInv, IdentityInv', NEW p \in Proc, Others(p),
           NEW id \in Id, NEW w \in Write,
           history' = [history EXCEPT ![id] = Append(@, w)],
           store' = [store EXCEPT ![id] = w.to],
           Follows(id, w), NotCreated(p, id),
           phase'[p] = "done",
           entity'[p] # NoUser => entity[p] # NoUser /\ entity'[p].id = entity[p].id,
           \A u, v \in reply'[p].users : ~ Clash(u, v),
           reply'[p].status = "ok"
    PROVE  UserInv'
<1> DEFINE n == Len(history[id])
<1>1. /\ n \in Nat
      /\ Len(history'[id]) = n + 1
      /\ history'[id][n + 1] = w
      /\ \A k \in 1..n : history'[id][k] = history[id][k]
      /\ \A i \in Id : i # id => history'[i] = history[i]
      /\ store'[id] = w.to
      /\ \A i \in Id : i # id => store'[i] = store[i]
  BY DEF UserInv, IdentityInv, TypeOK
<1>2. ASSUME NEW i \in Id, NEW k \in 1..Len(history[i])
      PROVE  k \in 1..Len(history'[i]) /\ history'[i][k] = history[i][k]
  <2>1. CASE i = id
    BY <1>1, <1>2, <2>1
  <2>2. CASE i # id
    BY <1>1, <1>2, <2>2
  <2> QED
    BY <2>1, <2>2
<1>3. Kept
  BY <1>2 DEF Kept
<1>4. LastOnFile'
  <2>1. ASSUME NEW i \in Id
        PROVE  store'[i] = IF history'[i] = << >> THEN NoUser
                           ELSE history'[i][Len(history'[i])].to
    <3>1. CASE i = id
      <4>1. history'[id] # << >>
        BY <1>1
      <4> QED
        BY <1>1, <3>1, <4>1
    <3>2. CASE i # id
      BY <1>1, <3>2 DEF UserInv, LastOnFile
    <3> QED
      BY <3>1, <3>2
  <2> QED
    BY <2>1 DEF LastOnFile
<1>5. NoLostUpdate'
  <2> SUFFICES ASSUME NEW i \in Id, NEW k \in 1..Len(history'[i]),
                      \A j \in 1..k : history'[i][j].to # NoUser
               PROVE  /\ history'[i][k].from = IF k = 1 THEN NoUser ELSE history'[i][k - 1].to
                      /\ history'[i][k].to.version = k
    BY DEF NoLostUpdate
  <2>1. CASE k \in 1..Len(history[i])
    <3>1. PICK m \in Nat : m = Len(history[i])
      BY DEF UserInv, IdentityInv, TypeOK
    <3>2. \A j \in 1..k : j \in 1..m
      BY <2>1, <3>1
    <3>3. \A j \in 1..k : history[i][j].to # NoUser
      BY <1>2, <3>1, <3>2
    <3>4. /\ history[i][k].from = IF k = 1 THEN NoUser ELSE history[i][k - 1].to
          /\ history[i][k].to.version = k
      BY <2>1, <3>3 DEF UserInv, NoLostUpdate
    <3>5. k # 1 => k - 1 \in 1..m
      BY <2>1, <3>1
    <3>6. k # 1 => history'[i][k - 1] = history[i][k - 1]
      BY <1>2, <3>1, <3>5
    <3> QED
      BY <1>2, <2>1, <3>4, <3>6
  <2>2. CASE i = id /\ k = n + 1
    <3>1. \A j \in 1..n : history[id][j].to # NoUser
      BY <1>1, <2>2
    <3>2. w.to # NoUser
      BY <1>1, <2>2
    <3>3. n # 0 => history'[id][n] = history[id][n]
      BY <1>1
    <3> QED
      BY <1>1, <2>2, <3>1, <3>2, <3>3 DEF Follows
  <2> QED
    BY <1>1, <2>1, <2>2
<1>6. StartsEmpty'
  BY DEF UserInv, StartsEmpty, Others
<1>7. ASSUME NEW q \in Proc, phase'[q] = "save"
      PROVE  IF req'[q].op = "create" THEN HeldCreate(q)' ELSE HeldUpdate(q)'
  <2>1. /\ q # p
        /\ phase[q] = "save" /\ req'[q] = req[q]
        /\ entity'[q] = entity[q] /\ loaded'[q] = loaded[q]
    BY <1>7 DEF Others
  <2>2. CASE req[q].op = "create"
    <3>1. HeldCreate(q)
      BY <2>1, <2>2 DEF UserInv, HeldUsers
    <3>2. entity[q].id \in Id /\ entity[q].id # id
      BY <2>1, <2>2 DEF NotCreated, UserInv, IdentityInv, TypeOK, User
    <3>3. history'[entity[q].id] = << >>
      BY <1>1, <3>1, <3>2 DEF HeldCreate
    <3>4. ASSUME NEW o \in Proc \ {q}, entity'[o] # NoUser
          PROVE  entity'[o].id # entity[q].id
      <4>1. CASE o = p
        BY <3>1, <3>4, <4>1 DEF HeldCreate
      <4>2. CASE o # p
        BY <3>1, <3>4, <4>2 DEF Others, HeldCreate
      <4> QED
        BY <4>1, <4>2
    <3> QED
      BY <2>1, <2>2, <3>1, <3>3, <3>4 DEF HeldCreate
  <2>3. CASE req[q].op # "create"
    BY <1>3, <2>1, <2>3, UpdateStaysHeld DEF UserInv, HeldUsers
  <2> QED
    BY <2>1, <2>2, <2>3
<1>8. HeldUsers'
  BY <1>7 DEF HeldUsers
<1>9. ListsAreConsistent'
  BY DEF UserInv, ListsAreConsistent, Others, Clash
<1>10. ExistsIsOfAUser'
  BY DEF UserInv, ExistsIsOfAUser, Others
<1>11. (\A q \in Proc : reply[q].status = "exists" => Claimed(q))'
  BY <1>3, ClaimKept DEF Others
<1>12. ExistsMeansClaimed'
  BY <1>11, ClaimedNextIs
<1> QED
  BY <1>4, <1>5, <1>6, <1>8, <1>9, <1>10, <1>12 DEF UserInv

-----------------------------------------------------------------------------
(* Every step keeps UserInv.                                               *)

\* The aggregate in hand belongs to no create that waits for its Save.
LEMMA CreatesStayAlone ==
    ASSUME UserInv, NEW p \in Proc, entity[p] # NoUser, NEW q \in Proc \ {p},
           phase[q] = "save", req[q].op = "create"
    PROVE  entity[q].id # entity[p].id
BY DEF UserInv, HeldUsers, HeldCreate

\* An answer that is not "exists", of a step that writes nothing.
LEMMA AnswerUsers ==
    ASSUME UserInv, IdentityInv', NEW p \in Proc, NEW r, Answer(p, r),
           UNCHANGED <<store, history, entity>>,
           \A q \in Proc \ {p} : loaded'[q] = loaded[q],
           \A u, v \in r.users : ~ Clash(u, v),
           r.status # "exists"
    PROVE  UserInv'
<1>1. /\ Others(p) /\ phase'[p] = "done" /\ reply'[p] = r
  BY DEF Answer, Others, UserInv, IdentityInv, TypeOK
<1> QED
  BY <1>1, CreatesStayAlone, QuietUsers

\* A refusal that is not "exists".
LEMMA RefusalUsers ==
    ASSUME UserInv, IdentityInv', NEW p \in Proc, NEW status, status # "exists",
           Refuse(p, status), UNCHANGED <<store, history>>,
           \A q \in Proc \ {p} : loaded'[q] = loaded[q]
    PROVE  UserInv'
<1>1. Refusal(status).users = {} /\ Refusal(status).status = status
  BY DEF Refusal
<1> QED
  BY <1>1, AnswerUsers DEF Refuse

\* A request that goes on to its Save.
LEMMA HoldUsers ==
    ASSUME UserInv, IdentityInv', NEW p \in Proc, phase[p] = "start",
           NEW u, Hold(p, u), UNCHANGED <<store, history>>,
           \A q \in Proc \ {p} : loaded'[q] = loaded[q],
           IF req[p].op = "create" THEN HeldCreate(p)' ELSE HeldUpdate(p)',
           \A q \in Proc \ {p} :
               phase[q] = "save" /\ req[q].op = "create" => entity[q].id # u.id
    PROVE  UserInv'
<1>1. /\ Others(p) /\ phase'[p] = "save" /\ entity'[p] = u
      /\ reply'[p] = reply[p] /\ req'[p] = req[p]
  BY DEF Hold, Others, UserInv, IdentityInv, TypeOK
<1>2. reply[p].status # "exists"
  BY DEF UserInv, ExistsIsOfAUser
<1>3. \A v, w \in reply[p].users : ~ Clash(v, w)
  BY DEF UserInv, ListsAreConsistent
<1> QED
  BY <1>1, <1>2, <1>3, QuietUsers

\* A new request holds nothing.
LEMMA AcceptUsers ==
    ASSUME UserInv, IdentityInv', NEW p \in Proc, Accept(p)
    PROVE  UserInv'
<1>1. /\ Others(p) /\ phase'[p] = "start" /\ entity'[p] = NoUser /\ loaded'[p] = NoUser
      /\ reply'[p] = NoReply
      /\ UNCHANGED <<store, history>>
  BY DEF Accept, Others, UserInv, IdentityInv, TypeOK
<1>2. NoReply.users = {} /\ NoReply.status = "not_found"
  BY DEF NoReply, Refusal
<1> QED
  BY <1>1, <1>2, QuietUsers

\* A create holds an id nobody ever had.
LEMMA CreateUsers ==
    ASSUME UserInv, IdentityInv', NEW p \in Proc, Create(p)
    PROVE  UserInv'
<1>1. /\ phase[p] = "start" /\ req[p].op = "create"
      /\ UNCHANGED <<store, loaded, history>>
  BY DEF Create
<1>2. CASE FieldsAccepted(req[p])
  <2>1. PICK id \in Id : Fresh(id) /\ Hold(p, NewUser(id, req[p]))
    BY <1>2 DEF Create
  <2>2. PICK u : u = NewUser(id, req[p])
    OBVIOUS
  <2>3. u.id = id /\ u.version = MinVersion
    BY <2>2 DEF NewUser
  <2>4. /\ entity'[p] = u
        /\ \A q \in Proc \ {p} : entity'[q] = entity[q]
        /\ loaded[p] = NoUser
    BY <1>1, <2>1, <2>2 DEF Hold, UserInv, StartsEmpty, IdentityInv, TypeOK
  <2>5. HeldCreate(p)'
    BY <1>1, <2>1, <2>3, <2>4 DEF HeldCreate, Fresh
  <2>6. ASSUME NEW q \in Proc \ {p}, phase[q] = "save"
        PROVE  entity[q].id # u.id
    BY <2>1, <2>3, <2>6 DEF Fresh, UserInv, IdentityInv, TypeOK
  <2> QED
    BY <1>1, <2>1, <2>2, <2>5, <2>6, HoldUsers
<1>3. CASE ~ FieldsAccepted(req[p])
  BY <1>1, <1>3, RefusalUsers DEF Create
<1> QED
  BY <1>2, <1>3

\* One user cannot clash with himself.
LEMMA FindUsers ==
    ASSUME UserInv, IdentityInv', NEW p \in Proc, Find(p)
    PROVE  UserInv'
<1>1. UNCHANGED <<store, loaded, history>>
  BY DEF Find
<1>2. CASE Refuse(p, "invalid") \/ Refuse(p, "not_found")
  BY <1>1, <1>2, RefusalUsers
<1>3. ASSUME NEW u, Answer(p, Success({u})), UNCHANGED entity
      PROVE  UserInv'
  <2>1. Success({u}).users = {u} /\ Success({u}).status = "ok"
    BY DEF Success
  <2>2. \A v, w \in {u} : ~ Clash(v, w)
    BY DEF Clash
  <2> QED
    BY <1>1, <1>3, <2>1, <2>2, AnswerUsers
<1> QED
  BY <1>2, <1>3 DEF Find

\* The whole map is a consistent list.
LEMMA FindAllUsers ==
    ASSUME UserInv, IdentityInv', NEW p \in Proc, FindAll(p)
    PROVE  UserInv'
<1>1. UNCHANGED <<store, loaded, history, entity>> /\ Answer(p, Success(OnFile))
  BY DEF FindAll
<1>2. Success(OnFile).users = OnFile /\ Success(OnFile).status = "ok"
  BY DEF Success
<1>3. \A v, w \in OnFile : ~ Clash(v, w)
  BY DEF OnFile, UserInv, IdentityInv, IdentitiesUnique
<1> QED
  BY <1>1, <1>2, <1>3, AnswerUsers

\* An update holds what it made of the record on file.
LEMMA LoadUsers ==
    ASSUME UserInv, IdentityInv', NEW p \in Proc, Load(p)
    PROVE  UserInv'
<1>1. /\ phase[p] = "start" /\ req[p].op = "update"
      /\ UNCHANGED <<store, history>>
  BY DEF Load
<1>2. \A q \in Proc \ {p} : loaded'[q] = loaded[q]
  BY DEF Load, UserInv, IdentityInv, TypeOK
<1>3. CASE Refuse(p, "not_found") \/ Refuse(p, "invalid") \/ Refuse(p, "conflict")
  BY <1>1, <1>2, <1>3, RefusalUsers
<1>4. CASE /\ Stored(req[p].raw)
           /\ loaded' = [loaded EXCEPT ![p] = store[req[p].raw]]
           /\ Hold(p, ApplyUpdate(store[req[p].raw], req[p]))
  <2>1. PICK id : id = req[p].raw
    OBVIOUS
  <2>2. PICK cur : cur = store[id]
    OBVIOUS
  <2>3. PICK u : u = ApplyUpdate(cur, req[p])
    OBVIOUS
  <2>4. /\ Hold(p, u)
        /\ loaded' = [loaded EXCEPT ![p] = cur]
    BY <1>4, <2>1, <2>2, <2>3
  <2>5. id \in Id /\ cur # NoUser /\ cur.id = id
    BY <1>4, <2>1, <2>2 DEF Stored, UserInv, IdentityInv, TypeOK
  <2>6. u.id = id /\ u.version = cur.version
    BY <2>3, <2>5 DEF ApplyUpdate
  <2>7. PICK n : n = Len(history[id])
    OBVIOUS
  <2>8. n \in 1..n /\ history[id][n].to = cur
    BY <2>2, <2>5, <2>7 DEF UserInv, LastOnFile, IdentityInv, TypeOK
  <2>9. entity'[p] = u /\ loaded'[p] = cur /\ history' = history
    BY <1>1, <2>4 DEF Hold, UserInv, IdentityInv, TypeOK
  <2>10. HeldUpdate(p)'
    BY <2>5, <2>6, <2>7, <2>8, <2>9 DEF HeldUpdate
  <2>11. ASSUME NEW q \in Proc \ {p}, phase[q] = "save", req[q].op = "create"
         PROVE  entity[q].id # u.id
    <3>1. history[entity[q].id] = << >>
      BY <2>11 DEF UserInv, HeldUsers, HeldCreate
    <3>2. history[id] # << >>
      BY <2>7, <2>8
    <3> QED
      BY <2>6, <3>1, <3>2
  <2> QED
    BY <1>1, <1>2, <2>4, <2>10, <2>11, HoldUsers
<1> QED
  BY <1>3, <1>4, CheckVersionStatus DEF Load

(***************************************************************************)
(* The compare-and-set finds the very record the update was computed from, *)
(* and a create finds none: versions tell the records of an id apart until *)
(* somebody deletes one.                                                   *)
(***************************************************************************)
LEMMA SaveMatches ==
    ASSUME UserInv, NEW p \in Proc, phase[p] = "save", CompareAndSet(entity[p]),
           NEW id, id = entity[p].id, NEW n, n = Len(history[id]),
           \A k \in 1..n : history[id][k].to # NoUser
    PROVE  /\ loaded[p] = store[id]
           /\ store[id] = IF n = 0 THEN NoUser ELSE history[id][n].to
           /\ Persisted(entity[p]).version = n + 1
<1>1. id \in Id /\ entity[p] \in User
  BY DEF UserInv, IdentityInv, TypeOK, User
<1>2. n \in Nat /\ history[id] \in Seq(Write)
  BY <1>1 DEF UserInv, IdentityInv, TypeOK
<1>3. store[id] = IF n = 0 THEN NoUser ELSE history[id][n].to
  BY <1>1, <1>2 DEF UserInv, LastOnFile
<1>4. CASE req[p].op = "create"
  <2>1. HeldCreate(p)
    BY <1>4 DEF UserInv, HeldUsers
  <2>2. n = 0 /\ loaded[p] = NoUser /\ entity[p].version = 1
    BY <2>1 DEF HeldCreate, MinVersion
  <2>3. store[id] = NoUser
    BY <1>3, <2>2
  <2> QED
    BY <1>3, <2>2, <2>3 DEF Persisted
<1>5. CASE req[p].op # "create"
  <2>1. HeldUpdate(p)
    BY <1>5 DEF UserInv, HeldUsers
  <2>2. PICK k \in 1..n : history[id][k].to = loaded[p]
    BY <2>1 DEF HeldUpdate
  <2>3. \A j \in 1..n : history[id][j].to.version = j
    <3>1. ASSUME NEW j \in 1..n
          PROVE  \A i \in 1..j : history[id][i].to # NoUser
      BY <1>2
    <3> QED
      BY <1>1, <3>1 DEF UserInv, NoLostUpdate
  <2>4. n \in 1..n
    BY <1>2, <2>2
  <2>5. store[id] # NoUser /\ store[id].version = n
    BY <1>3, <2>3, <2>4
  <2>6. entity[p].version = k
    BY <2>1, <2>2, <2>3 DEF HeldUpdate
  <2>7. k = n
    BY <2>5, <2>6 DEF CompareAndSet
  <2>8. Persisted(entity[p]) = NextVersion(entity[p])
    BY <2>5 DEF Persisted
  <2> QED
    BY <1>3, <2>2, <2>4, <2>6, <2>7, <2>8 DEF NextVersion
<1> QED
  BY <1>4, <1>5

\* "exists" is told to a request that asks for what another has and its user had not.
LEMMA SaveClaims ==
    ASSUME UserInv, NEW p \in Proc, phase[p] = "save", CompareAndSet(entity[p]), Taken(entity[p])
    PROVE  Claimed(p)
<1>1. PICK u \in User : u = entity[p]
  BY DEF UserInv, IdentityInv, TypeOK
<1>2. PICK old : old = IF Deleted(u.id) THEN NoUser ELSE loaded[p]
  OBVIOUS
<1>3. PICK id \in Id \ {u.id} :
          /\ store[id] # NoUser
          /\ store[id].email = u.email \/ SameHandle(u.handle, store[id].handle)
  BY <1>1 DEF Taken
<1>4. PICK v : v = store[id]
  OBVIOUS
<1>5. PICK n : n = Len(history[id])
  OBVIOUS
<1>6. n \in 1..n /\ history[id][n].to = v
  BY <1>3, <1>4, <1>5 DEF UserInv, LastOnFile, IdentityInv, TypeOK
<1>7. u.id \in Id
  BY DEF User
<1>8. old # NoUser => old = store[u.id] /\ ~ Clash(old, v) /\ old.id # v.id
  <2> SUFFICES ASSUME old # NoUser
               PROVE  old = store[u.id] /\ ~ Clash(old, v) /\ old.id # v.id
    OBVIOUS
  <2>1. PICK m : m = Len(history[u.id])
    OBVIOUS
  <2>2. \A k \in 1..m : history[u.id][k].to # NoUser
    BY <1>2, <2>1 DEF Deleted
  <2>3. loaded[p] = store[u.id]
    BY <1>1, <2>1, <2>2, SaveMatches
  <2>4. old = store[u.id]
    BY <1>2, <2>3
  <2>5. old.id = u.id /\ v.id = id
    BY <1>3, <1>4, <1>7, <2>4 DEF UserInv, IdentityInv, TypeOK
  <2> QED
    BY <1>3, <1>4, <1>7, <2>4, <2>5 DEF UserInv, IdentityInv, IdentitiesUnique
<1>9. \/ v.email = u.email /\ (old # NoUser => old.email # u.email)
      \/ /\ u.handle # NoHandle /\ v.handle = u.handle
         /\ old # NoUser => old.handle # u.handle
  BY <1>3, <1>4, <1>8 DEF SameHandle, Clash
<1>10. Claims(u, old)
  BY <1>3, <1>4, <1>5, <1>6, <1>9 DEF Claims
<1> QED
  BY <1>1, <1>2, <1>10 DEF Claimed

\* Save writes the revision after the one it replaces, or says truly why not.
LEMMA SaveUsers ==
    ASSUME UserInv, IdentityInv', NEW p \in Proc, Save(p)
    PROVE  UserInv'
<1>1. /\ phase[p] = "save" /\ entity[p] \in User /\ entity[p] # NoUser
      /\ UNCHANGED loaded
  BY DEF Save, UserInv, IdentityInv, TypeOK
<1>2. CASE Refuse(p, "conflict") /\ UNCHANGED <<store, history>>
  BY <1>1, <1>2, RefusalUsers
<1>3. CASE /\ CompareAndSet(entity[p]) /\ Taken(entity[p])
           /\ Refuse(p, "exists") /\ UNCHANGED <<store, history>>
  <2>1. /\ Others(p) /\ phase'[p] = "done" /\ reply'[p] = Refusal("exists")
        /\ entity' = entity
    BY <1>1, <1>3 DEF Refuse, Answer, Others, UserInv, IdentityInv, TypeOK
  <2>2. Refusal("exists").users = {}
    BY DEF Refusal
  <2>3. Claimed(p)
    BY <1>1, <1>3, SaveClaims
  <2>4. Claimed(p)'
    BY <1>1, <1>3, <2>1, <2>3 DEF Claimed, Claims, Deleted
  <2> QED
    BY <1>1, <1>3, <2>1, <2>2, <2>4, CreatesStayAlone, QuietUsers
<1>4. CASE /\ CompareAndSet(entity[p])
           /\ store' = [store EXCEPT ![entity[p].id] = Persisted(entity[p])]
           /\ history' = [history EXCEPT ![entity[p].id] =
                             Append(@, [from |-> loaded[p], to |-> Persisted(entity[p])])]
           /\ entity' = [entity EXCEPT ![p] = Persisted(entity[p])]
           /\ Answer(p, Success({Persisted(entity[p])}))
  <2>1. PICK id \in Id : id = entity[p].id
    BY <1>1 DEF User
  <2>2. PICK n : n = Len(history[id])
    OBVIOUS
  <2>3. PICK stored : stored = Persisted(entity[p])
    OBVIOUS
  <2>4. PICK w : w = [from |-> loaded[p], to |-> stored]
    OBVIOUS
  <2>5. /\ history' = [history EXCEPT ![id] = Append(@, w)]
        /\ store' = [store EXCEPT ![id] = w.to]
        /\ entity' = [entity EXCEPT ![p] = stored]
        /\ Answer(p, Success({stored}))
    BY <1>4, <2>1, <2>3, <2>4
  <2>6. stored \in User /\ stored.id = id
    BY <1>1, <2>1, <2>3, PersistedCanonical DEF UserInv, IdentityInv
  <2>7. w \in Write /\ w.from = loaded[p] /\ w.to = stored
    BY <2>4, <2>6 DEF Write, UserInv, IdentityInv, TypeOK
  <2>8. Follows(id, w)
    BY <1>1, <1>4, <2>1, <2>2, <2>3, <2>7, SaveMatches DEF Follows
  <2>9. /\ Others(p) /\ phase'[p] = "done" /\ reply'[p] = Success({stored})
        /\ entity'[p] = stored
    BY <1>1, <2>5 DEF Answer, Others, UserInv, IdentityInv, TypeOK
  <2>10. reply'[p].users = {stored} /\ reply'[p].status = "ok"
    BY <2>9 DEF Success
  <2>11. \A u, v \in reply'[p].users : ~ Clash(u, v)
    BY <2>10 DEF Clash
  <2>12. NotCreated(p, id)
    BY <1>1, <2>1, CreatesStayAlone DEF NotCreated
  <2>13. entity'[p] # NoUser => entity[p] # NoUser /\ entity'[p].id = entity[p].id
    BY <1>1, <2>1, <2>6, <2>9
  <2>14. w \in Write /\ phase'[p] = "done" /\ Others(p) /\ reply'[p].status = "ok"
    BY <2>7, <2>9, <2>10
  <2>15. /\ history' = [history EXCEPT ![id] = Append(@, w)]
         /\ store' = [store EXCEPT ![id] = w.to]
    BY <2>5
  <2> QED
    BY <2>8, <2>11, <2>12, <2>13, <2>14, <2>15, GrowUsers
<1> QED
  BY <1>2, <1>3, <1>4 DEF Save

\* A deletion ends what the versions of its user can tell.
LEMMA DeleteUsers ==
    ASSUME UserInv, IdentityInv', NEW p \in Proc, Delete(p)
    PROVE  UserInv'
<1>1. /\ phase[p] = "start" /\ req[p].raw \in Id
      /\ Answer(p, Success({})) /\ UNCHANGED <<entity, loaded>>
      /\ entity[p] = NoUser
  BY RequestShape DEF Delete, UserInv, StartsEmpty, IdentityInv, TypeOK
<1>2. Success({}).users = {} /\ Success({}).status = "ok"
  BY DEF Success
<1>3. CASE UNCHANGED <<store, history>>
  BY <1>1, <1>2, <1>3, AnswerUsers
<1>4. CASE Stored(req[p].raw)
  <2>1. PICK id \in Id : id = req[p].raw
    BY <1>1
  <2>2. PICK w : w = [from |-> store[id], to |-> NoUser]
    OBVIOUS
  <2>3. w \in Write /\ w.to = NoUser
    BY <2>2 DEF Write, UserInv, IdentityInv, TypeOK
  <2>4. /\ history' = [history EXCEPT ![id] = Append(@, w)]
        /\ store' = [store EXCEPT ![id] = w.to]
    BY <1>4, <2>1, <2>2, <2>3 DEF Delete
  <2>5. /\ Others(p) /\ phase'[p] = "done" /\ reply'[p] = Success({})
        /\ entity'[p] = NoUser
    BY <1>1 DEF Answer, Others, UserInv, IdentityInv, TypeOK
  <2>6. NotCreated(p, id)
    <3>1. history[id] # << >>
      BY <1>4, <2>1 DEF Stored, UserInv, LastOnFile
    <3> QED
      BY <3>1 DEF NotCreated, UserInv, HeldUsers, HeldCreate
  <2>7. reply'[p].users = {} /\ reply'[p].status = "ok"
    BY <1>2, <2>5
  <2>8. \A u, v \in reply'[p].users : ~ Clash(u, v)
    BY <2>7
  <2>9. entity'[p] # NoUser => entity[p] # NoUser /\ entity'[p].id = entity[p].id
    BY <2>5
  <2>10. Follows(id, w)
    BY <2>3 DEF Follows
  <2> QED
    BY <2>3, <2>4, <2>5, <2>6, <2>7, <2>8, <2>9, <2>10, GrowUsers
<1> QED
  BY <1>3, <1>4 DEF Delete

\* Every step keeps the invariant.
LEMMA UserNext == UserInv /\ [Next]_vars => UserInv'
<1> SUFFICES ASSUME UserInv, [Next]_vars
             PROVE  UserInv'
  OBVIOUS
<1>1. IdentityInv'
  BY IdentityNext DEF UserInv
<1>2. CASE UNCHANGED <<store, phase, req, entity, reply, loaded, history>>
  BY <1>1, <1>2
     DEF UserInv, LastOnFile, StartsEmpty, HeldUsers, HeldCreate, HeldUpdate, NoLostUpdate,
         ListsAreConsistent, ExistsIsOfAUser, ExistsMeansClaimed
<1>3. ASSUME NEW p \in Proc, Decode(p)
      PROVE  UserInv'
  BY <1>2, <1>3 DEF Decode
<1>4. CASE UNCHANGED vars
  BY <1>2, <1>4 DEF vars
<1> QED
  BY <1>1, <1>3, <1>4, AcceptUsers, CreateUsers, FindUsers, FindAllUsers, LoadUsers, SaveUsers,
     DeleteUsers DEF Next, Serve, Quiescent

\* The inductive invariant: the history, what goroutines hold of it and what
\* they answered agree, with callers of Delete or without.
THEOREM UsersSafe == Spec => []UserInv
BY UserInit, UserNext, PTL DEF Spec

(***************************************************************************)
(* No accepted update of a user overwrites one it was not computed from,   *)
(* unless the user was deleted in between.                                 *)
(***************************************************************************)
THEOREM NoUpdateIsLost == Spec => []NoLostUpdate
<1>1. UserInv => NoLostUpdate
  BY DEF UserInv
<1> QED
  BY <1>1, UsersSafe, PTL

(***************************************************************************)
(* No list a client was given shows two users with one address or handle.  *)
(***************************************************************************)
THEOREM ListsStayConsistent == Spec => []ListsAreConsistent
<1>1. UserInv => ListsAreConsistent
  BY DEF UserInv
<1> QED
  BY <1>1, UsersSafe, PTL

(***************************************************************************)
(* "exists" always names a real rival: another user has had the address or *)
(* handle, and the user written did not.                                   *)
(***************************************************************************)
THEOREM ExistsIsReal == Spec => []ExistsMeansClaimed
<1>1. UserInv => ExistsMeansClaimed
  BY DEF UserInv
<1> QED
  BY <1>1, UsersSafe, PTL
=============================================================================
