----------------------- MODULE CharacterServiceProofs -----------------------
(***************************************************************************)
(* Proofs about CharacterService, for any number of goroutines, ids,       *)
(* sections and requests.                                                  *)
(***************************************************************************)
EXTENDS CharacterService, TLAPS

-----------------------------------------------------------------------------
(* What the mapper makes of a sheet.                                       *)

(***************************************************************************)
(* A request of a given kind carries that kind's fields.                   *)
(***************************************************************************)
LEMMA RequestShape ==
    ASSUME NEW r \in Requests
    PROVE  /\ r.op = "create" => r.doc \in Sheet \cup {Omitted}
           /\ r.op = "update" => /\ r.raw \in RawId
                                 /\ r.expected \in Nat \cup {NoVersion}
                                 /\ r.doc \in Sheet \cup {Omitted}
           /\ r.op = "patch" => /\ r.raw \in RawId
                                /\ r.expected \in Nat \cup {NoVersion}
                                /\ r.doc \in Patch \cup {Omitted, NotObject}
           /\ r.op = "find" => r.raw \in RawId
<1>1. r \in Request
  BY RequestsAssumption
<1>2. CASE r \in CreateRequest
  BY <1>2 DEF CreateRequest
<1>3. CASE r \in UpdateRequest
  BY <1>3 DEF UpdateRequest
<1>4. CASE r \in PatchRequest
  BY <1>4 DEF PatchRequest
<1>5. CASE r \in FindRequest
  BY <1>5 DEF FindRequest
<1> QED
  BY <1>1, <1>2, <1>3, <1>4, <1>5 DEF Request

(***************************************************************************)
(* An accepted edit turns a sheet into a sheet, and a valid one into a     *)
(* valid one: the gate of ApplyCharacterUpdateRequest and                  *)
(* ApplyCharacterPatchRequest stands before every result but the old sheet.*)
(***************************************************************************)
LEMMA EditResultSheet ==
    ASSUME NEW r \in Requests, r.op \in {"update", "patch"},
           NEW sheet \in Sheet, EditAccepts(sheet, r)
    PROVE  /\ EditResult(sheet, r) \in Sheet
           /\ ValidSheet(sheet) => ValidSheet(EditResult(sheet, r))
<1>1. CASE r.op = "update"
  BY <1>1, RequestShape DEF EditAccepts, EditResult, UpdateAccepts, UpdateResult
<1>2. CASE r.op = "patch" /\ r.doc = Omitted
  BY <1>2 DEF EditResult, PatchResult
<1>3. CASE r.op = "patch" /\ r.doc # Omitted
  <2>1. /\ r.doc \in Patch
        /\ ValidSheet(MergePatch(sheet, r.doc))
    BY <1>3, RequestShape DEF EditAccepts, PatchAccepts
  <2>2. MergePatch(sheet, r.doc) \in Sheet
    <3>1. ASSUME NEW s \in Section
          PROVE (IF r.doc[s] = Untouched THEN sheet[s] ELSE r.doc[s]) \in Value \cup {Absent}
      BY <2>1 DEF Patch, Sheet
    <3> QED
      BY <3>1 DEF MergePatch, Sheet
  <2> QED
    BY <1>3, <2>1, <2>2 DEF EditResult, PatchResult
<1> QED
  BY <1>1, <1>2, <1>3

-----------------------------------------------------------------------------
(* Type correctness.                                                       *)

\* Both kinds of answer are answers.
LEMMA ReplyTypes ==
    /\ \A status \in Status : Refusal(status) \in Reply
    /\ \A e \in Entity : Success(e) \in Reply
    /\ NoReply \in Reply
BY DEF Refusal, Success, NoReply, Reply, Status

\* The version check ends in a status.
LEMMA CheckVersionStatus ==
    ASSUME NEW expected, NEW actual
    PROVE  CheckVersion(expected, actual) \in {"ok", "invalid", "conflict"}
BY DEF CheckVersion

\* The empty repository is well typed.
LEMMA TypeInit == Init => TypeOK
BY ReplyTypes DEF Init, TypeOK

(***************************************************************************)
(* The two ways a request ends or goes on, as far as types go.             *)
(***************************************************************************)
LEMMA AnswerTypes ==
    ASSUME TypeOK, NEW p \in Proc, NEW r \in Reply, phase[p] # "idle", Answer(p, r)
    PROVE  /\ reply' \in [Proc -> Reply]
           /\ phase' \in [Proc -> {"idle", "start", "save", "done"}]
           /\ req' \in [Proc -> Requests \cup {NoRequest}]
           /\ \A q \in Proc : phase'[q] = "save" => q # p /\ phase[q] = "save"
           /\ \A q \in Proc : phase'[q] # "idle" => req'[q] \in Requests
BY DEF TypeOK, Answer

\* What the mapper makes of a request or a loaded character is one.
LEMMA HoldTypes ==
    ASSUME TypeOK, NEW p \in Proc, NEW e \in Entity, phase[p] # "idle", Hold(p, e)
    PROVE  /\ entity' \in [Proc -> Entity \cup {NoEntity}]
           /\ reply' \in [Proc -> Reply]
           /\ phase' \in [Proc -> {"idle", "start", "save", "done"}]
           /\ req' \in [Proc -> Requests \cup {NoRequest}]
           /\ \A q \in Proc : phase'[q] = "save" => entity'[q] # NoEntity
           /\ \A q \in Proc : phase'[q] # "idle" => req'[q] \in Requests
BY NoEntityAssumption DEF TypeOK, Hold

\* What Save stores is a character.
LEMMA PersistedEntity ==
    ASSUME NEW e \in Entity
    PROVE  Persisted(e) \in Entity
BY DEF Persisted, Entity, Version, NextVersion

\* A goroutine that is serving serves one of the requests.
LEMMA ServedRequest ==
    ASSUME TypeOK, NEW p \in Proc, req[p].op \in {"create", "find", "update", "patch"}
    PROVE  req[p] \in Requests
BY DEF TypeOK, NoRequest

\* Every step keeps the types.
LEMMA TypeNext == TypeOK /\ [Next]_vars => TypeOK'
<1> SUFFICES ASSUME TypeOK, [Next]_vars
             PROVE  TypeOK'
  OBVIOUS
<1>1. ASSUME NEW p \in Proc, Accept(p)
      PROVE  TypeOK'
  BY <1>1, ReplyTypes DEF Accept, TypeOK, repository
<1>2. ASSUME NEW p \in Proc, Create(p)
      PROVE  TypeOK'
  <2>1. CASE CreateAccepts(req[p].doc)
    <3>1. PICK id \in Id : Hold(p, NewCharacter(id, req[p].doc))
      BY <1>2, <2>1 DEF Create
    <3>2. NewCharacter(id, req[p].doc) \in Entity
      BY <1>2, <2>1, ServedRequest, RequestShape
         DEF Create, CreateAccepts, NewCharacter, Entity, Version, MinVersion
    <3> QED
      BY <1>2, <3>1, <3>2, HoldTypes DEF Create, TypeOK, repository, arrivals
  <2>2. CASE ~ CreateAccepts(req[p].doc)
    BY <1>2, <2>2, ReplyTypes, AnswerTypes DEF Create, Refuse, TypeOK, repository, arrivals, Status
  <2> QED
    BY <2>1, <2>2
<1>3. ASSUME NEW p \in Proc, Find(p)
      PROVE  TypeOK'
  <2>1. PICK r \in Reply : Answer(p, r) /\ UNCHANGED entity
    BY <1>3, ReplyTypes DEF Find, Refuse, Stored, TypeOK, Status
  <2> QED
    BY <1>3, <2>1, AnswerTypes DEF Find, TypeOK, repository, arrivals
<1>4. ASSUME NEW p \in Proc, Load(p)
      PROVE  TypeOK'
  <2> DEFINE r == req[p]
             cur == store[r.raw]
             check == CheckVersion(r.expected, cur.version)
  <2>1. r \in Requests /\ r.op \in {"update", "patch"}
    BY <1>4, ServedRequest DEF Load
  <2>2. loaded' \in [Proc -> Entity \cup {NoEntity}]
    BY <1>4 DEF Load, Stored, TypeOK
  <2>3. CASE \E status \in Status : Refuse(p, status)
    <3>1. PICK status \in Status : Refuse(p, status)
      BY <2>3
    <3> QED
      BY <1>4, <2>2, <3>1, ReplyTypes, AnswerTypes DEF Load, Refuse, TypeOK, repository, arrivals
  <2>4. CASE /\ Stored(r.raw)
             /\ EditAccepts(cur.sheet, r)
             /\ Hold(p, ReplaceSheet(cur, EditResult(cur.sheet, r)))
    <3>1. cur \in Entity
      BY <2>4 DEF Stored, TypeOK
    <3>2. EditResult(cur.sheet, r) \in Sheet
      BY <2>1, <2>4, <3>1, EditResultSheet DEF Entity
    <3>3. ReplaceSheet(cur, EditResult(cur.sheet, r)) \in Entity
      BY <3>1, <3>2 DEF ReplaceSheet, Entity
    <3> QED
      BY <1>4, <2>2, <2>4, <3>3, HoldTypes DEF Load, TypeOK, repository, arrivals
  <2> QED
    BY <1>4, <2>3, <2>4, CheckVersionStatus DEF Load, Status
<1>5. ASSUME NEW p \in Proc, Save(p)
      PROVE  TypeOK'
  <2> DEFINE e == entity[p]
             w == [serial |-> serial[p], req |-> req[p], from |-> loaded[p], sheet |-> e.sheet]
  <2>1. e \in Entity /\ phase[p] = "save"
    BY <1>5 DEF Save, TypeOK
  <2>2. CASE CompareAndSet(e)
    <3>1. Persisted(e) \in Entity
      BY <2>1, PersistedEntity
    <3>2. /\ store' = [store EXCEPT ![e.id] = Persisted(e)]
          /\ history' = [history EXCEPT ![e.id] = Append(@, w)]
          /\ entity' = [entity EXCEPT ![p] = Persisted(e)]
          /\ Answer(p, Success(Persisted(e)))
          /\ UNCHANGED <<loaded, arrivals>>
      BY <1>5, <2>2 DEF Save
    <3>3. w \in Write
      BY <2>1 DEF TypeOK, Write, Entity
    <3> QED
      BY <2>1, <3>1, <3>2, <3>3, ReplyTypes, AnswerTypes, NoEntityAssumption
         DEF TypeOK, arrivals, Entity
  <2>3. CASE ~ CompareAndSet(e)
    BY <1>5, <2>3, ReplyTypes, AnswerTypes DEF Save, Refuse, TypeOK, repository, arrivals, Status
  <2> QED
    BY <2>2, <2>3
<1>6. CASE UNCHANGED vars
  BY <1>6 DEF TypeOK, vars
<1> QED
  BY <1>1, <1>2, <1>3, <1>4, <1>5, <1>6 DEF Next, Serve, Quiescent

(***************************************************************************)
(* Type correctness: whatever the interleaving, every goroutine holds what *)
(* its phase says and the map and its history keep their shape.            *)
(***************************************************************************)
THEOREM TypeCorrect == Spec => []TypeOK
<1>1. Init => TypeOK
  BY TypeInit
<1>2. TypeOK /\ [Next]_vars => TypeOK'
  BY TypeNext
<1> QED
  BY <1>1, <1>2, PTL DEF Spec

-----------------------------------------------------------------------------
(* The history, and what the goroutines hold of it.                        *)

\* Appending a write to a history leaves the earlier writes alone.
LEMMA HistoryGrows ==
    ASSUME TypeOK, NEW id \in Id, NEW w \in Write,
           history' = [history EXCEPT ![id] = Append(@, w)]
    PROVE  /\ Len(history'[id]) = Len(history[id]) + 1
           /\ history'[id][Len(history[id]) + 1] = w
           /\ \A k \in 1..Len(history[id]) : history'[id][k] = history[id][k]
           /\ \A i \in Id : i # id => history'[i] = history[i]
BY DEF TypeOK

\* Every write of a history is a revision.
LEMMA RevisionEntity ==
    ASSUME TypeOK, NEW id \in Id, NEW k \in 1..Len(history[id])
    PROVE  /\ Revision(id, k) \in Entity
           /\ Revision(id, k) # NoEntity
<1>1. history[id][k] \in Write
  BY DEF TypeOK
<1>2. history[id][k].sheet \in Sheet /\ k \in Version
  BY <1>1 DEF Write, Version, TypeOK
<1> QED
  BY <1>2, NoEntityAssumption DEF Revision, Entity

\* The empty repository satisfies the invariant.
LEMMA RepositoryInit == Init => RepositoryInv
<1> SUFFICES ASSUME Init
             PROVE  RepositoryInv
  OBVIOUS
<1>1. TypeOK
  BY TypeInit
<1>2. StartsEmpty /\ HeldEdits /\ HeldCreates
  BY DEF Init, StartsEmpty, HeldEdits, HeldCreates
<1>3. \A id \in Id : history[id] = << >> /\ store[id] = NoEntity
  BY DEF Init
<1> QED
  BY <1>1, <1>2, <1>3 DEF RepositoryInv, VersionCountsWrites, NoLostUpdate,
     ConditionalWriteHonoured, StoredSheetsAreValid

(***************************************************************************)
(* A step that leaves the map alone leaves every fact about it alone.      *)
(***************************************************************************)
LEMMA RepositoryUnchanged ==
    ASSUME RepositoryInv, UNCHANGED repository
    PROVE  /\ VersionCountsWrites'
           /\ NoLostUpdate'
           /\ ConditionalWriteHonoured'
           /\ StoredSheetsAreValid'
           /\ \A id, k : Revision(id, k)' = Revision(id, k)
BY DEF repository, RepositoryInv, VersionCountsWrites, NoLostUpdate, ConditionalWriteHonoured,
       StoredSheetsAreValid, Revision

(***************************************************************************)
(* What the other goroutines hold is not disturbed by one that answers, or *)
(* forgets its aggregate, without touching the map.                        *)
(***************************************************************************)
LEMMA HeldByOthers ==
    ASSUME RepositoryInv, TypeOK', UNCHANGED repository, NEW p \in Proc,
           phase'[p] # "save",
           phase'[p] = "start" => loaded'[p] = NoEntity /\ entity'[p] = NoEntity,
           entity'[p] \in {entity[p], NoEntity},
           \A q \in Proc \ {p} : /\ phase'[q] = phase[q]
                                /\ req'[q] = req[q]
                                /\ entity'[q] = entity[q]
                                /\ loaded'[q] = loaded[q]
    PROVE  StartsEmpty' /\ HeldEdits' /\ HeldCreates'
<1>1. HeldEdits'
  BY RepositoryUnchanged DEF RepositoryInv, HeldEdits, HeldEdit, repository
<1>2. HeldCreates'
  BY DEF RepositoryInv, HeldCreates, HeldCreate, repository
<1>3. StartsEmpty'
  BY DEF RepositoryInv, StartsEmpty
<1> QED
  BY <1>1, <1>2, <1>3

\* A new request finds the repository as it was.
LEMMA AcceptKeeps ==
    ASSUME RepositoryInv, TypeOK', NEW p \in Proc, Accept(p)
    PROVE  RepositoryInv'
<1>1. StartsEmpty' /\ HeldEdits' /\ HeldCreates'
  BY HeldByOthers DEF Accept, RepositoryInv, TypeOK
<1> QED
  BY <1>1, RepositoryUnchanged DEF Accept, RepositoryInv

\* A refusal writes nothing.
LEMMA RefuseKeeps ==
    ASSUME RepositoryInv, TypeOK', NEW p \in Proc, NEW r, Answer(p, r),
           UNCHANGED <<entity, repository>>,
           \A q \in Proc \ {p} : loaded'[q] = loaded[q]
    PROVE  RepositoryInv'
<1>1. StartsEmpty' /\ HeldEdits' /\ HeldCreates'
  BY HeldByOthers DEF Answer, RepositoryInv, TypeOK
<1> QED
  BY <1>1, RepositoryUnchanged DEF RepositoryInv

\* A create holds an id nobody has.
LEMMA CreateKeeps ==
    ASSUME RepositoryInv, TypeOK', NEW p \in Proc, Create(p)
    PROVE  RepositoryInv'
<1>1. CASE CreateAccepts(req[p].doc)
  <2>1. PICK id \in Id : Fresh(id) /\ Hold(p, NewCharacter(id, req[p].doc))
    BY <1>1 DEF Create
  <2> DEFINE e == NewCharacter(id, req[p].doc)
  <2>2. /\ e.id = id /\ e.version = MinVersion
        /\ ValidSheet(e.sheet)
    BY <1>1 DEF NewCharacter, CreateAccepts
  <2>3. /\ entity' = [entity EXCEPT ![p] = e]
        /\ phase' = [phase EXCEPT ![p] = "save"]
        /\ UNCHANGED <<req, loaded, repository>>
        /\ req[p].op = "create"
        /\ loaded[p] = NoEntity
    BY <2>1 DEF Create, Hold, RepositoryInv, StartsEmpty
  <2>4. HeldEdits'
    BY <2>3, RepositoryUnchanged DEF RepositoryInv, HeldEdits, HeldEdit, repository, TypeOK
  <2>5. HeldCreates'
    BY <2>1, <2>2, <2>3 DEF RepositoryInv, HeldCreates, HeldCreate, repository, TypeOK, Fresh
  <2>6. StartsEmpty'
    BY <2>3 DEF RepositoryInv, StartsEmpty, TypeOK
  <2> QED
    BY <2>3, <2>4, <2>5, <2>6, RepositoryUnchanged DEF RepositoryInv
<1>2. CASE ~ CreateAccepts(req[p].doc)
  BY <1>2, RefuseKeeps DEF Create, Refuse
<1> QED
  BY <1>1, <1>2

\* A read writes nothing.
LEMMA FindKeeps ==
    ASSUME RepositoryInv, TypeOK', NEW p \in Proc, Find(p)
    PROVE  RepositoryInv'
<1>1. \E r : Answer(p, r) /\ UNCHANGED entity
  BY DEF Find, Refuse
<1> QED
  BY <1>1, RefuseKeeps DEF Find

\* An edit holds a revision that is on file, edited through the gate.
LEMMA LoadKeeps ==
    ASSUME RepositoryInv, TypeOK', NEW p \in Proc, Load(p)
    PROVE  RepositoryInv'
<1> DEFINE r == req[p]
           cur == store[r.raw]
           check == CheckVersion(r.expected, cur.version)
           e == ReplaceSheet(cur, EditResult(cur.sheet, r))
<1>1. r \in Requests /\ r.op \in {"update", "patch"}
  BY ServedRequest DEF Load, RepositoryInv
<1>2. \A q \in Proc \ {p} : loaded'[q] = loaded[q]
  BY DEF Load, RepositoryInv, TypeOK
<1>3. CASE \E status : Refuse(p, status)
  BY <1>2, <1>3, RefuseKeeps DEF Load, Refuse
<1>4. CASE /\ Stored(r.raw)
           /\ check = "ok"
           /\ EditAccepts(cur.sheet, r)
           /\ loaded' = [loaded EXCEPT ![p] = cur]
           /\ Hold(p, e)
  <2>1. cur \in Entity /\ cur # NoEntity /\ r.raw \in Id
    BY <1>4 DEF RepositoryInv, TypeOK, Stored
  <2>2. /\ cur = Revision(cur.id, cur.version)
        /\ cur.version \in 1..Len(history[cur.id])
        /\ cur.id = r.raw
    <3>1. cur = Revision(r.raw, Len(history[r.raw])) /\ history[r.raw] # << >>
      BY <2>1 DEF RepositoryInv, VersionCountsWrites
    <3>2. Len(history[r.raw]) \in 1..Len(history[r.raw])
      BY <2>1, <3>1 DEF RepositoryInv, TypeOK
    <3> QED
      BY <3>1, <3>2 DEF Revision
  <2>3. ValidSheet(e.sheet) /\ e.id = cur.id /\ e.version = cur.version
    <3>1. ValidSheet(cur.sheet)
      BY <2>1 DEF RepositoryInv, StoredSheetsAreValid
    <3> QED
      BY <1>1, <1>4, <2>1, <3>1, EditResultSheet DEF ReplaceSheet, Entity
  <2>4. r.expected \in {NoVersion, cur.version}
    BY <1>4 DEF CheckVersion
  <2>5. /\ entity' = [entity EXCEPT ![p] = e]
        /\ phase' = [phase EXCEPT ![p] = "save"]
        /\ loaded' = [loaded EXCEPT ![p] = cur]
        /\ UNCHANGED <<req, repository>>
    BY <1>4 DEF Load, Hold
  <2>6. HeldEdits'
    <3> SUFFICES ASSUME NEW q \in Proc, phase'[q] = "save" /\ req'[q].op # "create"
                 PROVE  HeldEdit(q)'
      BY DEF HeldEdits
    <3>1. CASE q = p
      <4>1. entity'[p] = e /\ loaded'[p] = cur /\ req' = req /\ history' = history
        BY <1>1, <2>5 DEF RepositoryInv, TypeOK, repository
      <4>2. req[p] = r /\ r.op \in {"update", "patch"}
        BY <1>1 DEF Load
      <4>3. PICK c, f : c = cur /\ f = e
        OBVIOUS
      <4>4. /\ entity'[p] = f /\ loaded'[p] = c /\ req'[p] = r
            /\ history' = history
        BY <4>1, <4>2, <4>3
      <4>5. /\ c # NoEntity /\ c.version \in 1..Len(history[c.id])
            /\ c = Revision(c.id, c.version)
            /\ r.expected \in {NoVersion, c.version}
            /\ f.id = c.id /\ f.version = c.version /\ ValidSheet(f.sheet)
        BY <2>1, <2>2, <2>3, <2>4, <4>3
      <4>6. Revision(c.id, c.version)' = Revision(c.id, c.version)
        BY <4>4 DEF Revision
      <4> QED
        BY <3>1, <4>2, <4>4, <4>5, <4>6 DEF HeldEdit
    <3>2. CASE q # p
      BY <3>2, <2>5, RepositoryUnchanged DEF RepositoryInv, HeldEdits, HeldEdit, repository, TypeOK
    <3> QED
      BY <3>1, <3>2
  <2>7. HeldCreates'
    <3> SUFFICES ASSUME NEW q \in Proc, phase'[q] = "save" /\ req'[q].op = "create"
                 PROVE  HeldCreate(q)'
      BY DEF HeldCreates
    <3>1. /\ q # p
          /\ phase[q] = "save" /\ req[q].op = "create"
          /\ entity'[q] = entity[q] /\ loaded'[q] = loaded[q]
      BY <1>1, <2>5 DEF RepositoryInv, TypeOK
    <3>2. HeldCreate(q)
      BY <3>1 DEF RepositoryInv, HeldCreates
    <3>3. e.id # entity[q].id
      BY <2>1, <2>2, <2>3, <3>2 DEF HeldCreate
    <3>4. entity'[p] = e /\ store' = store /\ \A o \in Proc \ {p} : entity'[o] = entity[o]
      BY <1>1, <2>5 DEF RepositoryInv, TypeOK, repository
    <3> QED
      BY <3>1, <3>2, <3>3, <3>4 DEF HeldCreate
  <2>8. StartsEmpty'
    BY <2>5 DEF RepositoryInv, StartsEmpty, TypeOK
  <2> QED
    BY <2>5, <2>6, <2>7, <2>8, RepositoryUnchanged DEF RepositoryInv
<1> QED
  BY <1>3, <1>4 DEF Load

(***************************************************************************)
(* Save is where the history grows: by a write computed from the last one  *)
(* of its character, because the compare-and-set holds and revisions are   *)
(* counted.                                                                *)
(***************************************************************************)
LEMMA SaveKeeps ==
    ASSUME RepositoryInv, TypeOK', NEW p \in Proc, Save(p)
    PROVE  RepositoryInv'
<1> DEFINE e == entity[p]
           id == e.id
           n == Len(history[id])
           stored == Persisted(e)
           w == [serial |-> serial[p], req |-> req[p], from |-> loaded[p], sheet |-> e.sheet]
<1>1. /\ phase[p] = "save" /\ req[p] \in Requests
      /\ e \in Entity /\ e # NoEntity /\ id \in Id
  BY DEF Save, RepositoryInv, TypeOK, Entity
<1>2. CASE ~ CompareAndSet(e)
  BY <1>2, RefuseKeeps DEF Save, Refuse
<1>3. CASE CompareAndSet(e)
  <2>1. /\ store' = [store EXCEPT ![id] = stored]
        /\ history' = [history EXCEPT ![id] = Append(@, w)]
        /\ entity' = [entity EXCEPT ![p] = stored]
        /\ phase' = [phase EXCEPT ![p] = "done"]
        /\ UNCHANGED <<req, loaded>>
    BY <1>3 DEF Save, Answer
  <2>2. w \in Write
    BY <1>1 DEF RepositoryInv, TypeOK, Write, Entity
  <2>3. /\ n \in Nat
        /\ Len(history'[id]) = n + 1
        /\ history'[id][n + 1] = w
        /\ \A k \in 1..n : history'[id][k] = history[id][k]
        /\ \A i \in Id : i # id => history'[i] = history[i]
    BY <1>1, <2>1, <2>2, HistoryGrows DEF RepositoryInv, TypeOK
  <2>4. ASSUME NEW i \in Id, NEW k \in 1..Len(history[i])
        PROVE  /\ k \in 1..Len(history'[i])
               /\ history'[i][k] = history[i][k]
               /\ Revision(i, k)' = Revision(i, k)
    <3>1. /\ k \in 1..Len(history'[i])
          /\ history'[i][k] = history[i][k]
      BY <2>3
    <3> QED
      BY <3>1 DEF Revision
  \* The write is of the next revision, from the last one.
  <2>5. /\ stored = [id |-> id, version |-> n + 1, sheet |-> e.sheet]
        /\ loaded[p] = IF n = 0 THEN NoEntity ELSE Revision(id, n)
        /\ req[p].op \in {"update", "patch"} /\ req[p].expected # NoVersion
              => n = req[p].expected
        /\ ValidSheet(e.sheet)
    <3>1. CASE req[p].op = "create"
      <4>1. HeldCreate(p)
        BY <1>1, <3>1 DEF RepositoryInv, HeldCreates
      <4>2. history[id] = << >>
        <5>1. store[id] = NoEntity
          BY <4>1 DEF HeldCreate
        <5>2. ASSUME n \in Nat \ {0}
              PROVE  FALSE
          <6>1. store[id] = Revision(id, n) /\ n \in 1..n
            BY <1>1, <5>2 DEF RepositoryInv, VersionCountsWrites
          <6> QED
            BY <1>1, <5>1, <6>1, RevisionEntity DEF RepositoryInv
        <5> QED
          BY <1>1, <2>3, <5>2 DEF RepositoryInv, TypeOK
      <4> QED
        BY <1>1, <3>1, <4>1, <4>2 DEF HeldCreate, Persisted, Entity, MinVersion
    <3>2. CASE req[p].op # "create"
      <4>1. HeldEdit(p)
        BY <1>1, <3>2 DEF RepositoryInv, HeldEdits
      <4>2. n \in Nat \ {0} /\ store[id] = Revision(id, n)
        BY <1>1, <2>3, <4>1 DEF HeldEdit, RepositoryInv, VersionCountsWrites
      <4>3. store[id] # NoEntity /\ store[id].version = n
        <5>1. n \in 1..Len(history[id])
          BY <4>2
        <5> QED
          BY <1>1, <4>2, <5>1, RevisionEntity DEF RepositoryInv, Revision
      <4>4. e.version = n
        BY <1>3, <4>3 DEF CompareAndSet
      <4> QED
        BY <1>1, <3>2, <4>1, <4>3, <4>4 DEF HeldEdit, Persisted, NextVersion, Entity, Version
    <3> QED
      BY <3>1, <3>2
  <2>6. VersionCountsWrites'
    <3>1. store'[id] = [id |-> id, version |-> n + 1, sheet |-> history'[id][n + 1].sheet]
      <4>1. store'[id] = [id |-> id, version |-> n + 1, sheet |-> e.sheet]
        BY <1>1, <2>1, <2>5 DEF RepositoryInv, TypeOK
      <4>2. history'[id][n + 1].sheet = e.sheet
        BY <2>3
      <4> QED
        BY <4>1, <4>2
    <3>2. history'[id] # << >>
      BY <2>3
    <3>3. ASSUME NEW i \in Id, i # id
          PROVE  store'[i] = store[i] /\ history'[i] = history[i]
      BY <2>1, <2>3, <3>3 DEF RepositoryInv, TypeOK
    <3>4. ASSUME NEW i \in Id
          PROVE  store'[i] = IF history'[i] = << >> THEN NoEntity
                             ELSE Revision(i, Len(history[i]))'
      <4>1. CASE i = id
        BY <2>3, <3>1, <3>2, <4>1 DEF Revision
      <4>2. CASE i # id
        BY <3>3, <4>2 DEF RepositoryInv, VersionCountsWrites, Revision
      <4> QED
        BY <4>1, <4>2
    <3> QED
      BY <3>4 DEF VersionCountsWrites
  <2>7. NoLostUpdate'
    <3> SUFFICES ASSUME NEW i \in Id, NEW k \in (1..Len(history[i]))'
                 PROVE  history'[i][k].from = IF k = 1 THEN NoEntity ELSE Revision(i, k - 1)'
      BY DEF NoLostUpdate
    <3>1. CASE k \in 1..Len(history[i])
      <4>1. history[i][k].from = IF k = 1 THEN NoEntity ELSE Revision(i, k - 1)
        BY <3>1 DEF RepositoryInv, NoLostUpdate
      <4>2. k # 1 => k - 1 \in 1..Len(history[i])
        BY <3>1, Len(history[i]) \in Nat DEF RepositoryInv, TypeOK
      <4> QED
        BY <2>4, <3>1, <4>1, <4>2
    <3>2. CASE i = id /\ k = n + 1
      <4>1. history'[i][k].from = loaded[p]
        BY <2>3, <3>2
      <4>2. CASE n = 0
        BY <2>5, <3>2, <4>1, <4>2
      <4>3. CASE n # 0
        <5>1. n \in 1..Len(history[id]) /\ k - 1 = n /\ k # 1
          BY <2>3, <3>2, <4>3
        <5>2. Revision(i, k - 1)' = Revision(id, n)
          BY <1>1, <2>4, <3>2, <5>1
        <5> QED BY <2>5, <4>1, <4>3, <5>1, <5>2
      <4> QED BY <4>2, <4>3
    <3> QED
      BY <2>3, <3>1, <3>2
  <2>8. ConditionalWriteHonoured'
    <3> SUFFICES ASSUME NEW i \in Id, NEW k \in (1..Len(history[i]))',
                        history'[i][k].req.op \in {"update", "patch"},
                        history'[i][k].req.expected # NoVersion
                 PROVE  k = history'[i][k].req.expected + 1
      BY DEF ConditionalWriteHonoured
    <3>1. CASE k \in 1..Len(history[i])
      BY <2>4, <3>1 DEF RepositoryInv, ConditionalWriteHonoured
    <3>2. CASE i = id /\ k = n + 1
      <4>1. w.req = req[p]
        OBVIOUS
      <4>2. history'[i][k].req = req[p]
        BY <2>3, <3>2, <4>1
      <4> QED
        BY <2>5, <3>2, <4>2
    <3> QED
      BY <2>3, <3>1, <3>2
  <2>9. StoredSheetsAreValid'
    BY <1>1, <2>1, <2>5 DEF RepositoryInv, StoredSheetsAreValid, TypeOK
  <2>10. HeldEdits'
    <3> SUFFICES ASSUME NEW q \in Proc, phase'[q] = "save", req'[q].op # "create"
                 PROVE  HeldEdit(q)'
      BY DEF HeldEdits
    <3>1. q # p /\ phase[q] = "save" /\ entity'[q] = entity[q] /\ HeldEdit(q)
      BY <2>1 DEF RepositoryInv, HeldEdits, TypeOK
    <3>2. loaded[q].id \in Id
      BY <3>1 DEF HeldEdit, RepositoryInv, TypeOK, Entity
    <3> QED
      BY <2>1, <2>4, <3>1, <3>2 DEF HeldEdit
  <2>11. HeldCreates'
    <3> SUFFICES ASSUME NEW q \in Proc, phase'[q] = "save", req'[q].op = "create"
                 PROVE  HeldCreate(q)'
      BY DEF HeldCreates
    <3>1. q # p /\ phase[q] = "save" /\ entity'[q] = entity[q] /\ HeldCreate(q)
      BY <2>1 DEF RepositoryInv, HeldCreates, TypeOK
    <3>2. entity[q].id # id
      BY <1>1, <3>1 DEF HeldCreate
    <3>3. stored.id = id
      BY <2>5
    <3> QED
      BY <2>1, <3>1, <3>2, <3>3 DEF HeldCreate, RepositoryInv, TypeOK
  <2>12. StartsEmpty'
    BY <2>1 DEF RepositoryInv, StartsEmpty, TypeOK
  <2> QED
    BY <2>6, <2>7, <2>8, <2>9, <2>10, <2>11, <2>12 DEF RepositoryInv
<1> QED
  BY <1>2, <1>3

\* Every step keeps the invariant.
LEMMA RepositoryNext == RepositoryInv /\ [Next]_vars => RepositoryInv'
<1> SUFFICES ASSUME RepositoryInv, [Next]_vars
             PROVE  RepositoryInv'
  OBVIOUS
<1>1. TypeOK'
  BY TypeNext DEF RepositoryInv
<1>2. CASE UNCHANGED vars
  BY <1>1, <1>2, RepositoryUnchanged
     DEF vars, repository, RepositoryInv, StartsEmpty, HeldEdits, HeldEdit, HeldCreates, HeldCreate
<1> QED
  BY <1>1, <1>2, AcceptKeeps, CreateKeeps, FindKeeps, LoadKeeps, SaveKeeps
     DEF Next, Serve, Quiescent

\* The inductive invariant: the map, the accepted writes and what the
\* goroutines hold agree, whatever the interleaving.
THEOREM RepositorySafe == Spec => []RepositoryInv
<1> QED
  BY RepositoryInit, RepositoryNext, PTL DEF Spec

(***************************************************************************)
(* No accepted write ever overwrites one it was not computed from.         *)
(***************************************************************************)
THEOREM NoUpdateIsLost == Spec => []NoLostUpdate
<1>1. RepositoryInv => NoLostUpdate
  BY DEF RepositoryInv
<1> QED
  BY <1>1, RepositorySafe, PTL

(***************************************************************************)
(* A write that names a revision replaces that revision or nothing.        *)
(***************************************************************************)
THEOREM ConditionalWritesHonoured == Spec => []ConditionalWriteHonoured
<1>1. RepositoryInv => ConditionalWriteHonoured
  BY DEF RepositoryInv
<1> QED
  BY <1>1, RepositorySafe, PTL

(***************************************************************************)
(* The version on file is the number of writes, and the sheet the last's.  *)
(***************************************************************************)
THEOREM VersionsCountWrites == Spec => []VersionCountsWrites
<1>1. RepositoryInv => VersionCountsWrites
  BY DEF RepositoryInv
<1> QED
  BY <1>1, RepositorySafe, PTL

(***************************************************************************)
(* What is on file passes the schema.                                      *)
(***************************************************************************)
THEOREM StoredSheetsValid == Spec => []StoredSheetsAreValid
<1>1. RepositoryInv => StoredSheetsAreValid
  BY DEF RepositoryInv
<1> QED
  BY <1>1, RepositorySafe, PTL

-----------------------------------------------------------------------------
(* What clients are told: that the answers are true, that a patch keeps    *)
(* what it does not name, and that every request takes effect atomically   *)
(* (AtomicCharacters).  The inductive invariant, on top of RepositoryInv:  *)

\* Requests are numbered as they arrive, and a write carries its request's number.
NumberInv ==
    /\ \A p \in Proc : serial[p] \in 0..received
    /\ \A p \in Proc : phase[p] # "idle" => serial[p] # 0
    /\ \A p, q \in Proc : p # q /\ serial[p] = serial[q] => serial[p] = 0
    /\ \A id \in Id : \A k \in 1..Len(history[id]) : history[id][k].serial \in 1..received

\* A request on its way has no answer yet.
Unanswered == \A p \in Proc : phase[p] \in {"start", "save"} => reply[p] = NoReply

(***************************************************************************)
(* What waits for its Save is what the request makes of the sheet it       *)
(* loaded, through the gate, and no other sheet.                           *)
(***************************************************************************)
HeldResult(p) ==
    IF req[p].op = "create"
    THEN /\ CreateAccepts(req[p].doc)
         /\ entity[p] = NewCharacter(entity[p].id, req[p].doc)
    ELSE /\ loaded[p].id = req[p].raw
         /\ CheckVersion(req[p].expected, loaded[p].version) = "ok"
         /\ EditAccepts(loaded[p].sheet, req[p])
         /\ entity[p] = ReplaceSheet(loaded[p], EditResult(loaded[p].sheet, req[p]))

HeldResults == \A p \in Proc : phase[p] = "save" => HeldResult(p)

AnswerInv ==
    /\ RepositoryInv
    /\ NumberInv
    /\ Unanswered
    /\ HeldResults
    /\ WrittenAsAnswered
    /\ AnswersAreRevisions
    /\ ConflictMeansOvertaken

-----------------------------------------------------------------------------
(* How a history and its revisions change.                                 *)

\* In an empty repository nobody has been told anything.
LEMMA AnswersInit == Init => AnswerInv
<1> SUFFICES ASSUME Init
             PROVE  AnswerInv
  OBVIOUS
<1>1. RepositoryInv
  BY RepositoryInit
<1>2. \A id \in Id : history[id] = << >>
  BY DEF Init
<1>3. NumberInv
  BY <1>2 DEF Init, NumberInv
<1>4. \A p \in Proc : reply[p].status = "not_found"
  BY DEF Init, NoReply, Refusal
<1>5. Unanswered /\ HeldResults
  BY DEF Init, Unanswered, HeldResults
<1>6. WrittenAsAnswered /\ AnswersAreRevisions /\ ConflictMeansOvertaken
  BY <1>2, <1>4 DEF WrittenAsAnswered, AnswersAreRevisions, ConflictMeansOvertaken
<1> QED
  BY <1>1, <1>3, <1>5, <1>6 DEF AnswerInv

\* An accepted Save adds one write to one history.
LEMMA SaveGrows ==
    ASSUME RepositoryInv, NEW p \in Proc, Save(p), CompareAndSet(entity[p]),
           NEW id, id = entity[p].id, NEW n, n = Len(history[id])
    PROVE  /\ id \in Id /\ n \in Nat
           /\ Len(history'[id]) = n + 1
           /\ \A k \in 1..n : history'[id][k] = history[id][k]
           /\ \A i \in Id : i # id => history'[i] = history[i]
<1> DEFINE e == entity[p]
           w == [serial |-> serial[p], req |-> req[p], from |-> loaded[p], sheet |-> e.sheet]
<1>1. /\ phase[p] = "save" /\ req[p] \in Requests
      /\ e \in Entity /\ id \in Id
  BY DEF Save, RepositoryInv, TypeOK, Entity
<1>2. history' = [history EXCEPT ![id] = Append(@, w)]
  BY DEF Save
<1>3. w \in Write
  BY <1>1 DEF RepositoryInv, TypeOK, Write, Entity
<1> QED
  BY <1>1, <1>2, <1>3, HistoryGrows DEF RepositoryInv, TypeOK

\* The write is the request's, and is what Save stores and answers.
LEMMA SaveWrites ==
    ASSUME RepositoryInv, RepositoryInv', NEW p \in Proc, Save(p), CompareAndSet(entity[p]),
           NEW id, id = entity[p].id, NEW n, n = Len(history[id])
    PROVE  /\ history'[id][n + 1] = [serial |-> serial[p], req |-> req[p],
                                     from |-> loaded[p], sheet |-> entity[p].sheet]
           /\ store' = [store EXCEPT ![id] = Persisted(entity[p])]
           /\ Answer(p, Success(Persisted(entity[p])))
           /\ Persisted(entity[p]) = Revision(id, n + 1)'
<1> DEFINE e == entity[p]
           w == [serial |-> serial[p], req |-> req[p], from |-> loaded[p], sheet |-> e.sheet]
<1>1. /\ phase[p] = "save" /\ req[p] \in Requests
      /\ e \in Entity /\ id \in Id
  BY DEF Save, RepositoryInv, TypeOK, Entity
<1>2. /\ store' = [store EXCEPT ![id] = Persisted(e)]
      /\ history' = [history EXCEPT ![id] = Append(@, w)]
      /\ Answer(p, Success(Persisted(e)))
  BY DEF Save
<1>3. w \in Write
  BY <1>1 DEF RepositoryInv, TypeOK, Write, Entity
<1>4. /\ n \in Nat
      /\ Len(history'[id]) = n + 1
      /\ history'[id][n + 1] = w
  BY <1>1, <1>2, <1>3, HistoryGrows DEF RepositoryInv, TypeOK
<1>5. store'[id] = Persisted(e)
  BY <1>1, <1>2 DEF RepositoryInv, TypeOK
<1>6. store'[id] = Revision(id, n + 1)'
  <2>1. history'[id] # << >>
    BY <1>4
  <2>2. store'[id] = Revision(id, Len(history[id]))'
    BY <1>1, <2>1 DEF RepositoryInv, VersionCountsWrites
  <2> QED
    BY <1>4, <2>2 DEF Revision
<1> QED
  BY <1>1, <1>2, <1>4, <1>5, <1>6

\* A revision once written is never written anew.
Kept ==
    \A id \in Id : \A k \in 1..Len(history[id]) :
        /\ k \in 1..Len(history'[id])
        /\ history'[id][k] = history[id][k]
        /\ Revision(id, k)' = Revision(id, k)

\* A step that leaves the map alone keeps every revision.
LEMMA UnchangedKept ==
    ASSUME UNCHANGED repository
    PROVE  Kept
BY DEF repository, Kept, Revision

\* And a Save keeps those there are.
LEMMA SaveKept ==
    ASSUME RepositoryInv, NEW p \in Proc, Save(p), CompareAndSet(entity[p])
    PROVE  Kept
<1>1. PICK id : id = entity[p].id
  OBVIOUS
<1>2. PICK n : n = Len(history[id])
  OBVIOUS
<1>3. /\ n \in Nat
      /\ Len(history'[id]) = n + 1
      /\ \A k \in 1..n : history'[id][k] = history[id][k]
      /\ \A i \in Id : i # id => history'[i] = history[i]
  BY <1>1, <1>2, SaveGrows
<1>4. ASSUME NEW i \in Id, NEW k \in 1..Len(history[i])
      PROVE  k \in 1..Len(history'[i]) /\ history'[i][k] = history[i][k]
  <2>1. CASE i = id
    BY <1>2, <1>3, <1>4, <2>1
  <2>2. CASE i # id
    BY <1>3, <1>4, <2>2
  <2> QED
    BY <2>1, <2>2
<1> QED
  BY <1>4 DEF Kept, Revision

(***************************************************************************)
(* Answers already given stay true: the goroutines other than p keep what  *)
(* they hold and what they have answered, whatever p's step adds to the    *)
(* history, as long as it adds no write of theirs.                         *)
(***************************************************************************)
Others(p) ==
    \A q \in Proc \ {p} :
        /\ phase'[q] = phase[q]
        /\ req'[q] = req[q]
        /\ entity'[q] = entity[q]
        /\ reply'[q] = reply[q]
        /\ loaded'[q] = loaded[q]
        /\ serial'[q] = serial[q]

\* Of the goroutines a step leaves alone nothing has to be proved anew.
LEMMA OthersUnansweredAndHeld ==
    ASSUME AnswerInv, NEW p \in Proc, Others(p), NEW q \in Proc \ {p}
    PROVE  /\ phase'[q] \in {"start", "save"} => reply'[q] = NoReply
           /\ phase'[q] = "save" => HeldResult(q)'
<1>1. phase'[q] \in {"start", "save"} => reply'[q] = NoReply
  BY DEF AnswerInv, Unanswered, Others
<1>2. phase[q] = "save" => HeldResult(q)
  BY DEF AnswerInv, HeldResults
<1>3. /\ phase'[q] = phase[q] /\ req'[q] = req[q]
      /\ entity'[q] = entity[q] /\ loaded'[q] = loaded[q]
  BY DEF Others
<1>4. HeldResult(q) => HeldResult(q)'
  BY <1>3 DEF HeldResult
<1> QED
  BY <1>1, <1>2, <1>3, <1>4

(***************************************************************************)
(* What p was told is so: a success is a revision, p's own if p wrote, and *)
(* a conflict has its reason.                                              *)
(***************************************************************************)
Truthful(p) ==
    /\ reply[p].status = "ok" =>
          LET e == reply[p].entity
          IN  /\ e # NoEntity
              /\ e.version \in 1..Len(history[e.id])
              /\ e = Revision(e.id, e.version)
              /\ req[p].op # "find" => history[e.id][e.version].serial = serial[p]
    /\ reply[p].status = "conflict" =>
          /\ loaded[p] # NoEntity
          /\ \/ req[p].expected \notin {NoVersion, loaded[p].version}
             \/ Len(history[loaded[p].id]) > loaded[p].version

\* What a goroutine was told of a revision, it may go on believing.
LEMMA OthersTold ==
    ASSUME AnswerInv, NEW p \in Proc, Others(p), Kept, NEW q \in Proc \ {p}
    PROVE  Truthful(q)'
<1>1. /\ req'[q] = req[q] /\ reply'[q] = reply[q] /\ loaded'[q] = loaded[q]
      /\ serial'[q] = serial[q]
  BY DEF Others
<1>2. reply[q] \in Reply /\ loaded[q] \in Entity \cup {NoEntity}
  BY DEF AnswerInv, RepositoryInv, TypeOK
<1>3. ASSUME reply[q].status = "ok", NEW e, e = reply[q].entity
      PROVE  /\ e # NoEntity
             /\ e.version \in 1..Len(history'[e.id])
             /\ e = Revision(e.id, e.version)'
             /\ req[q].op # "find" => history'[e.id][e.version].serial = serial[q]
  <2>1. /\ e # NoEntity
        /\ e.version \in 1..Len(history[e.id])
        /\ e = Revision(e.id, e.version)
        /\ req[q].op # "find" => history[e.id][e.version].serial = serial[q]
    BY <1>3 DEF AnswerInv, AnswersAreRevisions
  <2>2. e.id \in Id
    BY <1>2, <1>3, <2>1 DEF Reply, Entity
  <2> QED
    BY <2>1, <2>2 DEF Kept
<1>4. ASSUME reply[q].status = "conflict"
      PROVE  /\ loaded[q] # NoEntity
             /\ \/ req[q].expected \notin {NoVersion, loaded[q].version}
                \/ Len(history'[loaded[q].id]) > loaded[q].version
  <2>1. /\ loaded[q] # NoEntity
        /\ \/ req[q].expected \notin {NoVersion, loaded[q].version}
           \/ Len(history[loaded[q].id]) > loaded[q].version
    BY <1>4 DEF AnswerInv, ConflictMeansOvertaken
  <2>2. loaded[q].id \in Id /\ loaded[q].version \in Nat
    BY <1>2, <2>1 DEF Entity, Version
  <2>3. PICK i \in Id : i = loaded[q].id
    BY <2>2
  <2>4. PICK n \in Nat : n = Len(history[i])
    BY DEF AnswerInv, RepositoryInv, TypeOK
  <2>5. n > loaded[q].version => n \in 1..n
    BY <2>2
  <2>6. n \in 1..n => n \in 1..Len(history'[i])
    BY <2>4 DEF Kept
  <2>7. n > loaded[q].version => Len(history'[i]) > loaded[q].version
    <3> SUFFICES ASSUME n > loaded[q].version
                 PROVE  Len(history'[i]) > loaded[q].version
      OBVIOUS
    <3>1. n \in 1..Len(history'[i])
      BY <2>5, <2>6
    <3>2. PICK m : m = Len(history'[i])
      OBVIOUS
    <3>3. m \in Nat \/ m \notin Nat
      OBVIOUS
    <3> QED
      BY <2>2, <3>1
  <2> QED
    BY <2>1, <2>3, <2>4, <2>7
<1>5. loaded'[q] = loaded[q] /\ req'[q] = req[q]
  BY <1>1
<1>6. reply'[q].status = "conflict" =>
         /\ loaded'[q] # NoEntity
         /\ \/ req'[q].expected \notin {NoVersion, loaded'[q].version}
            \/ Len(history'[loaded'[q].id]) > loaded'[q].version
  BY <1>1, <1>4
<1>7. PICK e : e = reply[q].entity
  OBVIOUS
<1>8. reply[q].status = "ok" =>
         /\ e # NoEntity
         /\ e.version \in 1..Len(history'[e.id])
         /\ e = Revision(e.id, e.version)'
         /\ req[q].op # "find" => history'[e.id][e.version].serial = serial[q]
  BY <1>3, <1>7
<1> QED
  BY <1>1, <1>6, <1>7, <1>8 DEF Truthful, Revision

\* A write is answered by its own request, and a new one is p's.
LEMMA WritesAreAnswered ==
    ASSUME AnswerInv, NumberInv', NEW p \in Proc, Others(p), Kept,
           \A id \in Id : \A k \in 1..Len(history[id]) : history[id][k].serial # serial'[p],
           \A id \in Id : \A k \in 1..Len(history'[id]) :
               \/ k \in 1..Len(history[id])
               \/ /\ history'[id][k].serial = serial'[p] /\ serial'[p] # 0
                  /\ phase'[p] = "done"
                  /\ reply'[p] = Success(Revision(id, k)')
    PROVE  WrittenAsAnswered'
<1> SUFFICES ASSUME NEW q \in Proc, NEW id \in Id, NEW k \in (1..Len(history[id]))',
                    history'[id][k].serial = serial'[q]
             PROVE  phase'[q] = "done" /\ reply'[q] = Success(Revision(id, k)')
  BY DEF WrittenAsAnswered
<1>1. CASE k \in 1..Len(history[id])
  <2>1. history[id][k].serial = serial'[q] /\ q # p
    BY <1>1 DEF Kept
  <2>2. phase'[q] = phase[q] /\ reply'[q] = reply[q] /\ serial'[q] = serial[q]
    BY <2>1 DEF Others
  <2>3. phase[q] = "done" /\ reply[q] = Success(Revision(id, k))
    BY <1>1, <2>1, <2>2 DEF AnswerInv, WrittenAsAnswered
  <2>4. Revision(id, k)' = Revision(id, k)
    BY <1>1 DEF Kept
  <2> QED
    BY <2>2, <2>3, <2>4
<1>2. CASE k \notin 1..Len(history[id])
  <2>1. /\ history'[id][k].serial = serial'[p] /\ serial'[p] # 0
        /\ phase'[p] = "done"
        /\ reply'[p] = Success(Revision(id, k)')
    BY <1>2
  <2>2. q = p
    BY <2>1 DEF NumberInv
  <2> QED
    BY <2>1, <2>2
<1> QED
  BY <1>1, <1>2

\* What is left to show of p itself.
LEMMA OwnStep ==
    ASSUME AnswerInv, RepositoryInv', NumberInv', WrittenAsAnswered',
           NEW p \in Proc, Others(p), Kept,
           phase'[p] \in {"start", "save"} => reply'[p] = NoReply,
           phase'[p] = "save" => HeldResult(p)',
           Truthful(p)'
    PROVE  AnswerInv'
<1>1. Unanswered'
  BY OthersUnansweredAndHeld DEF Unanswered
<1>2. HeldResults'
  BY OthersUnansweredAndHeld DEF HeldResults
<1>3. \A q \in Proc : Truthful(q)'
  BY OthersTold
<1>4. (AnswersAreRevisions /\ ConflictMeansOvertaken)'
  BY <1>3 DEF Truthful, AnswersAreRevisions, ConflictMeansOvertaken
<1> QED
  BY <1>1, <1>2, <1>4 DEF AnswerInv

\* Nothing is on record of a request that has not reached its Save.
LEMMA Unwritten ==
    ASSUME AnswerInv, NEW p \in Proc, phase[p] \in {"start", "save"}
    PROVE  /\ \A id \in Id : \A k \in 1..Len(history[id]) : history[id][k].serial # serial[p]
           /\ serial[p] \in 1..received
<1>1. serial[p] \in 0..received /\ serial[p] # 0
  BY DEF AnswerInv, NumberInv
<1>2. received \in Nat
  BY DEF AnswerInv, RepositoryInv, TypeOK
<1> QED
  BY <1>1, <1>2 DEF AnswerInv, WrittenAsAnswered

\* A step of a request already numbered keeps the numbers.
LEMMA NumbersKept ==
    ASSUME AnswerInv, NEW p \in Proc, phase[p] # "idle", Others(p), UNCHANGED arrivals,
           \A id \in Id : \A k \in 1..Len(history'[id]) :
               \/ k \in 1..Len(history[id]) /\ history'[id][k] = history[id][k]
               \/ history'[id][k].serial = serial[p]
    PROVE  NumberInv'
<1>1. serial' = serial /\ received' = received
  BY DEF arrivals
<1>2. \A q \in Proc : phase'[q] # "idle" => phase[q] # "idle"
  BY DEF Others
<1>3. serial[p] \in 0..received /\ serial[p] # 0 /\ received \in Nat
  BY DEF AnswerInv, NumberInv, RepositoryInv, TypeOK
<1>4. \A id \in Id : \A k \in 1..Len(history'[id]) : history'[id][k].serial \in 1..received
  <2> SUFFICES ASSUME NEW id \in Id, NEW k \in 1..Len(history'[id])
               PROVE  history'[id][k].serial \in 1..received
    OBVIOUS
  <2>1. k \in 1..Len(history[id]) => history[id][k].serial \in 1..received
    BY DEF AnswerInv, NumberInv
  <2>2. serial[p] \in 1..received
    BY <1>3
  <2> QED
    BY <2>1, <2>2
<1> QED
  BY <1>1, <1>2, <1>4 DEF AnswerInv, NumberInv

-----------------------------------------------------------------------------
(* Every step keeps AnswerInv.                                             *)

\* A new request takes the next number.
LEMMA AcceptAnswers ==
    ASSUME AnswerInv, RepositoryInv', NEW p \in Proc, Accept(p)
    PROVE  AnswerInv'
<1>1. /\ Others(p)
      /\ phase'[p] = "start"
      /\ reply'[p] = NoReply
      /\ serial'[p] = received + 1 /\ received' = received + 1
      /\ UNCHANGED repository
      /\ received \in Nat
  BY DEF Accept, Others, AnswerInv, RepositoryInv, TypeOK
<1>2. Kept
  BY <1>1, UnchangedKept
<1>3. history' = history
  BY <1>1 DEF repository
<1>4. \A q \in Proc : serial[q] \in 0..received
  BY DEF AnswerInv, NumberInv
<1>5. \A id \in Id : \A k \in 1..Len(history[id]) : history[id][k].serial \in 1..received
  BY DEF AnswerInv, NumberInv
<1>6. NumberInv'
  <2>1. \A q \in Proc : serial'[q] \in 0..received'
    <3>1. ASSUME NEW q \in Proc
          PROVE  serial'[q] \in 0..received'
      <4>1. CASE q = p
        BY <1>1, <4>1
      <4>2. CASE q # p
        BY <1>1, <1>4, <4>2 DEF Others
      <4> QED
        BY <4>1, <4>2
    <3> QED
      BY <3>1
  <2>2. \A q \in Proc : phase'[q] # "idle" => serial'[q] # 0
    BY <1>1 DEF Others, AnswerInv, NumberInv
  <2>3. ASSUME NEW q \in Proc, NEW o \in Proc, q # o, serial'[q] = serial'[o]
        PROVE  serial'[q] = 0
    <3>1. CASE q # p /\ o # p
      BY <1>1, <2>3, <3>1 DEF Others, AnswerInv, NumberInv
    <3>2. CASE q = p \/ o = p
      <4>1. PICK r \in Proc \ {p} : serial'[r] = received + 1 /\ serial'[r] = serial[r]
        BY <1>1, <2>3, <3>2 DEF Others
      <4> QED
        BY <1>1, <1>4, <4>1
    <3> QED
      BY <3>1, <3>2
  <2>4. \A id \in Id : \A k \in 1..Len(history'[id]) : history'[id][k].serial \in 1..received'
    BY <1>1, <1>3, <1>5
  <2> QED
    BY <2>1, <2>2, <2>3, <2>4 DEF NumberInv
<1>7. WrittenAsAnswered'
  <2>1. \A id \in Id : \A k \in 1..Len(history[id]) : history[id][k].serial # serial'[p]
    BY <1>1, <1>5
  <2> QED
    BY <1>1, <1>2, <1>3, <1>6, <2>1, WritesAreAnswered
<1>8. Truthful(p)'
  BY <1>1 DEF Truthful, NoReply, Refusal
<1> QED
  BY <1>1, <1>2, <1>6, <1>7, <1>8, OwnStep

\* A step that writes nothing, of a request not answered before.
LEMMA QuietAnswers ==
    ASSUME AnswerInv, RepositoryInv', NEW p \in Proc, phase[p] \in {"start", "save"},
           Others(p), UNCHANGED <<repository, arrivals>>,
           phase'[p] \in {"start", "save"} => reply'[p] = NoReply,
           phase'[p] = "save" => HeldResult(p)',
           Truthful(p)'
    PROVE  AnswerInv'
<1>1. Kept
  BY UnchangedKept
<1>2. history' = history /\ serial' = serial
  BY DEF repository, arrivals
<1>3. NumberInv'
  BY <1>2, NumbersKept
<1>4. WrittenAsAnswered'
  BY <1>1, <1>2, <1>3, Unwritten, WritesAreAnswered
<1> QED
  BY <1>1, <1>3, <1>4, OwnStep

\* A refusal: an error that is no conflict is true whatever the history.
LEMMA RefusalAnswers ==
    ASSUME AnswerInv, RepositoryInv', NEW p \in Proc, phase[p] \in {"start", "save"},
           NEW status, status # "ok", Refuse(p, status),
           UNCHANGED <<repository, arrivals>>,
           \A q \in Proc \ {p} : loaded'[q] = loaded[q],
           status = "conflict" =>
               /\ loaded'[p] # NoEntity
               /\ \/ req[p].expected \notin {NoVersion, loaded'[p].version}
                  \/ Len(history[loaded'[p].id]) > loaded'[p].version
    PROVE  AnswerInv'
<1>1. /\ Others(p)
      /\ phase'[p] = "done"
      /\ reply'[p] = Refusal(status)
      /\ req'[p] = req[p]
  BY DEF Refuse, Answer, Others, AnswerInv, RepositoryInv, TypeOK, arrivals
<1>2. reply'[p].status = status
  BY <1>1 DEF Refusal
<1>3. history' = history
  BY DEF repository
<1>4. Truthful(p)'
  BY <1>1, <1>2, <1>3 DEF Truthful
<1> QED
  BY <1>1, <1>4, QuietAnswers

\* A request that goes on to its Save.
LEMMA HoldAnswers ==
    ASSUME AnswerInv, RepositoryInv', NEW p \in Proc, phase[p] = "start",
           NEW e, Hold(p, e), UNCHANGED <<repository, arrivals>>,
           \A q \in Proc \ {p} : loaded'[q] = loaded[q],
           HeldResult(p)'
    PROVE  AnswerInv'
<1>1. /\ Others(p)
      /\ reply'[p] = NoReply
  BY DEF Hold, Others, AnswerInv, Unanswered, RepositoryInv, TypeOK, arrivals
<1>2. Truthful(p)'
  BY <1>1 DEF Truthful, NoReply, Refusal
<1> QED
  BY <1>1, <1>2, QuietAnswers

\* A create is refused at the gate or goes on with the sheet it was sent.
LEMMA CreateAnswers ==
    ASSUME AnswerInv, RepositoryInv', NEW p \in Proc, Create(p)
    PROVE  AnswerInv'
<1>1. /\ phase[p] = "start" /\ req[p].op = "create"
      /\ UNCHANGED <<loaded, repository, arrivals>>
  BY DEF Create
<1>2. CASE CreateAccepts(req[p].doc)
  <2>1. PICK id \in Id : Hold(p, NewCharacter(id, req[p].doc))
    BY <1>2 DEF Create
  <2>2. entity'[p] = NewCharacter(id, req[p].doc) /\ req' = req
    BY <2>1 DEF Hold, AnswerInv, RepositoryInv, TypeOK
  <2>3. entity'[p].id = id
    BY <2>2 DEF NewCharacter
  <2>4. HeldResult(p)'
    BY <1>1, <1>2, <2>2, <2>3 DEF HeldResult
  <2> QED
    BY <1>1, <2>1, <2>4, HoldAnswers
<1>3. CASE ~ CreateAccepts(req[p].doc)
  <2>1. Refuse(p, "invalid")
    BY <1>3 DEF Create
  <2> QED
    BY <1>1, <2>1, RefusalAnswers
<1> QED
  BY <1>2, <1>3

\* A read answers with the last revision.
LEMMA FindAnswers ==
    ASSUME AnswerInv, RepositoryInv', NEW p \in Proc, Find(p)
    PROVE  AnswerInv'
<1>1. /\ phase[p] = "start" /\ req[p].op = "find"
      /\ UNCHANGED <<loaded, repository, arrivals>>
  BY DEF Find
<1>2. CASE Refuse(p, "invalid") \/ Refuse(p, "not_found")
  BY <1>1, <1>2, RefusalAnswers
<1>3. ASSUME NEW id, Stored(id), Answer(p, Success(store[id])), UNCHANGED entity
      PROVE  AnswerInv'
  <2>1. id \in Id /\ store[id] # NoEntity
    BY <1>3 DEF Stored
  <2>2. PICK n : n = Len(history[id])
    OBVIOUS
  <2>3. n \in 1..n /\ store[id] = Revision(id, n)
    BY <2>1, <2>2 DEF AnswerInv, RepositoryInv, TypeOK, VersionCountsWrites
  <2>4. PICK e : e = store[id]
    OBVIOUS
  <2>5. /\ e # NoEntity /\ e.id = id /\ e.version = n
        /\ e.version \in 1..Len(history[e.id])
        /\ e = Revision(e.id, e.version)
    BY <2>1, <2>2, <2>3, <2>4 DEF Revision
  <2>6. /\ Others(p) /\ phase'[p] = "done"
        /\ reply'[p] = Success(e)
        /\ req' = req /\ history' = history
    BY <1>1, <1>3, <2>4 DEF Answer, Others, AnswerInv, RepositoryInv, TypeOK, repository, arrivals
  <2>7. reply'[p].status = "ok" /\ reply'[p].entity = e
    BY <2>6 DEF Success
  <2>8. Truthful(p)'
    BY <1>1, <2>5, <2>6, <2>7 DEF Truthful, Revision
  <2> QED
    BY <1>1, <2>6, <2>8, QuietAnswers
<1> QED
  BY <1>2, <1>3 DEF Find

\* An edit is refused for what it finds, or goes on with the edited copy.
LEMMA LoadAnswers ==
    ASSUME AnswerInv, RepositoryInv', NEW p \in Proc, Load(p)
    PROVE  AnswerInv'
<1>1. /\ phase[p] = "start" /\ req[p].op \in {"update", "patch"}
      /\ UNCHANGED <<repository, arrivals>>
  BY DEF Load
<1>2. \A q \in Proc \ {p} : loaded'[q] = loaded[q]
  BY DEF Load, AnswerInv, RepositoryInv, TypeOK
<1>3. CASE Refuse(p, "not_found")
  BY <1>1, <1>2, <1>3, RefusalAnswers
<1>4. CASE Stored(req[p].raw)
  <2>1. PICK r : r = req[p]
    OBVIOUS
  <2>2. PICK cur : cur = store[r.raw]
    OBVIOUS
  <2>3. PICK check : check = CheckVersion(r.expected, cur.version)
    OBVIOUS
  <2>4. /\ loaded' = [loaded EXCEPT ![p] = cur]
        /\ \/ check # "ok" /\ Refuse(p, check)
           \/ Refuse(p, "invalid")
           \/ /\ check = "ok"
              /\ EditAccepts(cur.sheet, r)
              /\ Hold(p, ReplaceSheet(cur, EditResult(cur.sheet, r)))
    BY <1>4, <2>1, <2>2, <2>3 DEF Load
  <2>5. loaded'[p] = cur /\ cur # NoEntity
    BY <1>4, <2>1, <2>2, <2>4 DEF Stored, AnswerInv, RepositoryInv, TypeOK
  <2>6. cur.id = r.raw
    <3>1. r.raw \in Id /\ store[r.raw] # NoEntity
      BY <1>4, <2>1 DEF Stored
    <3>2. cur = Revision(r.raw, Len(history[r.raw]))
      BY <2>2, <3>1 DEF AnswerInv, RepositoryInv, VersionCountsWrites
    <3> QED
      BY <3>2 DEF Revision
  <2>7. check = "conflict" => req[p].expected \notin {NoVersion, loaded'[p].version}
    BY <2>1, <2>3, <2>5 DEF CheckVersion
  <2>8. CASE check # "ok" /\ Refuse(p, check)
    BY <1>1, <1>2, <2>5, <2>7, <2>8, RefusalAnswers
  <2>9. CASE Refuse(p, "invalid")
    BY <1>1, <1>2, <2>9, RefusalAnswers
  <2>10. CASE /\ check = "ok"
              /\ EditAccepts(cur.sheet, r)
              /\ Hold(p, ReplaceSheet(cur, EditResult(cur.sheet, r)))
    <3>1. entity'[p] = ReplaceSheet(cur, EditResult(cur.sheet, r)) /\ req'[p] = r
      BY <2>1, <2>10 DEF Hold, AnswerInv, RepositoryInv, TypeOK
    <3>2. r.op # "create"
      BY <1>1, <2>1
    <3>3. HeldResult(p)'
      BY <2>3, <2>5, <2>6, <2>10, <3>1, <3>2 DEF HeldResult
    <3> QED
      BY <1>1, <1>2, <2>10, <3>3, HoldAnswers
  <2> QED
    BY <2>4, <2>8, <2>9, <2>10
<1> QED
  BY <1>3, <1>4 DEF Load

\* Save writes and answers the same revision, or refuses an overtaken edit.
LEMMA SaveAnswers ==
    ASSUME AnswerInv, RepositoryInv', NEW p \in Proc, Save(p)
    PROVE  AnswerInv'
<1>1. /\ phase[p] = "save" /\ req[p] \in Requests
      /\ UNCHANGED <<loaded, arrivals>>
  BY DEF Save, AnswerInv, RepositoryInv, TypeOK
<1>2. PICK id : id = entity[p].id
  OBVIOUS
<1>3. PICK n : n = Len(history[id])
  OBVIOUS
<1>4. id \in Id
  BY <1>1, <1>2 DEF AnswerInv, RepositoryInv, TypeOK, Entity
<1>5. CASE CompareAndSet(entity[p])
  <2>1. /\ id \in Id /\ n \in Nat
        /\ Len(history'[id]) = n + 1
        /\ \A k \in 1..n : history'[id][k] = history[id][k]
        /\ \A i \in Id : i # id => history'[i] = history[i]
    BY <1>2, <1>3, <1>5, SaveGrows DEF AnswerInv
  <2>2. PICK e : e = Persisted(entity[p])
    OBVIOUS
  <2>3. /\ history'[id][n + 1] = [serial |-> serial[p], req |-> req[p],
                                  from |-> loaded[p], sheet |-> entity[p].sheet]
        /\ Answer(p, Success(e))
        /\ e = Revision(id, n + 1)'
        /\ entity' = [entity EXCEPT ![p] = e]
    BY <1>2, <1>3, <1>5, <2>2, SaveWrites DEF AnswerInv, Save
  <2>4. history'[id][n + 1].serial = serial[p]
    BY <2>3
  <2>5. /\ Others(p) /\ phase'[p] = "done" /\ reply'[p] = Success(e)
        /\ serial'[p] = serial[p]
    BY <1>1, <2>3 DEF Answer, Others, AnswerInv, RepositoryInv, TypeOK, arrivals
  <2>6. Kept
    BY <1>5, SaveKept DEF AnswerInv
  <2>7. ASSUME NEW i \in Id, NEW k \in 1..Len(history'[i])
        PROVE  \/ k \in 1..Len(history[i]) /\ history'[i][k] = history[i][k]
               \/ i = id /\ k = n + 1
    BY <1>3, <2>1, <2>7
  <2>8. NumberInv'
    <3>1. \A i \in Id : \A k \in 1..Len(history'[i]) :
              \/ k \in 1..Len(history[i]) /\ history'[i][k] = history[i][k]
              \/ history'[i][k].serial = serial[p]
      BY <2>4, <2>7
    <3> QED
      BY <1>1, <2>5, <3>1, NumbersKept
  <2>9. WrittenAsAnswered'
    <3>1. /\ serial[p] # 0
          /\ \A i \in Id : \A k \in 1..Len(history[i]) : history[i][k].serial # serial[p]
      BY <1>1, Unwritten DEF AnswerInv, RepositoryInv, TypeOK
    <3>2. \A i \in Id : \A k \in 1..Len(history'[i]) :
              \/ k \in 1..Len(history[i])
              \/ /\ history'[i][k].serial = serial'[p] /\ serial'[p] # 0
                 /\ phase'[p] = "done"
                 /\ reply'[p] = Success(Revision(i, k)')
      BY <2>3, <2>4, <2>5, <2>7, <3>1
    <3> QED
      BY <2>5, <2>6, <2>8, <3>1, <3>2, WritesAreAnswered
  <2>10. Truthful(p)'
    <3>1. /\ e # NoEntity /\ e.id = id /\ e.version = n + 1
          /\ e.version \in 1..Len(history'[e.id])
          /\ e = Revision(e.id, e.version)'
      <4>1. e.id = id /\ e.version = n + 1
        BY <2>3 DEF Revision
      <4>2. e # NoEntity
        BY <1>1, <2>2, PersistedEntity, NoEntityAssumption DEF AnswerInv, RepositoryInv, TypeOK
      <4> QED
        BY <2>1, <2>3, <4>1, <4>2
    <3>2. reply'[p].status = "ok" /\ reply'[p].entity = e
      BY <2>5 DEF Success
    <3> QED
      BY <2>4, <2>5, <3>1, <3>2 DEF Truthful, Revision
  <2> QED
    BY <2>5, <2>6, <2>8, <2>9, <2>10, OwnStep
<1>6. CASE ~ CompareAndSet(entity[p])
  <2>1. Refuse(p, "conflict") /\ UNCHANGED repository
    BY <1>6 DEF Save
  <2>2. req[p].op # "create"
    BY <1>1, <1>2, <1>6 DEF CompareAndSet, AnswerInv, RepositoryInv, HeldCreates, HeldCreate
  <2>3. HeldEdit(p)
    BY <1>1, <2>2 DEF AnswerInv, RepositoryInv, HeldEdits
  <2>4. /\ loaded[p] # NoEntity /\ loaded[p].id = id
        /\ loaded[p].version \in 1..n
        /\ entity[p].version = loaded[p].version
    BY <1>2, <1>3, <2>3 DEF HeldEdit
  <2>5. n \in Nat /\ n \in 1..n
    BY <1>3, <1>4, <2>4 DEF AnswerInv, RepositoryInv, TypeOK
  <2>6. store[id] = Revision(id, n)
    BY <1>3, <1>4, <2>5 DEF AnswerInv, RepositoryInv, VersionCountsWrites
  <2>7. store[id].version = n
    BY <2>6 DEF Revision
  <2>8. n > loaded[p].version
    BY <1>2, <1>6, <2>4, <2>5, <2>7 DEF CompareAndSet
  <2> QED
    BY <1>1, <1>3, <2>1, <2>4, <2>8, RefusalAnswers
<1> QED
  BY <1>5, <1>6

\* Every step keeps the invariant.
LEMMA AnswersNext == AnswerInv /\ [Next]_vars => AnswerInv'
<1> SUFFICES ASSUME AnswerInv, [Next]_vars
             PROVE  AnswerInv'
  OBVIOUS
<1>1. RepositoryInv'
  BY RepositoryNext DEF AnswerInv
<1>2. CASE UNCHANGED vars
  BY <1>1, <1>2
     DEF vars, AnswerInv, NumberInv, Unanswered, HeldResults, HeldResult, WrittenAsAnswered,
         AnswersAreRevisions, ConflictMeansOvertaken, Revision
<1> QED
  BY <1>1, <1>2, AcceptAnswers, CreateAnswers, FindAnswers, LoadAnswers, SaveAnswers
     DEF Next, Serve, Quiescent

\* The inductive invariant: numbers, held results and answers agree with the history.
THEOREM AnswersSafe == Spec => []AnswerInv
BY AnswersInit, AnswersNext, PTL DEF Spec

(***************************************************************************)
(* After a success the request has written, once, what it was answered;    *)
(* after a refusal, nothing.                                               *)
(***************************************************************************)
THEOREM WritesTellTheTruth == Spec => []WrittenAsAnswered
<1>1. AnswerInv => WrittenAsAnswered
  BY DEF AnswerInv
<1> QED
  BY <1>1, AnswersSafe, PTL

(***************************************************************************)
(* Whatever a client was given as version k is what the k-th write stored. *)
(***************************************************************************)
THEOREM RevisionsAreForEver == Spec => []AnswersAreRevisions
<1>1. AnswerInv => AnswersAreRevisions
  BY DEF AnswerInv
<1> QED
  BY <1>1, AnswersSafe, PTL

(***************************************************************************)
(* A 409 always has its reason: another revision was named, or a write     *)
(* came between the load and the Save.                                     *)
(***************************************************************************)
THEOREM ConflictsAreReal == Spec => []ConflictMeansOvertaken
<1>1. AnswerInv => ConflictMeansOvertaken
  BY DEF AnswerInv
<1> QED
  BY <1>1, AnswersSafe, PTL

-----------------------------------------------------------------------------
(* What an accepted Save makes of the character on file.                   *)

\* An edit: what the request makes of the sheet on file at that moment.
LEMMA SaveEdits ==
    ASSUME AnswerInv, NEW p \in Proc, Save(p), CompareAndSet(entity[p]), req[p].op # "create",
           NEW cur, cur = store[entity[p].id]
    PROVE  /\ req[p].op \in {"update", "patch"}
           /\ entity[p].id \in Id /\ entity[p].id = req[p].raw
           /\ cur \in Entity /\ cur # NoEntity
           /\ CheckVersion(req[p].expected, cur.version) = "ok"
           /\ EditAccepts(cur.sheet, req[p])
           /\ Persisted(entity[p]) = NextVersion(ReplaceSheet(cur, EditResult(cur.sheet, req[p])))
<1>1. phase[p] = "save" /\ entity[p] \in Entity
  BY DEF Save, AnswerInv, RepositoryInv, TypeOK
<1>2. HeldEdit(p) /\ HeldResult(p)
  BY <1>1 DEF AnswerInv, HeldResults, RepositoryInv, HeldEdits
<1>3. PICK id \in Id : id = entity[p].id
  BY <1>1 DEF Entity
<1>4. PICK n : n = Len(history[id])
  OBVIOUS
<1>5. /\ loaded[p].id = id
      /\ loaded[p].version \in 1..n
      /\ loaded[p] = Revision(id, loaded[p].version)
      /\ entity[p].version = loaded[p].version
      /\ req[p].op \in {"update", "patch"}
  BY <1>2, <1>3, <1>4 DEF HeldEdit
<1>6. n \in Nat /\ n \in 1..n
  BY <1>4, <1>5 DEF AnswerInv, RepositoryInv, TypeOK
<1>7. cur = Revision(id, n)
  BY <1>3, <1>4, <1>6 DEF AnswerInv, RepositoryInv, VersionCountsWrites
<1>8. cur \in Entity /\ cur # NoEntity /\ cur.version = n
  <2>1. cur \in Entity /\ cur # NoEntity
    BY <1>4, <1>6, <1>7, RevisionEntity DEF AnswerInv, RepositoryInv
  <2> QED
    BY <1>7, <2>1 DEF Revision
<1>9. loaded[p].version = n
  BY <1>3, <1>5, <1>8 DEF CompareAndSet
<1>10. cur = loaded[p]
  BY <1>5, <1>7, <1>9
<1>11. /\ cur.id = req[p].raw
       /\ CheckVersion(req[p].expected, cur.version) = "ok"
       /\ EditAccepts(cur.sheet, req[p])
       /\ entity[p] = ReplaceSheet(cur, EditResult(cur.sheet, req[p]))
  BY <1>2, <1>10 DEF HeldResult
<1>12. Persisted(entity[p]) = NextVersion(entity[p])
  BY <1>8 DEF Persisted
<1> QED
  BY <1>3, <1>5, <1>8, <1>10, <1>11, <1>12

\* A create: a new character with the sheet that was sent.
LEMMA SaveCreates ==
    ASSUME AnswerInv, NEW p \in Proc, Save(p), CompareAndSet(entity[p]), req[p].op = "create",
           NEW id, id = entity[p].id
    PROVE  /\ id \in Id
           /\ store[id] = NoEntity
           /\ CreateAccepts(req[p].doc)
           /\ Persisted(entity[p]) = NewCharacter(id, req[p].doc)
<1>1. phase[p] = "save" /\ entity[p] \in Entity
  BY DEF Save, AnswerInv, RepositoryInv, TypeOK
<1>2. HeldCreate(p) /\ HeldResult(p)
  BY <1>1 DEF AnswerInv, HeldResults, RepositoryInv, HeldCreates
<1>3. id \in Id
  BY <1>1 DEF Entity
<1> QED
  BY <1>2, <1>3 DEF HeldCreate, HeldResult, Persisted

\* A history grows by an accepted Save of its character only.
LEMMA GrowthIsSave ==
    ASSUME AnswerInv, [Next]_vars, NEW id \in Id, Len(history'[id]) > Len(history[id])
    PROVE  \E p \in Proc : Save(p) /\ CompareAndSet(entity[p]) /\ entity[p].id = id
<1>1. Len(history[id]) \in Nat
  BY DEF AnswerInv, RepositoryInv, TypeOK
<1>2. history' # history
  BY <1>1
<1>3. PICK p \in Proc : Save(p)
  BY <1>2 DEF Next, Serve, Accept, Create, Find, Load, Quiescent, repository, vars
<1>4. CompareAndSet(entity[p])
  BY <1>2, <1>3 DEF Save, repository
<1>5. PICK i : i = entity[p].id
  OBVIOUS
<1>6. \A j \in Id : j # i => history'[j] = history[j]
  <2>1. PICK n : n = Len(history[i])
    OBVIOUS
  <2> QED
    BY <1>3, <1>4, <1>5, <2>1, SaveGrows DEF AnswerInv
<1> QED
  BY <1>1, <1>3, <1>4, <1>5, <1>6

\* One step of the action property.
LEMMA PatchStep == AnswerInv /\ RepositoryInv' /\ [Next]_vars => PatchesOnlyNamed
<1> SUFFICES ASSUME AnswerInv, RepositoryInv', [Next]_vars,
                    NEW id \in Id, Len(history'[id]) > Len(history[id]),
                    NEW r, r = history'[id][Len(history'[id])].req,
                    r.op = "patch", r.doc # Omitted,
                    NEW s \in Section, r.doc[s] = Untouched
             PROVE  store'[id].sheet[s] = store[id].sheet[s]
  BY DEF PatchesOnlyNamed
<1>1. PICK p \in Proc : Save(p) /\ CompareAndSet(entity[p]) /\ entity[p].id = id
  BY GrowthIsSave
<1>2. PICK n : n = Len(history[id])
  OBVIOUS
<1>3. PICK cur : cur = store[id]
  OBVIOUS
<1>4. Len(history'[id]) = n + 1
  BY <1>1, <1>2, SaveGrows DEF AnswerInv
<1>5. /\ history'[id][n + 1] = [serial |-> serial[p], req |-> req[p],
                                from |-> loaded[p], sheet |-> entity[p].sheet]
      /\ store' = [store EXCEPT ![id] = Persisted(entity[p])]
  BY <1>1, <1>2, SaveWrites DEF AnswerInv
<1>6. r = req[p]
  BY <1>4, <1>5
<1>7. Persisted(entity[p]) = NextVersion(ReplaceSheet(cur, EditResult(cur.sheet, r)))
  BY <1>1, <1>3, <1>6, SaveEdits
<1>8. store'[id] = Persisted(entity[p])
  BY <1>5 DEF AnswerInv, RepositoryInv, TypeOK
<1>9. store'[id].sheet = EditResult(cur.sheet, r)
  BY <1>7, <1>8 DEF NextVersion, ReplaceSheet
<1>10. EditResult(cur.sheet, r) = MergePatch(cur.sheet, r.doc)
  BY DEF EditResult, PatchResult
<1>11. MergePatch(cur.sheet, r.doc)[s] = cur.sheet[s]
  BY DEF MergePatch
<1> QED
  BY <1>3, <1>9, <1>10, <1>11

(***************************************************************************)
(* Two clients patching different sections of a character keep both edits: *)
(* a patch leaves every section it does not name as it is on file when it  *)
(* is accepted, not as it was when it was computed.                        *)
(***************************************************************************)
THEOREM PatchesKeepTheRest == Spec => PatchTouchesOnlyNamed
<1>1. AnswerInv /\ RepositoryInv' /\ [Next]_vars => [PatchesOnlyNamed]_vars
  BY PatchStep
<1> QED
  BY <1>1, AnswersSafe, RepositorySafe, PTL DEF Spec, PatchTouchesOnlyNamed

-----------------------------------------------------------------------------
(* Every request takes effect in one step: the refinement of               *)
(* AtomicCharacters.  A request's step is its Save, or the refusal or the  *)
(* read that ends it earlier; what comes before a Save is not seen.        *)

\* What the abstract service sees of a goroutine.
LEMMA CallIs ==
    ASSUME NEW p \in Proc
    PROVE  /\ calls[p] = [state |-> Stage(p), req |-> req[p], reply |-> reply[p]]
           /\ calls[p].state = Stage(p)
           /\ calls[p].req = req[p]
           /\ phase[p] \in {"start", "save"} => Stage(p) = "pending"
           /\ phase[p] = "idle" => Stage(p) = "idle"
           /\ phase[p] = "done" => Stage(p) = "answered"
<1>1. calls[p] = [state |-> Stage(p), req |-> req[p], reply |-> reply[p]]
  BY DEF calls
<1>2. calls[p].state = Stage(p) /\ calls[p].req = req[p]
  BY <1>1
<1>3. phase[p] \in {"start", "save"} => Stage(p) = "pending"
  BY DEF Stage
<1>4. phase[p] = "idle" => Stage(p) = "idle"
  BY DEF Stage
<1>5. phase[p] = "done" => Stage(p) = "answered"
  BY DEF Stage
<1> QED
  BY <1>1, <1>2, <1>3, <1>4, <1>5

\* And after a step of it.
LEMMA CallBecomes ==
    ASSUME NEW p \in Proc, NEW s, NEW r, NEW a,
           Stage(p)' = s, req'[p] = r, reply'[p] = a,
           \A q \in Proc \ {p} : /\ phase'[q] = phase[q]
                                /\ req'[q] = req[q]
                                /\ reply'[q] = reply[q]
    PROVE  calls' = [calls EXCEPT ![p] = [state |-> s, req |-> r, reply |-> a]]
<1>1. calls'[p] = [state |-> s, req |-> r, reply |-> a]
  BY DEF calls
<1>2. ASSUME NEW q \in Proc \ {p}
      PROVE  calls'[q] = calls[q]
  <2>1. Stage(q)' = Stage(q)
    BY <1>2 DEF Stage
  <2> QED
    BY <1>2, <2>1 DEF calls
<1>3. /\ calls = [q \in Proc |-> calls[q]]
      /\ calls' = [q \in Proc |-> calls'[q]]
  BY DEF calls
<1> QED
  BY <1>1, <1>2, <1>3

\* The two modules' operators agree.
LEMMA AtomicNames ==
    /\ \A e : Atomic!Success(e) = Success(e)
    /\ \A status : Atomic!Refusal(status) = Refusal(status)
    /\ Atomic!NoReply = NoReply
    /\ Atomic!NoRequest = NoRequest
    /\ \A expected, actual : Atomic!CheckVersion(expected, actual) = CheckVersion(expected, actual)
    /\ \A id, sheet : Atomic!NewCharacter(id, sheet) = NewCharacter(id, sheet)
    /\ \A e, sheet : Atomic!ReplaceSheet(e, sheet) = ReplaceSheet(e, sheet)
    /\ \A e : Atomic!NextVersion(e) = NextVersion(e)
    /\ \A raw : Atomic!Stored(raw) <=> Stored(raw)
BY DEF Atomic!Success, Success, Atomic!Refusal, Refusal, Atomic!NoReply, NoReply,
       Atomic!NoRequest, NoRequest, Atomic!CheckVersion, CheckVersion, Atomic!MinVersion, MinVersion,
       Atomic!NewCharacter, NewCharacter, Atomic!ReplaceSheet, ReplaceSheet,
       Atomic!NextVersion, NextVersion, Atomic!Stored, Stored

\* So do the gate and the edits.
LEMMA AtomicEdits ==
    /\ \A doc : Atomic!CreateAccepts(doc) <=> CreateAccepts(doc)
    /\ \A sheet, r : Atomic!EditAccepts(sheet, r) <=> EditAccepts(sheet, r)
    /\ \A sheet, r : Atomic!EditResult(sheet, r) = EditResult(sheet, r)
<1>1. \A sheet : Atomic!ValidSheet(sheet) <=> ValidSheet(sheet)
  BY DEF Atomic!ValidSheet, ValidSheet
<1>2. \A sheet, patch : Atomic!MergePatch(sheet, patch) = MergePatch(sheet, patch)
  BY DEF Atomic!MergePatch, MergePatch
<1>3. \A patch : Atomic!NamesServerOwned(patch) <=> NamesServerOwned(patch)
  BY DEF Atomic!NamesServerOwned, NamesServerOwned
<1>4. \A doc : Atomic!UpdateAccepts(doc) <=> UpdateAccepts(doc)
  BY <1>1 DEF Atomic!UpdateAccepts, UpdateAccepts
<1>5. \A sheet, doc : Atomic!PatchAccepts(sheet, doc) <=> PatchAccepts(sheet, doc)
  BY <1>1, <1>2, <1>3 DEF Atomic!PatchAccepts, PatchAccepts
<1>6. \A sheet, doc : Atomic!UpdateResult(sheet, doc) = UpdateResult(sheet, doc)
  BY DEF Atomic!UpdateResult, UpdateResult
<1>7. \A sheet, doc : Atomic!PatchResult(sheet, doc) = PatchResult(sheet, doc)
  BY <1>2 DEF Atomic!PatchResult, PatchResult
<1>8. \A doc : Atomic!CreateAccepts(doc) <=> CreateAccepts(doc)
  BY <1>1 DEF Atomic!CreateAccepts, CreateAccepts
<1>9. \A sheet, r : Atomic!EditAccepts(sheet, r) <=> EditAccepts(sheet, r)
  BY <1>4, <1>5 DEF Atomic!EditAccepts, EditAccepts
<1>10. \A sheet, r : Atomic!EditResult(sheet, r) = EditResult(sheet, r)
  BY <1>6, <1>7 DEF Atomic!EditResult, EditResult
<1> QED
  BY <1>8, <1>9, <1>10

\* The services start alike.
LEMMA AtomicInit == Init => Atomic!Init
<1> SUFFICES ASSUME Init
             PROVE  Atomic!Init
  OBVIOUS
<1>1. store = [id \in Id |-> NoEntity]
  BY DEF Init
<1>2. ASSUME NEW p \in Proc
      PROVE  calls[p] = [state |-> "idle", req |-> NoRequest, reply |-> NoReply]
  <2>1. phase[p] = "idle" /\ req[p] = NoRequest /\ reply[p] = NoReply
    BY DEF Init
  <2> QED
    BY <2>1, CallIs
<1>3. calls = [p \in Proc |-> calls[p]]
  BY DEF calls
<1> QED
  BY <1>1, <1>2, <1>3, AtomicNames DEF Atomic!Init

\* An answer is the abstract one, of a request that was pending.
LEMMA AnswerShows ==
    ASSUME AnswerInv, NEW p \in Proc, phase[p] \in {"start", "save"}, NEW a, Answer(p, a)
    PROVE  Atomic!Pending(p) /\ Atomic!Answer(p, a)
<1>1. /\ phase'[p] = "done" /\ req'[p] = req[p] /\ reply'[p] = a
      /\ \A q \in Proc \ {p} : phase'[q] = phase[q] /\ req'[q] = req[q] /\ reply'[q] = reply[q]
  BY DEF Answer, AnswerInv, RepositoryInv, TypeOK
<1>2. Stage(p)' = "answered"
  BY <1>1 DEF Stage
<1>3. calls' = [calls EXCEPT ![p] = [state |-> "answered", req |-> req[p], reply |-> a]]
  BY <1>1, <1>2, CallBecomes
<1>4. calls[p].req = req[p] /\ calls[p].state = "pending"
  BY CallIs
<1> QED
  BY <1>3, <1>4 DEF Atomic!Pending, Atomic!Answer

\* A refusal is the abstract one.
LEMMA RefusalShows ==
    ASSUME AnswerInv, NEW p \in Proc, phase[p] \in {"start", "save"}, NEW status,
           Refuse(p, status), UNCHANGED repository
    PROVE  Atomic!Pending(p) /\ Atomic!Refuse(p, status)
BY AnswerShows, AtomicNames DEF Refuse, repository, Atomic!Refuse

\* A request that goes on to its Save is still pending.
LEMMA HoldStutters ==
    ASSUME AnswerInv, NEW p \in Proc, phase[p] = "start", NEW e, Hold(p, e), UNCHANGED repository
    PROVE  UNCHANGED Atomic!vars
<1>1. /\ phase'[p] = "save" /\ req' = req /\ reply' = reply
      /\ \A q \in Proc \ {p} : phase'[q] = phase[q]
  BY DEF Hold, AnswerInv, RepositoryInv, TypeOK
<1>2. ASSUME NEW q \in Proc
      PROVE  Stage(q)' = Stage(q)
  <2>1. CASE q = p
    BY <1>1, <2>1 DEF Stage
  <2>2. CASE q # p
    BY <1>1, <2>2 DEF Stage
  <2> QED
    BY <2>1, <2>2
<1>3. calls' = calls
  BY <1>1, <1>2 DEF calls
<1> QED
  BY <1>3 DEF Atomic!vars, repository

\* A new request is a call.
LEMMA AcceptInvokes ==
    ASSUME AnswerInv, NEW p \in Proc, Accept(p)
    PROVE  Atomic!Invoke(p)
<1>1. PICK r \in Requests : req' = [req EXCEPT ![p] = r]
  BY DEF Accept
<1>2. /\ phase'[p] = "start" /\ req'[p] = r /\ reply'[p] = NoReply
      /\ \A q \in Proc \ {p} : phase'[q] = phase[q] /\ req'[q] = req[q] /\ reply'[q] = reply[q]
      /\ store' = store
  BY <1>1 DEF Accept, repository, AnswerInv, RepositoryInv, TypeOK
<1>3. Stage(p)' = "pending"
  BY <1>2 DEF Stage
<1>4. calls' = [calls EXCEPT ![p] = [state |-> "pending", req |-> r, reply |-> NoReply]]
  BY <1>2, <1>3, CallBecomes
<1>5. calls[p].state # "pending"
  BY CallIs DEF Accept
<1> QED
  BY <1>2, <1>4, <1>5, AtomicNames DEF Atomic!Invoke, Atomic!Pending

\* A create up to its Save is refused, or is not seen.
LEMMA CreateShows ==
    ASSUME AnswerInv, NEW p \in Proc, Create(p)
    PROVE  Atomic!Create(p) \/ UNCHANGED Atomic!vars
<1>1. /\ phase[p] = "start" /\ req[p].op = "create"
      /\ UNCHANGED repository
      /\ calls[p].req = req[p]
  BY CallIs DEF Create
<1>2. CASE CreateAccepts(req[p].doc)
  BY <1>1, <1>2, HoldStutters DEF Create
<1>3. CASE ~ CreateAccepts(req[p].doc)
  <2>1. Refuse(p, "invalid")
    BY <1>3 DEF Create
  <2>2. Atomic!Pending(p) /\ Atomic!Refuse(p, "invalid")
    BY <1>1, <2>1, RefusalShows
  <2> QED
    BY <1>1, <1>3, <2>2, AtomicEdits DEF Atomic!Create
<1> QED
  BY <1>2, <1>3

\* A read takes effect where it reads.
LEMMA FindShows ==
    ASSUME AnswerInv, NEW p \in Proc, Find(p)
    PROVE  Atomic!Find(p)
<1>1. /\ phase[p] = "start" /\ req[p].op = "find"
      /\ UNCHANGED repository
      /\ calls[p].req = req[p]
      /\ req[p] \in Requests
  BY CallIs, ServedRequest DEF Find, AnswerInv, RepositoryInv
<1>2. PICK id : id = Canonical[req[p].raw]
  OBVIOUS
<1>3. id \in Id \cup {BadId}
  BY <1>1, <1>2, RequestShape, CharacterSheetAssumption
<1>4. CASE id = BadId
  <2>1. Refuse(p, "invalid")
    BY <1>2, <1>4 DEF Find
  <2>2. Atomic!Pending(p) /\ Atomic!Refuse(p, "invalid")
    BY <1>1, <2>1, RefusalShows
  <2> QED
    BY <1>1, <1>2, <1>4, <2>2 DEF Atomic!Find
<1>5. CASE id # BadId /\ store[id] = NoEntity
  <2>1. Refuse(p, "not_found")
    BY <1>2, <1>5 DEF Find, Stored
  <2>2. Atomic!Pending(p) /\ Atomic!Refuse(p, "not_found")
    BY <1>1, <2>1, RefusalShows
  <2> QED
    BY <1>1, <1>2, <1>5, <2>2 DEF Atomic!Find
<1>6. CASE id # BadId /\ store[id] # NoEntity
  <2>1. Answer(p, Success(store[id]))
    BY <1>2, <1>3, <1>6 DEF Find, Stored
  <2>2. Atomic!Pending(p) /\ Atomic!Answer(p, Success(store[id]))
    BY <1>1, <2>1, AnswerShows
  <2>3. store' = store
    BY <1>1 DEF repository
  <2> QED
    BY <1>1, <1>2, <1>6, <2>2, <2>3, AtomicNames DEF Atomic!Find
<1> QED
  BY <1>4, <1>5, <1>6

\* An edit up to its Save is refused for what is on file now, or is not seen.
LEMMA LoadShows ==
    ASSUME AnswerInv, NEW p \in Proc, Load(p)
    PROVE  Atomic!Edit(p) \/ UNCHANGED Atomic!vars
<1>1. /\ phase[p] = "start" /\ req[p].op \in {"update", "patch"}
      /\ UNCHANGED repository
      /\ calls[p].req = req[p]
  BY CallIs DEF Load
<1>2. CASE ~ Stored(req[p].raw)
  <2>1. Refuse(p, "not_found")
    BY <1>2 DEF Load
  <2>2. Atomic!Pending(p) /\ Atomic!Refuse(p, "not_found")
    BY <1>1, <2>1, RefusalShows
  <2> QED
    BY <1>1, <1>2, <2>2, AtomicNames DEF Atomic!Edit
<1>3. CASE Stored(req[p].raw)
  <2>1. PICK r : r = req[p]
    OBVIOUS
  <2>2. PICK cur : cur = store[r.raw]
    OBVIOUS
  <2>3. PICK check : check = CheckVersion(r.expected, cur.version)
    OBVIOUS
  <2>4. CASE check # "ok"
    <3>1. Refuse(p, check)
      BY <1>3, <2>1, <2>2, <2>3, <2>4 DEF Load
    <3>2. Atomic!Pending(p) /\ Atomic!Refuse(p, check)
      BY <1>1, <3>1, RefusalShows
    <3> QED
      BY <1>1, <1>3, <2>1, <2>2, <2>3, <2>4, <3>2, AtomicNames DEF Atomic!Edit
  <2>5. CASE check = "ok" /\ ~ EditAccepts(cur.sheet, r)
    <3>1. Refuse(p, "invalid")
      BY <1>3, <2>1, <2>2, <2>3, <2>5 DEF Load
    <3>2. Atomic!Pending(p) /\ Atomic!Refuse(p, "invalid")
      BY <1>1, <3>1, RefusalShows
    <3> QED
      BY <1>1, <1>3, <2>1, <2>2, <2>3, <2>5, <3>2, AtomicNames, AtomicEdits DEF Atomic!Edit
  <2>6. CASE check = "ok" /\ EditAccepts(cur.sheet, r)
    <3>1. Hold(p, ReplaceSheet(cur, EditResult(cur.sheet, r)))
      BY <1>3, <2>1, <2>2, <2>3, <2>6 DEF Load
    <3> QED
      BY <1>1, <3>1, HoldStutters
  <2> QED
    BY <2>4, <2>5, <2>6
<1> QED
  BY <1>2, <1>3

\* Save is where a write takes effect, or is told that it was overtaken.
LEMMA SaveShows ==
    ASSUME AnswerInv, NEW p \in Proc, Save(p)
    PROVE  Atomic!Create(p) \/ Atomic!Edit(p) \/ Atomic!Overtaken(p)
<1>1. phase[p] = "save" /\ calls[p].req = req[p] /\ req[p] \in Requests
  BY CallIs DEF Save, AnswerInv, RepositoryInv, TypeOK
<1>2. CASE CompareAndSet(entity[p])
  <2>1. PICK id : id = entity[p].id
    OBVIOUS
  <2>2. PICK e : e = Persisted(entity[p])
    OBVIOUS
  <2>3. store' = [store EXCEPT ![id] = e] /\ Answer(p, Success(e))
    BY <1>2, <2>1, <2>2 DEF Save
  <2>4. e.id = id
    BY <2>1, <2>2 DEF Persisted, NextVersion
  <2>5. Atomic!Pending(p) /\ Atomic!Put(p, e)
    <3>1. Atomic!Pending(p) /\ Atomic!Answer(p, Success(e))
      BY <1>1, <2>3, AnswerShows
    <3> QED
      BY <2>3, <2>4, <3>1, AtomicNames DEF Atomic!Put
  <2>6. CASE req[p].op = "create"
    <3>1. /\ id \in Id /\ store[id] = NoEntity
          /\ CreateAccepts(req[p].doc)
          /\ e = NewCharacter(id, req[p].doc)
      BY <1>2, <2>1, <2>2, <2>6, SaveCreates
    <3> QED
      BY <1>1, <2>5, <2>6, <3>1, AtomicNames, AtomicEdits DEF Atomic!Create
  <2>7. CASE req[p].op # "create"
    <3>1. PICK r : r = req[p]
      OBVIOUS
    <3>2. PICK cur : cur = store[id]
      OBVIOUS
    <3>3. /\ r.op \in {"update", "patch"}
          /\ id \in Id /\ id = r.raw
          /\ cur # NoEntity
          /\ CheckVersion(r.expected, cur.version) = "ok"
          /\ EditAccepts(cur.sheet, r)
          /\ e = NextVersion(ReplaceSheet(cur, EditResult(cur.sheet, r)))
      BY <1>2, <2>1, <2>2, <2>7, <3>1, <3>2, SaveEdits
    <3>4. Stored(r.raw) /\ store[r.raw] = cur
      BY <3>2, <3>3 DEF Stored
    <3> QED
      BY <1>1, <2>5, <3>1, <3>3, <3>4, AtomicNames, AtomicEdits DEF Atomic!Edit
  <2> QED
    BY <2>6, <2>7
<1>3. CASE ~ CompareAndSet(entity[p])
  <2>1. Refuse(p, "conflict") /\ UNCHANGED repository
    BY <1>3 DEF Save
  <2>2. Atomic!Pending(p) /\ Atomic!Refuse(p, "conflict")
    BY <1>1, <2>1, RefusalShows
  <2>3. req[p].op # "create"
    BY <1>1, <1>3 DEF CompareAndSet, AnswerInv, RepositoryInv, HeldCreates, HeldCreate
  <2>4. HeldEdit(p) /\ HeldResult(p)
    BY <1>1, <2>3 DEF AnswerInv, RepositoryInv, HeldEdits, HeldResults
  <2>5. entity[p].id = req[p].raw /\ req[p].op \in {"update", "patch"}
    BY <2>3, <2>4 DEF HeldEdit, HeldResult
  <2>6. entity[p].id \in Id
    BY <1>1 DEF AnswerInv, RepositoryInv, TypeOK, Entity
  <2>7. Stored(req[p].raw)
    BY <1>3, <2>5, <2>6 DEF CompareAndSet, Stored
  <2> QED
    BY <1>1, <2>2, <2>5, <2>7, AtomicNames DEF Atomic!Overtaken
<1> QED
  BY <1>2, <1>3

\* Every step is a step of the abstract service, or none.
LEMMA AtomicStep == AnswerInv /\ [Next]_vars => [Atomic!Next]_(Atomic!vars)
<1> SUFFICES ASSUME AnswerInv, [Next]_vars
             PROVE  Atomic!Next \/ UNCHANGED Atomic!vars
  OBVIOUS
<1>1. ASSUME NEW p \in Proc, Accept(p) \/ Serve(p)
      PROVE  Atomic!Next \/ UNCHANGED Atomic!vars
  <2>1. CASE Accept(p)
    BY <2>1, AcceptInvokes DEF Atomic!Next
  <2>2. CASE Create(p)
    BY <2>2, CreateShows DEF Atomic!Next
  <2>3. CASE Find(p)
    BY <2>3, FindShows DEF Atomic!Next
  <2>4. CASE Load(p)
    BY <2>4, LoadShows DEF Atomic!Next
  <2>5. CASE Save(p)
    BY <2>5, SaveShows DEF Atomic!Next
  <2> QED
    BY <1>1, <2>1, <2>2, <2>3, <2>4, <2>5 DEF Serve
<1>2. CASE UNCHANGED vars
  <2>1. store' = store /\ phase' = phase /\ req' = req /\ reply' = reply
    BY <1>2 DEF vars
  <2>2. calls' = calls
    BY <2>1 DEF calls, Stage
  <2> QED
    BY <2>1, <2>2 DEF Atomic!vars
<1> QED
  BY <1>1, <1>2 DEF Next, Quiescent

(***************************************************************************)
(* Linearizability: whatever the interleaving, the clients cannot tell the *)
(* service from one that serves every request in a single step, except     *)
(* that an edit may lose a race and then changes nothing.                  *)
(***************************************************************************)
THEOREM RequestsAreAtomic == Spec => ImplementsAtomic
<1>1. Init => Atomic!Init
  BY AtomicInit
<1>2. AnswerInv /\ [Next]_vars => [Atomic!Next]_(Atomic!vars)
  BY AtomicStep
<1> QED
  BY <1>1, <1>2, AnswersSafe, PTL DEF Spec, ImplementsAtomic, Atomic!Spec
=============================================================================
