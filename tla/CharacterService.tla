-------------------------- MODULE CharacterService --------------------------
(***************************************************************************)
(* The /characters resource of the dmostd daemon: goroutines that serve    *)
(* requests (pkg/http/character.go), each running one method of            *)
(* services.CharacterService against the one inmem.CharacterRepository.    *)
(*                                                                         *)
(* What goroutines share is the repository's map, and only its Save and    *)
(* Find touch it, each under the repository's lock.  A step of this        *)
(* module is therefore one critical section with the local computation     *)
(* around it; between the Find and the Save of one update, any number of   *)
(* steps of other goroutines may come.                                     *)
(***************************************************************************)
EXTENDS CharacterSheet, Sequences, FiniteSets

CONSTANTS
    Proc,        \* the handlers' goroutines
    Requests,    \* the requests clients may send
    MaxRequests  \* bound: how many requests the daemon receives

ASSUME RequestsAssumption ==
    /\ Requests \subseteq Request
    /\ MaxRequests \in Nat

VARIABLES
    store,       \* CharacterRepository.data
    phase,       \* how far the goroutine's request has come
    req,         \* the request it serves
    entity,      \* the aggregate the method holds
    reply,       \* the answer the handler wrote
    loaded,      \* history: the aggregate as Find returned it
    serial,      \* history: the number of the request, in order of arrival
    received,    \* history: how many requests have arrived
    history      \* history: per id, the accepted writes in order

repository == <<store, history>>
arrivals == <<serial, received>>
vars == <<store, phase, req, entity, reply, loaded, serial, received, history>>

Write == [serial : Nat, req : Requests, from : Entity \cup {NoEntity}, sheet : Sheet]

(***************************************************************************)
(* The type invariant.                                                     *)
(***************************************************************************)
TypeOK ==
    /\ store \in [Id -> Entity \cup {NoEntity}]
    /\ phase \in [Proc -> {"idle", "start", "save", "done"}]
    /\ req \in [Proc -> Requests \cup {NoRequest}]
    /\ \A p \in Proc : phase[p] # "idle" => req[p] \in Requests
    /\ entity \in [Proc -> Entity \cup {NoEntity}]
    /\ \A p \in Proc : phase[p] = "save" => entity[p] # NoEntity
    /\ reply \in [Proc -> Reply]
    /\ loaded \in [Proc -> Entity \cup {NoEntity}]
    /\ serial \in [Proc -> Nat]
    /\ received \in Nat
    /\ history \in [Id -> Seq(Write)]

Init ==
    /\ store = [id \in Id |-> NoEntity]
    /\ phase = [p \in Proc |-> "idle"]
    /\ req = [p \in Proc |-> NoRequest]
    /\ entity = [p \in Proc |-> NoEntity]
    /\ reply = [p \in Proc |-> NoReply]
    /\ loaded = [p \in Proc |-> NoEntity]
    /\ serial = [p \in Proc |-> 0]
    /\ received = 0
    /\ history = [id \in Id |-> << >>]

-----------------------------------------------------------------------------
(* The map, as the critical sections see it.                               *)

\* r.data[id]: the id of a PUT or PATCH is the path's text, never parsed.
Stored(raw) == raw \in Id /\ store[raw] # NoEntity

\* uuid.New never repeats: not an id on record, nor one about to be.
Fresh(id) ==
    /\ store[id] = NoEntity
    /\ \A p \in Proc : entity[p] # NoEntity => entity[p].id # id

\* Faulty variant: an existing record is replaced at whatever revision it is.
CompareAndSetAlways(e) == TRUE

\* An existing record is replaced only at the revision the caller loaded.
CompareAndSet(e) == store[e.id] = NoEntity \/ store[e.id].version = e.version

\* Faulty variant: a replacement keeps the revision the caller loaded.
PersistedUnadvanced(e) == e

\* Faulty variant: service and repository both advance the revision.
PersistedTwice(e) ==
    IF store[e.id] = NoEntity THEN e ELSE NextVersion(NextVersion(e))

\* An insert keeps the revision it was built with, a replacement advances it.
Persisted(e) == IF store[e.id] = NoEntity THEN e ELSE NextVersion(e)

\* Bound: UUIDs never run out, so a create arrives only while Id has one for it.
IdLeft ==
    Cardinality({p \in Proc : phase[p] = "start" /\ req[p].op = "create"})
        < Cardinality({id \in Id : Fresh(id)})

-----------------------------------------------------------------------------
(* The handlers.                                                           *)

Answer(p, r) ==
    /\ reply' = [reply EXCEPT ![p] = r]
    /\ phase' = [phase EXCEPT ![p] = "done"]
    /\ UNCHANGED req

\* Faulty variant: the handler returns on an error without writing an answer.
RefuseSilently(p, status) ==
    /\ phase' = [phase EXCEPT ![p] = "idle"]
    /\ UNCHANGED <<req, reply, entity>>

\* The handler ends before its Save.
Refuse(p, status) ==
    /\ Answer(p, Refusal(status))
    /\ UNCHANGED entity

\* The method holds e, ready to be saved.
Hold(p, e) ==
    /\ entity' = [entity EXCEPT ![p] = e]
    /\ phase' = [phase EXCEPT ![p] = "save"]
    /\ UNCHANGED <<req, reply>>

Accept(p) ==
    /\ phase[p] \in {"idle", "done"}
    /\ received < MaxRequests
    /\ \E r \in Requests :
          /\ r.op = "create" => IdLeft
          /\ req' = [req EXCEPT ![p] = r]
    /\ phase' = [phase EXCEPT ![p] = "start"]
    /\ entity' = [entity EXCEPT ![p] = NoEntity]
    /\ reply' = [reply EXCEPT ![p] = NoReply]
    /\ loaded' = [loaded EXCEPT ![p] = NoEntity]
    /\ received' = received + 1
    /\ serial' = [serial EXCEPT ![p] = received + 1]
    /\ UNCHANGED repository

\* CharacterService.Create up to its Save: the schema gate, then a new aggregate.
Create(p) ==
    /\ phase[p] = "start"
    /\ req[p].op = "create"
    /\ IF CreateAccepts(req[p].doc)
       THEN \E id \in Id :
              /\ Fresh(id)
              /\ Hold(p, NewCharacter(id, req[p].doc))
       ELSE Refuse(p, "invalid")
    /\ UNCHANGED <<loaded, repository, arrivals>>

\* CharacterService.Find: parse the id, then one locked read.
Find(p) ==
    /\ phase[p] = "start"
    /\ req[p].op = "find"
    /\ LET id == Canonical[req[p].raw]
       IN  IF id = BadId THEN Refuse(p, "invalid")
           ELSE IF ~ Stored(id) THEN Refuse(p, "not_found")
           ELSE Answer(p, Success(store[id])) /\ UNCHANGED entity
    /\ UNCHANGED <<loaded, repository, arrivals>>

\* Update and Patch up to their Save: load, check the version, edit the copy.
Load(p) ==
    /\ phase[p] = "start"
    /\ req[p].op \in {"update", "patch"}
    /\ LET r == req[p]
       IN  IF ~ Stored(r.raw)
           THEN Refuse(p, "not_found") /\ UNCHANGED loaded
           ELSE LET cur   == store[r.raw]
                    check == CheckVersion(r.expected, cur.version)
                IN  /\ loaded' = [loaded EXCEPT ![p] = cur]
                    /\ IF check # "ok" THEN Refuse(p, check)
                       ELSE IF ~ EditAccepts(cur.sheet, r) THEN Refuse(p, "invalid")
                       ELSE Hold(p, ReplaceSheet(cur, EditResult(cur.sheet, r)))
    /\ UNCHANGED <<repository, arrivals>>

\* CharacterRepository.Save under the lock, and the handler's answer to it.
Save(p) ==
    /\ phase[p] = "save"
    /\ LET e == entity[p]
       IN  IF CompareAndSet(e)
           THEN LET stored == Persisted(e)
                IN  /\ store' = [store EXCEPT ![e.id] = stored]
                    /\ history' = [history EXCEPT ![e.id] = Append(@,
                           [serial |-> serial[p], req |-> req[p],
                            from |-> loaded[p], sheet |-> e.sheet])]
                    /\ entity' = [entity EXCEPT ![p] = stored]
                    /\ Answer(p, Success(stored))
           ELSE Refuse(p, "conflict") /\ UNCHANGED repository
    /\ UNCHANGED <<loaded, arrivals>>

Serve(p) == Create(p) \/ Find(p) \/ Load(p) \/ Save(p)

\* The bound on requests is reached and every one of them is answered.
Quiescent ==
    /\ received = MaxRequests
    /\ \A p \in Proc : phase[p] \in {"idle", "done"}
    /\ UNCHANGED vars

Next == (\E p \in Proc : Accept(p) \/ Serve(p)) \/ Quiescent

Spec == Init /\ [][Next]_vars

\* net/http runs a goroutine per request, and Go's scheduler runs each of them.
FairSpec == Spec /\ \A p \in Proc : WF_vars(Serve(p))

-----------------------------------------------------------------------------
(* Properties.                                                             *)

\* The k-th accepted write of id, as a client would read it back.
Revision(id, k) == [id |-> id, version |-> k, sheet |-> history[id][k].sheet]

(***************************************************************************)
(* The record on file is the last accepted write, and its version is the   *)
(* number of writes the character has seen (common/version.go).            *)
(***************************************************************************)
VersionCountsWrites ==
    \A id \in Id :
        store[id] = IF history[id] = << >> THEN NoEntity
                    ELSE Revision(id, Len(history[id]))

(***************************************************************************)
(* No lost update: every accepted replacement was computed from the very   *)
(* revision it replaced, whatever came between its Find and its Save.      *)
(***************************************************************************)
NoLostUpdate ==
    \A id \in Id : \A k \in 1..Len(history[id]) :
        history[id][k].from = IF k = 1 THEN NoEntity ELSE Revision(id, k - 1)

(***************************************************************************)
(* A write that names the revision its client read replaces that revision  *)
(* and no other, although the name is checked against an earlier read than *)
(* the one the compare-and-set makes.  Resent, such a write cannot be      *)
(* accepted a second time.                                                 *)
(***************************************************************************)
ConditionalWriteHonoured ==
    \A id \in Id : \A k \in 1..Len(history[id]) :
        LET r == history[id][k].req
        IN  r.op \in {"update", "patch"} /\ r.expected # NoVersion
                => k = r.expected + 1

(***************************************************************************)
(* The schema gate holds for what is stored, not only for what is sent: no *)
(* patch, merged into whatever sheet it meets, leaves a sheet on file that *)
(* PUT would refuse (mapper/character.go, ApplyCharacterPatchRequest).     *)
(***************************************************************************)
StoredSheetsAreValid ==
    \A id \in Id : store[id] # NoEntity => ValidSheet(store[id].sheet)

(***************************************************************************)
(* An edit on its way to Save was computed from a revision that really was *)
(* on file, the one the client named if it named one, and passed the gate; *)
(* it may be stale by now.                                                 *)
(***************************************************************************)
HeldEdit(p) ==
    /\ req[p].op \in {"update", "patch"}
    /\ loaded[p] # NoEntity
    /\ loaded[p].version \in 1..Len(history[loaded[p].id])
    /\ loaded[p] = Revision(loaded[p].id, loaded[p].version)
    /\ req[p].expected \in {NoVersion, loaded[p].version}
    /\ entity[p].id = loaded[p].id
    /\ entity[p].version = loaded[p].version
    /\ ValidSheet(entity[p].sheet)

HeldEdits ==
    \A p \in Proc : phase[p] = "save" /\ req[p].op # "create" => HeldEdit(p)

(***************************************************************************)
(* A new character on its way to Save has an id that no record and no      *)
(* other goroutine has, so its Save can only insert.                       *)
(***************************************************************************)
HeldCreate(p) ==
    /\ loaded[p] = NoEntity
    /\ entity[p].version = MinVersion
    /\ ValidSheet(entity[p].sheet)
    /\ store[entity[p].id] = NoEntity
    /\ \A q \in Proc \ {p} : entity[q] # NoEntity => entity[q].id # entity[p].id

HeldCreates ==
    \A p \in Proc : phase[p] = "save" /\ req[p].op = "create" => HeldCreate(p)

\* A goroutine that has not reached the repository holds nothing of it.
StartsEmpty ==
    \A p \in Proc : phase[p] = "start" => loaded[p] = NoEntity /\ entity[p] = NoEntity

\* The inductive invariant: the history with what the goroutines hold.
RepositoryInv ==
    /\ TypeOK
    /\ StartsEmpty
    /\ HeldEdits
    /\ HeldCreates
    /\ VersionCountsWrites
    /\ NoLostUpdate
    /\ ConditionalWriteHonoured
    /\ StoredSheetsAreValid

(***************************************************************************)
(* An answer tells what happened: after a success the history holds the    *)
(* request's write, once, at the revision the client was given; after a    *)
(* refusal, and before the Save, the request has written nothing.          *)
(***************************************************************************)
WrittenAsAnswered ==
    \A p \in Proc : \A id \in Id : \A k \in 1..Len(history[id]) :
        history[id][k].serial = serial[p] =>
            /\ phase[p] = "done"
            /\ reply[p] = Success(Revision(id, k))

(***************************************************************************)
(* A revision number names one sheet for ever: what a client was given as  *)
(* a character's version k, by any read or write and however long ago, is  *)
(* what the k-th write stored.                                             *)
(***************************************************************************)
AnswersAreRevisions ==
    \A p \in Proc :
        reply[p].status = "ok" =>
            LET e == reply[p].entity
            IN  /\ e # NoEntity
                /\ e.version \in 1..Len(history[e.id])
                /\ e = Revision(e.id, e.version)
                /\ req[p].op # "find" =>
                      history[e.id][e.version].serial = serial[p]

(***************************************************************************)
(* A 409 is never spurious: the client named another revision than the one *)
(* loaded, or somebody's write was accepted after the load.  So among      *)
(* contending writers one always succeeds.                                 *)
(***************************************************************************)
ConflictMeansOvertaken ==
    \A p \in Proc :
        reply[p].status = "conflict" =>
            /\ loaded[p] # NoEntity
            /\ \/ req[p].expected \notin {NoVersion, loaded[p].version}
               \/ Len(history[loaded[p].id]) > loaded[p].version

(***************************************************************************)
(* An accepted patch changes the sections it names and leaves every other  *)
(* one as it is on file at that moment: two clients patching different     *)
(* sections keep both edits.                                               *)
(***************************************************************************)
PatchesOnlyNamed ==
    \A id \in Id :
        Len(history'[id]) > Len(history[id]) =>
            LET r == history'[id][Len(history'[id])].req
            IN  r.op = "patch" /\ r.doc # Omitted =>
                    \A s \in Section :
                        r.doc[s] = Untouched => store'[id].sheet[s] = store[id].sheet[s]

PatchTouchesOnlyNamed == [][PatchesOnlyNamed]_vars

(***************************************************************************)
(* Every request is answered.                                              *)
(***************************************************************************)
EveryRequestAnswered ==
    \A p \in Proc : phase[p] \in {"start", "save"} ~> phase[p] = "done"

(***************************************************************************)
(* A request that names no version is last-writer-wins                     *)
(* (dto/v1alpha/character.go), so it is not refused with a conflict.       *)
(***************************************************************************)
LastWriterWins ==
    \A p \in Proc :
        req[p].op \in {"update", "patch"} /\ req[p].expected = NoVersion
            => reply[p].status # "conflict"

(***************************************************************************)
(* The abstract service this one implements: a request takes effect at its *)
(* Save, or at its Find when it ends there.                                *)
(***************************************************************************)
Stage(p) ==
    CASE phase[p] = "idle" -> "idle"
      [] phase[p] = "done" -> "answered"
      [] OTHER -> "pending"

calls == [p \in Proc |-> [state |-> Stage(p), req |-> req[p], reply |-> reply[p]]]

Atomic == INSTANCE AtomicCharacters WITH call <- calls

ImplementsAtomic == Atomic!Spec

=============================================================================
