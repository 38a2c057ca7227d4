---------------------------- MODULE UserService ----------------------------
(***************************************************************************)
(* The /users resource of the dmostd daemon: goroutines that serve         *)
(* requests (pkg/http/user.go), each running one method of                 *)
(* services.UserService against the one inmem.UserRepository, and the      *)
(* client's decoding of the answer (http.Client).                          *)
(*                                                                         *)
(* As in CharacterService a step is one critical section of the repository *)
(* with the local computation around it.  What is new is that a Save also  *)
(* looks at every other record: addresses and handles are unique.          *)
(*                                                                         *)
(* UserRepository.Delete has no route.  It is an operation of the          *)
(* repository all the same, and a "delete" request stands for its caller.  *)
(***************************************************************************)
EXTENDS UserRecord, Sequences, FiniteSets

CONSTANTS
    Proc,        \* the handlers' goroutines
    Requests,    \* the requests clients may send
    MaxRequests  \* bound: how many requests the daemon receives

ASSUME RequestsAssumption ==
    /\ Requests \subseteq Request
    /\ MaxRequests \in Nat

VARIABLES
    store,       \* UserRepository.data
    phase,       \* how far the goroutine's request has come
    req,         \* the request it serves
    entity,      \* the aggregate the method holds
    reply,       \* the answer the handler wrote
    client,      \* what became of that answer at the client
    loaded,      \* history: the aggregate as Find returned it
    received,    \* history: how many requests have arrived
    history      \* history: per id, the accepted writes and deletions in order

vars == <<store, phase, req, entity, reply, client, loaded, received, history>>

\* A deletion writes NoUser.
Write == [from : User \cup {NoUser}, to : User \cup {NoUser}]

(***************************************************************************)
(* The type invariant.                                                     *)
(***************************************************************************)
TypeOK ==
    /\ store \in [Id -> User \cup {NoUser}]
    /\ phase \in [Proc -> {"idle", "start", "save", "done"}]
    /\ req \in [Proc -> Requests \cup {NoRequest}]
    /\ entity \in [Proc -> User \cup {NoUser}]
    /\ \A p \in Proc : phase[p] # "idle" => req[p] \in Requests
    /\ \A p \in Proc : phase[p] = "save" => entity[p] # NoUser
    /\ \A id \in Id : store[id] # NoUser => store[id].id = id
    /\ reply \in [Proc -> Reply]
    /\ client \in [Proc -> {"waiting", "decoded", "panicked"}]
    /\ loaded \in [Proc -> User \cup {NoUser}]
    /\ received \in Nat
    /\ history \in [Id -> Seq(Write)]

Init ==
    /\ store = [id \in Id |-> NoUser]
    /\ phase = [p \in Proc |-> "idle"]
    /\ req = [p \in Proc |-> NoRequest]
    /\ entity = [p \in Proc |-> NoUser]
    /\ reply = [p \in Proc |-> NoReply]
    /\ client = [p \in Proc |-> "waiting"]
    /\ loaded = [p \in Proc |-> NoUser]
    /\ received = 0
    /\ history = [id \in Id |-> << >>]

-----------------------------------------------------------------------------
(* The map, as the critical sections see it.                               *)

Stored(raw) == raw \in Id /\ store[raw] # NoUser

OnFile == {store[id] : id \in {i \in Id : store[i] # NoUser}}

Fresh(id) ==
    /\ history[id] = << >>
    /\ \A p \in Proc : entity[p] # NoUser => entity[p].id # id

\* Bound: UUIDs never run out, so a create arrives only while Id has one for it.
IdLeft ==
    Cardinality({p \in Proc : phase[p] = "start" /\ req[p].op = "create"})
        < Cardinality({id \in Id : Fresh(id)})

\* Faulty variant: an existing record is replaced at whatever revision it is.
CompareAndSetAlways(u) == TRUE

CompareAndSet(u) == store[u.id] = NoUser \/ store[u.id].version = u.version

\* Faulty variant: handles are not scanned.
TakenEmail(u) ==
    \E id \in Id \ {u.id} : store[id] # NoUser /\ store[id].email = u.email

\* Another record holds u's address or u's handle.
Taken(u) ==
    \E id \in Id \ {u.id} :
        /\ store[id] # NoUser
        /\ store[id].email = u.email \/ SameHandle(u.handle, store[id].handle)

Persisted(u) == IF store[u.id] = NoUser THEN u ELSE NextVersion(u)

-----------------------------------------------------------------------------
(* The handlers.                                                           *)

Answer(p, r) ==
    /\ reply' = [reply EXCEPT ![p] = r]
    /\ phase' = [phase EXCEPT ![p] = "done"]
    /\ UNCHANGED <<req, client>>

Refuse(p, status) ==
    /\ Answer(p, Refusal(status))
    /\ UNCHANGED entity

Hold(p, u) ==
    /\ entity' = [entity EXCEPT ![p] = u]
    /\ phase' = [phase EXCEPT ![p] = "save"]
    /\ UNCHANGED <<req, reply, client>>

Accept(p) ==
    /\ phase[p] = "idle" \/ (phase[p] = "done" /\ client[p] # "waiting")
    /\ received < MaxRequests
    /\ \E r \in Requests :
          /\ r.op = "create" => IdLeft
          /\ req' = [req EXCEPT ![p] = r]
    /\ phase' = [phase EXCEPT ![p] = "start"]
    /\ entity' = [entity EXCEPT ![p] = NoUser]
    /\ reply' = [reply EXCEPT ![p] = NoReply]
    /\ client' = [client EXCEPT ![p] = "waiting"]
    /\ loaded' = [loaded EXCEPT ![p] = NoUser]
    /\ received' = received + 1
    /\ UNCHANGED <<store, history>>

\* UserService.Create up to its Save: a new aggregate out of the request.
Create(p) ==
    /\ phase[p] = "start"
    /\ req[p].op = "create"
    /\ IF FieldsAccepted(req[p])
       THEN \E id \in Id : Fresh(id) /\ Hold(p, NewUser(id, req[p]))
       ELSE Refuse(p, "invalid")
    /\ UNCHANGED <<store, loaded, received, history>>

\* UserService.Find: parse the id, then one locked read.
Find(p) ==
    /\ phase[p] = "start"
    /\ req[p].op = "find"
    /\ LET id == CanonicalId[req[p].raw]
       IN  IF id = Invalid THEN Refuse(p, "invalid")
           ELSE IF ~ Stored(id) THEN Refuse(p, "not_found")
           ELSE Answer(p, Success({store[id]})) /\ UNCHANGED entity
    /\ UNCHANGED <<store, loaded, received, history>>

\* UserService.FindAll: one locked read of the whole map.
FindAll(p) ==
    /\ phase[p] = "start"
    /\ req[p].op = "list"
    /\ Answer(p, Success(OnFile))
    /\ UNCHANGED <<store, entity, loaded, received, history>>

\* UserService.Update up to its Save: load, check the version, edit the copy.
Load(p) ==
    /\ phase[p] = "start"
    /\ req[p].op = "update"
    /\ LET r == req[p]
       IN  IF ~ Stored(r.raw)
           THEN Refuse(p, "not_found") /\ UNCHANGED loaded
           ELSE LET cur   == store[r.raw]
                    check == CheckVersion(r.expected, cur.version)
                IN  /\ loaded' = [loaded EXCEPT ![p] = cur]
                    /\ IF check # "ok" THEN Refuse(p, check)
                       ELSE IF ~ FieldsAccepted(r) THEN Refuse(p, "invalid")
                       ELSE Hold(p, ApplyUpdate(cur, r))
    /\ UNCHANGED <<store, received, history>>

\* UserRepository.Save under the lock, and the handler's answer to it.
Save(p) ==
    /\ phase[p] = "save"
    /\ LET u == entity[p]
       IN  IF ~ CompareAndSet(u) THEN Refuse(p, "conflict") /\ UNCHANGED <<store, history>>
           ELSE IF Taken(u) THEN Refuse(p, "exists") /\ UNCHANGED <<store, history>>
           ELSE LET stored == Persisted(u)
                IN  /\ store' = [store EXCEPT ![u.id] = stored]
                    /\ history' = [history EXCEPT ![u.id] =
                                      Append(@, [from |-> loaded[p], to |-> stored])]
                    /\ entity' = [entity EXCEPT ![p] = stored]
                    /\ Answer(p, Success({stored}))
    /\ UNCHANGED <<loaded, received>>

\* UserRepository.Delete: gone, whatever its revision; no error if it was not there.
Delete(p) ==
    /\ phase[p] = "start"
    /\ req[p].op = "delete"
    /\ LET id == req[p].raw
       IN  IF Stored(id)
           THEN /\ store' = [store EXCEPT ![id] = NoUser]
                /\ history' = [history EXCEPT ![id] =
                                  Append(@, [from |-> store[id], to |-> NoUser])]
           ELSE UNCHANGED <<store, history>>
    /\ Answer(p, Success({}))
    /\ UNCHANGED <<entity, loaded, received>>

\* http.Client turns the users of an answer into aggregates, dereferencing the
\* username, which the response carries only for a user with a handle.  It has
\* no method for a single find.
Decode(p) ==
    /\ phase[p] = "done"
    /\ client[p] = "waiting"
    /\ client' = [client EXCEPT ![p] =
                     IF /\ req[p].op \in {"create", "update", "list"}
                        /\ \E u \in reply[p].users : u.handle = NoHandle
                     THEN "panicked" ELSE "decoded"]
    /\ UNCHANGED <<store, phase, req, entity, reply, loaded, received, history>>

Serve(p) == Create(p) \/ Find(p) \/ FindAll(p) \/ Load(p) \/ Save(p) \/ Delete(p)

\* The bound on requests is reached and every one of them is answered.
Quiescent ==
    /\ received = MaxRequests
    /\ \A p \in Proc : phase[p] = "idle" \/ client[p] # "waiting"
    /\ UNCHANGED vars

Next == (\E p \in Proc : Accept(p) \/ Serve(p) \/ Decode(p)) \/ Quiescent

Spec == Init /\ [][Next]_vars

-----------------------------------------------------------------------------
(* Properties.                                                             *)

\* Two records claim the same address or handle, by what their texts denote.
Clash(u, v) ==
    /\ u.id # v.id
    /\ \/ CanonicalEmail[u.email] = CanonicalEmail[v.email]
       \/ /\ u.handle # NoHandle /\ v.handle # NoHandle
          /\ CanonicalHandle[u.handle] = CanonicalHandle[v.handle]

(***************************************************************************)
(* No address and no handle belongs to two users, however the creates and  *)
(* the renames of different goroutines interleave (UserRepository.Save).   *)
(***************************************************************************)
IdentitiesUnique ==
    \A i, j \in Id :
        store[i] # NoUser /\ store[j] # NoUser => ~ Clash(store[i], store[j])

\* The text is the one every spelling of it is stored as.
IsCanonical(u) ==
    /\ CanonicalEmail[u.email] = u.email
    /\ CanonicalHandle[u.handle] = u.handle

\* The inductive invariant: Save compares texts, so they must be canonical.
IdentityInv ==
    /\ TypeOK
    /\ \A id \in Id : store[id] # NoUser => IsCanonical(store[id])
    /\ \A p \in Proc : entity[p] # NoUser => IsCanonical(entity[p])
    /\ IdentitiesUnique

(***************************************************************************)
(* Nor does any list ever answered show two such users, though users may   *)
(* be renamed while the list is made.                                      *)
(***************************************************************************)
ListsAreConsistent ==
    \A p \in Proc : \A u, v \in reply[p].users : ~ Clash(u, v)

(***************************************************************************)
(* Every accepted update was computed from the very record it replaced,    *)
(* and became the revision after it.  A Delete voids that: versions of a   *)
(* user who comes back begin anew.                                         *)
(***************************************************************************)
NoLostUpdate ==
    \A id \in Id : \A k \in 1..Len(history[id]) :
        (\A j \in 1..k : history[id][j].to # NoUser) =>
            /\ history[id][k].from = IF k = 1 THEN NoUser ELSE history[id][k - 1].to
            /\ history[id][k].to.version = k

(***************************************************************************)
(* "exists" is never spurious: the request asked for an address or handle  *)
(* that another user has had and the user it writes, unless it was deleted *)
(* meanwhile, did not.  So an update is not refused for the user's own,    *)
(* nor a user without a handle for another without one.                    *)
(***************************************************************************)
ExistsMeansClaimed ==
    \A p \in Proc :
        reply[p].status = "exists" =>
            LET u   == entity[p]
                had == {history[u.id][k].to : k \in 1..Len(history[u.id])}
                old == IF NoUser \in had THEN NoUser ELSE loaded[p]
            IN  \E id \in Id \ {u.id} : \E k \in 1..Len(history[id]) :
                  LET v == history[id][k].to
                  IN  /\ v # NoUser
                      /\ \/ v.email = u.email /\ (old # NoUser => old.email # u.email)
                         \/ /\ u.handle # NoHandle /\ v.handle = u.handle
                            /\ old # NoUser => old.handle # u.handle

(***************************************************************************)
(* The client can read whatever the server answers, a user without a       *)
(* handle included (pkg/domain/user/user.go, SetHandle).                   *)
(***************************************************************************)
AnswersDecode == \A p \in Proc : client[p] # "panicked"

=============================================================================
