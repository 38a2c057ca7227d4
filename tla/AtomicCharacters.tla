-------------------------- MODULE AtomicCharacters --------------------------
(***************************************************************************)
(* What /characters promises its clients: every request takes effect in    *)
(* one step, some time between its call and its answer, on the character   *)
(* as it is stored at that moment.  The only allowance the optimistic      *)
(* writers make for is that an update or a patch may be refused with a     *)
(* conflict instead, and then it changes nothing.                          *)
(***************************************************************************)
EXTENDS CharacterSheet

CONSTANTS
    Proc,        \* the handlers' goroutines
    Requests     \* the requests clients may send

VARIABLES
    store,       \* Id -> the stored character, or NoEntity
    call         \* Proc -> the request in progress and its answer

vars == <<store, call>>

Call == [state : {"idle", "pending", "answered"},
         req : Requests \cup {NoRequest}, reply : Reply]

TypeOK ==
    /\ store \in [Id -> Entity \cup {NoEntity}]
    /\ call \in [Proc -> Call]

Init ==
    /\ store = [id \in Id |-> NoEntity]
    /\ call = [p \in Proc |-> [state |-> "idle", req |-> NoRequest, reply |-> NoReply]]

Pending(p) == call[p].state = "pending"

Stored(raw) == raw \in Id /\ store[raw] # NoEntity

Answer(p, reply) ==
    call' = [call EXCEPT ![p] = [state |-> "answered", req |-> @.req, reply |-> reply]]

Refuse(p, status) == Answer(p, Refusal(status)) /\ UNCHANGED store

Put(p, e) ==
    /\ store' = [store EXCEPT ![e.id] = e]
    /\ Answer(p, Success(e))

Invoke(p) ==
    /\ ~ Pending(p)
    /\ \E r \in Requests :
          call' = [call EXCEPT ![p] = [state |-> "pending", req |-> r, reply |-> NoReply]]
    /\ UNCHANGED store

Create(p) ==
    /\ Pending(p)
    /\ call[p].req.op = "create"
    /\ IF CreateAccepts(call[p].req.doc)
       THEN \E id \in Id :
              /\ store[id] = NoEntity
              /\ Put(p, NewCharacter(id, call[p].req.doc))
       ELSE Refuse(p, "invalid")

Find(p) ==
    /\ Pending(p)
    /\ call[p].req.op = "find"
    /\ LET id == Canonical[call[p].req.raw]
       IN  IF id = BadId THEN Refuse(p, "invalid")
           ELSE IF store[id] = NoEntity THEN Refuse(p, "not_found")
           ELSE Answer(p, Success(store[id])) /\ UNCHANGED store

Edit(p) ==
    /\ Pending(p)
    /\ call[p].req.op \in {"update", "patch"}
    /\ LET r == call[p].req
       IN  IF ~ Stored(r.raw) THEN Refuse(p, "not_found")
           ELSE LET cur   == store[r.raw]
                    check == CheckVersion(r.expected, cur.version)
                IN  IF check # "ok" THEN Refuse(p, check)
                    ELSE IF ~ EditAccepts(cur.sheet, r) THEN Refuse(p, "invalid")
                    ELSE Put(p, NextVersion(ReplaceSheet(cur, EditResult(cur.sheet, r))))

\* An edit that lost the race for the revision it loaded.
Overtaken(p) ==
    /\ Pending(p)
    /\ call[p].req.op \in {"update", "patch"}
    /\ Stored(call[p].req.raw)
    /\ Refuse(p, "conflict")

Next == \E p \in Proc : Invoke(p) \/ Create(p) \/ Find(p) \/ Edit(p) \/ Overtaken(p)

Spec == Init /\ [][Next]_vars
=============================================================================
