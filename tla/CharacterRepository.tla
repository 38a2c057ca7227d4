------------------------ MODULE CharacterRepository ------------------------
(***************************************************************************)
(* The contract of character.CharacterRepository                           *)
(* (pkg/domain/character/character.go), whatever stores the characters: a  *)
(* call takes effect in one step, its settling, between the call and the   *)
(* return, and a Save is a compare-and-set on the version.  A call may     *)
(* also fail; then it has either not taken effect, or the caller does not  *)
(* learn that it has.                                                      *)
(***************************************************************************)
EXTENDS Naturals

CONSTANTS
    Proc,         \* the callers
    Id,           \* character ids
    Sheet,        \* character sheets
    NoCharacter   \* an id that is not on file

VARIABLES
    table,        \* Id -> the stored character, or NoCharacter
    call          \* Proc -> the call in progress

vars == <<table, call>>

Character == [id : Id, version : Nat \ {0}, sheet : Sheet]

Request == [op : {"save"}, character : Character]
               \cup [op : {"find"}, id : Id]
               \cup [op : {"list"}]

NoRequest == [op |-> "none"]

Result == [status : {"ok", "conflict", "not_found", "failed"}, rows : SUBSET Character]

Refused(status) == [status |-> status, rows |-> {}]

Answered(rows) == [status |-> "ok", rows |-> rows]

NoResult == Refused("failed")

Call == [state : {"idle", "called", "settled", "returned"},
         req : Request \cup {NoRequest}, result : Result]

Advanced(c) == [id |-> c.id, version |-> c.version + 1, sheet |-> c.sheet]

Rows == {table[id] : id \in {i \in Id : table[i] # NoCharacter}}

Init ==
    /\ table = [id \in Id |-> NoCharacter]
    /\ call = [p \in Proc |-> [state |-> "idle", req |-> NoRequest, result |-> NoResult]]

Move(p, state, r, result) ==
    call' = [call EXCEPT ![p] = [state |-> state, req |-> r, result |-> result]]

\* Any request will do: the step is described by what it leaves behind.
Invoke(p) ==
    /\ call[p].state \in {"idle", "returned"}
    /\ call'[p].req \in Request
    /\ Move(p, "called", call'[p].req, NoResult)
    /\ UNCHANGED table

\* A new id is inserted as it is, a stored one replaced only at its version.
Save(p) ==
    /\ call[p].state = "called"
    /\ call[p].req.op = "save"
    /\ LET c   == call[p].req.character
           cur == table[c.id]
           new == IF cur = NoCharacter THEN c ELSE Advanced(c)
       IN  IF cur = NoCharacter \/ cur.version = c.version
           THEN /\ table' = [table EXCEPT ![c.id] = new]
                /\ Move(p, "settled", call[p].req, Answered({new}))
           ELSE /\ Move(p, "settled", call[p].req, Refused("conflict"))
                /\ UNCHANGED table

Find(p) ==
    /\ call[p].state = "called"
    /\ call[p].req.op = "find"
    /\ LET cur == table[call[p].req.id]
       IN  Move(p, "settled", call[p].req,
                IF cur = NoCharacter THEN Refused("not_found") ELSE Answered({cur}))
    /\ UNCHANGED table

List(p) ==
    /\ call[p].state = "called"
    /\ call[p].req.op = "list"
    /\ Move(p, "settled", call[p].req, Answered(Rows))
    /\ UNCHANGED table

Return(p) ==
    /\ call[p].state = "settled"
    /\ Move(p, "returned", call[p].req, call[p].result)
    /\ UNCHANGED table

Fail(p) ==
    /\ call[p].state \in {"called", "settled"}
    /\ Move(p, "returned", call[p].req, NoResult)
    /\ UNCHANGED table

Next == \E p \in Proc : Invoke(p) \/ Save(p) \/ Find(p) \/ List(p) \/ Return(p) \/ Fail(p)

Spec == Init /\ [][Next]_vars
=============================================================================
