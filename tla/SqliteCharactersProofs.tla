----------------------- MODULE SqliteCharactersProofs -----------------------
(***************************************************************************)
(* The SQLite character repository: proofs for any number of callers, ids, *)
(* sheets, attempts, connections and calls.                                *)
(*                                                                         *)
(* The properties speak of the table and its history.  Whether a caller's  *)
(* next write keeps them depends on what it holds (HeldInv, Unshared), and *)
(* what it learns on what its statement fetched (CallInv); that a write    *)
(* can be traced to its call, on the numbers of the calls (NumberInv).     *)
(***************************************************************************)
EXTENDS SqliteCharacters, SequenceTheorems, FiniteSetTheorems, TLAPS

\* c is in the history as it stands.
IsRevision(c) ==
    /\ c.version \in 1 .. Len(writes[c.id])
    /\ c = Revision(c.id, c.version)

\* Call n wrote the k-th revision of id.
WroteAt(n, id, k) == k \in 1 .. Len(writes[id]) /\ writes[id][k].number = n

\* Call n has written nothing.
Unwritten(n) == \A id \in Id, k \in Nat : ~ WroteAt(n, id, k)

(***************************************************************************)
(* What p holds is an edit of the revision base[p], or a character it has  *)
(* made; the first write of that one, if there is one, is its own.         *)
(***************************************************************************)
HeldOK(p) ==
    held[p] # NoCharacter =>
        IF base[p] = NoCharacter
        THEN /\ held[p].version = MinVersion
             /\ writes[held[p].id] # << >> => writes[held[p].id][1].by = p
        ELSE /\ IsRevision(base[p])
             /\ base[p].id = held[p].id
             /\ base[p].version = held[p].version

HeldInv == \A p \in Proc : HeldOK(p)

\* A character that was never stored is in one caller's hands.
Unshared ==
    \A p, q \in Proc :
        p # q /\ held[p] # NoCharacter /\ held[q] # NoCharacter /\ held[p].id = held[q].id
            => writes[held[p].id] # << >>

\* What a Save fetched is the revision it wrote, and the next one after the
\* one it replaced.
SaveFetched(p) ==
    IF Saved(p)
    THEN /\ fetched[p].rows = {}
         /\ fetched[p].version \in {held[p].version, held[p].version + 1}
         /\ WroteAt(number[p], held[p].id, fetched[p].version)
         /\ writes[held[p].id][fetched[p].version].sheet = held[p].sheet
    ELSE Unwritten(number[p])

\* What a read fetched are revisions, and a Find has at most one.
ReadFetched(p) ==
    /\ \A row \in fetched[p].rows : IsRevision(row)
    /\ req[p].op = "find" => \A row, other \in fetched[p].rows : row = other

\* What a call that has returned left its caller with.
SaveReturned(p) ==
    /\ result[p].status = "ok" => WroteAt(number[p], held[p].id, held[p].version)
    /\ result[p].status \in {"conflict", "locked", "closed"} => Unwritten(number[p])

InStepWith(p) ==
    result[p].status = "ok" => held[p] # NoCharacter /\ held[p] = base[p]

CallOK(p) ==
    /\ phase[p] = "idle" => number[p] = 0
    /\ phase[p] # "idle" => number[p] # 0
    /\ phase[p] \in {"called", "ready", "running", "backoff", "settled"} => result[p] = NoResult
    /\ phase[p] \in {"called", "ready", "running", "backoff"} => Unwritten(number[p])
    /\ phase[p] = "backoff" => attempt[p] < MaxRetries
    /\ phase[p] \notin {"idle", "done"} /\ req[p].op = "save" => req[p].character = held[p]
    /\ phase[p] = "settled" => IF req[p].op = "save" THEN SaveFetched(p) ELSE ReadFetched(p)
    /\ phase[p] = "done" /\ req[p].op = "save" => SaveReturned(p)
    /\ phase[p] = "done" /\ req[p].op \in {"save", "find"} => InStepWith(p)

CallInv == \A p \in Proc : CallOK(p)

\* Calls are numbered, and a call writes once.
NumberInv ==
    /\ \A p \in Proc : number[p] <= calls
    /\ \A p, q \in Proc : p # q /\ number[p] = number[q] => number[p] = 0
    /\ \A id \in Id : \A k \in 1 .. Len(writes[id]) : writes[id][k].number \in 1 .. calls
    /\ \A i, j \in Id : \A k \in 1 .. Len(writes[i]), m \in 1 .. Len(writes[j]) :
          writes[i][k].number = writes[j][m].number => i = j /\ k = m

SqliteInv ==
    /\ TypeOK
    /\ RowIsLastWrite
    /\ NoLostUpdate
    /\ HeldInv
    /\ Unshared
    /\ CallInv
    /\ NumberInv

-----------------------------------------------------------------------------
(* Types.                                                                  *)

\* Versions start at one and go up.
LEMMA CharacterTypes ==
    /\ \A id \in Id, sheet \in Sheet : NewCharacter(id, sheet) \in Character
    /\ \A c \in Character, sheet \in Sheet : ReplaceSheet(c, sheet) \in Character
    /\ \A c \in Character : \A stored : InStep(c, stored) \in Character
BY DEF NewCharacter, ReplaceSheet, InStep, Character, MinVersion

\* What a statement or a call comes to is of its type.
LEMMA ResultTypes ==
    /\ NoResult \in Result
    /\ \A status \in Status : Refused(status) \in Result
    /\ \A rows \in SUBSET Character : Answered(rows) \in Result
    /\ NoRow \in Fetched
BY DEF NoResult, Refused, Answered, NoRow, Result, Status, Fetched

\* The requests that callers make are requests.
LEMMA RequestTypes ==
    /\ \A c \in Character : [op |-> "save", character |-> c] \in Request
    /\ \A id \in Id : [op |-> "find", id |-> id] \in Request
    /\ [op |-> "list"] \in Request
BY DEF Request, SaveRequest, FindRequest, ListRequest

\* A request of a given kind carries that kind's field.
LEMMA RequestShape ==
    ASSUME NEW r \in Request
    PROVE  /\ r.op \in {"save", "find", "list"}
           /\ r.op = "save" => r.character \in Character
           /\ r.op = "find" => r.id \in Id
<1>1. CASE r \in SaveRequest
  BY <1>1 DEF SaveRequest
<1>2. CASE r \in FindRequest
  BY <1>2 DEF FindRequest
<1>3. CASE r \in ListRequest
  BY <1>3 DEF ListRequest
<1> QED
  BY <1>1, <1>2, <1>3 DEF Request

\* A write appended to one history leaves the others alone.
LEMMA HistoryGrows ==
    ASSUME TypeOK, NEW id \in Id, NEW w \in Write,
           writes' = [writes EXCEPT ![id] = Append(@, w)]
    PROVE  /\ writes' \in [Id -> Seq(Write)]
           /\ Len(writes[id]) \in Nat
           /\ Len(writes'[id]) = Len(writes[id]) + 1
           /\ writes'[id][Len(writes[id]) + 1] = w
           /\ \A k \in 1 .. Len(writes[id]) : writes'[id][k] = writes[id][k]
           /\ \A i \in Id : i # id => writes'[i] = writes[i]
BY DEF TypeOK

\* An empty table and idle callers are of their types.
LEMMA TypeInit == Init => TypeOK
<1> SUFFICES ASSUME Init
             PROVE  TypeOK
  OBVIOUS
<1>1. attempt \in [Proc -> 1 .. MaxRetries]
  BY SqliteAssumption DEF Init
<1> QED
  BY <1>1, ResultTypes DEF Init, TypeOK

\* A new call.
LEMMA CallTypes ==
    ASSUME TypeOK, NEW p \in Proc, NEW r \in Request, Call(p, r),
           held' \in [Proc -> Character \cup {NoCharacter}],
           base' \in [Proc -> Character \cup {NoCharacter}]
    PROVE  TypeOK'
<1>1. /\ req' \in [Proc -> Request \cup {NoRequest}]
      /\ phase' \in [Proc -> {"idle", "called", "ready", "running", "backoff", "settled", "done"}]
      /\ \A q \in Proc : phase'[q] # "idle" => req'[q] \in Request
  BY DEF TypeOK, Call
<1>2. /\ result' \in [Proc -> Result]
      /\ number' \in [Proc -> Nat]
      /\ calls' \in Nat
  BY ResultTypes DEF TypeOK, Call
<1> QED
  BY <1>1, <1>2 DEF TypeOK, Call, database, statement

\* A call that ends.
LEMMA ReturnTypes ==
    ASSUME TypeOK, NEW p \in Proc, NEW r \in Result, Return(p, r), phase[p] # "idle",
           held' \in [Proc -> Character \cup {NoCharacter}],
           base' \in [Proc -> Character \cup {NoCharacter}],
           UNCHANGED <<database, pool, req, number, calls>>
    PROVE  TypeOK'
<1>1. attempt' \in [Proc -> 1 .. MaxRetries]
  BY SqliteAssumption DEF TypeOK, Return
<1> QED
  BY <1>1, ResultTypes DEF TypeOK, Return, database

\* A call that returns an error.
LEMMA AbandonTypes ==
    ASSUME TypeOK, NEW p \in Proc, NEW status \in Status, Abandon(p, status), phase[p] # "idle"
    PROVE  TypeOK'
BY ReturnTypes, ResultTypes DEF Abandon, callers, TypeOK

\* A call that goes on.
LEMMA StepTypes ==
    ASSUME TypeOK, NEW p \in Proc,
           NEW next \in {"called", "ready", "running", "backoff", "settled", "done"},
           Step(p, next), phase[p] # "idle",
           table' \in [Id -> Character \cup {NoCharacter}],
           \A id \in Id : table'[id] # NoCharacter => table'[id].id = id,
           writes' \in [Id -> Seq(Write)],
           attempt' \in [Proc -> 1 .. MaxRetries],
           fetched' \in [Proc -> Fetched]
    PROVE  TypeOK'
BY DEF TypeOK, Step, callers

\* What the upsert stores.
LEMMA UpsertedType ==
    ASSUME TypeOK, NEW c \in Character
    PROVE  Upserted(c) \in Character /\ Upserted(c).id = c.id
BY DEF Upserted, TypeOK, Character

\* The rows of the table are characters.
LEMMA RowsType ==
    ASSUME TypeOK
    PROVE  Rows \in SUBSET Character
BY DEF Rows, TypeOK

\* A statement that takes effect.
LEMMA ExecuteTypes ==
    ASSUME TypeOK, NEW p \in Proc, Execute(p)
    PROVE  TypeOK'
<1>1. phase[p] = "running" /\ req[p] \in Request
  BY DEF Execute, TypeOK
<1>2. CASE req[p].op = "save"
  <2> DEFINE c == req[p].character
             w == [by |-> p, number |-> number[p], from |-> base[p], sheet |-> c.sheet]
  <2>1. c \in Character
    BY <1>1, <1>2, RequestShape
  <2>2. CASE table[c.id] = NoCharacter \/ Matches(table[c.id], c)
    <3>1. /\ table' = [table EXCEPT ![c.id] = Upserted(c)]
          /\ writes' = [writes EXCEPT ![c.id] = Append(@, w)]
          /\ fetched' = [fetched EXCEPT ![p] = [version |-> Upserted(c).version, rows |-> {}]]
      BY <1>2, <2>2 DEF Execute, ExecuteSave
    <3>2. w \in Write /\ c.id \in Id
      BY <2>1 DEF Write, TypeOK, Character
    <3>3. writes' \in [Id -> Seq(Write)]
      BY <3>1, <3>2, HistoryGrows
    <3>4. /\ table' \in [Id -> Character \cup {NoCharacter}]
          /\ \A id \in Id : table'[id] # NoCharacter => table'[id].id = id
      BY <2>1, <3>1, <3>2, UpsertedType DEF TypeOK
    <3>5. fetched' \in [Proc -> Fetched]
      <4>1. [version |-> Upserted(c).version, rows |-> {}] \in Fetched
        BY <2>1, UpsertedType DEF Fetched, Character
      <4> QED BY <3>1, <4>1 DEF TypeOK
    <3> QED
      BY <1>1, <3>3, <3>4, <3>5, StepTypes DEF Execute, TypeOK
  <2>3. CASE ~ (table[c.id] = NoCharacter \/ Matches(table[c.id], c))
    <3>1. fetched' \in [Proc -> Fetched] /\ UNCHANGED database
      BY <1>2, <2>3, ResultTypes DEF Execute, ExecuteSave, TypeOK
    <3> QED
      BY <1>1, <3>1, StepTypes DEF Execute, TypeOK, database
  <2> QED BY <2>2, <2>3
<1>3. CASE req[p].op # "save"
  <2> DEFINE rows == IF req[p].op = "list" THEN Rows ELSE {row \in Rows : row.id = req[p].id}
  <2>1. fetched' = [fetched EXCEPT ![p] = [version |-> 0, rows |-> rows]] /\ UNCHANGED database
    BY <1>3 DEF Execute, ExecuteRead
  <2>2. [version |-> 0, rows |-> rows] \in Fetched
    BY RowsType DEF Fetched
  <2> HIDE DEF rows
  <2>3. fetched' \in [Proc -> Fetched]
    BY <2>1, <2>2 DEF TypeOK
  <2> QED
    BY <1>1, <2>1, <2>3, StepTypes DEF Execute, TypeOK, database
<1> QED BY <1>2, <1>3

\* A result that is scanned, and the held aggregate that a Save advances.
LEMMA DeliverTypes ==
    ASSUME SqliteInv, NEW p \in Proc, Deliver(p)
    PROVE  TypeOK'
<1>1. /\ TypeOK /\ CallOK(p)
      /\ phase[p] = "settled" /\ req[p] \in Request
      /\ UNCHANGED <<database, pool, req, number, calls>>
  BY DEF Deliver, SqliteInv, TypeOK, CallInv
<1>2. CASE req[p].op = "save"
  <2>1. held[p] \in Character
    BY <1>1, <1>2, RequestShape DEF CallOK
  <2> DEFINE c == InStep(held[p], fetched[p].version)
  <2>2. c \in Character
    BY <2>1, CharacterTypes
  <2>3. Answered({c}) \in Result /\ Refused("conflict") \in Result
    BY <2>2, ResultTypes DEF Status
  <2> HIDE DEF c
  <2>4. \/ Return(p, Answered({c})) /\ held' = [held EXCEPT ![p] = c] /\ base' = [base EXCEPT ![p] = c]
        \/ Return(p, Refused("conflict")) /\ UNCHANGED <<held, base>>
    BY <1>1, <1>2 DEF Deliver, DeliverSave, c
  <2>5. /\ held' \in [Proc -> Character \cup {NoCharacter}]
        /\ base' \in [Proc -> Character \cup {NoCharacter}]
    <3>1. /\ held \in [Proc -> Character \cup {NoCharacter}]
          /\ base \in [Proc -> Character \cup {NoCharacter}]
      BY <1>1 DEF TypeOK
    <3> QED BY <2>2, <2>4, <3>1
  <2> QED BY <1>1, <2>3, <2>4, <2>5, ReturnTypes
<1>3. CASE req[p].op = "find"
  <2>1. DeliverFind(p)
    BY <1>3 DEF Deliver
  <2>2. CASE fetched[p].rows = {}
    BY <1>1, <2>1, <2>2, ReturnTypes, ResultTypes DEF DeliverFind, TypeOK, Status
  <2>3. CASE fetched[p].rows # {}
    <3>1. PICK row \in fetched[p].rows : /\ Return(p, Answered({row}))
                                         /\ held' = [held EXCEPT ![p] = row]
                                         /\ base' = [base EXCEPT ![p] = row]
      BY <2>1, <2>3 DEF DeliverFind
    <3>2. row \in Character
      BY <1>1 DEF TypeOK, Fetched
    <3> QED BY <1>1, <3>1, <3>2, ReturnTypes, ResultTypes DEF TypeOK
  <2> QED BY <2>2, <2>3
<1>4. CASE req[p].op = "list"
  <2>1. DeliverList(p)
    BY <1>4 DEF Deliver
  <2>2. fetched[p].rows \in SUBSET Character
    BY <1>1 DEF TypeOK, Fetched
  <2> QED BY <1>1, <2>1, <2>2, ReturnTypes, ResultTypes DEF DeliverList, TypeOK
<1> QED BY <1>1, <1>2, <1>3, <1>4, RequestShape

\* Every step keeps the types.
LEMMA TypeNext == SqliteInv /\ [Next]_vars => TypeOK'
<1> SUFFICES ASSUME SqliteInv, [Next]_vars
             PROVE  TypeOK'
  OBVIOUS
<1>0. TypeOK
  BY DEF SqliteInv
<1>1. ASSUME NEW p \in Proc, Create(p)
      PROVE  TypeOK'
  <2>1. PICK id \in Id, sheet \in Sheet :
            /\ held' = [held EXCEPT ![p] = NewCharacter(id, sheet)]
            /\ base' = [base EXCEPT ![p] = NoCharacter]
            /\ Call(p, [op |-> "save", character |-> NewCharacter(id, sheet)])
    BY <1>1 DEF Create
  <2>2. NewCharacter(id, sheet) \in Character
    BY CharacterTypes
  <2> QED BY <1>0, <2>1, <2>2, CallTypes, RequestTypes DEF TypeOK
<1>2. ASSUME NEW p \in Proc, Edit(p)
      PROVE  TypeOK'
  <2>1. PICK sheet \in Sheet :
            /\ held' = [held EXCEPT ![p] = ReplaceSheet(held[p], sheet)]
            /\ Call(p, [op |-> "save", character |-> ReplaceSheet(held[p], sheet)])
    BY <1>2 DEF Edit
  <2>2. ReplaceSheet(held[p], sheet) \in Character
    BY <1>0, <1>2, CharacterTypes DEF Edit, TypeOK
  <2> QED BY <1>0, <1>2, <2>1, <2>2, CallTypes, RequestTypes DEF Edit, TypeOK
<1>3. ASSUME NEW p \in Proc, Find(p) \/ List(p)
      PROVE  TypeOK'
  BY <1>0, <1>3, CallTypes, RequestTypes DEF Find, List, TypeOK
<1>4. ASSUME NEW p \in Proc, Handle(p)
      PROVE  TypeOK'
  BY <1>0, <1>4, AbandonTypes, StepTypes DEF Handle, TypeOK, database, statement, Status
<1>5. ASSUME NEW p \in Proc, Issue(p)
      PROVE  TypeOK'
  BY <1>0, <1>5, AbandonTypes, StepTypes DEF Issue, TypeOK, database, statement, Status
<1>6. ASSUME NEW p \in Proc, Blocked(p)
      PROVE  TypeOK'
  BY <1>0, <1>6, AbandonTypes, StepTypes DEF Blocked, TypeOK, database, statement, Status
<1>7. ASSUME NEW p \in Proc, Wake(p)
      PROVE  TypeOK'
  <2>1. attempt[p] \in 1 .. MaxRetries /\ attempt[p] < MaxRetries
    BY <1>0, <1>7 DEF Wake, SqliteInv, CallInv, CallOK, TypeOK
  <2>2. attempt' \in [Proc -> 1 .. MaxRetries]
    BY <1>0, <1>7, <2>1, SqliteAssumption DEF Wake, NextAttempt, TypeOK
  <2> QED BY <1>0, <1>7, <2>2, StepTypes DEF Wake, TypeOK, database
<1>8. ASSUME NEW p \in Proc, Expire(p)
      PROVE  TypeOK'
  BY <1>0, <1>8, AbandonTypes DEF Expire, Status
<1>9. CASE Close \/ UNCHANGED vars
  BY <1>0, <1>9 DEF Close, TypeOK, vars, database, statement, callers
<1> QED
  BY <1>0, <1>1, <1>2, <1>3, <1>4, <1>5, <1>6, <1>7, <1>8, <1>9, ExecuteTypes, DeliverTypes
  DEF Next, Quiescent

-----------------------------------------------------------------------------
(* Steps that write nothing.                                               *)

\* What the other callers have is left alone.
Others(p) ==
    \A q \in Proc \ {p} :
        /\ phase'[q] = phase[q]
        /\ req'[q] = req[q]
        /\ attempt'[q] = attempt[q]
        /\ fetched'[q] = fetched[q]
        /\ result'[q] = result[q]
        /\ held'[q] = held[q]
        /\ base'[q] = base[q]
        /\ number'[q] = number[q]

\* Facts about the history survive a step that leaves it alone.
LEMMA HistoryStands ==
    ASSUME UNCHANGED database
    PROVE  /\ \A c : IsRevision(c)' = IsRevision(c)
           /\ \A n, id, k : WroteAt(n, id, k)' = WroteAt(n, id, k)
           /\ \A n : Unwritten(n)' = Unwritten(n)
           /\ RowIsLastWrite' = RowIsLastWrite
           /\ NoLostUpdate' = NoLostUpdate
BY DEF database, IsRevision, Revision, WroteAt, Unwritten, RowIsLastWrite, NoLostUpdate

\* A step that leaves the database alone has only its own caller to answer for.
LEMMA QuietKeeps ==
    ASSUME SqliteInv, TypeOK', NEW p \in Proc, UNCHANGED database, Others(p),
           HeldOK(p)', CallOK(p)', Unshared', NumberInv'
    PROVE  SqliteInv'
<1>1. ASSUME NEW q \in Proc \ {p}
      PROVE  HeldOK(q)' /\ CallOK(q)'
  <2>1. HeldOK(q) /\ CallOK(q)
    BY DEF SqliteInv, HeldInv, CallInv
  <2>2. HeldOK(q)'
    BY <2>1 DEF HeldOK, IsRevision, Revision, database, Others
  <2>3. /\ phase'[q] = phase[q] /\ req'[q] = req[q] /\ attempt'[q] = attempt[q]
        /\ fetched'[q] = fetched[q] /\ result'[q] = result[q]
        /\ held'[q] = held[q] /\ base'[q] = base[q] /\ number'[q] = number[q]
    BY DEF Others
  <2>4. SaveFetched(q)' = SaveFetched(q)
    BY <2>3 DEF SaveFetched, Saved, WroteAt, Unwritten, database
  <2>5. ReadFetched(q)' = ReadFetched(q)
    BY <2>3, HistoryStands DEF ReadFetched
  <2>6. SaveReturned(q)' = SaveReturned(q) /\ InStepWith(q)' = InStepWith(q)
    BY <2>3, HistoryStands DEF SaveReturned, InStepWith
  <2>7. Unwritten(number[q])' = Unwritten(number[q])
    BY <2>3 DEF Unwritten, WroteAt, database
  <2>8. CallOK(q)'
    BY <2>1, <2>3, <2>4, <2>5, <2>6, <2>7 DEF CallOK
  <2> QED BY <2>2, <2>8
<1>2. HeldInv' /\ CallInv'
  BY <1>1 DEF HeldInv, CallInv
<1>3. RowIsLastWrite' /\ NoLostUpdate'
  BY HistoryStands DEF SqliteInv
<1> QED
  BY <1>2, <1>3 DEF SqliteInv

\* A step within a call, or its return with nothing new in hand.
LEMMA MoveKeeps ==
    ASSUME SqliteInv, TypeOK', NEW p \in Proc, UNCHANGED <<database, callers>>, Others(p), CallOK(p)'
    PROVE  SqliteInv'
<1>1. HeldOK(p)'
  BY HistoryStands DEF SqliteInv, HeldInv, HeldOK, callers, database
<1>2. Unshared' /\ NumberInv'
  BY DEF SqliteInv, Unshared, NumberInv, callers, database
<1> QED
  BY <1>1, <1>2, QuietKeeps

\* No write has the number of a call that has just begun.
LEMMA NewNumber ==
    ASSUME SqliteInv
    PROVE  Unwritten(calls + 1)
BY DEF SqliteInv, NumberInv, Unwritten, WroteAt, TypeOK

\* A new call, for a caller whose hands are in order.
LEMMA CallKeeps ==
    ASSUME SqliteInv, TypeOK', NEW p \in Proc, NEW r \in Request, Call(p, r),
           r.op = "save" => r.character = held'[p],
           \A q \in Proc \ {p} : held'[q] = held[q] /\ base'[q] = base[q],
           HeldOK(p)', Unshared'
    PROVE  SqliteInv'
<1>1. UNCHANGED database /\ Others(p)
  BY DEF Call, Others, SqliteInv, TypeOK, statement
<1>2. /\ phase'[p] = "called" /\ req'[p] = r /\ result'[p] = NoResult /\ number'[p] = calls + 1
      /\ calls' = calls + 1 /\ calls \in Nat
  BY DEF Call, SqliteInv, TypeOK
<1>3. CallOK(p)'
  BY <1>1, <1>2, NewNumber, HistoryStands DEF CallOK
<1>4. NumberInv'
  <2>1. NumberInv /\ writes' = writes /\ \A q \in Proc : number[q] \in Nat
    BY <1>1 DEF SqliteInv, TypeOK, database
  <2>2. \A q \in Proc : number'[q] <= calls'
    BY <1>1, <1>2, <2>1 DEF NumberInv, Others
  <2>3. \A q, o \in Proc : q # o /\ number'[q] = number'[o] => number'[q] = 0
    BY <1>1, <1>2, <2>1 DEF NumberInv, Others
  <2>4. \A id \in Id : \A k \in 1 .. Len(writes'[id]) : writes'[id][k].number \in 1 .. calls'
    BY <1>2, <2>1 DEF NumberInv
  <2>5. \A i, j \in Id : \A k \in 1 .. Len(writes'[i]), m \in 1 .. Len(writes'[j]) :
            writes'[i][k].number = writes'[j][m].number => i = j /\ k = m
    BY <2>1 DEF NumberInv
  <2> QED BY <2>2, <2>3, <2>4, <2>5 DEF NumberInv
<1> QED
  BY <1>1, <1>3, <1>4, QuietKeeps

\* A new character has an id that nobody else holds or has stored.
LEMMA CreateKeeps ==
    ASSUME SqliteInv, TypeOK', NEW p \in Proc, Create(p)
    PROVE  SqliteInv'
<1>1. PICK id \in Id, sheet \in Sheet :
          /\ Fresh(id)
          /\ held' = [held EXCEPT ![p] = NewCharacter(id, sheet)]
          /\ base' = [base EXCEPT ![p] = NoCharacter]
          /\ Call(p, [op |-> "save", character |-> NewCharacter(id, sheet)])
  BY DEF Create
<1> DEFINE c == NewCharacter(id, sheet)
<1>2. c.id = id /\ c.version = MinVersion /\ c \in Character
  BY CharacterTypes DEF NewCharacter
<1>3. /\ held'[p] = c /\ base'[p] = NoCharacter
      /\ \A q \in Proc \ {p} : held'[q] = held[q] /\ base'[q] = base[q]
      /\ UNCHANGED database
  BY <1>1 DEF SqliteInv, TypeOK, Call
<1>4. HeldOK(p)'
  BY <1>1, <1>2, <1>3 DEF HeldOK, Fresh, database
<1>5. Unshared'
  BY <1>1, <1>2, <1>3 DEF SqliteInv, Unshared, Fresh, database
<1> QED
  BY <1>1, <1>2, <1>3, <1>4, <1>5, CallKeeps, RequestTypes

\* An edit keeps the id and the version of the aggregate that is held.
LEMMA EditKeeps ==
    ASSUME SqliteInv, TypeOK', NEW p \in Proc, Edit(p)
    PROVE  SqliteInv'
<1>1. PICK sheet \in Sheet :
          /\ held' = [held EXCEPT ![p] = ReplaceSheet(held[p], sheet)]
          /\ Call(p, [op |-> "save", character |-> ReplaceSheet(held[p], sheet)])
  BY DEF Edit
<1> DEFINE c == ReplaceSheet(held[p], sheet)
<1>2. /\ held[p] # NoCharacter /\ held[p] \in Character
      /\ c.id = held[p].id /\ c.version = held[p].version /\ c \in Character
  BY CharacterTypes DEF Edit, ReplaceSheet, SqliteInv, TypeOK
<1>3. /\ held'[p] = c /\ base' = base
      /\ \A q \in Proc \ {p} : held'[q] = held[q]
      /\ UNCHANGED database
  BY <1>1 DEF SqliteInv, TypeOK, Call, Edit
<1>4. HeldOK(p)'
  BY <1>2, <1>3, HistoryStands DEF SqliteInv, HeldInv, HeldOK, database
<1>5. Unshared'
  BY <1>2, <1>3 DEF SqliteInv, Unshared, database
<1> QED
  BY <1>1, <1>2, <1>3, <1>4, <1>5, CallKeeps, RequestTypes

\* A Find or a List begins with nothing changed.
LEMMA ReadCallKeeps ==
    ASSUME SqliteInv, TypeOK', NEW p \in Proc, Find(p) \/ List(p)
    PROVE  SqliteInv'
<1>1. PICK r \in Request : r.op # "save" /\ Call(p, r)
  BY RequestTypes DEF Find, List
<1>2. UNCHANGED <<held, base, database>>
  BY <1>1 DEF Find, List, Call
<1>3. HeldOK(p)' /\ Unshared'
  BY <1>2, HistoryStands DEF SqliteInv, HeldInv, HeldOK, Unshared, database
<1> QED
  BY <1>1, <1>2, <1>3, CallKeeps

\* A call that ends without an answer: only a cancelled one may have written.
LEMMA AbandonKeeps ==
    ASSUME SqliteInv, TypeOK', NEW p \in Proc, NEW status \in {"locked", "closed", "cancelled"},
           Abandon(p, status), phase[p] # "idle",
           status # "cancelled" => phase[p] \in {"called", "ready", "running", "backoff"}
    PROVE  SqliteInv'
<1>1. UNCHANGED <<database, callers>> /\ Others(p)
  BY DEF Abandon, Return, Others, callers, SqliteInv, TypeOK
<1>2. /\ phase'[p] = "done" /\ result'[p].status = status
      /\ req'[p] = req[p] /\ number'[p] = number[p]
  BY DEF Abandon, Return, Refused, callers, SqliteInv, TypeOK
<1>3. CallOK(p)
  BY DEF SqliteInv, CallInv
<1>4. CallOK(p)'
  BY <1>1, <1>2, <1>3, HistoryStands DEF CallOK, SaveReturned, InStepWith
<1> QED
  BY <1>1, <1>4, MoveKeeps

\* A call that goes on without a statement's answer.
LEMMA StepKeeps ==
    ASSUME SqliteInv, TypeOK', NEW p \in Proc, NEW next \in {"ready", "running", "backoff"},
           Step(p, next), phase[p] \in {"called", "ready", "running", "backoff"},
           next = "backoff" => attempt'[p] < MaxRetries,
           \A q \in Proc \ {p} : attempt'[q] = attempt[q],
           UNCHANGED <<database, fetched>>
    PROVE  SqliteInv'
<1>1. UNCHANGED <<database, callers>> /\ Others(p)
  BY DEF Step, Others, callers, SqliteInv, TypeOK
<1>2. /\ phase'[p] = next
      /\ req'[p] = req[p] /\ number'[p] = number[p] /\ result'[p] = result[p]
      /\ held'[p] = held[p]
  BY DEF Step, callers, SqliteInv, TypeOK
<1>3. CallOK(p)
  BY DEF SqliteInv, CallInv
<1>4. CallOK(p)'
  BY <1>1, <1>2, <1>3, HistoryStands DEF CallOK
<1> QED
  BY <1>1, <1>4, MoveKeeps

\* The steps of a call that waits change neither the table nor what is held.
LEMMA WaitingKeeps ==
    ASSUME SqliteInv, TypeOK', NEW p \in Proc,
           Handle(p) \/ Issue(p) \/ Blocked(p) \/ Wake(p) \/ Expire(p)
    PROVE  SqliteInv'
<1>1. attempt \in [Proc -> 1 .. MaxRetries]
  BY DEF SqliteInv, TypeOK
<1>2. CASE Handle(p)
  BY <1>2, AbandonKeeps, StepKeeps DEF Handle, statement
<1>3. CASE Issue(p)
  BY <1>3, AbandonKeeps, StepKeeps DEF Issue, statement
<1>4. CASE Blocked(p)
  <2>1. CASE LastAttempt(p)
    BY <1>4, <2>1, AbandonKeeps DEF Blocked
  <2>2. CASE ~ LastAttempt(p)
    <3>1. attempt[p] < MaxRetries
      BY <1>1, <2>2, SqliteAssumption DEF LastAttempt
    <3> QED BY <1>4, <2>2, <3>1, StepKeeps DEF Blocked, statement
  <2> QED BY <2>1, <2>2
<1>5. CASE Wake(p)
  BY <1>1, <1>5, StepKeeps DEF Wake
<1>6. CASE Expire(p)
  BY <1>6, AbandonKeeps DEF Expire
<1> QED
  BY <1>2, <1>3, <1>4, <1>5, <1>6
-----------------------------------------------------------------------------
(* The statements.                                                         *)

\* A stored row is in the history, and is the only one of its id.
LEMMA RowsAreRevisions ==
    ASSUME SqliteInv
    PROVE  \A row \in Rows : IsRevision(row) /\ table[row.id] = row
<1> SUFFICES ASSUME NEW id \in Id, table[id] # NoCharacter
             PROVE  IsRevision(table[id]) /\ table[table[id].id] = table[id]
  BY DEF Rows
<1>1. table[id].id = id /\ writes[id] \in Seq(Write)
  BY DEF SqliteInv, TypeOK
<1>2. writes[id] # << >> /\ table[id] = Revision(id, Len(writes[id]))
  BY DEF SqliteInv, RowIsLastWrite
<1>3. Len(writes[id]) \in 1 .. Len(writes[id])
  BY <1>1, <1>2
<1>4. table[id].version = Len(writes[id])
  BY <1>2 DEF Revision
<1> QED
  BY <1>1, <1>2, <1>3, <1>4 DEF IsRevision

\* Of the callers' state a statement changes what it fetched, and how far the
\* call has come.
LEMMA ExecuteFrame ==
    ASSUME SqliteInv, NEW p \in Proc, Execute(p), NEW f, fetched' = [fetched EXCEPT ![p] = f]
    PROVE  /\ Others(p) /\ UNCHANGED callers
           /\ phase[p] = "running" /\ phase'[p] = "settled" /\ fetched'[p] = f
           /\ req'[p] = req[p] /\ result'[p] = result[p]
           /\ number'[p] = number[p] /\ held'[p] = held[p]
BY DEF Execute, Step, Others, callers, SqliteInv, TypeOK

\* A statement that writes nothing: a read, or a failed compare-and-set.
LEMMA ExecuteQuietKeeps ==
    ASSUME SqliteInv, TypeOK', NEW p \in Proc, Execute(p), UNCHANGED database
    PROVE  SqliteInv'
<1>1. CallOK(p) /\ req[p] \in Request /\ phase[p] = "running"
  BY DEF SqliteInv, CallInv, TypeOK, Execute
<1>2. CASE req[p].op = "save"
  <2> DEFINE c == req[p].character
  <2>1. ~ (table[c.id] = NoCharacter \/ Matches(table[c.id], c))
    <3> SUFFICES ASSUME writes' = [writes EXCEPT ![c.id] = Append(@,
                            [by |-> p, number |-> number[p], from |-> base[p], sheet |-> c.sheet])]
                 PROVE  FALSE
      BY <1>2 DEF Execute, ExecuteSave
    <3>1. c \in Character /\ c.id \in Id
      BY <1>1, <1>2, RequestShape DEF Character
    <3>2. [by |-> p, number |-> number[p], from |-> base[p], sheet |-> c.sheet] \in Write
      BY <3>1 DEF Write, SqliteInv, TypeOK, Character
    <3>3. Len(writes'[c.id]) = Len(writes[c.id]) + 1 /\ Len(writes[c.id]) \in Nat
      BY <3>1, <3>2, HistoryGrows DEF SqliteInv
    <3> QED BY <3>3 DEF database
  <2>2. fetched' = [fetched EXCEPT ![p] = NoRow]
    BY <1>2, <2>1 DEF Execute, ExecuteSave
  <2>3. SaveFetched(p)'
    BY <1>1, <2>2, ExecuteFrame, HistoryStands DEF SaveFetched, Saved, CallOK
  <2>4. CallOK(p)'
    BY <1>1, <1>2, <2>2, <2>3, ExecuteFrame DEF CallOK
  <2> QED BY <2>2, <2>4, ExecuteFrame, MoveKeeps
<1>3. CASE req[p].op # "save"
  <2> DEFINE rows == IF req[p].op = "list" THEN Rows ELSE {row \in Rows : row.id = req[p].id}
             f == [version |-> 0, rows |-> rows]
  <2>1. fetched' = [fetched EXCEPT ![p] = f]
    BY <1>3 DEF Execute, ExecuteRead
  <2>2. /\ \A row \in rows : IsRevision(row)
        /\ req[p].op = "find" => \A row, other \in rows : row = other
    BY RowsAreRevisions
  <2>3. f.rows = rows
    OBVIOUS
  <2> HIDE DEF f, rows
  <2>4. ReadFetched(p)'
    <3>1. fetched'[p] = f /\ req'[p] = req[p]
      BY <2>1, ExecuteFrame
    <3>2. \A row \in rows : IsRevision(row)'
      BY <2>2, HistoryStands
    <3> QED BY <2>2, <2>3, <3>1, <3>2 DEF ReadFetched
  <2>5. CallOK(p)'
    BY <1>1, <1>3, <2>1, <2>4, ExecuteFrame DEF CallOK
  <2> QED BY <2>1, <2>5, ExecuteFrame, MoveKeeps
<1> QED BY <1>2, <1>3

\* A revision of the history is a character.
LEMMA RevisionType ==
    ASSUME TypeOK, NEW id \in Id, NEW k \in 1 .. Len(writes[id])
    PROVE  Revision(id, k) \in Character
<1>1. writes[id] \in Seq(Write) /\ writes[id][k] \in Write
  BY DEF TypeOK
<1>2. k \in Nat \ {0} /\ writes[id][k].sheet \in Sheet
  BY <1>1 DEF Write
<1> QED
  BY <1>2 DEF Revision, Character

(***************************************************************************)
(* Where the compare-and-set lets c in, the history has one version less   *)
(* than the row it stores, and the caller either loaded the last of them,  *)
(* or made the character, which nobody else has written.                   *)
(***************************************************************************)
LEMMA WriteFits ==
    ASSUME SqliteInv, NEW p \in Proc, phase[p] = "running", req[p].op = "save",
           NEW c, c = req[p].character,
           table[c.id] = NoCharacter \/ Matches(table[c.id], c)
    PROVE  /\ c \in Character /\ c.id \in Id /\ c = held[p] /\ c # NoCharacter
           /\ Upserted(c) = [id |-> c.id, version |-> Len(writes[c.id]) + 1, sheet |-> c.sheet]
           /\ \/ /\ writes[c.id] = << >> /\ Len(writes[c.id]) = 0
                 /\ base[p] = NoCharacter /\ c.version = 1
              \/ /\ Len(writes[c.id]) \in Nat \ {0}
                 /\ c.version = Len(writes[c.id])
                 /\ \/ base[p] = Revision(c.id, Len(writes[c.id]))
                    \/ /\ base[p] = NoCharacter
                       /\ Len(writes[c.id]) = 1
                       /\ writes[c.id][1].by = p
<1> DEFINE n == Len(writes[c.id])
<1>1. CallOK(p) /\ HeldOK(p) /\ req[p] \in Request
  BY DEF SqliteInv, CallInv, HeldInv, TypeOK
<1>2. c \in Character /\ c.id \in Id /\ c = held[p] /\ c # NoCharacter
  BY <1>1, RequestShape, NoCharacterAssumption DEF CallOK, Character
<1>3. writes[c.id] \in Seq(Write) /\ n \in Nat
  BY <1>2 DEF SqliteInv, TypeOK
<1>4. c.version \in Nat \ {0} /\ c = [id |-> c.id, version |-> c.version, sheet |-> c.sheet]
  BY <1>2 DEF Character
<1>5. CASE table[c.id] = NoCharacter
  <2>1. writes[c.id] = << >> /\ n = 0
    <3> SUFFICES ASSUME writes[c.id] # << >>
                 PROVE  FALSE
      BY <1>3
    <3>1. n \in 1 .. n
      BY <1>3
    <3>2. table[c.id] = Revision(c.id, n)
      BY <1>2 DEF SqliteInv, RowIsLastWrite
    <3> QED BY <1>2, <1>5, <3>1, <3>2, RevisionType, NoCharacterAssumption DEF SqliteInv
  <2>2. base[p] = NoCharacter
    BY <1>1, <1>2, <2>1 DEF HeldOK, IsRevision
  <2>3. c.version = 1
    BY <1>1, <1>2, <2>2 DEF HeldOK, MinVersion
  <2> QED BY <1>2, <1>4, <1>5, <2>1, <2>2, <2>3 DEF Upserted
<1>6. CASE table[c.id] # NoCharacter /\ Matches(table[c.id], c)
  <2>1. writes[c.id] # << >> /\ table[c.id] = Revision(c.id, n)
    BY <1>2, <1>6 DEF SqliteInv, RowIsLastWrite
  <2>2. n \in Nat \ {0} /\ table[c.id].version = n /\ c.version = n
    BY <1>3, <1>6, <2>1 DEF Revision, Matches
  <2>3. CASE base[p] = NoCharacter
    <3>1. n = 1 /\ writes[c.id][1].by = p
      BY <1>1, <1>2, <2>1, <2>2, <2>3 DEF HeldOK, MinVersion
    <3> QED BY <1>2, <1>6, <2>2, <2>3, <3>1 DEF Upserted
  <2>4. CASE base[p] # NoCharacter
    <3>1. base[p] = Revision(c.id, n)
      BY <1>1, <1>2, <2>2, <2>4 DEF HeldOK, IsRevision
    <3> QED BY <1>2, <1>6, <2>2, <3>1 DEF Upserted
  <2> QED BY <2>3, <2>4
<1> QED BY <1>5, <1>6
(***************************************************************************)
(* A write appended to the history of id: what the history held, it holds. *)
(***************************************************************************)
LEMMA HistoryKept ==
    ASSUME TypeOK, NEW id \in Id, NEW w \in Write,
           writes' = [writes EXCEPT ![id] = Append(@, w)]
    PROVE  /\ \A i \in Id : \A k \in 1 .. Len(writes[i]) :
                  /\ k \in 1 .. Len(writes'[i])
                  /\ writes'[i][k] = writes[i][k]
                  /\ Revision(i, k)' = Revision(i, k)
           /\ \A i \in Id : writes[i] # << >> => writes'[i] # << >> /\ writes'[i][1] = writes[i][1]
           /\ \A c \in Character : IsRevision(c) => IsRevision(c)'
           /\ \A i \in Id : \A k \in 1 .. Len(writes'[i]) :
                  \/ k \in 1 .. Len(writes[i])
                  \/ i = id /\ k = Len(writes[id]) + 1
<1>1. /\ Len(writes[id]) \in Nat
      /\ Len(writes'[id]) = Len(writes[id]) + 1
      /\ \A k \in 1 .. Len(writes[id]) : writes'[id][k] = writes[id][k]
      /\ \A i \in Id : i # id => writes'[i] = writes[i]
      /\ \A i \in Id : writes[i] \in Seq(Write)
  BY HistoryGrows DEF TypeOK
<1>2. ASSUME NEW i \in Id, NEW k \in 1 .. Len(writes[i])
      PROVE  k \in 1 .. Len(writes'[i]) /\ writes'[i][k] = writes[i][k]
  BY <1>1
<1>3. ASSUME NEW i \in Id, NEW k \in 1 .. Len(writes[i])
      PROVE  Revision(i, k)' = Revision(i, k)
  BY <1>2 DEF Revision
<1>4. ASSUME NEW i \in Id, writes[i] # << >>
      PROVE  writes'[i] # << >> /\ writes'[i][1] = writes[i][1]
  <2>1. 1 \in 1 .. Len(writes[i])
    BY <1>1, <1>4
  <2>2. 1 \in 1 .. Len(writes'[i])
    BY <1>2, <2>1
  <2> QED BY <1>2, <2>1, <2>2
<1>5. ASSUME NEW c \in Character, IsRevision(c)
      PROVE  IsRevision(c)'
  <2>1. c.id \in Id /\ c.version \in 1 .. Len(writes[c.id])
    BY <1>5 DEF Character, IsRevision
  <2>2. c.version \in 1 .. Len(writes'[c.id])
    BY <1>2, <2>1
  <2> QED BY <1>3, <1>5, <2>1, <2>2 DEF IsRevision
<1>6. ASSUME NEW i \in Id, NEW k \in 1 .. Len(writes'[i])
      PROVE  k \in 1 .. Len(writes[i]) \/ (i = id /\ k = Len(writes[id]) + 1)
  BY <1>1
<1> QED
  BY <1>2, <1>3, <1>4, <1>5, <1>6

(***************************************************************************)
(* The Save that writes.  w is what it appends, n the revisions there were.*)
(***************************************************************************)
LEMMA WriteKeeps ==
    ASSUME SqliteInv, TypeOK', NEW p \in Proc, Execute(p), req[p].op = "save",
           NEW c, c = req[p].character, NEW n, n = Len(writes[c.id]),
           table[c.id] = NoCharacter \/ Matches(table[c.id], c)
    PROVE  SqliteInv'
<1> DEFINE w == [by |-> p, number |-> number[p], from |-> base[p], sheet |-> c.sheet]
           f == [version |-> n + 1, rows |-> {}]
<1>1. TypeOK /\ CallOK(p) /\ HeldInv /\ NumberInv /\ Unshared /\ CallInv /\ phase[p] = "running"
  BY DEF SqliteInv, CallInv, Execute
<1>2. /\ c \in Character /\ c.id \in Id /\ c = held[p] /\ c # NoCharacter
      /\ Upserted(c) = [id |-> c.id, version |-> n + 1, sheet |-> c.sheet]
      /\ \/ writes[c.id] = << >> /\ n = 0 /\ base[p] = NoCharacter /\ c.version = 1
         \/ /\ n \in Nat \ {0} /\ c.version = n
            /\ \/ base[p] = Revision(c.id, n)
               \/ base[p] = NoCharacter /\ n = 1 /\ writes[c.id][1].by = p
  BY <1>1, WriteFits
<1>3. /\ table' = [table EXCEPT ![c.id] = Upserted(c)]
      /\ writes' = [writes EXCEPT ![c.id] = Append(@, w)]
      /\ fetched' = [fetched EXCEPT ![p] = f]
  <2>1. Upserted(c) = [id |-> c.id, version |-> n + 1, sheet |-> c.sheet]
    BY <1>2
  <2>2. Upserted(c).version = n + 1
    BY <2>1
  <2> QED BY <2>2 DEF Execute, ExecuteSave
<1>4. w \in Write
  BY <1>1, <1>2 DEF Write, TypeOK, Character
<1>5. w.by = p /\ w.number = number[p] /\ w.from = base[p] /\ w.sheet = c.sheet
  OBVIOUS
<1>6. f.version = n + 1 /\ f.rows = {}
  OBVIOUS
<1>7. /\ Others(p) /\ UNCHANGED callers /\ phase'[p] = "settled" /\ fetched'[p] = f
      /\ req'[p] = req[p] /\ result'[p] = result[p]
      /\ number'[p] = number[p] /\ held'[p] = held[p]
  BY <1>3, ExecuteFrame
<1> HIDE DEF w, f
<1>8. /\ writes' \in [Id -> Seq(Write)] /\ n \in Nat
      /\ Len(writes'[c.id]) = n + 1 /\ writes'[c.id][n + 1] = w
      /\ \A i \in Id : i # c.id => writes'[i] = writes[i]
  BY <1>1, <1>2, <1>3, <1>4, HistoryGrows
<1>9. /\ \A i \in Id : \A k \in 1 .. Len(writes[i]) :
              /\ k \in 1 .. Len(writes'[i])
              /\ writes'[i][k] = writes[i][k]
              /\ Revision(i, k)' = Revision(i, k)
      /\ \A i \in Id : writes[i] # << >> => writes'[i] # << >> /\ writes'[i][1] = writes[i][1]
      /\ \A r \in Character : IsRevision(r) => IsRevision(r)'
      /\ \A i \in Id : \A k \in 1 .. Len(writes'[i]) :
              k \in 1 .. Len(writes[i]) \/ (i = c.id /\ k = n + 1)
  BY <1>1, <1>2, <1>3, <1>4, HistoryKept
<1>10. RowIsLastWrite'
  <2> SUFFICES ASSUME NEW i \in Id
               PROVE  table'[i] = IF writes'[i] = << >> THEN NoCharacter
                                  ELSE Revision(i, Len(writes[i]))'
    BY DEF RowIsLastWrite
  <2>1. CASE i = c.id
    <3>1. writes'[i] # << >>
      BY <1>8, <2>1
    <3>2. table'[i] = Upserted(c)
      BY <1>1, <1>2, <1>3, <2>1 DEF TypeOK
    <3>3. Revision(c.id, Len(writes[c.id]))' = [id |-> c.id, version |-> n + 1, sheet |-> c.sheet]
      BY <1>5, <1>8 DEF Revision
    <3> QED BY <1>2, <2>1, <3>1, <3>2, <3>3
  <2>2. CASE i # c.id
    BY <1>1, <1>2, <1>3, <1>8, <2>2 DEF TypeOK, SqliteInv, RowIsLastWrite, Revision
  <2> QED BY <2>1, <2>2
<1>11. NoLostUpdate'
  <2> SUFFICES ASSUME NEW i \in Id, NEW k \in 1 .. Len(writes'[i])
               PROVE  LET v == writes'[i][k]
                      IN  IF k = 1 THEN v.from = NoCharacter
                          ELSE \/ v.from = Revision(i, k - 1)'
                               \/ k = 2 /\ v.from = NoCharacter /\ v.by = writes'[i][1].by
    BY DEF NoLostUpdate
  <2>0. writes[i] \in Seq(Write)
    BY <1>1 DEF TypeOK
  <2>1. CASE k \in 1 .. Len(writes[i])
    <3>1. LET v == writes[i][k]
          IN  IF k = 1 THEN v.from = NoCharacter
              ELSE \/ v.from = Revision(i, k - 1)
                   \/ k = 2 /\ v.from = NoCharacter /\ v.by = writes[i][1].by
      BY <2>1 DEF SqliteInv, NoLostUpdate
    <3>2. k # 1 => k - 1 \in 1 .. Len(writes[i])
      BY <2>0, <2>1
    <3>3. 1 \in 1 .. Len(writes[i])
      BY <2>0, <2>1
    <3> QED BY <1>9, <2>1, <3>1, <3>2, <3>3
  <2>2. CASE i = c.id /\ k = n + 1
    <3>1. writes'[i][k] = w
      BY <1>8, <2>2
    <3>2. CASE n = 0
      <4>1. base[p] = NoCharacter
        BY <1>2, <3>2
      <4> QED BY <1>5, <2>2, <3>1, <3>2, <4>1
    <3>3. CASE n \in Nat \ {0}
      <4>1. n \in 1 .. n /\ 1 \in 1 .. n /\ k # 1 /\ k - 1 = n
        BY <2>2, <3>3
      <4>2. Revision(i, n)' = Revision(i, n) /\ writes'[i][1] = writes[i][1]
        BY <1>9, <2>2, <4>1
      <4>3. CASE base[p] = Revision(c.id, n)
        BY <1>5, <2>2, <3>1, <4>1, <4>2, <4>3
      <4>4. CASE base[p] = NoCharacter /\ n = 1 /\ writes[c.id][1].by = p
        BY <1>5, <2>2, <3>1, <4>1, <4>2, <4>4
      <4> QED BY <1>2, <3>3, <4>3, <4>4
    <3> QED BY <1>8, <3>2, <3>3
  <2> QED BY <1>9, <2>1, <2>2
<1>12. HeldInv'
  <2> SUFFICES ASSUME NEW q \in Proc, held[q] # NoCharacter
               PROVE  IF base[q] = NoCharacter
                      THEN /\ held[q].version = MinVersion
                           /\ writes'[held[q].id] # << >> => writes'[held[q].id][1].by = q
                      ELSE /\ IsRevision(base[q])'
                           /\ base[q].id = held[q].id /\ base[q].version = held[q].version
    <3>1. held' = held /\ base' = base
      BY <1>7 DEF callers
    <3> QED BY <3>1 DEF HeldInv, HeldOK, IsRevision, Revision
  <2>1. HeldOK(q) /\ held[q].id \in Id /\ (base[q] # NoCharacter => base[q] \in Character)
    BY <1>1 DEF HeldInv, TypeOK, Character
  <2>2. CASE base[q] # NoCharacter
    <3>1. PICK r \in Character : r = base[q] /\ IsRevision(r)
      BY <2>1, <2>2 DEF HeldOK
    <3>2. IsRevision(r)' /\ r = base'[q]
      BY <1>7, <1>9, <3>1 DEF callers
    <3>3. IsRevision(base[q])'
      BY <3>2 DEF IsRevision, Revision
    <3> QED BY <2>1, <2>2, <3>3 DEF HeldOK
  <2>3. CASE base[q] = NoCharacter /\ writes[held[q].id] # << >>
    BY <1>9, <2>1, <2>3 DEF HeldOK
  <2>4. CASE base[q] = NoCharacter /\ writes[held[q].id] = << >>
    <3>1. CASE held[q].id # c.id
      BY <1>8, <2>1, <2>4, <3>1 DEF HeldOK
    <3>2. CASE held[q].id = c.id
      <4>1. q = p
        BY <1>1, <1>2, <2>4, <3>2 DEF Unshared
      <4>2. n = 0
        BY <2>4, <3>2
      <4>3. writes'[held[q].id][1] = w
        BY <1>8, <3>2, <4>2
      <4> QED BY <1>5, <2>1, <2>4, <4>1, <4>3 DEF HeldOK
    <3> QED BY <3>1, <3>2
  <2> QED BY <2>2, <2>3, <2>4
<1>13. Unshared'
  <2>1. held' = held
    BY <1>7 DEF callers
  <2>2. \A q \in Proc : held[q] # NoCharacter => held[q].id \in Id
    BY <1>1 DEF TypeOK, Character
  <2> QED BY <1>1, <1>9, <2>1, <2>2 DEF Unshared
<1>14. ASSUME NEW m \in Nat, m # number[p], Unwritten(m)
       PROVE  Unwritten(m)'
  <2> SUFFICES ASSUME NEW i \in Id, NEW k \in 1 .. Len(writes'[i]), writes'[i][k].number = m
               PROVE  FALSE
    BY DEF Unwritten, WroteAt
  <2>1. CASE k \in 1 .. Len(writes[i])
    BY <1>9, <1>14, <2>1 DEF Unwritten, WroteAt
  <2>2. CASE i = c.id /\ k = n + 1
    BY <1>5, <1>8, <1>14, <2>2
  <2> QED BY <1>9, <2>1, <2>2
<1>15. ASSUME NEW q \in Proc \ {p}
       PROVE  CallOK(q)'
  <2>1. CallOK(q) /\ number[q] \in Nat
    BY <1>1 DEF CallInv, TypeOK
  <2>2. /\ phase'[q] = phase[q] /\ req'[q] = req[q] /\ attempt'[q] = attempt[q]
        /\ fetched'[q] = fetched[q] /\ result'[q] = result[q]
        /\ held'[q] = held[q] /\ base'[q] = base[q] /\ number'[q] = number[q]
    BY <1>7 DEF Others
  <2>3. number[q] # number[p]
    BY <1>1 DEF NumberInv, CallOK
  <2>4. Unwritten(number[q]) => Unwritten(number[q])'
    <3>1. Unwritten(number[q]) => \A i \in Id, k \in Nat :
              ~ (k \in 1 .. Len(writes'[i]) /\ writes'[i][k].number = number[q])
      BY <1>14, <2>1, <2>3 DEF Unwritten, WroteAt
    <3> QED BY <2>2, <3>1 DEF Unwritten, WroteAt
  <2>5. phase[q] # "idle" /\ req[q].op = "save" /\ held[q] # NoCharacter => held[q].id \in Id
    BY <1>1 DEF TypeOK, Character
  <2>6. ASSUME NEW i \in Id, NEW k, WroteAt(number[q], i, k)
        PROVE  WroteAt(number[q], i, k)' /\ writes'[i][k] = writes[i][k]
    BY <1>9, <2>2, <2>6 DEF WroteAt
  <2>7. phase[q] = "settled" /\ req[q].op = "save" /\ SaveFetched(q) => SaveFetched(q)'
    <3> SUFFICES ASSUME phase[q] = "settled", req[q].op = "save", SaveFetched(q)
                 PROVE  SaveFetched(q)'
      OBVIOUS
    <3>1. held[q] \in Character /\ held[q].id \in Id
      BY <1>1, <2>1, RequestShape DEF TypeOK, CallOK, Character
    <3>2. Saved(q)' = Saved(q)
      BY <2>2 DEF Saved
    <3>3. CASE Saved(q)
      BY <2>2, <2>6, <3>1, <3>2, <3>3 DEF SaveFetched
    <3>4. CASE ~ Saved(q)
      BY <2>4, <3>2, <3>4 DEF SaveFetched
    <3> QED BY <3>3, <3>4
  <2>8. ReadFetched(q) => ReadFetched(q)'
    <3>1. fetched[q].rows \in SUBSET Character
      BY <1>1 DEF TypeOK, Fetched
    <3> QED BY <1>9, <2>2, <3>1 DEF ReadFetched
  <2>9. InStepWith(q) => InStepWith(q)'
    BY <2>2 DEF InStepWith
  <2>10. SaveReturned(q) /\ InStepWith(q) => SaveReturned(q)'
    <3>1. held[q] # NoCharacter => held[q].id \in Id
      BY <1>1 DEF TypeOK, Character
    <3> QED BY <2>2, <2>4, <2>6, <3>1 DEF SaveReturned, InStepWith
  <2> QED BY <2>1, <2>2, <2>4, <2>7, <2>8, <2>9, <2>10 DEF CallOK
<1>16. CallOK(p)'
  <2>1. SaveFetched(p)'
    <3>1. Saved(p)'
      <4>1. f # NoRow
        BY <1>6, <1>8 DEF NoRow
      <4> QED BY <1>7, <4>1 DEF Saved
    <3>2. WroteAt(number[p], held[p].id, n + 1)'
      <4>1. n + 1 \in 1 .. Len(writes'[c.id])
        BY <1>8
      <4>2. writes'[c.id][n + 1].number = number[p]
        BY <1>5, <1>8
      <4>3. held'[p] = c /\ number'[p] = number[p]
        BY <1>2, <1>7
      <4> QED BY <4>1, <4>2, <4>3 DEF WroteAt
    <3>3. n + 1 \in {held[p].version, held[p].version + 1}
      BY <1>2
    <3>4. writes'[c.id][n + 1].sheet = c.sheet
      BY <1>5, <1>8
    <3>5. fetched'[p] = f /\ held'[p] = c
      BY <1>2, <1>7
    <3>6. /\ fetched'[p].rows = {} /\ fetched'[p].version = n + 1
          /\ n + 1 \in {c.version, c.version + 1}
      BY <1>2, <1>6, <3>3, <3>5
    <3>7. WroteAt(number[p], held[p].id, fetched[p].version)'
      BY <3>2, <3>6
    <3> QED BY <3>1, <3>4, <3>5, <3>6, <3>7 DEF SaveFetched
  <2> QED BY <1>1, <1>2, <1>7, <2>1 DEF CallOK
<1>17. NumberInv'
  <2>1. number' = number /\ calls' = calls
    BY <1>7 DEF callers
  <2>2. Unwritten(number[p]) /\ number[p] # 0 /\ number[p] \in 1 .. calls
    BY <1>1 DEF CallOK, NumberInv, TypeOK
  <2>3. \A i \in Id : \A k \in 1 .. Len(writes'[i]) : writes'[i][k].number \in 1 .. calls
    <3> SUFFICES ASSUME NEW i \in Id, NEW k \in 1 .. Len(writes'[i])
                 PROVE  writes'[i][k].number \in 1 .. calls
      OBVIOUS
    <3>1. CASE k \in 1 .. Len(writes[i])
      BY <1>1, <1>9, <3>1 DEF NumberInv
    <3>2. CASE i = c.id /\ k = n + 1
      BY <1>5, <1>8, <2>2, <3>2
    <3> QED BY <1>9, <3>1, <3>2
  <2>4. ASSUME NEW i \in Id, NEW j \in Id,
               NEW k \in 1 .. Len(writes'[i]), NEW m \in 1 .. Len(writes'[j]),
               writes'[i][k].number = writes'[j][m].number
        PROVE  i = j /\ k = m
    <3>1. CASE k \in 1 .. Len(writes[i]) /\ m \in 1 .. Len(writes[j])
      <4>1. writes[i][k].number = writes[j][m].number
        BY <1>9, <2>4, <3>1
      <4> QED BY <1>1, <3>1, <4>1 DEF NumberInv
    <3>2. CASE (i = c.id /\ k = n + 1) /\ (j = c.id /\ m = n + 1)
      BY <3>2
    <3>3. CASE k \in 1 .. Len(writes[i]) /\ (j = c.id /\ m = n + 1)
      <4>1. writes[i][k].number = number[p]
        BY <1>5, <1>8, <1>9, <2>4, <3>3
      <4> QED BY <2>2, <3>3, <4>1 DEF Unwritten, WroteAt
    <3>4. CASE (i = c.id /\ k = n + 1) /\ m \in 1 .. Len(writes[j])
      <4>1. writes[j][m].number = number[p]
        BY <1>5, <1>8, <1>9, <2>4, <3>4
      <4> QED BY <2>2, <3>4, <4>1 DEF Unwritten, WroteAt
    <3> QED BY <1>9, <3>1, <3>2, <3>3, <3>4
  <2> QED BY <1>1, <2>1, <2>3, <2>4 DEF NumberInv
<1> QED
  BY <1>10, <1>11, <1>12, <1>13, <1>15, <1>16, <1>17 DEF SqliteInv, CallInv
-----------------------------------------------------------------------------
(* The answers.                                                            *)

\* What a Save that wrote puts in its caller's hand is the revision it wrote.
LEMMA SavedRevision ==
    ASSUME SqliteInv, NEW p \in Proc, phase[p] = "settled", req[p].op = "save", Saved(p),
           NEW c, c = InStep(held[p], fetched[p].version)
    PROVE  /\ held[p] \in Character /\ c \in Character
           /\ c.id = held[p].id /\ c.version = fetched[p].version
           /\ IsRevision(c) /\ WroteAt(number[p], c.id, c.version)
<1>1. SaveFetched(p) /\ held[p] \in Character
  <2>1. CallOK(p) /\ req[p] \in Request
    BY DEF SqliteInv, CallInv, TypeOK
  <2> QED BY <2>1, RequestShape DEF CallOK
<1>2. c \in Character /\ c.id = held[p].id /\ c.version = fetched[p].version /\ c.sheet = held[p].sheet
  BY <1>1, CharacterTypes DEF SaveFetched, InStep, Character
<1>3. c = [id |-> c.id, version |-> c.version, sheet |-> c.sheet]
  BY <1>2 DEF Character
<1>4. WroteAt(number[p], c.id, c.version) /\ writes[c.id][c.version].sheet = c.sheet
  BY <1>1, <1>2 DEF SaveFetched
<1> QED
  BY <1>1, <1>2, <1>3, <1>4 DEF IsRevision, Revision, WroteAt

\* A call that returns with r: a revision in hand that it wrote or found, or
\* what was there before.
LEMMA ReturnKeeps ==
    ASSUME SqliteInv, TypeOK', NEW p \in Proc, NEW r, Return(p, r), phase[p] # "idle",
           UNCHANGED <<database, pool, req, number, calls>>,
           \/ UNCHANGED <<held, base>>
           \/ \E c \in Character :
                  /\ IsRevision(c)
                  /\ held' = [held EXCEPT ![p] = c]
                  /\ base' = [base EXCEPT ![p] = c],
           req[p].op = "save" => SaveReturned(p)',
           req[p].op \in {"save", "find"} => InStepWith(p)'
    PROVE  SqliteInv'
<1>1. TypeOK /\ HeldInv /\ Unshared /\ NumberInv /\ CallOK(p)
  BY DEF SqliteInv, CallInv
<1>2. Others(p) /\ phase'[p] = "done" /\ req'[p] = req[p] /\ number'[p] = number[p]
  BY <1>1 DEF Return, Others, TypeOK
<1>3. CallOK(p)'
  BY <1>1, <1>2 DEF CallOK
<1>4. NumberInv'
  BY <1>1 DEF NumberInv, database
<1>5. CASE UNCHANGED <<held, base>>
  <2>1. HeldOK(p)' /\ Unshared'
    BY <1>1, <1>5, HistoryStands DEF HeldInv, HeldOK, Unshared, database
  <2> QED BY <1>2, <1>3, <1>4, <2>1, QuietKeeps
<1>6. ASSUME NEW c \in Character, IsRevision(c),
             held' = [held EXCEPT ![p] = c], base' = [base EXCEPT ![p] = c]
      PROVE  SqliteInv'
  <2>1. /\ held'[p] = c /\ base'[p] = c /\ c # NoCharacter
        /\ \A q \in Proc \ {p} : held'[q] = held[q]
        /\ writes' = writes
    BY <1>1, <1>6, NoCharacterAssumption DEF TypeOK, database
  <2>2. HeldOK(p)'
    BY <1>6, <2>1 DEF HeldOK, IsRevision, Revision
  <2>3. writes[c.id] # << >>
    <3>1. c.id \in Id /\ c.version \in 1 .. Len(writes[c.id])
      BY <1>6 DEF IsRevision, Character
    <3> QED BY <3>1
  <2>4. Unshared'
    BY <1>1, <2>1, <2>3 DEF Unshared
  <2> QED BY <1>2, <1>3, <1>4, <2>2, <2>4, QuietKeeps
<1> QED
  BY <1>5, <1>6

\* What a delivered result makes of the held aggregate is a revision of the history.
LEMMA DeliverKeeps ==
    ASSUME SqliteInv, TypeOK', NEW p \in Proc, Deliver(p)
    PROVE  SqliteInv'
<1>1. /\ TypeOK /\ CallOK(p) /\ phase[p] = "settled" /\ req[p] \in Request
      /\ UNCHANGED <<database, pool, req, number, calls>>
  BY DEF Deliver, SqliteInv, TypeOK, CallInv
<1>2. CASE req[p].op = "save" /\ Saved(p)
  <2> DEFINE c == InStep(held[p], fetched[p].version)
  <2>1. PICK d : d = c
    OBVIOUS
  <2>2. Return(p, Answered({d})) /\ held' = [held EXCEPT ![p] = d] /\ base' = [base EXCEPT ![p] = d]
    BY <1>2, <2>1 DEF Deliver, DeliverSave
  <2>3. d \in Character /\ IsRevision(d) /\ WroteAt(number[p], d.id, d.version)
    BY <1>1, <1>2, <2>1, SavedRevision
  <2>4. d # NoCharacter /\ held'[p] = d /\ base'[p] = d /\ result'[p].status = "ok"
    BY <1>1, <2>2, <2>3, NoCharacterAssumption DEF TypeOK, Return, Answered
  <2>5. SaveReturned(p)'
    BY <1>1, <2>3, <2>4 DEF SaveReturned, WroteAt, database
  <2>6. InStepWith(p)'
    BY <2>4 DEF InStepWith
  <2> QED BY <1>1, <2>2, <2>3, <2>5, <2>6, ReturnKeeps
<1>3. CASE req[p].op = "save" /\ ~ Saved(p)
  <2>1. Return(p, Refused("conflict")) /\ UNCHANGED <<held, base>>
    BY <1>3 DEF Deliver, DeliverSave
  <2>2. result'[p].status = "conflict"
    BY <1>1, <2>1 DEF TypeOK, Return, Refused
  <2>3. Unwritten(number[p])
    BY <1>1, <1>3 DEF CallOK, SaveFetched
  <2>4. SaveReturned(p)' /\ InStepWith(p)'
    BY <1>1, <2>2, <2>3 DEF SaveReturned, InStepWith, Unwritten, WroteAt, database
  <2> QED BY <1>1, <2>1, <2>4, ReturnKeeps
<1>4. CASE req[p].op = "find"
  <2>1. DeliverFind(p)
    BY <1>4 DEF Deliver
  <2>2. CASE fetched[p].rows = {}
    <3>1. Return(p, Refused("not_found")) /\ UNCHANGED <<held, base>>
      BY <2>1, <2>2 DEF DeliverFind
    <3>2. InStepWith(p)'
      BY <1>1, <3>1 DEF TypeOK, Return, Refused, InStepWith
    <3> QED BY <1>1, <1>4, <3>1, <3>2, ReturnKeeps
  <2>3. CASE fetched[p].rows # {}
    <3>1. PICK row \in fetched[p].rows : /\ Return(p, Answered({row}))
                                         /\ held' = [held EXCEPT ![p] = row]
                                         /\ base' = [base EXCEPT ![p] = row]
      BY <2>1, <2>3 DEF DeliverFind
    <3>2. row \in Character /\ IsRevision(row)
      BY <1>1, <1>4 DEF TypeOK, Fetched, CallOK, ReadFetched
    <3>3. InStepWith(p)'
      BY <1>1, <3>1, <3>2, NoCharacterAssumption DEF TypeOK, InStepWith
    <3> QED BY <1>1, <1>4, <3>1, <3>2, <3>3, ReturnKeeps
  <2> QED BY <2>2, <2>3
<1>5. CASE req[p].op = "list"
  BY <1>1, <1>5, ReturnKeeps DEF Deliver, DeliverList
<1> QED
  BY <1>1, <1>2, <1>3, <1>4, <1>5, RequestShape

-----------------------------------------------------------------------------
(* The invariant and what follows from it.                                 *)

\* Nothing has been called and nothing written.
LEMMA SqliteInit == Init => SqliteInv
<1> SUFFICES ASSUME Init
             PROVE  SqliteInv
  OBVIOUS
<1>1. \A id \in Id : writes[id] = << >> /\ Len(writes[id]) = 0 /\ table[id] = NoCharacter
  BY DEF Init
<1>2. RowIsLastWrite /\ NoLostUpdate
  BY <1>1 DEF RowIsLastWrite, NoLostUpdate
<1>3. HeldInv /\ Unshared
  BY DEF Init, HeldInv, HeldOK, Unshared
<1>4. CallInv
  BY DEF Init, CallInv, CallOK
<1>5. NumberInv
  BY <1>1 DEF Init, NumberInv
<1> QED
  BY <1>2, <1>3, <1>4, <1>5, TypeInit DEF SqliteInv

\* Every step keeps the invariant.
LEMMA SqliteNext == SqliteInv /\ [Next]_vars => SqliteInv'
<1> SUFFICES ASSUME SqliteInv, [Next]_vars
             PROVE  SqliteInv'
  OBVIOUS
<1>1. TypeOK'
  BY TypeNext
<1>2. ASSUME NEW p \in Proc, Execute(p)
      PROVE  SqliteInv'
  <2>1. CASE UNCHANGED database
    BY <1>1, <1>2, <2>1, ExecuteQuietKeeps
  <2>2. CASE /\ req[p].op = "save"
             /\ table[req[p].character.id] = NoCharacter
                \/ Matches(table[req[p].character.id], req[p].character)
    <3>1. PICK c, n : c = req[p].character /\ n = Len(writes[c.id])
      OBVIOUS
    <3> QED BY <1>1, <1>2, <2>2, <3>1, WriteKeeps
  <2> QED BY <1>2, <2>1, <2>2 DEF Execute, ExecuteSave, ExecuteRead
<1>3. CASE Close \/ UNCHANGED vars
  <2>1. UNCHANGED <<table, phase, req, attempt, fetched, result, held, base, number, calls, writes>>
    BY <1>3 DEF Close, vars, database, statement, callers
  <2>2. HeldInv' /\ Unshared' /\ NumberInv'
    BY <2>1 DEF SqliteInv, HeldInv, HeldOK, IsRevision, Revision, Unshared, NumberInv
  <2>3. CallInv'
    <3> SUFFICES ASSUME NEW q \in Proc
                 PROVE  CallOK(q)'
      BY DEF CallInv
    <3>1. CallOK(q)
      BY DEF SqliteInv, CallInv
    <3>2. (Unwritten(number[q]) <=> Unwritten(number[q])') /\ (InStepWith(q) <=> InStepWith(q)')
      BY <2>1 DEF Unwritten, WroteAt, InStepWith
    <3>3. SaveFetched(q) <=> SaveFetched(q)'
      BY <2>1, <3>2 DEF SaveFetched, Saved, WroteAt
    <3>4. ReadFetched(q) <=> ReadFetched(q)'
      BY <2>1 DEF ReadFetched, IsRevision, Revision
    <3>5. SaveReturned(q) <=> SaveReturned(q)'
      BY <2>1, <3>2 DEF SaveReturned, WroteAt
    <3> QED BY <2>1, <3>1, <3>2, <3>3, <3>4, <3>5 DEF CallOK
  <2> QED BY <1>1, <2>1, <2>2, <2>3, HistoryStands DEF SqliteInv, database
<1> QED
  BY <1>1, <1>2, <1>3, CreateKeeps, EditKeeps, ReadCallKeeps, WaitingKeeps, DeliverKeeps
  DEF Next, Quiescent
-----------------------------------------------------------------------------
(* The theorems.                                                           *)

\* Every value keeps its type: versions are positive, a stored row has the id
\* it is stored under, and no call is issued more than maxRetries times.
THEOREM TypeCorrect == Spec => []TypeOK
<1>1. SqliteInv => TypeOK
  BY DEF SqliteInv
<1> QED
  BY <1>1, SqliteInit, SqliteNext, PTL DEF Spec

\* The inductive invariant.
THEOREM RepositoryConsistent == Spec => []SqliteInv
<1> QED
  BY SqliteInit, SqliteNext, PTL DEF Spec

\* saveCharacter's upsert: the row is the last accepted write.
THEOREM RowsAreLastWrites == Spec => []RowIsLastWrite
<1>1. SqliteInv => RowIsLastWrite
  BY DEF SqliteInv
<1> QED
  BY <1>1, RepositoryConsistent, PTL

\* Neither the retries nor an answer that was lost mask a lost update.
THEOREM NoUpdateIsLost == Spec => []NoLostUpdate
<1>1. SqliteInv => NoLostUpdate
  BY DEF SqliteInv
<1> QED
  BY <1>1, RepositoryConsistent, PTL

\* The aggregate a call leaves in its caller's hand is one the store has held.
THEOREM ReturnedIsRevision == Spec => []HeldIsRevision
<1>1. SqliteInv => HeldIsRevision
  <2> SUFFICES ASSUME SqliteInv, NEW p \in Proc, phase[p] = "done",
                      req[p].op \in {"save", "find"}, result[p].status = "ok"
               PROVE  IsRevision(held[p])
    BY DEF HeldIsRevision, IsRevision
  <2>1. held[p] # NoCharacter /\ held[p] = base[p]
    BY DEF SqliteInv, CallInv, CallOK, InStepWith
  <2>2. base[p] # NoCharacter => IsRevision(base[p])
    BY <2>1 DEF SqliteInv, HeldInv, HeldOK
  <2> QED BY <2>1, <2>2 DEF IsRevision, Revision
<1> QED
  BY <1>1, RepositoryConsistent, PTL

\* There are no more revisions of a character than there were calls.
LEMMA HistoryBounded ==
    ASSUME SqliteInv, NEW id \in Id
    PROVE  Len(writes[id]) <= calls
<1> DEFINE S == 1 .. Len(writes[id])
           f == [k \in S |-> writes[id][k].number]
<1>1. Len(writes[id]) \in Nat /\ calls \in Nat
  BY DEF SqliteInv, TypeOK
<1>2. f \in [S -> 1 .. calls]
  BY DEF SqliteInv, NumberInv
<1>3. \A k, m \in S : f[k] = f[m] => k = m
  BY DEF SqliteInv, NumberInv
<1>4. /\ IsFiniteSet(S) /\ Cardinality(S) = Len(writes[id])
      /\ IsFiniteSet(1 .. calls) /\ Cardinality(1 .. calls) = calls
  BY <1>1, FS_Interval
<1> HIDE DEF S, f
<1>5. ~ (Cardinality(1 .. calls) < Cardinality(S))
  <2> SUFFICES ASSUME Cardinality(1 .. calls) < Cardinality(S)
               PROVE  FALSE
    OBVIOUS
  <2>1. \E k, m \in S : k # m /\ f[k] = f[m]
    BY <1>2, <1>4, FS_PigeonHole
  <2> QED BY <1>3, <2>1
<1> QED
  BY <1>1, <1>4, <1>5

\* What Wrote finds is what the call's number is on.
LEMMA WroteIs ==
    ASSUME SqliteInv, NEW p \in Proc
    PROVE  /\ \A id \in Id, k \in Nat \ {0} : WroteAt(number[p], id, k) <=> <<id, k>> \in Wrote(p)
           /\ \A v, w \in Wrote(p) : v = w
           /\ Unwritten(number[p]) => Wrote(p) = {}
<1>1. \A id \in Id : Len(writes[id]) \in Nat /\ Len(writes[id]) <= calls /\ calls \in Nat
  BY HistoryBounded DEF SqliteInv, TypeOK
<1>2. ASSUME NEW id \in Id, NEW k \in Nat \ {0}
      PROVE  WroteAt(number[p], id, k) <=> <<id, k>> \in Wrote(p)
  BY <1>1 DEF WroteAt, Wrote
<1>3. ASSUME NEW w \in Wrote(p)
      PROVE  /\ w = <<w[1], w[2]>> /\ w[1] \in Id /\ w[2] \in Nat
             /\ WroteAt(number[p], w[1], w[2])
  BY <1>1 DEF Wrote, WroteAt
<1>4. ASSUME NEW v \in Wrote(p), NEW w \in Wrote(p)
      PROVE  v = w
  <2>1. v[1] = w[1] /\ v[2] = w[2]
    BY <1>3 DEF WroteAt, SqliteInv, NumberInv
  <2> QED BY <1>3, <2>1
<1> QED
  BY <1>2, <1>3, <1>4 DEF Unwritten

(***************************************************************************)
(* A Save wrote at most once, and what it told its caller is what happened:*)
(* the statement is issued again only when it was blocked, and a missing   *)
(* row is a failed compare-and-set.                                        *)
(***************************************************************************)
THEOREM SavesTellTheTruth == Spec => []SavedAsReported
<1>1. SqliteInv => SavedAsReported
  <2> SUFFICES ASSUME SqliteInv, NEW p \in Proc
               PROVE  /\ Cardinality(Wrote(p)) <= 1
                      /\ phase[p] = "done" /\ req[p].op = "save" =>
                            /\ result[p].status = "ok" =>
                                  Wrote(p) = {<<held[p].id, held[p].version>>}
                            /\ result[p].status \in {"conflict", "locked", "closed"} =>
                                  Wrote(p) = {}
    BY DEF SavedAsReported
  <2>1. Cardinality(Wrote(p)) <= 1
    <3>1. CASE Wrote(p) = {}
      BY <3>1, FS_EmptySet
    <3>2. ASSUME NEW w \in Wrote(p)
          PROVE  Cardinality(Wrote(p)) <= 1
      <4>1. Wrote(p) = {w}
        BY <3>2, WroteIs
      <4> QED BY <4>1, FS_Singleton
    <3> QED BY <3>1, <3>2
  <2>2. CallOK(p)
    BY DEF SqliteInv, CallInv
  <2>3. ASSUME phase[p] = "done", req[p].op = "save", result[p].status = "ok"
        PROVE  Wrote(p) = {<<held[p].id, held[p].version>>}
    <3>1. held[p] # NoCharacter /\ WroteAt(number[p], held[p].id, held[p].version)
      BY <2>2, <2>3 DEF CallOK, SaveReturned, InStepWith
    <3>2. held[p].id \in Id /\ held[p].version \in Nat \ {0}
      BY <3>1 DEF SqliteInv, TypeOK, Character
    <3>3. <<held[p].id, held[p].version>> \in Wrote(p)
      BY <3>1, <3>2, WroteIs
    <3> QED BY <3>3, WroteIs
  <2>4. ASSUME phase[p] = "done", req[p].op = "save",
               result[p].status \in {"conflict", "locked", "closed"}
        PROVE  Wrote(p) = {}
    BY <2>2, <2>4, WroteIs DEF CallOK, SaveReturned
  <2> QED BY <2>1, <2>3, <2>4
<1> QED
  BY <1>1, RepositoryConsistent, PTL
-----------------------------------------------------------------------------
(* The contract.                                                           *)

\* The contract's view of a call, in this state and the next.
LEMMA ShownIs ==
    ASSUME NEW p \in Proc
    PROVE  /\ contractCall[p] = [state |-> Stage(p), req |-> req[p], result |-> Told(p)]
           /\ contractCall[p].state = Stage(p)
           /\ contractCall[p].req = req[p]
           /\ contractCall[p].result = Told(p)
BY DEF contractCall

\* What the contract sees of a caller after a step.
LEMMA ShownNextIs ==
    ASSUME NEW p \in Proc
    PROVE  /\ contractCall'[p] = [state |-> Stage(p)', req |-> req'[p], result |-> Told(p)']
           /\ contractCall'[p].req = req'[p]
BY DEF contractCall

\* What a step leaves alone the contract sees unchanged.
LEMMA OthersShown ==
    ASSUME NEW p \in Proc, Others(p), NEW q \in Proc \ {p}
    PROVE  contractCall'[q] = contractCall[q]
<1>1. Stage(q)' = Stage(q) /\ req'[q] = req[q]
  BY DEF Others, Stage
<1>2. Told(q)' = Told(q)
  BY DEF Others, Told, Outcome, Returned, Saved
<1> QED
  BY <1>1, <1>2, ShownIs, ShownNextIs

\* A step of p's call, as the contract sees it.
LEMMA ContractMove ==
    ASSUME NEW p \in Proc, Others(p), NEW s, NEW r, NEW x,
           Stage(p)' = s, req'[p] = r, Told(p)' = x
    PROVE  Contract!Move(p, s, r, x)
<1>1. contractCall'[p] = [state |-> s, req |-> r, result |-> x]
  BY ShownNextIs
<1>2. \A q \in Proc \ {p} : contractCall'[q] = contractCall[q]
  BY OthersShown
<1>3. /\ contractCall = [q \in Proc |-> contractCall[q]]
      /\ contractCall' = [q \in Proc |-> contractCall'[q]]
  BY DEF contractCall
<1> QED
  BY <1>1, <1>2, <1>3 DEF Contract!Move

\* Or does not see.
LEMMA ContractStutter ==
    ASSUME NEW p \in Proc, Others(p), Stage(p)' = Stage(p), req'[p] = req[p], Told(p)' = Told(p),
           table' = table
    PROVE  UNCHANGED Contract!vars
<1>1. contractCall'[p] = contractCall[p]
  BY ShownIs, ShownNextIs
<1>2. \A q \in Proc \ {p} : contractCall'[q] = contractCall[q]
  BY OthersShown
<1>3. /\ contractCall = [q \in Proc |-> contractCall[q]]
      /\ contractCall' = [q \in Proc |-> contractCall'[q]]
  BY DEF contractCall
<1> QED
  BY <1>1, <1>2, <1>3 DEF Contract!vars

\* The stage by the phase, and an outcome by the statement.
LEMMA Stages ==
    ASSUME NEW p \in Proc
    PROVE  /\ phase[p] = "idle" => Stage(p) = "idle"
           /\ phase[p] \in {"called", "ready", "running", "backoff"} => Stage(p) = "called"
           /\ phase[p] = "settled" => Stage(p) = "settled"
           /\ phase[p] = "done" => Stage(p) = "returned"
<1>1. CASE phase[p] = "idle"
  BY <1>1 DEF Stage
<1>2. CASE phase[p] = "settled"
  BY <1>2 DEF Stage
<1>3. CASE phase[p] = "done"
  BY <1>3 DEF Stage
<1>4. CASE phase[p] \notin {"idle", "settled", "done"}
  BY <1>4 DEF Stage
<1> QED
  BY <1>1, <1>2, <1>3, <1>4

\* What a settled call will tell its caller, case by case.
LEMMA Outcomes ==
    ASSUME NEW p \in Proc
    PROVE  /\ req[p].op = "save" /\ Saved(p) =>
                  Outcome(p) = Answered({InStep(req[p].character, fetched[p].version)})
           /\ req[p].op = "save" /\ ~ Saved(p) => Outcome(p) = Refused("conflict")
           /\ req[p].op = "find" /\ fetched[p].rows = {} => Outcome(p) = Refused("not_found")
           /\ req[p].op = "find" /\ fetched[p].rows # {} => Outcome(p) = Answered(fetched[p].rows)
           /\ req[p].op = "list" => Outcome(p) = Answered(fetched[p].rows)
<1>1. CASE req[p].op = "save" /\ Saved(p)
  BY <1>1 DEF Outcome
<1>2. CASE req[p].op = "save" /\ ~ Saved(p)
  BY <1>2 DEF Outcome
<1>3. CASE req[p].op = "find" /\ fetched[p].rows = {}
  BY <1>3 DEF Outcome
<1>4. CASE req[p].op # "save" /\ ~ (req[p].op = "find" /\ fetched[p].rows = {})
  BY <1>4 DEF Outcome
<1> QED
  BY <1>1, <1>2, <1>3, <1>4

\* The two modules' sets and helpers agree.
LEMMA ContractNames ==
    /\ Contract!Request = Request
    /\ Contract!Rows = Rows
    /\ Contract!NoResult = Returned(NoResult)
    /\ \A rows : Contract!Answered(rows) = Answered(rows) /\ Returned(Answered(rows)) = Answered(rows)
    /\ \A status \in {"conflict", "not_found"} :
          Contract!Refused(status) = Refused(status) /\ Returned(Refused(status)) = Refused(status)
    /\ \A status \in {"locked", "cancelled", "closed"} :
          Returned(Refused(status)) = Contract!NoResult
<1>1. Contract!Request = Request
  BY DEF Contract!Request, Contract!Character, Request, SaveRequest, FindRequest, ListRequest, Character
<1>2. Contract!Rows = Rows
  BY DEF Contract!Rows, Rows
<1> QED
  BY <1>1, <1>2
  DEF Contract!NoResult, Contract!Refused, Contract!Answered, Returned, Answered, Refused, NoResult

\* The initial state is one of the contract's.
LEMMA ContractInit == Init => Contract!Init
<1> SUFFICES ASSUME Init
             PROVE  Contract!Init
  OBVIOUS
<1>1. ASSUME NEW p \in Proc
      PROVE  contractCall[p] = [state |-> "idle", req |-> NoRequest, result |-> Contract!NoResult]
  <2>1. phase[p] = "idle" /\ req[p] = NoRequest /\ result[p] = NoResult
    BY DEF Init
  <2>2. Stage(p) = "idle" /\ Told(p) = Contract!NoResult
    BY <2>1, Stages, ContractNames DEF Told
  <2> QED BY <2>1, <2>2, ShownIs
<1>2. contractCall = [p \in Proc |-> contractCall[p]]
  BY DEF contractCall
<1> QED
  BY <1>1, <1>2 DEF Contract!Init, Contract!NoRequest, NoRequest, Init
\* A new call.
LEMMA CallInvokes ==
    ASSUME SqliteInv, TypeOK', NEW p \in Proc, NEW r \in Request, Call(p, r), Others(p)
    PROVE  Contract!Invoke(p)
<1>1. /\ phase[p] \in {"idle", "done"} /\ phase'[p] = "called"
      /\ req'[p] = r /\ result'[p] = NoResult /\ table' = table
  BY DEF Call, SqliteInv, TypeOK, database
<1>2. Stage(p) \in {"idle", "returned"}
  BY <1>1, Stages
<1>3. Stage(p)' = "called"
  BY <1>1 DEF Stage
<1>4. Told(p)' = Contract!NoResult
  BY <1>1, ContractNames DEF Told
<1>5. contractCall'[p].req = r
  BY <1>1, ShownNextIs
<1>6. contractCall[p].state = Stage(p)
  BY ShownIs
<1>7. Contract!Move(p, "called", r, Contract!NoResult)
  BY <1>1, <1>3, <1>4, ContractMove
<1> QED
  BY <1>1, <1>2, <1>5, <1>6, <1>7, ContractNames DEF Contract!Invoke

\* A call that ends without an answer.
LEMMA AbandonFails ==
    ASSUME SqliteInv, NEW p \in Proc, NEW status \in {"locked", "closed", "cancelled"},
           Abandon(p, status), phase[p] \in {"called", "ready", "running", "backoff", "settled"}
    PROVE  Contract!Fail(p)
<1>1. Others(p) /\ table' = table
  BY DEF Abandon, Return, Others, callers, database, SqliteInv, TypeOK
<1>2. phase'[p] = "done" /\ req'[p] = req[p] /\ result'[p] = Refused(status)
  BY DEF Abandon, Return, SqliteInv, TypeOK
<1>3. Stage(p) \in {"called", "settled"}
  BY Stages
<1>4. Stage(p)' = "returned"
  BY <1>2 DEF Stage
<1>5. Told(p)' = Contract!NoResult
  BY <1>2, ContractNames DEF Told
<1>6. contractCall[p].state = Stage(p) /\ contractCall[p].req = req[p]
  BY ShownIs
<1>7. Contract!Move(p, "returned", req[p], Contract!NoResult)
  BY <1>1, <1>2, <1>4, <1>5, ContractMove
<1> QED
  BY <1>1, <1>3, <1>6, <1>7 DEF Contract!Fail

\* A call that goes on: the contract sees nothing.
LEMMA StepStutters ==
    ASSUME SqliteInv, NEW p \in Proc, NEW next \in {"ready", "running", "backoff"},
           Step(p, next), phase[p] \in {"called", "ready", "running", "backoff"},
           \A q \in Proc \ {p} : attempt'[q] = attempt[q],
           UNCHANGED <<database, fetched>>
    PROVE  UNCHANGED Contract!vars
<1>1. Others(p) /\ table' = table
  BY DEF Step, Others, callers, database, SqliteInv, TypeOK
<1>2. phase'[p] = next /\ req'[p] = req[p] /\ result'[p] = result[p]
  BY DEF Step, SqliteInv, TypeOK
<1>3. Stage(p) = "called" /\ Told(p) = Returned(result[p])
  BY Stages DEF Told
<1>4. Stage(p)' = "called"
  BY <1>2 DEF Stage
<1>5. Told(p)' = Told(p)
  BY <1>2, <1>3 DEF Told, Returned
<1> QED
  BY <1>1, <1>2, <1>3, <1>4, <1>5, ContractStutter

\* The statement is where the call takes effect: here a Save's.
LEMMA ExecuteSaves ==
    ASSUME SqliteInv, NEW p \in Proc, Execute(p), req[p].op = "save"
    PROVE  Contract!Save(p)
<1> DEFINE c == req[p].character
<1>1. TypeOK /\ phase[p] = "running" /\ req[p] \in Request /\ c \in Character /\ c.id \in Id
  <2>1. phase[p] = "running" /\ req[p] \in Request
    BY DEF Execute, SqliteInv, TypeOK
  <2> QED BY <2>1, RequestShape DEF SqliteInv, Character
<1>2. /\ contractCall[p].state = "called" /\ contractCall[p].req = req[p]
  BY <1>1, ShownIs, Stages
<1>3. CASE table[c.id] = NoCharacter \/ Matches(table[c.id], c)
  <2> DEFINE f == [version |-> Upserted(c).version, rows |-> {}]
             new == IF table[c.id] = NoCharacter THEN c ELSE Contract!Advanced(c)
  <2>1. fetched' = [fetched EXCEPT ![p] = f] /\ table' = [table EXCEPT ![c.id] = Upserted(c)]
    BY <1>3 DEF Execute, ExecuteSave
  <2>2. /\ Others(p) /\ phase'[p] = "settled" /\ fetched'[p] = f /\ req'[p] = req[p]
    BY <2>1, ExecuteFrame
  <2>3. Upserted(c) = new
    BY <1>1, <1>3 DEF Upserted, Matches, Contract!Advanced
  <2>4. Upserted(c) \in Character
    BY <1>1, UpsertedType
  <2>5. Saved(p)'
    <3>1. f.version # 0
      BY <2>4 DEF Character
    <3>2. NoRow.version = 0
      BY DEF NoRow
    <3> QED BY <2>2, <3>1, <3>2 DEF Saved
  <2>6. InStep(c, f.version) = Upserted(c)
    <3>1. CASE table[c.id] = NoCharacter
      BY <3>1 DEF Upserted, InStep
    <3>2. CASE table[c.id] # NoCharacter
      BY <1>1, <1>3, <3>2 DEF Upserted, InStep, Matches, Character, TypeOK
    <3> QED BY <3>1, <3>2
  <2> HIDE DEF f
  <2>7. Told(p)' = Contract!Answered({new})
    <3>1. Told(p)' = Outcome(p)'
      BY <2>2 DEF Told
    <3>2. Outcome(p)' = Answered({InStep(c, f.version)})
      BY <2>2, <2>5 DEF Outcome, Saved, Answered
    <3> QED BY <2>3, <2>6, <3>1, <3>2, ContractNames
  <2>8. Stage(p)' = "settled"
    BY <2>2 DEF Stage
  <2>9. Contract!Move(p, "settled", req[p], Contract!Answered({new}))
    BY <2>2, <2>7, <2>8, ContractMove
  <2> QED BY <1>2, <1>3, <2>1, <2>3, <2>9 DEF Contract!Save, Matches
<1>4. CASE ~ (table[c.id] = NoCharacter \/ Matches(table[c.id], c))
  <2>1. fetched' = [fetched EXCEPT ![p] = NoRow] /\ table' = table
    BY <1>4 DEF Execute, ExecuteSave, database
  <2>2. /\ Others(p) /\ phase'[p] = "settled" /\ fetched'[p] = NoRow /\ req'[p] = req[p]
    BY <2>1, ExecuteFrame
  <2>3. Told(p)' = Contract!Refused("conflict")
    <3>1. Told(p)' = Outcome(p)'
      BY <2>2 DEF Told
    <3>2. Outcome(p)' = Refused("conflict")
      BY <2>2 DEF Outcome, Saved, Refused
    <3> QED BY <3>1, <3>2, ContractNames
  <2>4. Stage(p)' = "settled"
    BY <2>2 DEF Stage
  <2>5. Contract!Move(p, "settled", req[p], Contract!Refused("conflict"))
    BY <2>2, <2>3, <2>4, ContractMove
  <2> QED BY <1>2, <1>4, <2>1, <2>5 DEF Contract!Save, Matches
<1> QED
  BY <1>3, <1>4

\* And a Find's and a List's.
LEMMA ExecuteReads ==
    ASSUME SqliteInv, NEW p \in Proc, Execute(p), req[p].op # "save"
    PROVE  Contract!Find(p) \/ Contract!List(p)
<1> DEFINE rows == IF req[p].op = "list" THEN Rows ELSE {row \in Rows : row.id = req[p].id}
           f == [version |-> 0, rows |-> rows]
<1>1. TypeOK /\ phase[p] = "running" /\ req[p] \in Request
  BY DEF Execute, SqliteInv, TypeOK
<1>2. fetched' = [fetched EXCEPT ![p] = f] /\ table' = table
  BY DEF Execute, ExecuteRead, database
<1>3. f.rows = rows
  OBVIOUS
<1> HIDE DEF f
<1>4. Others(p) /\ phase'[p] = "settled" /\ fetched'[p] = f /\ req'[p] = req[p]
  BY <1>2, ExecuteFrame
<1>5. contractCall[p].state = "called" /\ contractCall[p].req = req[p]
  BY <1>1, ShownIs, Stages
<1>6. Stage(p)' = "settled" /\ Told(p)' = Outcome(p)'
  BY <1>4 DEF Stage, Told
<1>7. CASE req[p].op = "list"
  <2>1. rows = Contract!Rows
    BY <1>7, ContractNames
  <2> HIDE DEF rows
  <2>2. Outcome(p)' = Answered(rows)
    BY <1>3, <1>4, <1>7 DEF Outcome, Answered
  <2>3. Contract!Move(p, "settled", req[p], Contract!Answered(rows))
    BY <1>4, <1>6, <2>2, ContractNames, ContractMove
  <2> QED BY <1>2, <1>5, <1>7, <2>1, <2>3 DEF Contract!List
<1>8. CASE req[p].op = "find"
  <2> DEFINE cur == table[req[p].id]
  <2>1. req[p].id \in Id
    BY <1>1, <1>8, RequestShape
  <2>2. rows = IF cur = NoCharacter THEN {} ELSE {cur}
    <3>1. \A row \in Rows : row = table[row.id]
      BY RowsAreRevisions
    <3>2. cur # NoCharacter => cur \in Rows /\ cur.id = req[p].id
      BY <1>1, <2>1 DEF Rows, TypeOK
    <3>3. cur = NoCharacter => \A row \in Rows : row.id # req[p].id
      BY <1>1, <2>1 DEF Rows, TypeOK
    <3>4. rows = {row \in Rows : row.id = req[p].id}
      BY <1>8
    <3> QED BY <3>1, <3>2, <3>3, <3>4
  <2> HIDE DEF rows
  <2>3. Outcome(p)' = IF cur = NoCharacter THEN Refused("not_found") ELSE Answered({cur})
    <3>1. CASE cur = NoCharacter
      BY <1>3, <1>4, <1>8, <2>2, <3>1 DEF Outcome, Refused
    <3>2. CASE cur # NoCharacter
      BY <1>3, <1>4, <1>8, <2>2, <3>2 DEF Outcome, Answered
    <3> QED BY <3>1, <3>2
  <2>4. Contract!Move(p, "settled", req[p],
            IF cur = NoCharacter THEN Contract!Refused("not_found") ELSE Contract!Answered({cur}))
    BY <1>4, <1>6, <2>3, ContractNames, ContractMove
  <2> QED BY <1>2, <1>5, <1>8, <2>4 DEF Contract!Find
<1> QED
  BY <1>1, <1>7, <1>8, RequestShape

\* The return tells the caller what the statement decided.
LEMMA DeliverReturns ==
    ASSUME SqliteInv, NEW p \in Proc, Deliver(p)
    PROVE  Contract!Return(p)
<1>1. /\ TypeOK /\ CallOK(p) /\ phase[p] = "settled" /\ req[p] \in Request
      /\ UNCHANGED <<table, req, number>>
  BY DEF Deliver, SqliteInv, TypeOK, CallInv, database
<1>2. /\ Return(p, Outcome(p)) /\ Returned(Outcome(p)) = Outcome(p)
      /\ \A q \in Proc \ {p} : held'[q] = held[q] /\ base'[q] = base[q]
  <2>1. CASE req[p].op = "save"
    <3>1. req[p].character = held[p]
      BY <1>1, <2>1 DEF CallOK
    <3>2. CASE Saved(p)
      <4>1. Outcome(p) = Answered({InStep(held[p], fetched[p].version)})
        BY <2>1, <3>1, <3>2, Outcomes
      <4> QED BY <1>1, <2>1, <3>2, <4>1, ContractNames DEF Deliver, DeliverSave, TypeOK
    <3>3. CASE ~ Saved(p)
      BY <1>1, <2>1, <3>3, Outcomes, ContractNames DEF Deliver, DeliverSave
    <3> QED BY <3>2, <3>3
  <2>2. CASE req[p].op = "find"
    <3>1. CASE fetched[p].rows = {}
      BY <2>2, <3>1, Outcomes, ContractNames DEF Deliver, DeliverFind
    <3>2. CASE fetched[p].rows # {}
      <4>1. PICK row \in fetched[p].rows : /\ Return(p, Answered({row}))
                                           /\ held' = [held EXCEPT ![p] = row]
                                           /\ base' = [base EXCEPT ![p] = row]
        BY <2>2, <3>2 DEF Deliver, DeliverFind
      <4>2. fetched[p].rows = {row}
        BY <1>1, <2>2 DEF CallOK, ReadFetched
      <4> QED BY <1>1, <2>2, <3>2, <4>1, <4>2, Outcomes, ContractNames DEF TypeOK
    <3> QED BY <3>1, <3>2
  <2>3. CASE req[p].op = "list"
    BY <2>3, Outcomes, ContractNames DEF Deliver, DeliverList
  <2> QED BY <1>1, <2>1, <2>2, <2>3, RequestShape
<1>3. Others(p) /\ phase'[p] = "done" /\ req'[p] = req[p] /\ result'[p] = Outcome(p)
  BY <1>1, <1>2 DEF Return, Others, TypeOK
<1>4. /\ contractCall[p].state = "settled" /\ contractCall[p].req = req[p]
      /\ contractCall[p].result = Outcome(p)
  BY <1>1, ShownIs, Stages DEF Told
<1>5. Stage(p)' = "returned"
  BY <1>3 DEF Stage
<1>6. Told(p)' = Outcome(p)
  <2>1. Told(p)' = Returned(result'[p])
    BY <1>3 DEF Told, Returned
  <2> QED BY <1>2, <1>3, <2>1
<1>7. Contract!Move(p, "returned", req[p], Outcome(p))
  BY <1>3, <1>5, <1>6, ContractMove
<1> QED
  BY <1>1, <1>4, <1>7 DEF Contract!Return

\* Every step is one of the contract's, or it sees none.
LEMMA ContractNext == SqliteInv /\ TypeOK' /\ [Next]_vars => [Contract!Next]_(Contract!vars)
<1> SUFFICES ASSUME SqliteInv, TypeOK', [Next]_vars
             PROVE  Contract!Next \/ UNCHANGED Contract!vars
  OBVIOUS
<1>0. TypeOK
  BY DEF SqliteInv
<1>1. ASSUME NEW p \in Proc, Create(p) \/ Edit(p) \/ Find(p) \/ List(p)
      PROVE  Contract!Invoke(p)
  <2>1. \E r \in Request : Call(p, r)
    <3>1. \A c \in Character, sheet \in Sheet : ReplaceSheet(c, sheet) \in Character
      BY CharacterTypes
    <3>2. \A id \in Id, sheet \in Sheet : NewCharacter(id, sheet) \in Character
      BY CharacterTypes
    <3>3. CASE Create(p)
      BY <3>2, <3>3, RequestTypes DEF Create
    <3>4. CASE Edit(p)
      BY <1>0, <3>1, <3>4, RequestTypes DEF Edit, TypeOK
    <3>5. CASE Find(p) \/ List(p)
      BY <3>5, RequestTypes DEF Find, List
    <3> QED BY <1>1, <3>3, <3>4, <3>5
  <2>2. \A q \in Proc \ {p} : held'[q] = held[q] /\ base'[q] = base[q]
    BY <1>0, <1>1 DEF Create, Edit, Find, List, TypeOK
  <2>3. Others(p)
    BY <1>0, <2>1, <2>2 DEF Call, Others, TypeOK, statement
  <2> QED BY <2>1, <2>3, CallInvokes
<1>2. ASSUME NEW p \in Proc, Handle(p) \/ Issue(p) \/ Blocked(p) \/ Wake(p) \/ Expire(p)
      PROVE  Contract!Fail(p) \/ UNCHANGED Contract!vars
  <2>1. CASE Handle(p)
    BY <2>1, AbandonFails, StepStutters DEF Handle, statement
  <2>2. CASE Issue(p)
    BY <2>2, AbandonFails, StepStutters DEF Issue, statement
  <2>3. CASE Blocked(p)
    BY <2>3, AbandonFails, StepStutters DEF Blocked, statement
  <2>4. CASE Wake(p)
    BY <1>0, <2>4, StepStutters DEF Wake, TypeOK
  <2>5. CASE Expire(p)
    BY <2>5, AbandonFails DEF Expire
  <2> QED BY <1>2, <2>1, <2>2, <2>3, <2>4, <2>5
<1>3. ASSUME NEW p \in Proc, Execute(p)
      PROVE  Contract!Save(p) \/ Contract!Find(p) \/ Contract!List(p)
  BY <1>3, ExecuteSaves, ExecuteReads
<1>4. CASE Close \/ UNCHANGED vars
  <2>1. UNCHANGED <<table, phase, req, fetched, result>>
    BY <1>4 DEF Close, vars, database, statement, callers
  <2>2. contractCall' = contractCall
    <3>1. ASSUME NEW p \in Proc
          PROVE  contractCall'[p] = contractCall[p]
      <4>1. Stage(p)' = Stage(p)
        BY <2>1 DEF Stage
      <4>2. Told(p)' = Told(p)
        BY <2>1 DEF Told, Outcome, Returned, Saved
      <4> QED BY <2>1, <4>1, <4>2, ShownIs, ShownNextIs
    <3>2. /\ contractCall = [q \in Proc |-> contractCall[q]]
          /\ contractCall' = [q \in Proc |-> contractCall'[q]]
      BY DEF contractCall
    <3> QED BY <3>1, <3>2
  <2> QED BY <2>1, <2>2 DEF Contract!vars
<1> QED
  BY <1>1, <1>2, <1>3, <1>4, DeliverReturns DEF Next, Quiescent, Contract!Next

(***************************************************************************)
(* The repository implements the contract of character.CharacterRepository:*)
(* whatever is retried, cancelled or closed in between, a call that has an *)
(* answer took effect in one step between its start and its end.           *)
(***************************************************************************)
THEOREM ContractKept == Spec => ImplementsContract
<1>1. SqliteInv /\ SqliteInv' /\ [Next]_vars => [Contract!Next]_(Contract!vars)
  BY ContractNext DEF SqliteInv
<1> QED
  BY <1>1, ContractInit, RepositoryConsistent, PTL DEF Spec, Contract!Spec, ImplementsContract
=============================================================================
