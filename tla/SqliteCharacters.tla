-------------------------- MODULE SqliteCharacters --------------------------
(***************************************************************************)
(* The SQLite character repository: internal/infra/sqlite/character.go and *)
(* retry.go.  Callers run Save, Find and List concurrently; each call is   *)
(* one SQL statement, issued on one of the pool's connections and issued   *)
(* again while SQLite reports it blocked.                                  *)
(*                                                                         *)
(* What SQLite, database/sql and the clock do is external and free: any    *)
(* statement may find the database locked, by whatever process holds it,   *)
(* and whatever looks at a context may find it done.  SQLite takes a       *)
(* statement's locks before its first effect or row, and undoes a          *)
(* statement it could not commit, so a blocked statement has done nothing. *)
(***************************************************************************)
EXTENDS Naturals, Sequences, FiniteSets

CONSTANTS
    Proc,         \* the callers' goroutines
    Id,           \* character ids
    Sheet,        \* character sheets
    NoCharacter,  \* no row; no aggregate in hand
    MaxRetries,   \* maxRetries: how often a statement is issued at most
    Slots,        \* connections of the pool that statements may use
    MaxCalls      \* bound: how many calls are made

(***************************************************************************)
(* Slots: a pool limited to one connection on an in-memory database has    *)
(* none left beside the keepalive, and every call then waits for ever, as  *)
(* DB.MaxOpenConns documents.                                              *)
(***************************************************************************)
ASSUME SqliteAssumption ==
    /\ MaxRetries \in Nat \ {0}
    /\ Slots \in Nat \ {0}
    /\ MaxCalls \in Nat

MinVersion == 1

Character == [id : Id, version : Nat \ {0}, sheet : Sheet]

ASSUME NoCharacterAssumption == NoCharacter \notin Character

SaveRequest == [op : {"save"}, character : Character]

FindRequest == [op : {"find"}, id : Id]

ListRequest == [op : {"list"}]

Request == SaveRequest \cup FindRequest \cup ListRequest

NoRequest == [op |-> "none"]

Status == {"ok", "conflict", "not_found", "locked", "cancelled", "closed"}

Result == [status : Status, rows : SUBSET Character]

Refused(status) == [status |-> status, rows |-> {}]

Answered(rows) == [status |-> "ok", rows |-> rows]

NoResult == Refused("closed")

VARIABLES
    table,       \* the characters table: Id -> row, or NoCharacter
    pool,        \* "open", or "closed" once DB.Close has run
    phase,       \* how far the call has come
    req,         \* the call
    attempt,     \* retry's attempt
    fetched,     \* what the statement returned: rows, or a version
    result,      \* what the call returned
    held,        \* the aggregate in the caller's hand
    base,        \* history: the row that aggregate was when it was last in step
    number,      \* history: the number of the call
    calls,       \* history: how many calls have been made
    writes       \* history: per id, the accepted writes in order

callers == <<held, base, number, calls>>
statement == <<attempt, fetched>>
database == <<table, writes>>
vars == <<table, pool, phase, req, attempt, fetched, result, held,
          base, number, calls, writes>>

Write == [by : Proc, number : Nat, from : Character \cup {NoCharacter}, sheet : Sheet]

Fetched == [version : Nat, rows : SUBSET Character]

\* No row came back.
NoRow == [version |-> 0, rows |-> {}]

(***************************************************************************)
(* The type invariant.                                                     *)
(***************************************************************************)
TypeOK ==
    /\ table \in [Id -> Character \cup {NoCharacter}]
    /\ \A id \in Id : table[id] # NoCharacter => table[id].id = id
    /\ pool \in {"open", "closed"}
    /\ phase \in [Proc -> {"idle", "called", "ready", "running", "backoff", "settled", "done"}]
    /\ req \in [Proc -> Request \cup {NoRequest}]
    /\ \A p \in Proc : phase[p] # "idle" => req[p] \in Request
    /\ attempt \in [Proc -> 1..MaxRetries]
    /\ fetched \in [Proc -> Fetched]
    /\ result \in [Proc -> Result]
    /\ held \in [Proc -> Character \cup {NoCharacter}]
    /\ base \in [Proc -> Character \cup {NoCharacter}]
    /\ number \in [Proc -> Nat]
    /\ calls \in Nat
    /\ writes \in [Id -> Seq(Write)]

Init ==
    /\ table = [id \in Id |-> NoCharacter]
    /\ pool = "open"
    /\ phase = [p \in Proc |-> "idle"]
    /\ req = [p \in Proc |-> NoRequest]
    /\ attempt = [p \in Proc |-> 1]
    /\ fetched = [p \in Proc |-> NoRow]
    /\ result = [p \in Proc |-> NoResult]
    /\ held = [p \in Proc |-> NoCharacter]
    /\ base = [p \in Proc |-> NoCharacter]
    /\ number = [p \in Proc |-> 0]
    /\ calls = 0
    /\ writes = [id \in Id |-> << >>]

-----------------------------------------------------------------------------
(* The callers.                                                            *)

\* NewCharacterID never repeats: an id that no table and no caller has seen.
Fresh(id) ==
    /\ writes[id] = << >>
    /\ \A p \in Proc : held[p] # NoCharacter => held[p].id # id

NewCharacter(id, sheet) == [id |-> id, version |-> MinVersion, sheet |-> sheet]

ReplaceSheet(c, sheet) == [id |-> c.id, version |-> c.version, sheet |-> sheet]

Call(p, r) ==
    /\ phase[p] \in {"idle", "done"}
    /\ calls < MaxCalls
    /\ req' = [req EXCEPT ![p] = r]
    /\ phase' = [phase EXCEPT ![p] = "called"]
    /\ result' = [result EXCEPT ![p] = NoResult]
    /\ calls' = calls + 1
    /\ number' = [number EXCEPT ![p] = calls + 1]
    /\ UNCHANGED <<database, pool, statement>>

\* A caller saves a character it has made.
Create(p) ==
    \E id \in Id, sheet \in Sheet :
        /\ Fresh(id)
        /\ held' = [held EXCEPT ![p] = NewCharacter(id, sheet)]
        /\ base' = [base EXCEPT ![p] = NoCharacter]
        /\ Call(p, [op |-> "save", character |-> NewCharacter(id, sheet)])

\* Or the one it holds, edited; a failed Save may be tried again.
Edit(p) ==
    /\ held[p] # NoCharacter
    /\ \E sheet \in Sheet :
          LET c == ReplaceSheet(held[p], sheet)
          IN  /\ held' = [held EXCEPT ![p] = c]
              /\ Call(p, [op |-> "save", character |-> c])
    /\ UNCHANGED base

Find(p) ==
    /\ \E id \in Id : Call(p, [op |-> "find", id |-> id])
    /\ UNCHANGED <<held, base>>

List(p) ==
    /\ Call(p, [op |-> "list"])
    /\ UNCHANGED <<held, base>>

Close ==
    /\ pool = "open"
    /\ pool' = "closed"
    /\ UNCHANGED <<database, phase, req, statement, result, callers>>

-----------------------------------------------------------------------------
(* The statements.                                                         *)

\* Faulty variant: the version is not compared.
MatchesAny(row, c) == TRUE

\* saveCharacter's WHERE: the stored version is the one the caller loaded.
Matches(row, c) == row.version = c.version

\* Faulty variant: version = excluded.version.
UpsertedExcluded(c) == c

\* saveCharacter: insert, or update where the version matches.
Upserted(c) ==
    IF table[c.id] = NoCharacter THEN c
    ELSE [id |-> c.id, version |-> table[c.id].version + 1, sheet |-> c.sheet]

Rows == {table[id] : id \in {i \in Id : table[i] # NoCharacter}}

\* RETURNING version yields a row only if a row was inserted or updated.
ExecuteSave(p) ==
    LET c == req[p].character
    IN  IF table[c.id] = NoCharacter \/ Matches(table[c.id], c)
        THEN /\ table' = [table EXCEPT ![c.id] = Upserted(c)]
             /\ writes' = [writes EXCEPT ![c.id] = Append(@,
                    [by |-> p, number |-> number[p], from |-> base[p], sheet |-> c.sheet])]
             /\ fetched' = [fetched EXCEPT ![p] =
                    [version |-> Upserted(c).version, rows |-> {}]]
        ELSE /\ fetched' = [fetched EXCEPT ![p] = NoRow]
             /\ UNCHANGED database

ExecuteRead(p) ==
    /\ fetched' = [fetched EXCEPT ![p] =
           [version |-> 0,
            rows |-> IF req[p].op = "list" THEN Rows
                     ELSE {row \in Rows : row.id = req[p].id}]]
    /\ UNCHANGED database

-----------------------------------------------------------------------------
(* One call: handle, retry's loop around the statement, the return.        *)

\* The call's local variables end with it.
Return(p, r) ==
    /\ result' = [result EXCEPT ![p] = r]
    /\ phase' = [phase EXCEPT ![p] = "done"]
    /\ attempt' = [attempt EXCEPT ![p] = 1]
    /\ fetched' = [fetched EXCEPT ![p] = NoRow]

Abandon(p, status) ==
    /\ Return(p, Refused(status))
    /\ UNCHANGED <<database, pool, req, callers>>

Step(p, next) ==
    /\ phase' = [phase EXCEPT ![p] = next]
    /\ UNCHANGED <<pool, req, result, callers>>

\* DB.handle.
Handle(p) ==
    /\ phase[p] = "called"
    /\ IF pool = "closed" THEN Abandon(p, "closed")
       ELSE Step(p, "ready") /\ UNCHANGED <<database, statement>>

HoldsConnection(q) == phase[q] \in {"running", "settled"}

\* fn takes a connection of the pool, or learns why there is none for it.
Issue(p) ==
    /\ phase[p] = "ready"
    /\ \/ pool = "closed" /\ Abandon(p, "closed")
       \/ /\ pool = "open"
          /\ Cardinality({q \in Proc : HoldsConnection(q)}) < Slots
          /\ Step(p, "running")
          /\ UNCHANGED <<database, statement>>

Execute(p) ==
    /\ phase[p] = "running"
    /\ IF req[p].op = "save" THEN ExecuteSave(p) ELSE ExecuteRead(p)
    /\ Step(p, "settled")
    /\ UNCHANGED attempt

LastAttempt(p) == attempt[p] = MaxRetries

\* Faulty variant: the attempts are not counted.
NextAttemptUncounted(p) == attempt[p]

NextAttempt(p) == attempt[p] + 1

\* isLocked: the last attempt's error is returned, any other slept on.
Blocked(p) ==
    /\ phase[p] = "running"
    /\ IF LastAttempt(p) THEN Abandon(p, "locked")
       ELSE Step(p, "backoff") /\ UNCHANGED <<database, statement>>

\* sleep: the timer fires.
Wake(p) ==
    /\ phase[p] = "backoff"
    /\ Step(p, "ready")
    /\ attempt' = [attempt EXCEPT ![p] = NextAttempt(p)]
    /\ UNCHANGED <<database, fetched>>

(***************************************************************************)
(* The context is found done: while the call waits for a connection, by    *)
(* the driver, which interrupts the statement, in sleep's select, or while *)
(* the answer is scanned, which hides it.                                  *)
(***************************************************************************)
Expire(p) ==
    /\ phase[p] \in {"ready", "running", "backoff", "settled"}
    /\ Abandon(p, "cancelled")

\* Faulty variant: a missing row is taken for a success.
SavedUnchecked(p) == TRUE

Saved(p) == fetched[p] # NoRow

\* Faulty variant: every Save advances the caller's aggregate.
InStepAlways(c, stored) == [id |-> c.id, version |-> c.version + 1, sheet |-> c.sheet]

\* An insert returns the version it was given, a replacement the next one.
InStep(c, stored) ==
    IF stored = c.version THEN c
    ELSE [id |-> c.id, version |-> c.version + 1, sheet |-> c.sheet]

\* Save reads the returned version; a missing row is the failed compare-and-set.
DeliverSave(p) ==
    LET c == InStep(held[p], fetched[p].version)
    IN  IF Saved(p)
        THEN /\ Return(p, Answered({c}))
             /\ held' = [held EXCEPT ![p] = c]
             /\ base' = [base EXCEPT ![p] = c]
        ELSE /\ Return(p, Refused("conflict"))
             /\ UNCHANGED <<held, base>>

DeliverFind(p) ==
    IF fetched[p].rows = {}
    THEN Return(p, Refused("not_found")) /\ UNCHANGED <<held, base>>
    ELSE \E row \in fetched[p].rows :
            /\ Return(p, Answered({row}))
            /\ held' = [held EXCEPT ![p] = row]
            /\ base' = [base EXCEPT ![p] = row]

DeliverList(p) ==
    /\ Return(p, Answered(fetched[p].rows))
    /\ UNCHANGED <<held, base>>

Deliver(p) ==
    /\ phase[p] = "settled"
    /\ CASE req[p].op = "save" -> DeliverSave(p)
         [] req[p].op = "find" -> DeliverFind(p)
         [] req[p].op = "list" -> DeliverList(p)
    /\ UNCHANGED <<database, pool, req, number, calls>>

Quiescent ==
    /\ calls = MaxCalls
    /\ \A p \in Proc : phase[p] \in {"idle", "done"}
    /\ UNCHANGED vars

Next ==
    \/ \E p \in Proc :
          \/ Create(p) \/ Edit(p) \/ Find(p) \/ List(p)
          \/ Handle(p) \/ Issue(p) \/ Execute(p) \/ Blocked(p) \/ Wake(p) \/ Deliver(p)
          \/ Expire(p)
    \/ Close
    \/ Quiescent

Spec == Init /\ [][Next]_vars

(***************************************************************************)
(* The driver answers every statement (the busy timeout bounds its wait),  *)
(* timers fire, and database/sql hands a connection that comes free to a   *)
(* caller that waits for one.  No context need ever be done.               *)
(***************************************************************************)
Fairness ==
    \A p \in Proc :
        /\ WF_vars(Handle(p))
        /\ SF_vars(Issue(p))
        /\ WF_vars(Execute(p) \/ Blocked(p))
        /\ WF_vars(Wake(p))
        /\ WF_vars(Deliver(p))

FairSpec == Spec /\ Fairness

-----------------------------------------------------------------------------
(* Properties.                                                             *)

\* The k-th accepted write of id, as it was stored.
Revision(id, k) == [id |-> id, version |-> k, sheet |-> writes[id][k].sheet]

\* The row is the last accepted write, and its version counts them.
RowIsLastWrite ==
    \A id \in Id :
        table[id] = IF writes[id] = << >> THEN NoCharacter
                    ELSE Revision(id, Len(writes[id]))

(***************************************************************************)
(* A retry "cannot mask a lost update" (retry.go), and neither can a lost  *)
(* answer: every write after the first was made by a caller whose          *)
(* aggregate was the very revision it replaced.  The one exception is a    *)
(* caller that saves its new character again because it never learnt that  *)
(* the first Save was applied: it replaces its own insert.                 *)
(***************************************************************************)
NoLostUpdate ==
    \A id \in Id : \A k \in 1..Len(writes[id]) :
        LET w == writes[id][k]
        IN  IF k = 1 THEN w.from = NoCharacter
            ELSE \/ w.from = Revision(id, k - 1)
                 \/ /\ k = 2
                    /\ w.from = NoCharacter
                    /\ w.by = writes[id][1].by

\* The write of call n by p.
Wrote(p) == {w \in Id \X (1..calls) :
                w[2] <= Len(writes[w[1]]) /\ writes[w[1]][w[2]].number = number[p]}

(***************************************************************************)
(* A Save, however often it was issued, wrote at most once.  If it         *)
(* returned no error it wrote the revision the caller now holds; if it     *)
(* reported a conflict, a locked or a closed database, it wrote nothing.   *)
(* Only a cancelled one leaves its caller in doubt.                        *)
(***************************************************************************)
SavedAsReported ==
    \A p \in Proc :
        /\ Cardinality(Wrote(p)) <= 1
        /\ phase[p] = "done" /\ req[p].op = "save" =>
              /\ result[p].status = "ok" =>
                    Wrote(p) = {<<held[p].id, held[p].version>>}
              /\ result[p].status \in {"conflict", "locked", "closed"} => Wrote(p) = {}

(***************************************************************************)
(* After a call that returned an aggregate, the caller holds a revision as *)
(* it is in the history, and can edit and save it again without reloading  *)
(* (repotest, "consecutive updates need no reload").                       *)
(***************************************************************************)
HeldIsRevision ==
    \A p \in Proc :
        /\ phase[p] = "done"
        /\ req[p].op \in {"save", "find"}
        /\ result[p].status = "ok"
        => LET c == held[p]
           IN  c.version \in 1..Len(writes[c.id]) /\ c = Revision(c.id, c.version)

(***************************************************************************)
(* Every call returns, however often the database is locked.               *)
(***************************************************************************)
CallsReturn ==
    \A p \in Proc : phase[p] \notin {"idle", "done"} ~> phase[p] = "done"

(***************************************************************************)
(* The repository implements its contract.  A call settles when its        *)
(* statement is applied; what is fetched is read as Save and Find read it. *)
(***************************************************************************)
Outcome(p) ==
    CASE req[p].op = "save" /\ Saved(p) ->
             Answered({InStep(req[p].character, fetched[p].version)})
      [] req[p].op = "save" /\ ~ Saved(p) -> Refused("conflict")
      [] req[p].op = "find" /\ fetched[p].rows = {} -> Refused("not_found")
      [] OTHER -> Answered(fetched[p].rows)

Returned(r) ==
    IF r.status \in {"locked", "cancelled", "closed"}
    THEN [status |-> "failed", rows |-> {}] ELSE r

Stage(p) ==
    CASE phase[p] = "idle" -> "idle"
      [] phase[p] = "settled" -> "settled"
      [] phase[p] = "done" -> "returned"
      [] OTHER -> "called"

Told(p) == IF phase[p] = "settled" THEN Outcome(p) ELSE Returned(result[p])

contractCall ==
    [p \in Proc |-> [state |-> Stage(p), req |-> req[p], result |-> Told(p)]]

Contract == INSTANCE CharacterRepository WITH call <- contractCall

ImplementsContract == Contract!Spec
=============================================================================
