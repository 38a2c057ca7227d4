------------------------------ MODULE SqlitePool ------------------------------
(***************************************************************************)
(* The SQLite pool and its lifecycle: internal/infra/sqlite/sqlite.go and  *)
(* migrate.go.  Each DB has an owner, the goroutine that opens, migrates   *)
(* and closes it; other goroutines run statements on DBs that are open.    *)
(*                                                                         *)
(* database/sql may close an idle connection at any time, and any          *)
(* statement of the owner may fail.  An in-memory database is shared by    *)
(* all connections that name it and goes with the last of them; every DB   *)
(* here has the default name.  Waiting for locks is in SqliteCharacters.   *)
(***************************************************************************)
EXTENDS Naturals, FiniteSets

CONSTANTS
    Db,        \* the DB values of the process
    Caller,    \* goroutines that run statements
    Configs,   \* what the fields of the DBs may be set to
    MaxPools   \* bound: how many pools are opened

Config == [memory : BOOLEAN, maxOpen : Nat, autoMigrate : BOOLEAN]

(***************************************************************************)
(* One connection is too few for an in-memory database, as MaxOpenConns    *)
(* documents: the keepalive holds it.                                      *)
(***************************************************************************)
ASSUME ConfigsAssumption ==
    /\ Configs \subseteq [Db -> Config]
    /\ \A c \in Configs : \A d \in Db : c[d].memory => c[d].maxOpen # 1
    /\ MaxPools \in Nat

VARIABLES
    config,      \* the DB's fields
    owner,       \* where the DB's owner is
    opening,     \* whether that is within Open
    handle,      \* DB.db: a pool, or NoPool
    keepalive,   \* whether DB.keepalive holds a connection
    created,     \* history: how many pools there have been; they are numbered
    limit,       \* per pool, the most connections it opens; 0 for any number
    home,        \* per pool, the database its DSN names
    idle,        \* per pool, how many of its connections are idle
    database,    \* the databases
    phase,       \* how far the caller's statement has come
    pool,        \* the pool the caller got from DB.handle
    wrote        \* history: the pools through which a row was written

lifecycle == <<config, owner, opening, handle, keepalive>>
pools == <<created, limit, home>>
callers == <<phase, pool, wrote>>
vars == <<lifecycle, pools, idle, database, callers>>

NoPool == 0

Pool == 1..MaxPools

\* The migrated version, whether a migration is half done, the table of
\* characters, and the pools whose rows it holds.
Database == [version : 0..1, dirty : BOOLEAN, table : BOOLEAN, rows : SUBSET Pool]

Empty == [version |-> 0, dirty |-> FALSE, table |-> FALSE, rows |-> {}]

Migrating == {"reading", "marking", "applying", "settling"}

\* The connections of pool k that are in use: statements' and keepalives.
Running(k) == {c \in Caller : phase[c] = "running" /\ pool[c] = k}

Reserved(k) == {d \in Db : keepalive[d] /\ handle[d] = k}

InUse(k) == Cardinality(Running(k)) + Cardinality(Reserved(k))

Connections(k) == idle[k] + InUse(k)

(***************************************************************************)
(* The type invariant.                                                     *)
(***************************************************************************)
TypeOK ==
    /\ config \in [Db -> Config]
    /\ owner \in [Db -> {"closed", "pinging", "reserving", "open", "closing", "draining"}
                            \cup Migrating]
    /\ opening \in [Db -> BOOLEAN]
    /\ handle \in [Db -> Pool \cup {NoPool}]
    /\ keepalive \in [Db -> BOOLEAN]
    /\ \A d \in Db : keepalive[d] => handle[d] # NoPool
    /\ created \in 0..MaxPools
    /\ limit \in [Pool -> Nat]
    /\ home \in [Pool -> {"memory", "file"}]
    /\ idle \in [Pool -> Nat]
    /\ \A k \in Pool : limit[k] = 0 \/ Connections(k) <= limit[k]
    /\ database \in [{"memory", "file"} -> Database]
    /\ phase \in [Caller -> {"idle", "waiting", "running"}]
    /\ pool \in [Caller -> Pool \cup {NoPool}]
    /\ wrote \subseteq Pool

Init ==
    /\ config \in Configs
    /\ owner = [d \in Db |-> "closed"]
    /\ opening = [d \in Db |-> FALSE]
    /\ handle = [d \in Db |-> NoPool]
    /\ keepalive = [d \in Db |-> FALSE]
    /\ created = 0
    /\ limit = [k \in Pool |-> 0]
    /\ home = [k \in Pool |-> "file"]
    /\ idle = [k \in Pool |-> 0]
    /\ database = [place \in {"memory", "file"} |-> Empty]
    /\ phase = [c \in Caller |-> "idle"]
    /\ pool = [c \in Caller |-> NoPool]
    /\ wrote = {}

-----------------------------------------------------------------------------
(* Connections.                                                            *)

CanTake(k) == idle[k] > 0 \/ limit[k] = 0 \/ Connections(k) < limit[k]

\* An idle connection is taken before a new one is opened.
Take(k) == idle' = [idle EXCEPT ![k] = IF @ > 0 THEN @ - 1 ELSE 0]

\* A closed pool closes the connection that comes back to it.
GiveBack(k) ==
    idle' = [idle EXCEPT ![k] = IF \E d \in Db : handle[d] = k THEN @ + 1 ELSE 0]

\* An in-memory database is lost with its last connection.
Keep(databases) ==
    database' = IF (\E k \in Pool : home[k] = "memory" /\ Connections(k) > 0)'
                THEN databases ELSE [databases EXCEPT !["memory"] = Empty]

\* One statement of d's owner on a connection of its pool.
Statement(d) ==
    /\ CanTake(handle[d])
    /\ idle' = [idle EXCEPT ![handle[d]] = IF @ > 0 THEN @ ELSE 1]

-----------------------------------------------------------------------------
(* The owner.                                                              *)

Go(d, next) == owner' = [owner EXCEPT ![d] = next]

Proceed(d, next) == Go(d, next) /\ UNCHANGED opening

\* Faulty variant: the in-memory default is not capped.
LimitUncapped(c) == c.maxOpen

\* Faulty variant: the cap forgets the keepalive.
LimitOne(c) == IF c.maxOpen = 0 /\ c.memory THEN 1 ELSE c.maxOpen

\* SetMaxOpenConns.
Limit(c) == IF c.maxOpen = 0 /\ c.memory THEN 2 ELSE c.maxOpen

(***************************************************************************)
(* Open up to its ping.  With a DSN it refuses, or on a DB that is open,   *)
(* Open returns an error and changes nothing.                              *)
(***************************************************************************)
Open(d) ==
    /\ owner[d] = "closed"
    /\ created < MaxPools
    /\ created' = created + 1
    /\ limit' = [limit EXCEPT ![created + 1] = Limit(config[d])]
    /\ home' = [home EXCEPT ![created + 1] = IF config[d].memory THEN "memory" ELSE "file"]
    /\ handle' = [handle EXCEPT ![d] = created + 1]
    /\ opening' = [opening EXCEPT ![d] = TRUE]
    /\ Go(d, "pinging")
    /\ UNCHANGED <<config, keepalive, idle, database, callers>>

\* Open, or Migrate, returns nil.
Succeed(d) ==
    /\ Go(d, "open")
    /\ opening' = [opening EXCEPT ![d] = FALSE]

\* Faulty variant: an Open that fails returns without closing.
FailUnclosed(d) ==
    /\ Go(d, IF opening[d] THEN "closed" ELSE "open")
    /\ opening' = [opening EXCEPT ![d] = FALSE]

\* An Open that fails closes the DB first.
Fail(d) == Proceed(d, IF opening[d] THEN "closing" ELSE "open")

\* What Open does once an in-memory database has its keepalive.
MigrateOrReturn(d) ==
    IF config[d].autoMigrate THEN Proceed(d, "reading") ELSE Succeed(d)

Ping(d) ==
    /\ owner[d] = "pinging"
    /\ Statement(d)
    /\ \/ Fail(d)
       \/ config[d].memory /\ Proceed(d, "reserving")
       \/ ~ config[d].memory /\ MigrateOrReturn(d)
    /\ UNCHANGED <<config, handle, keepalive, pools, database, callers>>

\* Faulty variant: no connection is kept.
ReserveNothing(d) ==
    /\ owner[d] = "reserving"
    /\ MigrateOrReturn(d)
    /\ UNCHANGED <<config, handle, keepalive, pools, idle, database, callers>>

\* The keepalive is a connection for as long as the DB is open.
Reserve(d) ==
    /\ owner[d] = "reserving"
    /\ CanTake(handle[d])
    /\ \/ Fail(d) /\ UNCHANGED <<idle, keepalive>>
       \/ /\ MigrateOrReturn(d)
          /\ Take(handle[d])
          /\ keepalive' = [keepalive EXCEPT ![d] = TRUE]
    /\ UNCHANGED <<config, handle, pools, database, callers>>

\* Migrate on a DB that is open.
Migrate(d) ==
    /\ owner[d] = "open"
    /\ Go(d, "reading")
    /\ UNCHANGED <<config, opening, handle, keepalive, pools, idle, database, callers>>

Schema(d) == database[home[handle[d]]]

Write(d, db) == database' = [database EXCEPT ![home[handle[d]]] = db]

(***************************************************************************)
(* The next statement of golang-migrate's Up.  The version is marked dirty *)
(* while its file runs; a dirty one, and a table that is there already,    *)
(* are errors.                                                             *)
(***************************************************************************)
Progress(d) ==
    \/ /\ owner[d] = "reading"
       /\ ~ Schema(d).dirty
       /\ IF Schema(d).version = 1 THEN Succeed(d) ELSE Proceed(d, "marking")
       /\ UNCHANGED database
    \/ /\ owner[d] = "marking"
       /\ Proceed(d, "applying")
       /\ Write(d, [Schema(d) EXCEPT !.version = 1, !.dirty = TRUE])
    \/ /\ owner[d] = "applying"
       /\ ~ Schema(d).table
       /\ Proceed(d, "settling")
       /\ Write(d, [Schema(d) EXCEPT !.table = TRUE])
    \/ /\ owner[d] = "settling"
       /\ Succeed(d)
       /\ Write(d, [Schema(d) EXCEPT !.dirty = FALSE])

Up(d) ==
    /\ owner[d] \in Migrating
    /\ Statement(d)
    /\ Progress(d) \/ (Fail(d) /\ UNCHANGED database)
    /\ UNCHANGED <<config, handle, keepalive, pools, callers>>

\* A context that is done stops Migrate before its next file; Open's never is.
GracefulStop(d) ==
    /\ owner[d] = "marking"
    /\ ~ opening[d]
    /\ Succeed(d)
    /\ UNCHANGED <<config, handle, keepalive, pools, idle, database, callers>>

\* A Close of a DB that is not open changes nothing.
Close(d) ==
    /\ owner[d] = "open"
    /\ Go(d, "closing")
    /\ UNCHANGED <<config, opening, handle, keepalive, pools, idle, database, callers>>

\* Close's first half: the keepalive goes back to the pool.
ReleaseKeepalive(d) ==
    /\ owner[d] = "closing"
    /\ Go(d, "draining")
    /\ keepalive' = [keepalive EXCEPT ![d] = FALSE]
    /\ IF keepalive[d] THEN GiveBack(handle[d]) ELSE UNCHANGED idle
    /\ UNCHANGED <<config, opening, handle, pools, database, callers>>

\* Its second half: idle connections are closed, others when they come back.
ClosePool(d) ==
    /\ owner[d] = "draining"
    /\ Go(d, "closed")
    /\ opening' = [opening EXCEPT ![d] = FALSE]
    /\ handle' = [handle EXCEPT ![d] = NoPool]
    /\ idle' = [idle EXCEPT ![handle[d]] = 0]
    /\ UNCHANGED <<config, keepalive, pools, callers>>
    /\ Keep(database)

-----------------------------------------------------------------------------
(* The callers.                                                            *)

\* DB.handle, on a DB that has been opened.
Handle(c) ==
    /\ phase[c] = "idle"
    /\ \E d \in Db :
          /\ handle[d] # NoPool
          /\ ~ opening[d]
          /\ pool' = [pool EXCEPT ![c] = handle[d]]
    /\ phase' = [phase EXCEPT ![c] = "waiting"]
    /\ UNCHANGED <<lifecycle, pools, idle, database, wrote>>

Return(c) ==
    /\ phase' = [phase EXCEPT ![c] = "idle"]
    /\ pool' = [pool EXCEPT ![c] = NoPool]

\* The statement gets a connection, or an error if the pool has been closed.
Start(c) ==
    /\ phase[c] = "waiting"
    /\ \/ /\ \A d \in Db : handle[d] # pool[c]
          /\ Return(c)
          /\ UNCHANGED idle
       \/ /\ \E d \in Db : handle[d] = pool[c]
          /\ CanTake(pool[c])
          /\ Take(pool[c])
          /\ phase' = [phase EXCEPT ![c] = "running"]
          /\ UNCHANGED pool
    /\ UNCHANGED <<lifecycle, pools, database, wrote>>

WithRow(db, k) == [db EXCEPT !.rows = @ \cup {k}]

\* It writes a row, or fails for the lack of a table, or for another reason.
Finish(c) ==
    /\ phase[c] = "running"
    /\ Return(c)
    /\ GiveBack(pool[c])
    /\ UNCHANGED <<lifecycle, pools>>
    /\ LET place == home[pool[c]]
       IN  \/ UNCHANGED wrote /\ Keep(database)
           \/ /\ database[place].table
              /\ wrote' = wrote \cup {pool[c]}
              /\ Keep([database EXCEPT ![place] = WithRow(@, pool[c])])

\* database/sql retires an idle connection.
Retire(k) ==
    /\ idle[k] > 0
    /\ idle' = [idle EXCEPT ![k] = @ - 1]
    /\ UNCHANGED <<lifecycle, pools, callers>>
    /\ Keep(database)

\* The bound on pools is reached and all of them are closed.
Quiescent ==
    /\ created = MaxPools
    /\ \A d \in Db : owner[d] = "closed"
    /\ \A c \in Caller : phase[c] = "idle"
    /\ UNCHANGED vars

Next ==
    \/ \E d \in Db :
          \/ Open(d) \/ Ping(d) \/ Reserve(d) \/ Migrate(d) \/ Up(d) \/ GracefulStop(d)
          \/ Close(d) \/ ReleaseKeepalive(d) \/ ClosePool(d)
    \/ \E c \in Caller : Handle(c) \/ Start(c) \/ Finish(c)
    \/ \E k \in Pool : Retire(k)
    \/ Quiescent

Spec == Init /\ [][Next]_vars

(***************************************************************************)
(* What has begun goes on: statements end, and database/sql hands a        *)
(* connection that comes free to one that waits.  No owner need open or    *)
(* close, no caller call, and no connection be retired.                    *)
(***************************************************************************)
Fairness ==
    /\ \A d \in Db :
          SF_vars(Ping(d) \/ Reserve(d) \/ Up(d) \/ ReleaseKeepalive(d) \/ ClosePool(d))
    /\ \A c \in Caller : SF_vars(Start(c) \/ Finish(c))

FairSpec == Spec /\ Fairness

-----------------------------------------------------------------------------
(* Properties.                                                             *)

\* Open has returned, and Close has not been called.
Opened(d) == owner[d] \in Migrating \cup {"open"} /\ ~ opening[d]

(***************************************************************************)
(* A DB is usable from the moment Open returns until it is closed: the     *)
(* schema that Open migrated, and every row written through the DB, are    *)
(* still there, whichever connections the pool has retired (sqlite.go,     *)
(* "The in-memory default").  A file keeps its rows for good.              *)
(***************************************************************************)
DatabaseLives ==
    /\ \A d \in Db : Opened(d) =>
          /\ config[d].autoMigrate => Schema(d).table
          /\ handle[d] \in wrote => handle[d] \in Schema(d).rows
    /\ \A k \in wrote : home[k] = "file" => k \in database["file"].rows

(***************************************************************************)
(* Unless its fields say otherwise, an open in-memory DB works on one      *)
(* connection at a time, since two of them would stall in the driver.      *)
(***************************************************************************)
WorkSerialized ==
    \A d \in Db :
        Opened(d) /\ config[d].memory /\ config[d].maxOpen = 0 =>
            Cardinality(Running(handle[d])) <= 1

(***************************************************************************)
(* A DB that is closed, or whose Open has failed, can be opened again, and *)
(* of its pools nothing is left but the connections of statements that     *)
(* still run.                                                              *)
(***************************************************************************)
ClosedReleases ==
    /\ \A d \in Db : owner[d] = "closed" => handle[d] = NoPool /\ ~ keepalive[d]
    /\ \A k \in Pool : (\A d \in Db : handle[d] # k) => idle[k] = 0

(***************************************************************************)
(* Open and Close return, and so does every statement: the keepalive never *)
(* takes the connection that the others wait for.                          *)
(***************************************************************************)
NobodyWaitsForever ==
    /\ \A d \in Db : owner[d] \notin {"closed", "open"} ~> owner[d] \in {"closed", "open"}
    /\ \A c \in Caller : phase[c] # "idle" ~> phase[c] = "idle"
=============================================================================
