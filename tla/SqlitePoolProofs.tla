--------------------------- MODULE SqlitePoolProofs ---------------------------
(***************************************************************************)
(* The SQLite pool: proofs for any number of DBs, callers and pools, and   *)
(* any fields.                                                             *)
(*                                                                         *)
(* The properties need the whole lifecycle (Shape: what the DB has at each *)
(* place its owner can be, and how the connections of its pool count up)   *)
(* and what migrations of several DBs leave on a database they share       *)
(* (Clean, DataOK).                                                        *)
(***************************************************************************)
EXTENDS SqlitePool, FiniteSetTheorems, TLAPS

\* The database d's pool is on.
Place(c) == IF c.memory THEN "memory" ELSE "file"

\* d's owner works on a database that is open for it.
Serving(d) == owner[d] \in Migrating \cup {"open"}

(***************************************************************************)
(* Where the owner is decides what the DB has: its pool from Open to the   *)
(* end of Close, and with an in-memory database the keepalive from there   *)
(* to the first half of Close.  Until Open returns nobody else has         *)
(* the pool.                                                               *)
(***************************************************************************)
LifeOK(d) ==
    /\ owner[d] = "closed" <=> handle[d] = NoPool
    /\ owner[d] \in {"closed", "open"} => ~ opening[d]
    /\ owner[d] \in {"pinging", "reserving"} => opening[d]
    /\ keepalive[d] => owner[d] \in Migrating \cup {"open", "closing"}
    /\ Serving(d) /\ config[d].memory => keepalive[d]
    /\ handle[d] # NoPool =>
          /\ handle[d] <= created
          /\ limit[handle[d]] = Limit(config[d])
          /\ home[handle[d]] = Place(config[d])
    /\ opening[d] => handle[d] \notin wrote /\ \A c \in Caller : pool[c] # handle[d]

\* A pool is one DB's.
Distinct == \A d, e \in Db : d # e /\ handle[d] = handle[e] => handle[d] = NoPool

\* A pool that is closed has no idle connections.
Drained == \A k \in Pool : (\A d \in Db : handle[d] # k) => idle[k] = 0

\* What callers have, or have written through, are pools that were opened.
CallersOK ==
    /\ \A c \in Caller : pool[c] <= created /\ (phase[c] = "idle" <=> pool[c] = NoPool)
    /\ \A k \in wrote : k <= created

\* So that connections can be counted.
Counted == \A k \in Pool : IsFiniteSet(Running(k))

Shape ==
    /\ TypeOK
    /\ \A d \in Db : LifeOK(d)
    /\ Distinct
    /\ Drained
    /\ CallersOK
    /\ Counted

\* A clean version was migrated.
Clean(place) == database[place].version = 1 /\ ~ database[place].dirty => database[place].table

\* What is on the database while d is open.
DataOK(d) ==
    /\ owner[d] = "settling" => Schema(d).table
    /\ Opened(d) /\ config[d].autoMigrate => Schema(d).table
    /\ Opened(d) /\ handle[d] \in wrote => handle[d] \in Schema(d).rows

FileKeepsRows == \A k \in wrote : home[k] = "file" => k \in database["file"].rows

PoolInv ==
    /\ Shape
    /\ \A place \in {"memory", "file"} : Clean(place)
    /\ \A d \in Db : DataOK(d)
    /\ FileKeepsRows

-----------------------------------------------------------------------------
(* Counting connections.                                                   *)

\* A pool's keepalive is at most one connection.
LEMMA ReservedIs ==
    ASSUME Shape, NEW k \in Pool
    PROVE  \/ Reserved(k) = {}
           \/ \E d \in Db : Reserved(k) = {d} /\ keepalive[d] /\ handle[d] = k
<1>1. k # NoPool
  BY DEF Pool, NoPool
<1>2. ASSUME NEW d \in Reserved(k), NEW e \in Reserved(k)
      PROVE  d = e
  BY <1>1, <1>2 DEF Shape, Distinct, Reserved
<1>3. CASE Reserved(k) # {}
  <2>1. PICK d \in Reserved(k) : TRUE
    BY <1>3
  <2> QED BY <1>2, <2>1 DEF Reserved
<1> QED BY <1>3

\* Everything there is to count is finite.
LEMMA Counts ==
    ASSUME Shape, NEW k \in Pool
    PROVE  /\ IsFiniteSet(Running(k)) /\ Cardinality(Running(k)) \in Nat
           /\ IsFiniteSet(Reserved(k)) /\ Cardinality(Reserved(k)) \in Nat
           /\ InUse(k) = Cardinality(Running(k)) + Cardinality(Reserved(k))
           /\ InUse(k) \in Nat
           /\ idle[k] \in Nat /\ limit[k] \in Nat
           /\ Connections(k) = idle[k] + InUse(k)
           /\ limit[k] = 0 \/ Connections(k) <= limit[k]
<1>1. IsFiniteSet(Running(k)) /\ Cardinality(Running(k)) \in Nat
  BY FS_CardinalityType DEF Shape, Counted
<1>2. IsFiniteSet(Reserved(k)) /\ Cardinality(Reserved(k)) \in Nat
  <2>1. CASE Reserved(k) = {}
    BY <2>1, FS_EmptySet
  <2>2. ASSUME NEW d, Reserved(k) = {d}
        PROVE  IsFiniteSet(Reserved(k)) /\ Cardinality(Reserved(k)) = 1
    BY <2>2, FS_Singleton
  <2> QED BY <2>1, <2>2, ReservedIs
<1> QED
  BY <1>1, <1>2 DEF InUse, Connections, Shape, TypeOK

\* No pool has more connections than its limit.
Bounded == \A k \in Pool : limit[k] = 0 \/ Connections(k) <= limit[k]

\* One statement of the owner on a connection of its own pool.
LEMMA StatementKeeps ==
    ASSUME Shape, NEW d \in Db, handle[d] # NoPool,
           Statement(d) \/ UNCHANGED idle,
           UNCHANGED <<handle, keepalive, limit, phase, pool>>
    PROVE  /\ idle' \in [Pool -> Nat]
           /\ \A k \in Pool : k # handle[d] => idle'[k] = idle[k]
           /\ Bounded'
           /\ Counted'
<1>1. handle[d] \in Pool
  BY DEF Shape, TypeOK
<1>2. \A k \in Pool : Running(k)' = Running(k) /\ Reserved(k)' = Reserved(k)
  BY DEF Running, Reserved
<1>3. /\ idle' \in [Pool -> Nat]
      /\ \A k \in Pool : k # handle[d] => idle'[k] = idle[k]
      /\ \/ idle'[handle[d]] = idle[handle[d]]
         \/ CanTake(handle[d]) /\ idle[handle[d]] = 0 /\ idle'[handle[d]] = 1
  <2>0. idle \in [Pool -> Nat]
    BY DEF Shape, TypeOK
  <2>1. CASE UNCHANGED idle
    BY <2>0, <2>1
  <2>2. CASE Statement(d)
    <3>1. CASE idle[handle[d]] > 0
      BY <1>1, <2>0, <2>2, <3>1 DEF Statement
    <3>2. CASE idle[handle[d]] = 0
      BY <1>1, <2>0, <2>2, <3>2 DEF Statement
    <3> QED BY <1>1, <2>0, <3>1, <3>2
  <2> QED BY <2>1, <2>2
<1>4. Counted'
  BY <1>2 DEF Shape, Counted
<1>5. ASSUME NEW k \in Pool
      PROVE  limit'[k] = 0 \/ Connections(k)' <= limit'[k]
  <2>1. Connections(k)' = idle'[k] + InUse(k)
    BY <1>2 DEF Connections, InUse
  <2> QED BY <1>3, <2>1, Counts DEF CanTake
<1> QED
  BY <1>3, <1>4, <1>5 DEF Bounded

\* A step of d's owner that keeps its pool and its keepalive.
LEMMA OwnerKeeps ==
    ASSUME Shape, NEW d \in Db, handle[d] # NoPool,
           Statement(d) \/ UNCHANGED idle,
           NEW next \in {"closed", "pinging", "reserving", "open", "closing", "draining"} \cup Migrating,
           Go(d, next),
           opening' \in [Db -> BOOLEAN], opening'[d] => opening[d],
           \A e \in Db \ {d} : opening'[e] = opening[e],
           UNCHANGED <<config, handle, keepalive, pools, callers>>,
           database' \in [{"memory", "file"} -> Database],
           next # "closed",
           next = "open" => ~ opening'[d],
           next \in {"pinging", "reserving"} => opening'[d],
           keepalive[d] => next \in Migrating \cup {"open", "closing"},
           next \in Migrating \cup {"open"} /\ config[d].memory => keepalive[d]
    PROVE  Shape'
<1>1. /\ idle' \in [Pool -> Nat]
      /\ \A k \in Pool : k # handle[d] => idle'[k] = idle[k]
      /\ Bounded' /\ Counted'
  BY StatementKeeps DEF pools, callers
<1>2. owner'[d] = next /\ \A e \in Db \ {d} : owner'[e] = owner[e]
  BY DEF Go, Shape, TypeOK
<1>3. TypeOK'
  BY <1>1 DEF Shape, TypeOK, Go, pools, callers, Bounded
<1>4. LifeOK(d)'
  BY <1>2 DEF Shape, LifeOK, Serving, pools, callers
<1>5. ASSUME NEW e \in Db \ {d}
      PROVE  LifeOK(e)'
  BY <1>2 DEF Shape, LifeOK, Serving, pools, callers
<1>6. Distinct' /\ CallersOK'
  BY DEF Shape, Distinct, CallersOK, pools, callers
<1>7. Drained'
  BY <1>1 DEF Shape, Drained
<1> QED
  BY <1>1, <1>3, <1>4, <1>5, <1>6, <1>7 DEF Shape
-----------------------------------------------------------------------------
(* The lifecycle: every step keeps its shape.                              *)

\* No DB is open, nothing runs.
LEMMA ShapeInit == Init => Shape
<1> SUFFICES ASSUME Init
             PROVE  Shape
  OBVIOUS
<1>1. \A k \in Pool : Running(k) = {} /\ IsFiniteSet(Running(k))
  BY FS_EmptySet DEF Init, Running
<1>2. config \in [Db -> Config]
  BY ConfigsAssumption DEF Init
<1>3. TypeOK
  BY <1>2, ConfigsAssumption
  DEF Init, TypeOK, Migrating, Pool, NoPool, Database, Empty
<1>4. ASSUME NEW d \in Db
      PROVE  LifeOK(d)
  BY DEF Init, LifeOK, Serving, Migrating, NoPool
<1>5. Distinct /\ Drained /\ CallersOK
  BY DEF Init, Distinct, Drained, CallersOK, NoPool
<1> QED
  BY <1>1, <1>3, <1>4, <1>5 DEF Shape, Counted

\* What golang-migrate writes is a database.
LEMMA WriteTypes ==
    ASSUME TypeOK, NEW d \in Db, handle[d] \in Pool, Progress(d)
    PROVE  database' \in [{"memory", "file"} -> Database]
<1> DEFINE place == home[handle[d]]
<1>1. place \in {"memory", "file"} /\ Schema(d) \in Database
  BY DEF TypeOK, Schema
<1>2. /\ [Schema(d) EXCEPT !.version = 1, !.dirty = TRUE] \in Database
      /\ [Schema(d) EXCEPT !.table = TRUE] \in Database
      /\ [Schema(d) EXCEPT !.dirty = FALSE] \in Database
  <2>1. ASSUME NEW db \in Database
        PROVE  /\ [db EXCEPT !.version = 1, !.dirty = TRUE] \in Database
               /\ [db EXCEPT !.table = TRUE] \in Database
               /\ [db EXCEPT !.dirty = FALSE] \in Database
    <3>1. 1 \in 0 .. 1
      OBVIOUS
    <3>2. [db EXCEPT !.version = 1] \in Database
      BY <3>1, Zenon DEF Database
    <3>3. ASSUME NEW x \in Database
          PROVE  [x EXCEPT !.dirty = TRUE] \in Database
      BY Zenon DEF Database
    <3>4. [db EXCEPT !.version = 1, !.dirty = TRUE] = [[db EXCEPT !.version = 1] EXCEPT !.dirty = TRUE]
      BY Zenon DEF Database
    <3>5. [db EXCEPT !.table = TRUE] \in Database
      BY Zenon DEF Database
    <3>6. [db EXCEPT !.dirty = FALSE] \in Database
      BY Zenon DEF Database
    <3> QED BY <3>2, <3>3, <3>4, <3>5, <3>6
  <2> QED BY <1>1, <2>1
<1>3. ASSUME NEW db \in Database, Write(d, db)
      PROVE  database' \in [{"memory", "file"} -> Database]
  BY <1>1, <1>3 DEF Write, TypeOK
<1>4. CASE UNCHANGED database
  BY <1>4 DEF TypeOK
<1> QED
  BY <1>2, <1>3, <1>4 DEF Progress

\* The owner's next step, when Open fails, and when it goes on.
LEMMA FailGoes ==
    ASSUME Shape, NEW d \in Db, Fail(d)
    PROVE  /\ Go(d, IF opening[d] THEN "closing" ELSE "open")
           /\ opening' = opening
BY DEF Fail, Proceed

\* A fresh pool is migrated next, or Open returns.
LEMMA MigrateOrReturnGoes ==
    ASSUME Shape, NEW d \in Db, MigrateOrReturn(d)
    PROVE  \/ Go(d, "reading") /\ opening' = opening
           \/ Go(d, "open") /\ opening' = [opening EXCEPT ![d] = FALSE]
BY DEF MigrateOrReturn, Proceed, Succeed

\* Open's first connection, made or refused.
LEMMA PingShape ==
    ASSUME Shape, NEW d \in Db, Ping(d)
    PROVE  Shape'
<1>1. /\ owner[d] = "pinging" /\ opening[d] /\ ~ keepalive[d] /\ handle[d] # NoPool
      /\ opening \in [Db -> BOOLEAN] /\ Statement(d)
      /\ UNCHANGED <<config, handle, keepalive, pools, database, callers>>
      /\ database' \in [{"memory", "file"} -> Database]
  BY DEF Ping, Shape, TypeOK, LifeOK, Migrating
<1>2. CASE Fail(d)
  BY <1>1, <1>2, FailGoes, OwnerKeeps DEF Migrating
<1>3. CASE config[d].memory /\ Proceed(d, "reserving")
  BY <1>1, <1>3, OwnerKeeps DEF Proceed, Migrating
<1>4. CASE ~ config[d].memory /\ MigrateOrReturn(d)
  <2>1. CASE Go(d, "reading") /\ opening' = opening
    BY <1>1, <1>4, <2>1, OwnerKeeps DEF Migrating
  <2>2. CASE Go(d, "open") /\ opening' = [opening EXCEPT ![d] = FALSE]
    BY <1>1, <1>4, <2>2, OwnerKeeps DEF Migrating
  <2> QED BY <1>4, <2>1, <2>2, MigrateOrReturnGoes
<1> QED
  BY <1>2, <1>3, <1>4 DEF Ping

\* A statement of a migration, done or failed.
LEMMA UpShape ==
    ASSUME Shape, NEW d \in Db, Up(d)
    PROVE  Shape'
<1>1. /\ owner[d] \in Migrating /\ handle[d] # NoPool /\ handle[d] \in Pool
      /\ config[d].memory => keepalive[d]
      /\ opening \in [Db -> BOOLEAN] /\ Statement(d) /\ TypeOK
      /\ UNCHANGED <<config, handle, keepalive, pools, callers>>
  BY DEF Up, Shape, TypeOK, LifeOK, Serving, Migrating
<1>2. CASE Fail(d) /\ UNCHANGED database
  <2>1. Go(d, IF opening[d] THEN "closing" ELSE "open") /\ opening' = opening
    BY <1>2, FailGoes
  <2>2. database' \in [{"memory", "file"} -> Database]
    BY <1>1, <1>2 DEF TypeOK
  <2> QED BY <1>1, <2>1, <2>2, OwnerKeeps DEF Migrating
<1>3. CASE Progress(d)
  <2>1. database' \in [{"memory", "file"} -> Database]
    BY <1>1, <1>3, WriteTypes
  <2>2. \/ Succeed(d)
        \/ \E next \in Migrating : Proceed(d, next)
    BY <1>3 DEF Progress, Migrating
  <2>3. CASE Succeed(d)
    BY <1>1, <2>1, <2>3, OwnerKeeps DEF Succeed, Migrating
  <2>4. ASSUME NEW next \in Migrating, Proceed(d, next)
        PROVE  Shape'
    BY <1>1, <2>1, <2>4, OwnerKeeps DEF Proceed, Migrating
  <2> QED BY <2>2, <2>3, <2>4
<1> QED
  BY <1>2, <1>3 DEF Up

\* A migration that begins or stops, and a Close that begins.
LEMMA QuietOwnerShape ==
    ASSUME Shape, NEW d \in Db, Migrate(d) \/ GracefulStop(d) \/ Close(d)
    PROVE  Shape'
<1>1. /\ owner[d] \in {"open", "marking"} /\ handle[d] # NoPool
      /\ config[d].memory => keepalive[d]
      /\ opening \in [Db -> BOOLEAN]
      /\ UNCHANGED <<config, handle, keepalive, pools, idle, database, callers>>
      /\ database' \in [{"memory", "file"} -> Database]
  BY DEF Migrate, GracefulStop, Close, Shape, TypeOK, LifeOK, Serving, Migrating
<1>2. CASE Migrate(d)
  BY <1>1, <1>2, OwnerKeeps DEF Migrate, Migrating
<1>3. CASE GracefulStop(d)
  BY <1>1, <1>3, OwnerKeeps DEF GracefulStop, Succeed, Migrating
<1>4. CASE Close(d)
  BY <1>1, <1>4, OwnerKeeps DEF Close, Migrating
<1> QED
  BY <1>2, <1>3, <1>4
\* The keepalive is one connection more, within the limit.
LEMMA ReserveShape ==
    ASSUME Shape, NEW d \in Db, Reserve(d)
    PROVE  Shape'
<1>1. /\ owner[d] = "reserving" /\ opening[d] /\ ~ keepalive[d] /\ handle[d] # NoPool
      /\ opening \in [Db -> BOOLEAN] /\ CanTake(handle[d]) /\ handle[d] \in Pool
      /\ UNCHANGED <<config, handle, pools, database, callers>>
      /\ database' \in [{"memory", "file"} -> Database]
  BY DEF Reserve, Shape, TypeOK, LifeOK, Migrating
<1>2. CASE Fail(d) /\ UNCHANGED <<idle, keepalive>>
  BY <1>1, <1>2, FailGoes, OwnerKeeps DEF Migrating
<1>3. CASE /\ MigrateOrReturn(d) /\ Take(handle[d])
           /\ keepalive' = [keepalive EXCEPT ![d] = TRUE]
  <2>0. PICK k \in Pool : k = handle[d]
    BY <1>1
  <2>1. PICK next \in {"reading", "open"} :
            /\ Go(d, next)
            /\ opening' \in [Db -> BOOLEAN]
            /\ opening'[d] => opening[d] /\ next # "open"
            /\ \A e \in Db \ {d} : opening'[e] = opening[e]
    BY <1>1, <1>3, MigrateOrReturnGoes
  <2>2. /\ owner'[d] = next /\ \A e \in Db \ {d} : owner'[e] = owner[e]
        /\ keepalive'[d] /\ \A e \in Db \ {d} : keepalive'[e] = keepalive[e]
    BY <1>3, <2>1 DEF Go, Shape, TypeOK
  <2>3. /\ idle' \in [Pool -> Nat]
        /\ \A j \in Pool : j # k => idle'[j] = idle[j]
        /\ idle'[k] = IF idle[k] > 0 THEN idle[k] - 1 ELSE 0
    BY <1>1, <1>3, <2>0 DEF Take, Shape, TypeOK
  <2>4. \A j \in Pool : Running(j)' = Running(j)
    BY <1>1 DEF Running, callers
  <2>5. \A j \in Pool : j # k => Reserved(j)' = Reserved(j)
    BY <1>1, <2>0, <2>2 DEF Reserved
  <2>6. Reserved(k) = {} /\ Reserved(k)' = {d}
    BY <1>1, <2>0, <2>2 DEF Reserved, Shape, Distinct
  <2>7. Bounded'
    <3> SUFFICES ASSUME NEW j \in Pool
                 PROVE  limit'[j] = 0 \/ Connections(j)' <= limit'[j]
      BY DEF Bounded
    <3>1. limit' = limit
      BY <1>1 DEF pools
    <3>2. CASE j # k
      <4>1. Connections(j)' = Connections(j)
        BY <2>3, <2>4, <2>5, <3>2 DEF Connections, InUse
      <4> QED BY <3>1, <4>1, Counts
    <3>3. CASE j = k
      <4>1. Cardinality(Reserved(k)) = 0 /\ Cardinality(Reserved(k)') = 1
        BY <2>6, FS_EmptySet, FS_Singleton
      <4>2. /\ Connections(k) = idle[k] + (Cardinality(Running(k)) + Cardinality(Reserved(k)))
            /\ Connections(k)' = idle'[k] + (Cardinality(Running(k)) + Cardinality(Reserved(k)'))
        BY <2>4 DEF Connections, InUse
      <4>3. idle[k] \in Nat /\ Cardinality(Running(k)) \in Nat
            /\ limit[k] \in Nat /\ (limit[k] = 0 \/ Connections(k) <= limit[k])
        BY Counts
      <4>4. idle[k] > 0 \/ limit[k] = 0 \/ Connections(k) < limit[k]
        BY <1>1, <2>0 DEF CanTake
      <4> QED BY <2>3, <3>1, <3>3, <4>1, <4>2, <4>3, <4>4
    <3> QED BY <3>2, <3>3
  <2>8. TypeOK'
    <3>1. /\ owner' \in [Db -> {"closed", "pinging", "reserving", "open", "closing", "draining"}
                                  \cup Migrating]
          /\ keepalive' \in [Db -> BOOLEAN]
          /\ \A e \in Db : keepalive'[e] => handle'[e] # NoPool
      BY <1>1, <1>3, <2>1, <2>2 DEF Shape, TypeOK, Go, Migrating
    <3>2. /\ opening' \in [Db -> BOOLEAN]
          /\ idle' \in [Pool -> Nat]
          /\ UNCHANGED <<config, handle, created, limit, home, phase, pool, wrote>>
      BY <1>1, <2>1, <2>3 DEF pools, callers
    <3>3. \A j \in Pool : limit'[j] = 0 \/ Connections(j)' <= limit'[j]
      BY <2>7 DEF Bounded
    <3> QED BY <1>1, <3>1, <3>2, <3>3 DEF Shape, TypeOK
  <2>9. ASSUME NEW e \in Db
        PROVE  LifeOK(e)'
    <3>1. LifeOK(e) /\ UNCHANGED <<config, handle, created, limit, home, pool, wrote>>
      BY <1>1 DEF Shape, pools, callers
    <3>2. CASE e = d
      BY <1>1, <2>1, <2>2, <3>1, <3>2 DEF LifeOK, Serving, Migrating, NoPool
    <3>3. CASE e # d
      <4>1. owner'[e] = owner[e] /\ opening'[e] = opening[e] /\ keepalive'[e] = keepalive[e]
        BY <2>1, <2>2, <3>3
      <4> QED BY <3>1, <4>1 DEF LifeOK, Serving
    <3> QED BY <3>2, <3>3
  <2>10. Distinct' /\ CallersOK' /\ Counted'
    BY <1>1, <2>4 DEF Shape, Distinct, CallersOK, Counted, pools, callers
  <2>11. Drained'
    BY <1>1, <2>0, <2>3 DEF Shape, Drained
  <2> QED BY <2>8, <2>9, <2>10, <2>11 DEF Shape
<1> QED
  BY <1>2, <1>3 DEF Reserve

\* A pool is new: it has no connections and no callers.
LEMMA OpenShape ==
    ASSUME Shape, NEW d \in Db, Open(d)
    PROVE  Shape'
<1> DEFINE k == created + 1
<1>1. /\ owner[d] = "closed" /\ ~ keepalive[d] /\ handle[d] = NoPool /\ ~ opening[d]
      /\ created < MaxPools /\ created' = k /\ k \in Pool /\ created \in 0 .. MaxPools
      /\ UNCHANGED <<config, keepalive, idle, database, callers>>
      /\ config[d] \in Config
  BY ConfigsAssumption DEF Open, Shape, TypeOK, LifeOK, Migrating, Pool
<1>2. /\ handle' = [handle EXCEPT ![d] = k]
      /\ limit' = [limit EXCEPT ![k] = Limit(config[d])]
      /\ home' = [home EXCEPT ![k] = Place(config[d])]
      /\ owner' = [owner EXCEPT ![d] = "pinging"]
      /\ opening' = [opening EXCEPT ![d] = TRUE]
  BY DEF Open, Go, Place
<1> HIDE DEF k
<1>3. /\ handle'[d] = k /\ limit'[k] = Limit(config[d]) /\ home'[k] = Place(config[d])
      /\ owner'[d] = "pinging" /\ opening'[d]
      /\ \A e \in Db \ {d} : /\ handle'[e] = handle[e] /\ owner'[e] = owner[e]
                             /\ opening'[e] = opening[e]
      /\ \A j \in Pool \ {k} : limit'[j] = limit[j] /\ home'[j] = home[j]
  BY <1>1, <1>2 DEF Shape, TypeOK
<1>4. /\ \A j \in Pool : j <= created => j # k
      /\ \A e \in Db : handle[e] # k
      /\ \A c \in Caller : pool[c] # k
      /\ k \notin wrote
      /\ k # NoPool
  <2>1. k > created /\ created \in Nat
    BY <1>1 DEF k
  <2>2. \A e \in Db : handle[e] # NoPool => handle[e] <= created
    BY DEF Shape, LifeOK
  <2>3. \A e \in Db : handle[e] = NoPool => handle[e] <= created
    BY <2>1 DEF NoPool
  <2>4. \A e \in Db : handle[e] \in Nat
    BY DEF Shape, TypeOK, Pool, NoPool
  <2>5. \A c \in Caller : pool[c] <= created /\ pool[c] \in Nat
    BY DEF Shape, CallersOK, TypeOK, Pool, NoPool
  <2>6. \A j \in wrote : j <= created /\ j \in Nat
    BY DEF Shape, CallersOK, TypeOK, Pool
  <2> QED BY <2>1, <2>2, <2>3, <2>4, <2>5, <2>6 DEF NoPool, Pool, k
<1>5. Limit(config[d]) \in Nat /\ Place(config[d]) \in {"memory", "file"}
  BY <1>1 DEF Limit, Place, Config
<1>6. \A j \in Pool : Running(j)' = Running(j) /\ Reserved(j)' = Reserved(j)
  BY <1>1, <1>3 DEF Running, Reserved, callers
<1>7. Running(k) = {} /\ Reserved(k) = {} /\ idle[k] = 0
  BY <1>1, <1>4 DEF Running, Reserved, Shape, Drained
<1>8. Bounded'
  <2> SUFFICES ASSUME NEW j \in Pool
               PROVE  limit'[j] = 0 \/ Connections(j)' <= limit'[j]
    BY DEF Bounded
  <2>1. Connections(j)' = idle[j] + InUse(j)
    BY <1>1, <1>6 DEF Connections, InUse
  <2>2. CASE j # k
    BY <1>3, <2>1, <2>2, Counts
  <2>3. CASE j = k
    <3>1. InUse(k) = 0
      BY <1>7, FS_EmptySet DEF InUse
    <3> QED BY <1>3, <1>5, <1>7, <2>1, <2>3, <3>1
  <2> QED BY <2>2, <2>3
<1>9. TypeOK'
  <2>1. /\ owner' \in [Db -> {"closed", "pinging", "reserving", "open", "closing", "draining"}
                                \cup Migrating]
        /\ opening' \in [Db -> BOOLEAN]
        /\ handle' \in [Db -> Pool \cup {NoPool}]
        /\ limit' \in [Pool -> Nat]
        /\ home' \in [Pool -> {"memory", "file"}]
    BY <1>1, <1>2, <1>5 DEF Shape, TypeOK
  <2>2. created' \in 0 .. MaxPools
    BY <1>1, ConfigsAssumption DEF k
  <2>3. \A e \in Db : keepalive'[e] => handle'[e] # NoPool
    BY <1>1, <1>3, <1>4 DEF Shape, TypeOK
  <2> QED BY <1>1, <1>8, <2>1, <2>2, <2>3 DEF Shape, TypeOK, callers, Bounded
<1>10. LifeOK(d)'
  BY <1>1, <1>3, <1>4 DEF LifeOK, Serving, Migrating, callers, k
<1>11. ASSUME NEW e \in Db \ {d}
       PROVE  LifeOK(e)'
  <2>1. handle[e] # NoPool => handle[e] \in Pool \ {k} /\ handle[e] <= created + 1
    BY <1>1, <1>4 DEF Shape, LifeOK, TypeOK, Pool
  <2> QED BY <1>1, <1>3, <2>1 DEF Shape, LifeOK, Serving, callers, k
<1>12. Distinct'
  BY <1>3, <1>4 DEF Shape, Distinct
<1>13. CallersOK'
  <2>1. \A c \in Caller : pool[c] \in Nat
    BY DEF Shape, TypeOK, Pool, NoPool
  <2>2. \A j \in wrote : j \in Nat
    BY DEF Shape, TypeOK, Pool
  <2> QED BY <1>1, <2>1, <2>2 DEF Shape, CallersOK, callers, k
<1>14. Drained'
  <2> SUFFICES ASSUME NEW j \in Pool, \A e \in Db : handle'[e] # j
               PROVE  idle[j] = 0
    BY <1>1 DEF Drained
  <2>1. j # k
    BY <1>3
  <2>2. \A e \in Db : handle[e] # j
    BY <1>1, <1>3, <2>1 DEF NoPool, Pool
  <2> QED BY <2>2 DEF Shape, Drained
<1>15. Counted'
  BY <1>6 DEF Shape, Counted
<1> QED
  BY <1>9, <1>10, <1>11, <1>12, <1>13, <1>14, <1>15 DEF Shape

\* What comes back to a pool that is open stays there.
LEMMA ReleaseShape ==
    ASSUME Shape, NEW d \in Db, ReleaseKeepalive(d)
    PROVE  Shape'
<1> DEFINE k == handle[d]
<1>1. /\ owner[d] = "closing" /\ handle[d] # NoPool /\ handle[d] \in Pool
      /\ owner' = [owner EXCEPT ![d] = "draining"]
      /\ keepalive' = [keepalive EXCEPT ![d] = FALSE]
      /\ UNCHANGED <<config, opening, handle, pools, database, callers>>
  BY DEF ReleaseKeepalive, Go, Shape, TypeOK, LifeOK
<1>2. /\ owner'[d] = "draining" /\ \A e \in Db \ {d} : owner'[e] = owner[e]
      /\ ~ keepalive'[d] /\ \A e \in Db \ {d} : keepalive'[e] = keepalive[e]
  BY <1>1 DEF Shape, TypeOK
<1>3. /\ idle' \in [Pool -> Nat]
      /\ \A j \in Pool : j # k => idle'[j] = idle[j]
      /\ idle'[k] = IF keepalive[d] THEN idle[k] + 1 ELSE idle[k]
  BY <1>1 DEF ReleaseKeepalive, GiveBack, Shape, TypeOK
<1>4. \A j \in Pool : /\ Running(j)' = Running(j)
                      /\ j # k => Reserved(j)' = Reserved(j)
  BY <1>1, <1>2 DEF Running, Reserved, callers
<1>5. /\ Reserved(k) = IF keepalive[d] THEN {d} ELSE {}
      /\ Reserved(k)' = {}
  BY <1>1, <1>2 DEF Reserved, Shape, Distinct
<1>6. Bounded'
  <2> SUFFICES ASSUME NEW j \in Pool
               PROVE  limit'[j] = 0 \/ Connections(j)' <= limit'[j]
    BY DEF Bounded
  <2>1. limit' = limit
    BY <1>1 DEF pools
  <2>2. Connections(j)' = Connections(j)
    <3>1. CASE j # k
      BY <1>3, <1>4, <3>1 DEF Connections, InUse
    <3>2. CASE j = k
      <4>1. /\ Cardinality(Reserved(k)) = IF keepalive[d] THEN 1 ELSE 0
            /\ Cardinality(Reserved(k)') = 0
        BY <1>5, FS_EmptySet, FS_Singleton
      <4>2. idle[j] \in Nat /\ Cardinality(Running(j)) \in Nat
        BY Counts
      <4>3. /\ Connections(j) = idle[j] + (Cardinality(Running(j)) + Cardinality(Reserved(k)))
            /\ Connections(j)' = idle'[j] + (Cardinality(Running(j)) + Cardinality(Reserved(k)'))
        BY <1>1, <1>4, <3>2 DEF Connections, InUse
      <4> QED BY <1>3, <3>2, <4>1, <4>2, <4>3
    <3> QED BY <3>1, <3>2
  <2> QED BY <2>1, <2>2, Counts
<1>7. TypeOK'
  <2>1. /\ owner' \in [Db -> {"closed", "pinging", "reserving", "open", "closing", "draining"}
                                \cup Migrating]
        /\ keepalive' \in [Db -> BOOLEAN]
        /\ \A e \in Db : keepalive'[e] => handle'[e] # NoPool
    BY <1>1, <1>2 DEF Shape, TypeOK
  <2> QED BY <1>1, <1>3, <1>6, <2>1 DEF Shape, TypeOK, pools, callers, Bounded
<1>8. LifeOK(d)'
  BY <1>1, <1>2 DEF Shape, LifeOK, Serving, Migrating, pools, callers
<1>9. ASSUME NEW e \in Db \ {d}
      PROVE  LifeOK(e)'
  BY <1>1, <1>2 DEF Shape, LifeOK, Serving, pools, callers
<1>10. Distinct' /\ CallersOK' /\ Counted'
  BY <1>1, <1>4 DEF Shape, Distinct, CallersOK, Counted, pools, callers
<1>11. Drained'
  BY <1>1, <1>3 DEF Shape, Drained
<1> QED
  BY <1>7, <1>8, <1>9, <1>10, <1>11 DEF Shape
\* The database that Keep leaves is one.
LEMMA KeepTypes ==
    ASSUME NEW databases \in [{"memory", "file"} -> Database], Keep(databases)
    PROVE  database' \in [{"memory", "file"} -> Database]
<1>1. Empty \in Database
  BY DEF Empty, Database
<1> QED
  BY <1>1 DEF Keep

\* A step of the callers, or of a pool, leaves the DBs alone.
LEMMA CallersShape ==
    ASSUME Shape, UNCHANGED <<lifecycle, pools>>,
           database' \in [{"memory", "file"} -> Database],
           idle' \in [Pool -> Nat],
           phase' \in [Caller -> {"idle", "waiting", "running"}],
           pool' \in [Caller -> Pool \cup {NoPool}],
           wrote' \in SUBSET Pool,
           Bounded', Drained', CallersOK', Counted',
           \A d \in Db : opening[d] => handle[d] \notin wrote' /\ \A c \in Caller : pool'[c] # handle[d]
    PROVE  Shape'
<1>1. TypeOK'
  BY DEF Shape, TypeOK, lifecycle, pools, Bounded
<1>2. ASSUME NEW d \in Db
      PROVE  LifeOK(d)'
  BY DEF Shape, LifeOK, Serving, lifecycle, pools
<1>3. Distinct'
  BY DEF Shape, Distinct, lifecycle
<1> QED
  BY <1>1, <1>2, <1>3 DEF Shape

\* Closed, a pool has the connections in use and no other.
LEMMA ClosePoolShape ==
    ASSUME Shape, NEW d \in Db, ClosePool(d)
    PROVE  Shape'
<1>0. PICK k \in Pool : k = handle[d]
  BY DEF Shape, TypeOK, LifeOK, ClosePool
<1>1. /\ owner[d] = "draining" /\ ~ keepalive[d] /\ k # NoPool
      /\ owner' = [owner EXCEPT ![d] = "closed"]
      /\ opening' = [opening EXCEPT ![d] = FALSE]
      /\ handle' = [handle EXCEPT ![d] = NoPool]
      /\ idle' = [idle EXCEPT ![k] = 0]
      /\ UNCHANGED <<config, keepalive, pools, callers>>
      /\ Keep(database)
  BY <1>0 DEF ClosePool, Go, Shape, TypeOK, LifeOK, Migrating, Pool, NoPool
<1>2. /\ owner'[d] = "closed" /\ ~ opening'[d] /\ handle'[d] = NoPool
      /\ \A e \in Db \ {d} : /\ owner'[e] = owner[e] /\ opening'[e] = opening[e]
                             /\ handle'[e] = handle[e]
      /\ idle' \in [Pool -> Nat] /\ idle'[k] = 0
      /\ \A j \in Pool \ {k} : idle'[j] = idle[j]
  BY <1>1 DEF Shape, TypeOK
<1>3. \A j \in Pool : Running(j)' = Running(j)
  BY <1>1 DEF Running, callers
<1>4. \A j \in Pool : Reserved(j)' = Reserved(j)
  <2>1. \A e \in Db : keepalive'[e] = keepalive[e]
    BY <1>1
  <2>2. \A e \in Db, j \in Pool : keepalive[e] => (handle'[e] = j <=> handle[e] = j)
    BY <1>1, <1>2
  <2> QED BY <2>1, <2>2 DEF Reserved
<1>5. Bounded'
  <2> SUFFICES ASSUME NEW j \in Pool
               PROVE  limit'[j] = 0 \/ Connections(j)' <= limit'[j]
    BY DEF Bounded
  <2>1. Connections(j)' = idle'[j] + InUse(j) /\ limit' = limit
    BY <1>1, <1>3, <1>4 DEF Connections, InUse, pools
  <2> QED BY <1>2, <2>1, Counts
<1>6. TypeOK'
  <2>1. database' \in [{"memory", "file"} -> Database]
    <3>1. database \in [{"memory", "file"} -> Database]
      BY DEF Shape, TypeOK
    <3>2. PICK databases \in [{"memory", "file"} -> Database] : databases = database
      BY <3>1
    <3>3. Keep(databases)
      BY <1>1, <3>2 DEF Keep
    <3> QED BY <3>3, KeepTypes
  <2>2. /\ owner' \in [Db -> {"closed", "pinging", "reserving", "open", "closing", "draining"}
                                \cup Migrating]
        /\ opening' \in [Db -> BOOLEAN]
        /\ handle' \in [Db -> Pool \cup {NoPool}]
    BY <1>1 DEF Shape, TypeOK
  <2>3. \A e \in Db : keepalive'[e] => handle'[e] # NoPool
    BY <1>1, <1>2 DEF Shape, TypeOK
  <2> QED BY <1>1, <1>2, <1>5, <2>1, <2>2, <2>3 DEF Shape, TypeOK, pools, callers, Bounded
<1>7. LifeOK(d)'
  BY <1>1, <1>2 DEF LifeOK, Serving, Migrating, callers
<1>8. ASSUME NEW e \in Db \ {d}
      PROVE  LifeOK(e)'
  BY <1>1, <1>2 DEF Shape, LifeOK, Serving, pools, callers
<1>9. Distinct'
  BY <1>2 DEF Shape, Distinct
<1>10. CallersOK' /\ Counted'
  BY <1>1, <1>3 DEF Shape, CallersOK, Counted, pools, callers
<1>11. Drained'
  <2> SUFFICES ASSUME NEW j \in Pool, \A e \in Db : handle'[e] # j
               PROVE  idle'[j] = 0
    BY DEF Drained
  <2>1. CASE j = k
    BY <1>2, <2>1
  <2>2. CASE j # k
    BY <1>0, <1>2, <2>2 DEF Shape, Drained
  <2> QED BY <2>1, <2>2
<1> QED
  BY <1>6, <1>7, <1>8, <1>9, <1>10, <1>11 DEF Shape

\* A caller gets the pool of a DB that is open.
LEMMA HandleShape ==
    ASSUME Shape, NEW c \in Caller, Handle(c)
    PROVE  Shape'
<1>1. PICK d \in Db : /\ handle[d] # NoPool /\ ~ opening[d]
                      /\ pool' = [pool EXCEPT ![c] = handle[d]]
  BY DEF Handle
<1>2. /\ phase[c] = "idle" /\ phase' = [phase EXCEPT ![c] = "waiting"]
      /\ UNCHANGED <<lifecycle, pools, idle, database, wrote>>
  BY DEF Handle
<1>3. /\ phase'[c] = "waiting" /\ pool'[c] = handle[d] /\ handle[d] \in Pool /\ handle[d] <= created
      /\ \A b \in Caller \ {c} : phase'[b] = phase[b] /\ pool'[b] = pool[b]
  BY <1>1, <1>2 DEF Shape, TypeOK, LifeOK
<1>4. \A j \in Pool : Running(j)' = Running(j) /\ Reserved(j)' = Reserved(j)
  BY <1>2, <1>3 DEF Running, Reserved, lifecycle
<1>5. Bounded' /\ Counted'
  <2>1. \A j \in Pool : Connections(j)' = Connections(j) /\ limit' = limit
    BY <1>2, <1>4 DEF Connections, InUse, pools
  <2> QED BY <1>4, <2>1, Counts DEF Bounded, Counted
<1>6. CallersOK'
  BY <1>1, <1>2, <1>3 DEF Shape, CallersOK, pools
<1>7. Drained'
  BY <1>2 DEF Shape, Drained, lifecycle
<1>8. ASSUME NEW e \in Db, opening[e]
      PROVE  handle[e] \notin wrote' /\ \A b \in Caller : pool'[b] # handle[e]
  <2>1. handle[e] # handle[d]
    BY <1>1, <1>8 DEF Shape, Distinct
  <2> QED BY <1>2, <1>3, <1>8, <2>1 DEF Shape, LifeOK
<1>9. /\ phase' \in [Caller -> {"idle", "waiting", "running"}]
      /\ pool' \in [Caller -> Pool \cup {NoPool}]
      /\ wrote' \in SUBSET Pool /\ idle' \in [Pool -> Nat]
      /\ database' \in [{"memory", "file"} -> Database]
  BY <1>1, <1>2 DEF Shape, TypeOK
<1> QED
  BY <1>2, <1>5, <1>6, <1>7, <1>8, <1>9, CallersShape

\* Its statement takes a connection, or learns that the pool is closed.
LEMMA StartShape ==
    ASSUME Shape, NEW c \in Caller, Start(c)
    PROVE  Shape'
<1>0. PICK k \in Pool : k = pool[c]
  BY DEF Shape, TypeOK, CallersOK, Start
<1>1. phase[c] = "waiting" /\ UNCHANGED <<lifecycle, pools, database, wrote>>
  BY DEF Start
<1>2. CASE Return(c) /\ UNCHANGED idle
  <2>1. /\ phase'[c] = "idle" /\ pool'[c] = NoPool
        /\ \A b \in Caller \ {c} : phase'[b] = phase[b] /\ pool'[b] = pool[b]
        /\ phase' \in [Caller -> {"idle", "waiting", "running"}]
        /\ pool' \in [Caller -> Pool \cup {NoPool}]
    BY <1>2 DEF Return, Shape, TypeOK
  <2>2. \A j \in Pool : Running(j)' = Running(j) /\ Reserved(j)' = Reserved(j)
    BY <1>1, <2>1 DEF Running, Reserved, lifecycle
  <2>3. Bounded' /\ Counted'
    <3>1. \A j \in Pool : Connections(j)' = Connections(j) /\ limit' = limit
      BY <1>1, <1>2, <2>2 DEF Connections, InUse, pools
    <3> QED BY <2>2, <3>1, Counts DEF Bounded, Counted
  <2>4. CallersOK'
    <3>1. NoPool <= created
      BY DEF Shape, TypeOK, NoPool
    <3> QED BY <1>1, <2>1, <3>1 DEF Shape, CallersOK, pools
  <2>5. Drained'
    BY <1>1, <1>2 DEF Shape, Drained, lifecycle
  <2>6. ASSUME NEW e \in Db, opening[e]
        PROVE  handle[e] \notin wrote' /\ \A b \in Caller : pool'[b] # handle[e]
    <3>1. handle[e] # NoPool
      BY <2>6 DEF Shape, LifeOK
    <3> QED BY <1>1, <2>1, <2>6, <3>1 DEF Shape, LifeOK
  <2>7. /\ wrote' \in SUBSET Pool /\ idle' \in [Pool -> Nat]
        /\ database' \in [{"memory", "file"} -> Database]
    BY <1>1, <1>2 DEF Shape, TypeOK
  <2> QED BY <1>1, <2>1, <2>3, <2>4, <2>5, <2>6, <2>7, CallersShape
<1>3. CASE /\ \E d \in Db : handle[d] = pool[c]
           /\ CanTake(pool[c])
           /\ Take(pool[c])
           /\ phase' = [phase EXCEPT ![c] = "running"]
           /\ UNCHANGED pool
  <2>1. /\ phase'[c] = "running" /\ pool' = pool
        /\ \A b \in Caller \ {c} : phase'[b] = phase[b]
        /\ phase' \in [Caller -> {"idle", "waiting", "running"}]
    BY <1>3 DEF Shape, TypeOK
  <2>2. /\ idle' \in [Pool -> Nat]
        /\ \A j \in Pool : j # k => idle'[j] = idle[j]
        /\ idle'[k] = IF idle[k] > 0 THEN idle[k] - 1 ELSE 0
    BY <1>0, <1>3 DEF Take, Shape, TypeOK
  <2>3. /\ \A j \in Pool : j # k => Running(j)' = Running(j)
        /\ \A j \in Pool : Reserved(j)' = Reserved(j)
        /\ Running(k)' = Running(k) \cup {c} /\ c \notin Running(k)
    BY <1>0, <1>1, <2>1 DEF Running, Reserved, lifecycle
  <2>4. IsFiniteSet(Running(k)') /\ Cardinality(Running(k)') = Cardinality(Running(k)) + 1
    BY <2>3, Counts, FS_AddElement
  <2>5. Counted'
    BY <2>3, <2>4 DEF Shape, Counted
  <2>6. Bounded'
    <3> SUFFICES ASSUME NEW j \in Pool
                 PROVE  limit'[j] = 0 \/ Connections(j)' <= limit'[j]
      BY DEF Bounded
    <3>1. limit' = limit
      BY <1>1 DEF pools
    <3>2. CASE j # k
      <4>1. Connections(j)' = Connections(j)
        BY <2>2, <2>3, <3>2 DEF Connections, InUse
      <4> QED BY <3>1, <4>1, Counts
    <3>3. CASE j = k
      <4>1. /\ Connections(k) = idle[k] + (Cardinality(Running(k)) + Cardinality(Reserved(k)))
            /\ Connections(k)' = idle'[k] + (Cardinality(Running(k)') + Cardinality(Reserved(k)))
        BY <2>3 DEF Connections, InUse
      <4>2. /\ idle[k] \in Nat /\ Cardinality(Running(k)) \in Nat /\ Cardinality(Reserved(k)) \in Nat
            /\ limit[k] \in Nat /\ (limit[k] = 0 \/ Connections(k) <= limit[k])
        BY Counts
      <4>3. idle[k] > 0 \/ limit[k] = 0 \/ Connections(k) < limit[k]
        BY <1>0, <1>3 DEF CanTake
      <4> QED BY <2>2, <2>4, <3>1, <3>3, <4>1, <4>2, <4>3
    <3> QED BY <3>2, <3>3
  <2>7. CallersOK'
    BY <1>1, <2>1, <1>0 DEF Shape, CallersOK, pools, Pool, NoPool
  <2>8. Drained'
    <3> SUFFICES ASSUME NEW j \in Pool, \A e \in Db : handle[e] # j
                 PROVE  idle'[j] = 0
      BY <1>1 DEF Drained, lifecycle
    <3>1. j # k
      BY <1>0, <1>3
    <3> QED BY <2>2, <3>1 DEF Shape, Drained
  <2>9. \A d \in Db : opening[d] => handle[d] \notin wrote' /\ \A b \in Caller : pool'[b] # handle[d]
    BY <1>1, <2>1 DEF Shape, LifeOK
  <2>10. /\ wrote' \in SUBSET Pool /\ pool' \in [Caller -> Pool \cup {NoPool}]
         /\ database' \in [{"memory", "file"} -> Database]
    BY <1>1, <2>1 DEF Shape, TypeOK
  <2> QED BY <1>1, <2>1, <2>2, <2>5, <2>6, <2>7, <2>8, <2>9, <2>10, CallersShape
<1> QED
  BY <1>2, <1>3 DEF Start
\* A row written adds to the rows and leaves the schema alone.
LEMMA WithRowType ==
    ASSUME NEW db \in Database, NEW k \in Pool
    PROVE  /\ WithRow(db, k) \in Database
           /\ WithRow(db, k).rows = db.rows \cup {k}
           /\ WithRow(db, k).table = db.table
           /\ WithRow(db, k).version = db.version
           /\ WithRow(db, k).dirty = db.dirty
<1>1. db.rows \cup {k} \in SUBSET Pool
  BY DEF Database
<1>2. WithRow(db, k) \in Database
  BY <1>1, Zenon DEF WithRow, Database
<1>3. /\ WithRow(db, k).rows = db.rows \cup {k}
      /\ WithRow(db, k).table = db.table
      /\ WithRow(db, k).version = db.version
      /\ WithRow(db, k).dirty = db.dirty
  BY DEF WithRow, Database
<1> QED BY <1>2, <1>3

\* A statement ends, and gives its connection back.
LEMMA FinishShape ==
    ASSUME Shape, NEW c \in Caller, Finish(c)
    PROVE  Shape'
<1>0. PICK k \in Pool : k = pool[c]
  BY DEF Shape, TypeOK, CallersOK, Finish
<1>1. /\ phase[c] = "running" /\ UNCHANGED <<lifecycle, pools>>
      /\ phase' = [phase EXCEPT ![c] = "idle"] /\ pool' = [pool EXCEPT ![c] = NoPool]
      /\ idle' = [idle EXCEPT ![k] = IF \E d \in Db : handle[d] = k THEN @ + 1 ELSE 0]
  BY <1>0 DEF Finish, Return, GiveBack
<1>2. /\ phase'[c] = "idle" /\ pool'[c] = NoPool
      /\ \A b \in Caller \ {c} : phase'[b] = phase[b] /\ pool'[b] = pool[b]
      /\ phase' \in [Caller -> {"idle", "waiting", "running"}]
      /\ pool' \in [Caller -> Pool \cup {NoPool}]
  BY <1>1 DEF Shape, TypeOK
<1>3. /\ idle' \in [Pool -> Nat]
      /\ \A j \in Pool : j # k => idle'[j] = idle[j]
      /\ idle'[k] = IF \E d \in Db : handle[d] = k THEN idle[k] + 1 ELSE 0
  BY <1>1 DEF Shape, TypeOK
<1>4. /\ \A j \in Pool : j # k => Running(j)' = Running(j)
      /\ \A j \in Pool : Reserved(j)' = Reserved(j)
      /\ Running(k)' = Running(k) \ {c} /\ c \in Running(k)
  BY <1>0, <1>1, <1>2 DEF Running, Reserved, lifecycle
<1>5. IsFiniteSet(Running(k)') /\ Cardinality(Running(k)') = Cardinality(Running(k)) - 1
  BY <1>4, Counts, FS_RemoveElement
<1>6. Counted'
  BY <1>4, <1>5 DEF Shape, Counted
<1>7. Bounded'
  <2> SUFFICES ASSUME NEW j \in Pool
               PROVE  limit'[j] = 0 \/ Connections(j)' <= limit'[j]
    BY DEF Bounded
  <2>1. limit' = limit
    BY <1>1 DEF pools
  <2>2. CASE j # k
    <3>1. Connections(j)' = Connections(j)
      BY <1>3, <1>4, <2>2 DEF Connections, InUse
    <3> QED BY <2>1, <3>1, Counts
  <2>3. CASE j = k
    <3>1. /\ Connections(k) = idle[k] + (Cardinality(Running(k)) + Cardinality(Reserved(k)))
          /\ Connections(k)' = idle'[k] + (Cardinality(Running(k)') + Cardinality(Reserved(k)))
      BY <1>4 DEF Connections, InUse
    <3>2. /\ idle[k] \in Nat /\ Cardinality(Running(k)) \in Nat /\ Cardinality(Reserved(k)) \in Nat
          /\ limit[k] \in Nat /\ (limit[k] = 0 \/ Connections(k) <= limit[k])
      BY Counts
    <3>3. idle'[k] = idle[k] + 1 \/ idle'[k] = 0
      BY <1>3
    <3> QED BY <1>5, <2>1, <2>3, <3>1, <3>2, <3>3
  <2> QED BY <2>2, <2>3
<1>8. Drained'
  BY <1>1, <1>3 DEF Shape, Drained, lifecycle
<1>9. wrote' \in {wrote, wrote \cup {k}}
  BY <1>0 DEF Finish
<1>10. CallersOK'
  <2>1. NoPool <= created /\ k <= created
    BY <1>0 DEF Shape, TypeOK, CallersOK, NoPool
  <2>2. \A b \in Caller : pool'[b] <= created' /\ (phase'[b] = "idle" <=> pool'[b] = NoPool)
    BY <1>1, <1>2, <2>1 DEF Shape, CallersOK, pools
  <2>3. \A j \in wrote' : j <= created'
    BY <1>1, <1>9, <2>1 DEF Shape, CallersOK, pools
  <2> QED BY <2>2, <2>3 DEF CallersOK
<1>11. ASSUME NEW d \in Db, opening[d]
       PROVE  handle[d] \notin wrote' /\ \A b \in Caller : pool'[b] # handle[d]
  <2>1. handle[d] # NoPool /\ handle[d] # k
    BY <1>0, <1>11 DEF Shape, LifeOK
  <2> QED BY <1>2, <1>9, <1>11, <2>1 DEF Shape, LifeOK
<1>12. wrote' \in SUBSET Pool
  BY <1>9 DEF Shape, TypeOK
<1>13. database' \in [{"memory", "file"} -> Database]
  <2> DEFINE place == home[k]
             filled == [database EXCEPT ![place] = WithRow(@, k)]
  <2>1. database \in [{"memory", "file"} -> Database] /\ place \in {"memory", "file"}
    BY DEF Shape, TypeOK
  <2>2. filled \in [{"memory", "file"} -> Database]
    BY <2>1, WithRowType
  <2>3. PICK databases \in [{"memory", "file"} -> Database] : Keep(databases)
    BY <1>0, <2>1, <2>2 DEF Finish, Keep
  <2> QED BY <2>3, KeepTypes
<1> QED
  BY <1>1, <1>2, <1>3, <1>6, <1>7, <1>8, <1>10, <1>11, <1>12, <1>13, CallersShape

\* The pool drops an idle connection.
LEMMA RetireShape ==
    ASSUME Shape, NEW k \in Pool, Retire(k)
    PROVE  Shape'
<1>1. /\ idle[k] > 0 /\ idle' = [idle EXCEPT ![k] = @ - 1]
      /\ UNCHANGED <<lifecycle, pools, callers>>
  BY DEF Retire
<1>2. /\ idle' \in [Pool -> Nat]
      /\ \A j \in Pool : j # k => idle'[j] = idle[j]
      /\ idle'[k] = idle[k] - 1
  BY <1>1 DEF Shape, TypeOK
<1>3. \A j \in Pool : Running(j)' = Running(j) /\ Reserved(j)' = Reserved(j)
  BY <1>1 DEF Running, Reserved, lifecycle, callers
<1>4. Bounded' /\ Counted'
  <2>1. ASSUME NEW j \in Pool
        PROVE  limit'[j] = 0 \/ Connections(j)' <= limit'[j]
    <3>1. Connections(j)' = idle'[j] + InUse(j) /\ limit' = limit
      BY <1>1, <1>3 DEF Connections, InUse, pools
    <3> QED BY <1>2, <3>1, Counts
  <2> QED BY <1>3, <2>1 DEF Shape, Counted, Bounded
<1>5. Drained'
  BY <1>1, <1>2 DEF Shape, Drained, lifecycle
<1>6. CallersOK'
  BY <1>1 DEF Shape, CallersOK, pools, callers
<1>7. database' \in [{"memory", "file"} -> Database]
  <2>1. database \in [{"memory", "file"} -> Database]
    BY DEF Shape, TypeOK
  <2>2. PICK databases \in [{"memory", "file"} -> Database] : Keep(databases)
    BY <2>1 DEF Retire, Keep
  <2> QED BY <2>2, KeepTypes
<1>8. /\ phase' \in [Caller -> {"idle", "waiting", "running"}]
      /\ pool' \in [Caller -> Pool \cup {NoPool}]
      /\ wrote' \in SUBSET Pool
      /\ \A d \in Db : opening[d] => handle[d] \notin wrote' /\ \A c \in Caller : pool'[c] # handle[d]
  BY <1>1 DEF Shape, TypeOK, LifeOK, callers
<1> QED
  BY <1>1, <1>2, <1>4, <1>5, <1>6, <1>7, <1>8, CallersShape

\* Every step keeps the shape.
LEMMA ShapeNext == Shape /\ [Next]_vars => Shape'
<1> SUFFICES ASSUME Shape, [Next]_vars
             PROVE  Shape'
  OBVIOUS
<1>1. CASE UNCHANGED vars
  <2>1. UNCHANGED <<lifecycle, pools, idle, database, callers>>
    BY <1>1 DEF vars
  <2>2. \A j \in Pool : Running(j)' = Running(j) /\ Reserved(j)' = Reserved(j)
    BY <2>1 DEF Running, Reserved, lifecycle, callers
  <2>3. Bounded' /\ Counted'
    <3>1. \A j \in Pool : Connections(j)' = Connections(j) /\ limit' = limit
      BY <2>1, <2>2 DEF Connections, InUse, pools
    <3> QED BY <2>2, <3>1, Counts DEF Bounded, Counted
  <2>4. CallersOK' /\ Drained'
    BY <2>1 DEF Shape, CallersOK, Drained, lifecycle, pools, callers
  <2>5. /\ database' \in [{"memory", "file"} -> Database]
        /\ idle' \in [Pool -> Nat]
        /\ phase' \in [Caller -> {"idle", "waiting", "running"}]
        /\ pool' \in [Caller -> Pool \cup {NoPool}]
        /\ wrote' \in SUBSET Pool
        /\ \A d \in Db : opening[d] => handle[d] \notin wrote' /\ \A c \in Caller : pool'[c] # handle[d]
    BY <2>1 DEF Shape, TypeOK, LifeOK, callers
  <2> QED BY <2>1, <2>3, <2>4, <2>5, CallersShape
<1> QED
  BY <1>1, OpenShape, PingShape, ReserveShape, QuietOwnerShape, UpShape, ReleaseShape,
     ClosePoolShape, HandleShape, StartShape, FinishShape, RetireShape DEF Next, Quiescent
-----------------------------------------------------------------------------
(* The databases.                                                          *)

\* A DB that is open on the in-memory database keeps a connection to it.
Alive ==
    \A d \in Db :
        Serving(d) /\ home[handle[d]] = "memory" =>
            handle[d] \in Pool /\ Connections(handle[d]) > 0

\* The keepalive is a connection, so a DB that works in memory always has one.
LEMMA ShapeAlive == Shape => Alive
<1> SUFFICES ASSUME Shape, NEW d \in Db, Serving(d), home[handle[d]] = "memory"
             PROVE  handle[d] \in Pool /\ Connections(handle[d]) > 0
  BY DEF Alive
<1>1. PICK k : k = handle[d]
  OBVIOUS
<1>2. k \in Pool /\ keepalive[d]
  <2>1. owner[d] # "closed"
    BY DEF Serving, Migrating
  <2> QED BY <1>1, <2>1 DEF Shape, TypeOK, LifeOK, Place
<1>3. Cardinality(Reserved(k)) = 1
  <2>1. PICK e : Reserved(k) = {e}
    BY <1>1, <1>2, ReservedIs DEF Reserved
  <2> QED BY <2>1, FS_Singleton
<1> QED
  BY <1>1, <1>2, <1>3, Counts

(***************************************************************************)
(* SQLite drops the in-memory database only when nobody has it open, and   *)
(* the file never.                                                         *)
(***************************************************************************)
LEMMA KeepHolds ==
    ASSUME Alive', Shape', NEW databases \in [{"memory", "file"} -> Database], Keep(databases)
    PROVE  /\ database'["file"] = databases["file"]
           /\ \A place \in {"memory", "file"} : database'[place] \in {databases[place], Empty}
           /\ \A d \in Db : Serving(d)' =>
                 /\ home'[handle'[d]] \in {"memory", "file"}
                 /\ database'[home'[handle'[d]]] = databases[home'[handle'[d]]]
<1>1. database' = databases \/ database' = [databases EXCEPT !["memory"] = Empty]
  BY DEF Keep
<1>2. ASSUME NEW d \in Db, Serving(d)'
      PROVE  home'[handle'[d]] \in {"memory", "file"}
  <2>1. owner'[d] # "closed"
    BY <1>2 DEF Serving, Migrating
  <2> QED BY <2>1 DEF Shape, LifeOK, TypeOK
<1>3. ASSUME NEW d \in Db, Serving(d)', home'[handle'[d]] = "memory"
      PROVE  database' = databases
  <2>1. PICK k : k = handle'[d]
    OBVIOUS
  <2>2. (Serving(d) /\ home[handle[d]] = "memory" =>
            handle[d] \in Pool /\ Connections(handle[d]) > 0)'
    BY DEF Alive
  <2>3. k \in Pool /\ Connections(k)' > 0
    BY <1>3, <2>1, <2>2 DEF Connections, InUse, Running, Reserved
  <2> QED BY <1>3, <2>1, <2>3 DEF Keep
<1> QED
  BY <1>1, <1>2, <1>3

\* What a step keeps of the schema and the rows of a DB, stays so for it.
LEMMA DataStands ==
    ASSUME NEW d \in Db, DataOK(d),
           config' = config, owner'[d] = owner[d], opening'[d] = opening[d], handle'[d] = handle[d],
           NEW place, place = home[handle[d]],
           Serving(d) =>
               /\ home'[handle[d]] = place
               /\ database[place].table => database'[place].table
               /\ database[place].rows \subseteq database'[place].rows
               /\ handle[d] \in wrote' \ wrote => handle[d] \in database'[place].rows
    PROVE  DataOK(d)'
<1>1. CASE Serving(d)
  BY <1>1 DEF DataOK, Opened, Schema
<1>2. CASE ~ Serving(d)
  BY <1>2 DEF DataOK, Opened, Serving, Migrating
<1> QED
  BY <1>1, <1>2

\* A step that leaves the databases, the pools and what they are on alone
\* changes nothing for a DB whose owner does nothing.
LEMMA DataFrame ==
    ASSUME PoolInv, UNCHANGED <<config, handle, home, database, wrote>>, NEW d \in Db,
           \A e \in Db \ {d} : owner'[e] = owner[e] /\ opening'[e] = opening[e],
           DataOK(d)', Shape'
    PROVE  PoolInv'
<1>1. ASSUME NEW e \in Db \ {d}
      PROVE  DataOK(e)'
  BY <1>1 DEF PoolInv, DataOK, Opened, Schema
<1>2. \A place \in {"memory", "file"} : Clean(place)'
  BY DEF PoolInv, Clean
<1>3. FileKeepsRows'
  BY DEF PoolInv, FileKeepsRows
<1> QED
  BY <1>1, <1>2, <1>3 DEF PoolInv

\* A DB whose Open has not returned has no rows yet.
LEMMA OpenOwner ==
    ASSUME PoolInv, Shape', NEW d \in Db, Ping(d) \/ Reserve(d)
    PROVE  PoolInv'
<1>1. /\ opening[d] /\ handle[d] \notin wrote
      /\ UNCHANGED <<config, handle, home, database, wrote>>
      /\ opening \in [Db -> BOOLEAN] /\ owner \in [Db -> {"closed", "pinging", "reserving", "open",
                                                         "closing", "draining"} \cup Migrating]
  BY DEF Ping, Reserve, PoolInv, Shape, LifeOK, TypeOK, pools, callers
<1>2. \/ Fail(d) \/ Proceed(d, "reserving") \/ MigrateOrReturn(d)
  BY DEF Ping, Reserve
<1>3. \A e \in Db \ {d} : owner'[e] = owner[e] /\ opening'[e] = opening[e]
  BY <1>1, <1>2 DEF Fail, Proceed, MigrateOrReturn, Succeed, Go
<1>4. DataOK(d)'
  <2>1. CASE Fail(d)
    BY <1>1, <2>1 DEF Fail, Proceed, Go, DataOK, Opened, Migrating
  <2>2. CASE Proceed(d, "reserving")
    BY <1>1, <2>2 DEF Proceed, Go, DataOK, Opened, Migrating
  <2>3. CASE MigrateOrReturn(d) /\ config[d].autoMigrate
    BY <1>1, <2>3 DEF MigrateOrReturn, Proceed, Go, DataOK, Opened
  <2>4. CASE MigrateOrReturn(d) /\ ~ config[d].autoMigrate
    BY <1>1, <2>4 DEF MigrateOrReturn, Succeed, Go, DataOK, Opened
  <2> QED BY <1>2, <2>1, <2>2, <2>3, <2>4
<1> QED
  BY <1>1, <1>3, <1>4, DataFrame

\* The owner's steps that touch no database keep what the data must satisfy.
LEMMA QuietOwner ==
    ASSUME PoolInv, Shape', NEW d \in Db,
           Migrate(d) \/ GracefulStop(d) \/ Close(d) \/ ReleaseKeepalive(d)
    PROVE  PoolInv'
<1>1. /\ DataOK(d)
      /\ UNCHANGED <<config, handle, home, database, wrote>>
      /\ opening \in [Db -> BOOLEAN] /\ owner \in [Db -> {"closed", "pinging", "reserving", "open",
                                                         "closing", "draining"} \cup Migrating]
  BY DEF Migrate, GracefulStop, Close, ReleaseKeepalive, PoolInv, Shape, TypeOK, pools, callers
<1>2. \A e \in Db \ {d} : owner'[e] = owner[e] /\ opening'[e] = opening[e]
  BY <1>1 DEF Migrate, GracefulStop, Close, ReleaseKeepalive, Succeed, Go
<1>3. DataOK(d)'
  <2>1. CASE Migrate(d)
    BY <1>1, <2>1 DEF Migrate, Go, DataOK, Opened, Schema, Migrating
  <2>2. CASE GracefulStop(d)
    BY <1>1, <2>2 DEF GracefulStop, Succeed, Go, DataOK, Opened, Schema, Migrating
  <2>3. CASE Close(d) \/ ReleaseKeepalive(d)
    BY <1>1, <2>3 DEF Close, ReleaseKeepalive, Go, DataOK, Opened, Migrating
  <2> QED BY <2>1, <2>2, <2>3
<1> QED
  BY <1>1, <1>2, <1>3, DataFrame
\* A new pool has no rows yet.
LEMMA OpenData ==
    ASSUME PoolInv, Shape', NEW d \in Db, Open(d)
    PROVE  PoolInv'
<1> DEFINE k == created + 1
<1>1. /\ UNCHANGED <<config, database, wrote>>
      /\ owner' = [owner EXCEPT ![d] = "pinging"]
      /\ opening' = [opening EXCEPT ![d] = TRUE]
      /\ handle' = [handle EXCEPT ![d] = k]
      /\ home' = [home EXCEPT ![k] = Place(config[d])]
      /\ k \in Nat \ {0} /\ created \in Nat
  BY DEF Open, Go, Place, PoolInv, Shape, TypeOK, callers
<1>2. /\ owner'[d] = "pinging"
      /\ \A e \in Db \ {d} : /\ owner'[e] = owner[e] /\ opening'[e] = opening[e]
                             /\ handle'[e] = handle[e]
  BY <1>1 DEF PoolInv, Shape, TypeOK
<1>3. \A j \in Pool : j <= created => home'[j] = home[j]
  BY <1>1 DEF PoolInv, Shape, TypeOK, Pool
<1>4. DataOK(d)'
  BY <1>2 DEF DataOK, Opened, Migrating
<1>5. ASSUME NEW e \in Db \ {d}
      PROVE  DataOK(e)'
  <2>1. Serving(e) => home'[handle[e]] = home[handle[e]]
    <3> SUFFICES ASSUME Serving(e)
                 PROVE  home'[handle[e]] = home[handle[e]]
      OBVIOUS
    <3>1. owner[e] # "closed"
      BY DEF Serving, Migrating
    <3>2. handle[e] \in Pool /\ handle[e] <= created
      BY <3>1 DEF PoolInv, Shape, TypeOK, LifeOK
    <3> QED BY <1>3, <3>2
  <2>2. PICK place : place = home[handle[e]]
    OBVIOUS
  <2>3. DataOK(e)
    BY DEF PoolInv
  <2> QED BY <1>1, <1>2, <2>1, <2>2, <2>3, DataStands
<1>6. \A place \in {"memory", "file"} : Clean(place)'
  BY <1>1 DEF PoolInv, Clean
<1>7. FileKeepsRows'
  BY <1>1, <1>3 DEF PoolInv, FileKeepsRows, Shape, CallersOK, TypeOK
<1> QED
  BY <1>4, <1>5, <1>6, <1>7 DEF PoolInv

(***************************************************************************)
(* A migration: whoever else migrates the same database, a table is never  *)
(* dropped, and its version is not clean before there is one.              *)
(***************************************************************************)
LEMMA UpData ==
    ASSUME PoolInv, Shape', NEW d \in Db, Up(d)
    PROVE  PoolInv'
<1>0. PICK here \in {"memory", "file"} : here = home[handle[d]]
  BY DEF PoolInv, Shape, TypeOK, LifeOK, Up, Migrating, NoPool
<1>1. /\ UNCHANGED <<config, handle, home, wrote>> /\ owner[d] \in Migrating
      /\ DataOK(d) /\ Clean(here) /\ Schema(d) = database[here]
      /\ database \in [{"memory", "file"} -> Database]
      /\ opening[d] => handle[d] \notin wrote
      /\ opening \in [Db -> BOOLEAN] /\ owner \in [Db -> {"closed", "pinging", "reserving", "open",
                                                         "closing", "draining"} \cup Migrating]
  BY <1>0 DEF Up, PoolInv, Shape, TypeOK, LifeOK, pools, callers, Schema
<1>2. \A e \in Db \ {d} : owner'[e] = owner[e] /\ opening'[e] = opening[e]
  BY <1>1 DEF Up, Progress, Fail, Succeed, Proceed, Go
<1>3. CASE Fail(d) /\ UNCHANGED database
  <2>1. DataOK(d)'
    BY <1>1, <1>3 DEF Fail, Proceed, Go, DataOK, Opened, Schema, Migrating
  <2> QED BY <1>1, <1>2, <1>3, <2>1, DataFrame
<1>4. CASE Progress(d)
  <2> DEFINE before == database[here]
             after == database'[here]
  <2>1. /\ \A place \in {"memory", "file"} : place # here => database'[place] = database[place]
        /\ after.rows = before.rows
        /\ before.table => after.table
        /\ Clean(here)'
        /\ owner'[d] = "settling" => after.table
        /\ owner'[d] = "open" => after.table
        /\ owner'[d] \in Migrating \cup {"open"}
        /\ owner'[d] = "open" \/ opening'[d] = opening[d]
    <3>0. before \in Database /\ before.table \in BOOLEAN /\ before.dirty \in BOOLEAN
      BY <1>0, <1>1 DEF Database
    <3>1. CASE owner[d] = "reading" /\ UNCHANGED database
      <4>1. /\ ~ before.dirty
            /\ IF before.version = 1 THEN Succeed(d) ELSE Proceed(d, "marking")
        BY <1>1, <1>4, <3>1 DEF Progress, Migrating
      <4>2. CASE before.version = 1
        BY <1>1, <3>1, <4>1, <4>2 DEF Succeed, Go, Clean, Migrating
      <4>3. CASE before.version # 1
        BY <1>1, <3>1, <4>1, <4>3 DEF Proceed, Go, Clean, Migrating
      <4> QED BY <4>2, <4>3
    <3>2. CASE owner[d] = "marking"
      <4>1. Proceed(d, "applying") /\ Write(d, [before EXCEPT !.version = 1, !.dirty = TRUE])
        BY <1>1, <1>4, <3>2 DEF Progress
      <4>2. after = [before EXCEPT !.version = 1, !.dirty = TRUE]
        BY <1>0, <1>1, <4>1 DEF Write
      <4>3. after.rows = before.rows /\ after.table = before.table /\ after.dirty
        BY <3>0, <4>2 DEF Database
      <4>4. \A place \in {"memory", "file"} : place # here => database'[place] = database[place]
        BY <1>0, <1>1, <4>1 DEF Write
      <4>5. owner'[d] = "applying" /\ opening' = opening
        BY <1>1, <4>1 DEF Proceed, Go
      <4> QED BY <4>3, <4>4, <4>5 DEF Clean, Migrating
    <3>3. CASE owner[d] = "applying"
      <4>1. Proceed(d, "settling") /\ Write(d, [before EXCEPT !.table = TRUE])
        BY <1>1, <1>4, <3>3 DEF Progress
      <4>2. after = [before EXCEPT !.table = TRUE]
        BY <1>0, <1>1, <4>1 DEF Write
      <4>3. after.rows = before.rows /\ after.table
        BY <3>0, <4>2 DEF Database
      <4>4. \A place \in {"memory", "file"} : place # here => database'[place] = database[place]
        BY <1>0, <1>1, <4>1 DEF Write
      <4>5. owner'[d] = "settling" /\ opening' = opening
        BY <1>1, <4>1 DEF Proceed, Go
      <4> QED BY <4>3, <4>4, <4>5 DEF Clean, Migrating
    <3>4. CASE owner[d] = "settling"
      <4>1. Succeed(d) /\ Write(d, [before EXCEPT !.dirty = FALSE])
        BY <1>1, <1>4, <3>4 DEF Progress
      <4>2. after = [before EXCEPT !.dirty = FALSE]
        BY <1>0, <1>1, <4>1 DEF Write
      <4>3. after.rows = before.rows /\ after.table = before.table /\ before.table
        BY <1>1, <3>0, <3>4, <4>2 DEF Database, DataOK
      <4>4. \A place \in {"memory", "file"} : place # here => database'[place] = database[place]
        BY <1>0, <1>1, <4>1 DEF Write
      <4>5. owner'[d] = "open"
        BY <1>1, <4>1 DEF Succeed, Go
      <4> QED BY <4>3, <4>4, <4>5 DEF Clean, Migrating
    <3> QED BY <1>4, <3>1, <3>2, <3>3, <3>4 DEF Progress
  <2> HIDE DEF before, after
  <2>2. \A place \in {"memory", "file"} :
            /\ database[place].table => database'[place].table
            /\ database[place].rows = database'[place].rows
            /\ Clean(place)'
    <3> SUFFICES ASSUME NEW place \in {"memory", "file"}
                 PROVE  /\ database[place].table => database'[place].table
                        /\ database[place].rows = database'[place].rows
                        /\ Clean(place)'
      OBVIOUS
    <3>1. CASE place = here
      BY <2>1, <3>1 DEF before, after
    <3>2. CASE place # here
      BY <2>1, <3>2 DEF PoolInv, Clean
    <3> QED BY <3>1, <3>2
  <2>3. DataOK(d)'
    <3>1. Schema(d)' = after
      BY <1>0, <1>1 DEF Schema, after
    <3>2. Opened(d)' /\ config'[d].autoMigrate => after.table
      <4>1. Opened(d)' => Opened(d) \/ owner'[d] = "open"
        BY <1>1, <2>1 DEF Opened
      <4> QED BY <1>1, <2>1, <4>1 DEF DataOK, before
    <3>3. Opened(d)' /\ handle'[d] \in wrote' => handle'[d] \in after.rows
      <4>1. ~ opening[d] => Opened(d)
        BY <1>1 DEF Opened
      <4> QED BY <1>1, <2>1, <4>1 DEF DataOK, before
    <3> QED BY <2>1, <3>1, <3>2, <3>3 DEF DataOK
  <2>4. ASSUME NEW e \in Db \ {d}
        PROVE  DataOK(e)'
    <3>1. PICK place : place = home[handle[e]]
      OBVIOUS
    <3>2. Serving(e) => place \in {"memory", "file"}
      BY <3>1 DEF PoolInv, Shape, TypeOK, LifeOK, Serving, Migrating
    <3>3. DataOK(e)
      BY DEF PoolInv
    <3> QED BY <1>1, <1>2, <2>2, <3>1, <3>2, <3>3, DataStands
  <2>5. FileKeepsRows'
    BY <1>1, <2>2 DEF PoolInv, FileKeepsRows
  <2> QED BY <2>2, <2>3, <2>4, <2>5 DEF PoolInv
<1> QED
  BY <1>3, <1>4 DEF Up

\* Where all the connections of a DB that closes, or of any pool, may go.
LEMMA KeepData ==
    ASSUME PoolInv, Shape', Alive', config' = config, wrote' = wrote,
           \A k \in Pool : home'[k] = home[k],
           NEW databases \in [{"memory", "file"} -> Database], databases = database,
           Keep(databases),
           NEW movers \in SUBSET Db, \A d \in movers : DataOK(d)',
           \A e \in Db \ movers :
               owner'[e] = owner[e] /\ opening'[e] = opening[e] /\ handle'[e] = handle[e]
    PROVE  PoolInv'
<1>1. ASSUME NEW e \in Db \ movers
      PROVE  DataOK(e)'
  <2>1. PICK place : place = home[handle[e]]
    OBVIOUS
  <2>2. Serving(e) => home'[handle[e]] = place /\ database'[place] = database[place]
    <3> SUFFICES ASSUME Serving(e)
                 PROVE  home'[handle[e]] = place /\ database'[place] = database[place]
      OBVIOUS
    <3>1. Serving(e)'
      BY DEF Serving
    <3>2. handle[e] \in Pool
      BY DEF PoolInv, Shape, TypeOK, LifeOK, Serving, Migrating
    <3> QED BY <2>1, <3>1, <3>2, KeepHolds
  <2>3. DataOK(e)
    BY DEF PoolInv
  <2> QED BY <2>1, <2>2, <2>3, DataStands
<1>2. ASSUME NEW e \in Db
      PROVE  DataOK(e)'
  BY <1>1
<1>3. \A place \in {"memory", "file"} : Clean(place)'
  BY KeepHolds DEF PoolInv, Clean, Empty
<1>4. FileKeepsRows'
  BY KeepHolds DEF PoolInv, FileKeepsRows, Shape, TypeOK
<1> QED
  BY <1>2, <1>3, <1>4 DEF PoolInv

\* A DB that is closed is not served, and takes no other's database along.
LEMMA ClosePoolData ==
    ASSUME PoolInv, Shape', Alive', NEW d \in Db, ClosePool(d)
    PROVE  PoolInv'
<1>1. /\ config' = config /\ wrote' = wrote /\ home' = home /\ Keep(database)
      /\ owner'[d] = "closed" /\ ~ opening'[d]
      /\ \A e \in Db \ {d} :
             owner'[e] = owner[e] /\ opening'[e] = opening[e] /\ handle'[e] = handle[e]
  BY DEF ClosePool, Go, pools, callers, PoolInv, Shape, TypeOK
<1>2. DataOK(d)'
  BY <1>1 DEF DataOK, Opened, Migrating
<1>3. database \in [{"memory", "file"} -> Database]
  BY DEF PoolInv, Shape, TypeOK
<1>4. PICK databases \in [{"memory", "file"} -> Database] : databases = database /\ Keep(databases)
  BY <1>1, <1>3 DEF Keep
<1>5. {d} \in SUBSET Db /\ \A e \in {d} : DataOK(e)'
  BY <1>2
<1> QED
  BY <1>1, <1>4, <1>5, KeepData

\* Dropping an idle connection keeps the data of every open DB.
LEMMA RetireData ==
    ASSUME PoolInv, Shape', Alive', NEW k \in Pool, Retire(k)
    PROVE  PoolInv'
<1>1. /\ config' = config /\ wrote' = wrote /\ home' = home /\ Keep(database)
      /\ owner' = owner /\ opening' = opening /\ handle' = handle
  BY DEF Retire, lifecycle, pools, callers
<1>2. database \in [{"memory", "file"} -> Database]
  BY DEF PoolInv, Shape, TypeOK
<1>3. PICK databases \in [{"memory", "file"} -> Database] : databases = database /\ Keep(databases)
  BY <1>1, <1>2 DEF Keep
<1>4. {} \in SUBSET Db /\ \A e \in {} : DataOK(e)'
  OBVIOUS
<1> QED
  BY <1>1, <1>3, <1>4, KeepData

\* A statement writes its row on the database of its pool, or nothing.
LEMMA FinishData ==
    ASSUME PoolInv, Shape', Alive', NEW c \in Caller, Finish(c)
    PROVE  PoolInv'
<1>0. PICK k \in Pool : k = pool[c]
  BY DEF PoolInv, Shape, TypeOK, CallersOK, Finish
<1>1. UNCHANGED <<config, owner, opening, handle, home>>
  BY DEF Finish, lifecycle, pools
<1>2. /\ database \in [{"memory", "file"} -> Database]
      /\ home[k] \in {"memory", "file"}
  BY DEF PoolInv, Shape, TypeOK
<1>3. CASE UNCHANGED wrote /\ Keep(database)
  <2>1. PICK databases \in [{"memory", "file"} -> Database] : databases = database /\ Keep(databases)
    BY <1>2, <1>3 DEF Keep
  <2>2. {} \in SUBSET Db /\ \A e \in {} : DataOK(e)'
    OBVIOUS
  <2> QED BY <1>1, <1>3, <2>1, <2>2, KeepData
<1>4. CASE /\ wrote' = wrote \cup {k}
           /\ Keep([database EXCEPT ![home[k]] = WithRow(@, k)])
  <2>1. [database EXCEPT ![home[k]] = WithRow(@, k)] \in [{"memory", "file"} -> Database]
    BY <1>2, WithRowType
  <2>2. PICK databases \in [{"memory", "file"} -> Database] :
            /\ databases = [database EXCEPT ![home[k]] = WithRow(@, k)]
            /\ Keep(databases)
    BY <1>4, <2>1 DEF Keep
  <2>3. /\ databases[home[k]].rows = database[home[k]].rows \cup {k}
        /\ databases[home[k]].table = database[home[k]].table
        /\ databases[home[k]].version = database[home[k]].version
        /\ databases[home[k]].dirty = database[home[k]].dirty
        /\ \A place \in {"memory", "file"} : place # home[k] => databases[place] = database[place]
    BY <1>2, <2>2, WithRowType
  <2>4. /\ database'["file"] = databases["file"]
        /\ \A place \in {"memory", "file"} : database'[place] \in {databases[place], Empty}
        /\ \A e \in Db : Serving(e)' =>
              /\ home'[handle'[e]] \in {"memory", "file"}
              /\ database'[home'[handle'[e]]] = databases[home'[handle'[e]]]
    BY <2>2, KeepHolds
  <2>5. \A place \in {"memory", "file"} : Clean(place)'
    <3> SUFFICES ASSUME NEW place \in {"memory", "file"}
                 PROVE  Clean(place)'
      OBVIOUS
    <3>1. Clean(place)
      BY DEF PoolInv
    <3>2. CASE database'[place] = databases[place]
      BY <2>3, <3>1, <3>2 DEF Clean
    <3>3. CASE database'[place] = Empty
      BY <3>3 DEF Clean, Empty
    <3> QED BY <2>4, <3>2, <3>3
  <2>6. ASSUME NEW e \in Db
        PROVE  DataOK(e)'
    <3>1. PICK place : place = home[handle[e]]
      OBVIOUS
    <3>2. Serving(e) => /\ home'[handle[e]] = place
                        /\ database[place].table => database'[place].table
                        /\ database[place].rows \subseteq database'[place].rows
                        /\ handle[e] \in wrote' \ wrote => handle[e] \in database'[place].rows
      <4> SUFFICES ASSUME Serving(e)
                   PROVE  /\ home'[handle[e]] = place
                          /\ database[place].table => database'[place].table
                          /\ database[place].rows \subseteq database'[place].rows
                          /\ handle[e] \in wrote' \ wrote => handle[e] \in database'[place].rows
        OBVIOUS
      <4>1. Serving(e)'
        BY <1>1 DEF Serving
      <4>2. home'[handle[e]] = place /\ place \in {"memory", "file"} /\ database'[place] = databases[place]
        BY <1>1, <2>4, <3>1, <4>1
      <4> QED BY <1>4, <2>3, <3>1, <4>2
    <3>3. DataOK(e)
      BY DEF PoolInv
    <3> QED BY <1>1, <3>1, <3>2, <3>3, DataStands
  <2>7. FileKeepsRows'
    <3> SUFFICES ASSUME NEW j \in wrote', home[j] = "file"
                 PROVE  j \in database'["file"].rows
      BY <1>1 DEF FileKeepsRows
    <3>1. CASE j \in wrote
      <4>1. j \in database["file"].rows
        BY <3>1 DEF PoolInv, FileKeepsRows
      <4> QED BY <2>3, <2>4, <4>1
    <3>2. CASE j = k
      BY <2>3, <2>4, <3>2
    <3> QED BY <1>4, <3>1, <3>2
  <2> QED BY <2>5, <2>6, <2>7 DEF PoolInv
<1> QED
  BY <1>0, <1>3, <1>4 DEF Finish, Keep

\* With nothing opened yet, every database is empty.
LEMMA PoolInit == Init => PoolInv
<1> SUFFICES ASSUME Init
             PROVE  PoolInv
  OBVIOUS
<1>1. \A d \in Db : DataOK(d)
  BY DEF Init, DataOK, Opened, Migrating
<1>2. \A place \in {"memory", "file"} : Clean(place)
  BY DEF Init, Clean, Empty
<1>3. FileKeepsRows
  BY DEF Init, FileKeepsRows
<1> QED
  BY <1>1, <1>2, <1>3, ShapeInit DEF PoolInv

\* Every step keeps the invariant.
LEMMA PoolNext == PoolInv /\ Shape' /\ Alive' /\ [Next]_vars => PoolInv'
<1> SUFFICES ASSUME PoolInv, Shape', Alive', [Next]_vars
             PROVE  PoolInv'
  OBVIOUS
<1>1. ASSUME UNCHANGED <<lifecycle, pools, database, wrote>>
      PROVE  PoolInv'
  <2>1. UNCHANGED <<config, owner, opening, handle, home, database, wrote>>
    BY <1>1 DEF lifecycle, pools
  <2>2. \A d \in Db : DataOK(d)'
    BY <2>1 DEF PoolInv, DataOK, Opened, Schema
  <2> QED BY <2>1, <2>2 DEF PoolInv, Clean, FileKeepsRows
<1>2. ASSUME NEW c \in Caller, Handle(c) \/ Start(c)
      PROVE  PoolInv'
  BY <1>1, <1>2 DEF Handle, Start
<1>3. CASE UNCHANGED vars
  BY <1>1, <1>3 DEF vars, callers
<1> QED
  BY <1>2, <1>3, OpenData, OpenOwner, QuietOwner, UpData, ClosePoolData, FinishData, RetireData
  DEF Next, Quiescent

-----------------------------------------------------------------------------
(* The theorems.                                                           *)

\* The inductive invariant.
THEOREM PoolConsistent == Spec => []PoolInv
<1>1. Shape /\ [Next]_vars => Shape'
  BY ShapeNext
<1>2. Spec => []Shape
  BY <1>1, ShapeInit, PTL DEF Spec
<1>3. Spec => []Alive
  BY <1>2, ShapeAlive, PTL
<1> QED
  BY <1>2, <1>3, PoolInit, PoolNext, PTL DEF Spec

\* Every value keeps its type, and no pool has more connections than its
\* limit.
THEOREM TypeCorrect == Spec => []TypeOK
<1>1. PoolInv => TypeOK
  BY DEF PoolInv, Shape
<1> QED
  BY <1>1, PoolConsistent, PTL

\* From Open to Close, the schema that Open migrated and the rows written
\* through the DB are there.
THEOREM DatabasesLive == Spec => []DatabaseLives
<1>1. PoolInv => DatabaseLives
  BY DEF PoolInv, DataOK, FileKeepsRows, DatabaseLives
<1> QED
  BY <1>1, PoolConsistent, PTL

\* The cap and the keepalive leave an in-memory DB one working connection.
THEOREM WorkIsSerialized == Spec => []WorkSerialized
<1>1. PoolInv => WorkSerialized
  <2> SUFFICES ASSUME PoolInv, NEW d \in Db, Opened(d), config[d].memory, config[d].maxOpen = 0
               PROVE  Cardinality(Running(handle[d])) <= 1
    BY DEF WorkSerialized
  <2>1. Shape /\ LifeOK(d) /\ Serving(d) /\ owner[d] # "closed"
    BY DEF PoolInv, Shape, Opened, Serving, Migrating
  <2>2. PICK k \in Pool : k = handle[d]
    BY <2>1 DEF Shape, TypeOK, LifeOK
  <2>3. keepalive[d] /\ limit[k] = 2
    BY <2>1, <2>2 DEF LifeOK, Limit
  <2>4. Cardinality(Reserved(k)) = 1
    <3>1. PICK e : Reserved(k) = {e}
      BY <2>1, <2>2, <2>3, ReservedIs DEF Reserved
    <3> QED BY <3>1, FS_Singleton
  <2> QED BY <2>1, <2>2, <2>3, <2>4, Counts
<1> QED
  BY <1>1, PoolConsistent, PTL

\* Of a DB that is closed nothing is left, whichever step of Open failed.
THEOREM ClosedIsReleased == Spec => []ClosedReleases
<1>1. PoolInv => ClosedReleases
  BY DEF PoolInv, Shape, LifeOK, Drained, ClosedReleases, Migrating
<1> QED
  BY <1>1, PoolConsistent, PTL
=============================================================================
