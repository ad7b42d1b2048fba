------------------------------- MODULE DbPool -------------------------------
(***************************************************************************)
(* The database connections of a generation job (utils/django_client.py):  *)
(* the module-level pool, the cold-start wake-up and one DjangoAPIClient   *)
(* with its parallel fetches, next to a thread that persists a result      *)
(* through the pool without a client (saga.py _persist_results).           *)
(*                                                                         *)
(* The server may suspend itself: every open connection is dead from then  *)
(* on.  A connection is named by the address of its object; the address is *)
(* used again once no pool and no thread refers to the object.  Abstracted *)
(* away is _initialized_conn_ids: the settings of a connection.            *)
(*                                                                         *)
(* External, from psycopg2: a pool hands out an idle connection, else      *)
(* connects while it counts fewer than MaxConn, else raises PoolError; a   *)
(* connection it does not count is refused; beyond MinConn idle ones a     *)
(* returned connection is closed.                                          *)
(***************************************************************************)
EXTENDS Integers, FiniteSets, Sequences

CONSTANTS
  Fetcher,          \* the parallel _sync_query threads
  Address,          \* where connection objects may live
  MinConn, MaxConn, \* 5 and 15
  Tries, ExistingTries, WakeTries,   \* 3, 2 and 6
  MaxSleeps,        \* bound of the model: how often the server suspends itself
  NoAddress

ASSUME PoolSizesAssumption ==
  /\ MinConn \in Nat /\ MaxConn \in Nat \ {0} /\ MinConn <= MaxConn
  /\ {Tries, ExistingTries, WakeTries} \subseteq Nat \ {0}
  /\ NoAddress \notin Address

VARIABLE db

Client    == "client"      \* __init__ and close, with the primary connection
Persister == "persister"
PoolUser  == Fetcher \union {Client, Persister}
NoPool    == 0

Worker(pc, then, stage, pool, conn, tries, why) ==
  [pc |-> pc, then |-> then, stage |-> stage, pool |-> pool, conn |-> conn,
   tries |-> tries, why |-> why]
Idle  == Worker("idle", "none", "none", NoPool, NoAddress, 0, "none")
Ended == [Idle EXCEPT !.pc = "done"]

-----------------------------------------------------------------------------
Held(d)  == {d.th[t].conn : t \in PoolUser} \ {NoAddress}
Counted(d) == UNION {d.pools[p].idle \union d.pools[p].used : p \in DOMAIN d.pools}
Free(d)  == Address \ (Held(d) \union Counted(d))

(* What connect() leaves at an address: a server that is suspended may     *)
(* still accept the connection and not answer on it.                       *)
Connected(d, S) ==
  [d EXCEPT !.open = @ \union S,
            !.live = IF d.server = "asleep" THEN @ ELSE @ \union S]
Closed(d, a) == [d EXCEPT !.open = @ \ {a}, !.live = @ \ {a}]

Repooled(d, p, idle, used) == [d EXCEPT !.pools[p] = [idle |-> idle, used |-> used]]

(* pool.putconn(c, close); guarded by Keyed.                               *)
Keyed(d, p, c) == p \in DOMAIN d.pools /\ c \in d.pools[p].used
PutConn(d, p, c, close) ==
  LET pool == d.pools[p]
  IN IF ~close /\ Cardinality(pool.idle) < MinConn
     THEN Repooled(d, p, pool.idle \union {c}, pool.used \ {c})
     ELSE Closed(Repooled(d, p, pool.idle, pool.used \ {c}), c)

(* Thread t goes on as w.                                                  *)
Turn(d, t, w)  == [d EXCEPT !.th[t] = w]
Goto(d, t, pc) == Turn(d, t, [d.th[t] EXCEPT !.pc = pc])

(* The thread asks the pool p for a connection, tries times.               *)
Asks(w, stage, p, tries) ==
  [w EXCEPT !.pc = "get", !.stage = stage, !.pool = p, !.tries = tries]

-----------------------------------------------------------------------------
DbInit ==
  \E server \in {"awake", "asleep"} :
    db = [server |-> server, sleeps |-> IF server = "asleep" THEN 1 ELSE 0,
          current |-> NoPool, pools |-> <<>>, open |-> {}, live |-> {}, lock |-> {},
          rebuilt |-> 0, clientPool |-> NoPool, primaryPool |-> NoPool,
          th |-> [t \in PoolUser |-> Idle]]

Suspend ==
  /\ db.server = "awake" /\ db.sleeps < MaxSleeps
  /\ db' = [db EXCEPT !.server = "asleep", !.sleeps = @ + 1, !.rebuilt = 0, !.live = {}]

Resume == db.server = "asleep" /\ db' = [db EXCEPT !.server = "awake"]

(* DjangoAPIClient.__init__ and the persisting thread ask for the pool;    *)
(* fetches start once the client exists.                                   *)
StartClient ==
  \E t \in {Client, Persister} :
    /\ db.th[t].pc = "idle"
    /\ db' = Turn(db, t, [db.th[t] EXCEPT !.pc = "pool", !.then = "borrow"])

StartFetch ==
  \E t \in Fetcher :
    /\ db.th[t].pc = "idle" /\ db.th[Client].pc = "ready"
    /\ db' = Turn(db, t, Asks(db.th[t], "fast", db.clientPool, Tries))

(* _get_db_pool, up to leaving the lock: a missing pool is created with    *)
(* MinConn connections.  Bound of the model: it needs as many free         *)
(* addresses.                                                              *)
LookUpPool ==
  \E t \in PoolUser :
    /\ db.th[t].pc = "pool"
    /\ \/ db.current # NoPool /\ db' = Goto(db, t, "poolReturn")
       \/ /\ db.current = NoPool
          /\ \E S \in SUBSET Free(db) :
               /\ Cardinality(S) = MinConn
               /\ db' = [Goto(Connected(db, S), t, "poolReturn") EXCEPT
                           !.current = Len(db.pools) + 1,
                           !.pools = Append(@, [idle |-> S, used |-> {}])]

(* The thread gives up; a lock it holds is released.                       *)
GivenUp(d, t) ==
  [Turn(d, t, [Idle EXCEPT !.pc = "failed"]) EXCEPT !.lock = @ \ {t}]

(* Connecting fails while the server is suspended.                         *)
CreatePoolFails ==
  \E t \in PoolUser :
    /\ db.th[t].pc = "pool" /\ db.current = NoPool
    /\ db.server = "asleep" /\ MinConn > 0
    /\ \/ /\ db.th[t].then = "give"
          /\ db' = Closed(Turn(db, t, Ended), db.th[t].conn)
       \/ /\ db.th[t].then = "adopt"
          /\ db' = Goto(db, t, "failed")      \* with its connection
       \/ /\ db.th[t].then \notin {"give", "adopt"}
          /\ db' = GivenUp(db, t)

(* ... and the global is read again after the lock was left.               *)
ReturnPool ==
  \E t \in PoolUser :
    LET w == db.th[t]
        got == db.current
    IN /\ w.pc = "poolReturn"
       /\ \/ /\ w.then = "borrow"
             /\ db' = [Turn(db, t, Asks(w, "fast", got, Tries)) EXCEPT
                         !.clientPool = IF t = Client THEN got ELSE @]
          \/ /\ w.then = "fresh"
             /\ db' = Turn(db, t, Asks(w, "fresh", got, WakeTries))
          \/ /\ w.then = "adopt"       \* self._pool = _get_db_pool()
             /\ db' = [Goto(db, t, IF t = Client THEN "ready" ELSE "using") EXCEPT
                         !.clientPool = got,
                         !.primaryPool = IF t = Client THEN got ELSE @]
          \/ /\ w.then = "give"        \* _get_db_pool().putconn(db_conn), else close
             /\ db' = IF Keyed(db, got, w.conn)
                      THEN PutConn(Turn(db, t, Ended), got, w.conn, FALSE)
                      ELSE Closed(Turn(db, t, Ended), w.conn)

-----------------------------------------------------------------------------
(* One attempt of the stage a thread is in failed: the next attempt, or    *)
(* what the stage's caller does with the OperationalError.                 *)
StageFails(d, t) ==
  CASE d.th[t].stage = "fast" /\ t # Persister -> Goto(d, t, "lock")
    [] d.th[t].stage = "existing"              -> Goto(d, t, "reset")
    [] OTHER                                   -> GivenUp(d, t)

Tried(w, why) ==
  [w EXCEPT !.tries = @ - 1, !.why = why, !.conn = NoAddress, !.pc = "get"]

AttemptFails(d, t, why) ==
  LET e == Turn(d, t, Tried(d.th[t], why))
  IN IF e.th[t].tries = 0 THEN StageFails(e, t) ELSE e

(* pool.getconn() in _get_healthy_conn and _wake_db_and_get_conn.          *)
Gets(d, t, c) ==
  LET w == d.th[t]
      pool == d.pools[w.pool]
  IN Turn(Repooled(d, w.pool, pool.idle \ {c}, pool.used \union {c}),
          t, [w EXCEPT !.pc = "ping", !.conn = c])

GetConn ==
  \E t \in PoolUser :
    /\ db.th[t].pc = "get" /\ db.th[t].pool # NoPool
    /\ LET pool == db.pools[db.th[t].pool]
       IN \/ \E c \in pool.idle : db' = Gets(db, t, c)
          \/ /\ pool.idle = {} /\ Cardinality(pool.used) < MaxConn
             /\ \E c \in Free(db) : db' = Gets(Connected(db, {c}), t, c)
          \/ /\ pool.idle = {} /\ Cardinality(pool.used) >= MaxConn
             /\ db' = AttemptFails(db, t, "exhausted")

(* connect() raises OperationalError, which ends the stage at once.        *)
ConnectFails ==
  \E t \in PoolUser :
    /\ db.th[t].pc = "get" /\ db.th[t].pool # NoPool /\ db.server = "asleep"
    /\ db.pools[db.th[t].pool].idle = {}
    /\ Cardinality(db.pools[db.th[t].pool].used) < MaxConn
    /\ db' = StageFails(Turn(db, t, [db.th[t] EXCEPT !.why = "stale"]), t)

(* None.getconn(): the pool was nulled between two reads.                  *)
PoolGone ==
  \E t \in PoolUser :
    /\ db.th[t].pc = "get" /\ db.th[t].pool = NoPool
    /\ db' = GivenUp(db, t)

InUse(d, t, pc, then) ==
  Turn(d, t, Worker(pc, then, "none", NoPool, d.th[t].conn, 0, "none"))

(* _ping_conn and _init_conn; a dead connection is discarded.              *)
Ping ==
  \E t \in PoolUser :
    LET w == db.th[t]
        c == w.conn
    IN /\ w.pc = "ping"
       /\ \/ /\ c \notin db.live
             /\ db' = AttemptFails(PutConn(db, w.pool, c, TRUE), t, "stale")
          \/ /\ c \in db.live /\ w.stage # "fast"
             /\ db' = [InUse(db, t, "pool", "adopt") EXCEPT !.lock = @ \ {t}]
          \/ /\ c \in db.live /\ w.stage = "fast" /\ t = Client
             /\ db' = [InUse(db, t, "ready", "none") EXCEPT !.primaryPool = db.clientPool]
          \/ /\ c \in db.live /\ w.stage = "fast" /\ t # Client
             /\ db' = InUse(db, t, "using", "none")

-----------------------------------------------------------------------------
(* Mutant: the winner's pool is not tried first.                           *)
EnterWakeAlone ==
  \E t \in PoolUser :
    /\ db.th[t].pc = "lock" /\ db.lock = {}
    /\ db' = [Goto(db, t, "reset") EXCEPT !.lock = {t}]

(* _wake_db_and_get_conn: under the lock first the pool that may have been *)
(* rebuilt meanwhile ...                                                   *)
EnterWake ==
  \E t \in PoolUser :
    /\ db.th[t].pc = "lock" /\ db.lock = {}
    /\ \/ /\ db.current = NoPool
          /\ db' = [Goto(db, t, "reset") EXCEPT !.lock = {t}]
       \/ /\ db.current # NoPool
          /\ db' = [Turn(db, t, Asks(db.th[t], "existing", db.current, ExistingTries))
                      EXCEPT !.lock = {t}]

(* ... then _reset_pool: the old pool is left to those who use it.         *)
(* rebuilt, a history: this happened since the server last answered.       *)
ResetPool ==
  \E t \in PoolUser :
    /\ db.th[t].pc = "reset"
    /\ db' = [Turn(db, t, [db.th[t] EXCEPT !.pc = "pool", !.then = "fresh"]) EXCEPT
                !.current = NoPool,
                !.rebuilt = IF db.server = "asleep" THEN 0 ELSE 1]

(* Mutant: a connection the pool refuses is only reported.                 *)
ReturnedOrDropped(d, t, p, noticed) ==
  LET c == d.th[t].conn
      e == Turn(d, t, Ended)
  IN IF Keyed(e, p, c) THEN PutConn(e, p, c, noticed)
     ELSE e

(* _return_conn(conn, pool): a connection the pool refuses is closed here. *)
Returned(d, t, p, noticed) ==
  LET c == d.th[t].conn
      e == Turn(d, t, Ended)
  IN IF Keyed(e, p, c) THEN PutConn(e, p, c, noticed)
     ELSE Closed(e, c)

(* The query ended; psycopg2 may have noticed that the connection died.    *)
ReturnFetch ==
  \E t \in Fetcher, noticed \in BOOLEAN :
    /\ db.th[t].pc = "using" /\ (noticed => db.th[t].conn \notin db.live)
    /\ db' = Returned(db, t, db.clientPool, noticed)

CloseClient ==      \* after asyncio.gather, or once a fetch has failed
  \E noticed \in BOOLEAN :
    /\ db.th[Client].pc = "ready" /\ (noticed => db.th[Client].conn \notin db.live)
    /\ \/ \A t \in Fetcher : db.th[t].pc \in {"done", "failed"}
       \/ \E t \in Fetcher : db.th[t].pc = "failed"
    /\ db' = Returned(db, Client, db.primaryPool, noticed)

PersistDone ==
  /\ db.th[Persister].pc = "using"
  /\ db' = Turn(db, Persister, [db.th[Persister] EXCEPT !.pc = "pool", !.then = "give"])

DbNext == \/ Suspend \/ Resume \/ StartClient \/ StartFetch \/ LookUpPool
          \/ CreatePoolFails \/ ReturnPool \/ GetConn \/ ConnectFails \/ PoolGone
          \/ Ping \/ EnterWake \/ ResetPool \/ ReturnFetch \/ CloseClient
          \/ PersistDone

DbSpec == DbInit /\ [][DbNext]_db

-----------------------------------------------------------------------------
(* _wake_db_and_get_conn: "the winner already rebuilt it, they borrow      *)
(* directly".  Once the pool has been replaced while the server answers,   *)
(* no thread that waited for the lock, looks the pool up or had given up   *)
(* on the old one throws the new pool away, until the server suspends      *)
(* itself again; only a pool that has run out of connections is replaced.  *)
AnsweringPoolKept ==
  db.rebuilt = 1 => \A t \in PoolUser : db.th[t].pc = "reset" => db.th[t].why = "exhausted"

(* When everyone has ended, whatever failed and however often the pool was *)
(* replaced in between, an open connection is an idle one of some pool; but *)
(* a thread that got one and then fails to look up the new pool keeps it.  *)
NoConnectionLost ==
  (\A t \in PoolUser : db.th[t].pc \in {"done", "failed"}) =>
    \A a \in db.open \ Held(db) : \E p \in DOMAIN db.pools : a \in db.pools[p].idle
=============================================================================
