---------------------------- MODULE DbPool_proofs ----------------------------
(***************************************************************************)
(* NoConnectionLost and AnsweringPoolKept for any number of threads,       *)
(* connections, attempts and suspensions of the server.                    *)
(***************************************************************************)
EXTENDS DbPool, SequenceTheorems, TLAPS

Control == {"idle", "pool", "poolReturn", "get", "ping", "lock", "reset", "using", "ready",
            "done", "failed"}

PoolRecord == [idle : SUBSET Address, used : SUBSET Address]

WorkerState ==
  [pc : Control, then : {"none", "borrow", "fresh", "adopt", "give"},
   stage : {"none", "fast", "existing", "fresh"}, pool : Nat, conn : Address \union {NoAddress},
   tries : Int, why : {"none", "stale", "exhausted"}]

DbState ==
  [server : {"awake", "asleep"}, sleeps : Nat, current : Nat, pools : Seq(PoolRecord),
   open : SUBSET Address, live : SUBSET Address, lock : SUBSET PoolUser, rebuilt : {0, 1},
   clientPool : Nat, primaryPool : Nat, th : [PoolUser -> WorkerState]]

(* Every pool that is named exists.                                        *)
PoolsNamed(d) ==
  /\ d.current <= Len(d.pools)
  /\ d.clientPool <= Len(d.pools) /\ d.primaryPool <= Len(d.pools)
  /\ \A t \in PoolUser : d.th[t].pool <= Len(d.pools)

PoolTypeOK == db \in DbState /\ PoolsNamed(db)

-----------------------------------------------------------------------------
(* What the helpers of the actions do to a state.                          *)

SameRest(d, e) ==
  /\ e.server = d.server /\ e.sleeps = d.sleeps /\ e.current = d.current
  /\ e.rebuilt = d.rebuilt /\ e.clientPool = d.clientPool
  /\ e.primaryPool = d.primaryPool

(* The fields of a state have their types.                                 *)
LEMMA StateFields ==
  ASSUME NEW d \in DbState
  PROVE  /\ d.server \in {"awake", "asleep"} /\ d.sleeps \in Nat /\ d.current \in Nat
         /\ d.pools \in Seq(PoolRecord) /\ d.open \in SUBSET Address
         /\ d.live \in SUBSET Address /\ d.lock \in SUBSET PoolUser /\ d.rebuilt \in {0, 1}
         /\ d.clientPool \in Nat /\ d.primaryPool \in Nat
         /\ d.th \in [PoolUser -> WorkerState]
         /\ DOMAIN d.pools = 1..Len(d.pools) /\ Len(d.pools) \in Nat
         /\ \A p \in 1..Len(d.pools) : d.pools[p] \in PoolRecord
         /\ \A t \in PoolUser : d.th[t] \in WorkerState
BY DEF DbState

(* The fields of a pool.                                                   *)
LEMMA PoolFields ==
  ASSUME NEW r \in PoolRecord
  PROVE  r.idle \in SUBSET Address /\ r.used \in SUBSET Address
BY DEF PoolRecord

(* The fields of a thread.                                                 *)
LEMMA WorkerFields ==
  ASSUME NEW w \in WorkerState
  PROVE  /\ w.pc \in Control /\ w.then \in {"none", "borrow", "fresh", "adopt", "give"}
         /\ w.stage \in {"none", "fast", "existing", "fresh"} /\ w.pool \in Nat
         /\ w.conn \in Address \union {NoAddress} /\ w.tries \in Int
         /\ w.why \in {"none", "stale", "exhausted"}
BY DEF WorkerState

(* A thread that only moves on keeps all its other fields.                 *)
LEMMA GoesTo ==
  ASSUME NEW v \in WorkerState, NEW pc \in Control
  PROVE  LET w == [v EXCEPT !.pc = pc]
         IN /\ w \in WorkerState /\ w.pc = pc /\ w.then = v.then /\ w.stage = v.stage
            /\ w.pool = v.pool /\ w.conn = v.conn /\ w.tries = v.tries /\ w.why = v.why
BY DEF WorkerState

(* A thread written out field by field.                                    *)
LEMMA WorkerEffect ==
  ASSUME NEW pc \in Control, NEW then \in {"none", "borrow", "fresh", "adopt", "give"},
         NEW c \in Address \union {NoAddress}
  PROVE  LET w == Worker(pc, then, "none", NoPool, c, 0, "none")
         IN /\ w \in WorkerState /\ w.pc = pc /\ w.then = then /\ w.stage = "none"
            /\ w.pool = 0 /\ w.conn = c /\ w.tries = 0 /\ w.why = "none"
BY DEF WorkerState, Worker, NoPool

(* A thread that has nothing left.                                         *)
LEMMA IdleEffect ==
  ASSUME NEW pc \in Control
  PROVE  LET w == [Idle EXCEPT !.pc = pc]
         IN /\ w \in WorkerState /\ w.pc = pc /\ w.then = "none" /\ w.stage = "none"
            /\ w.pool = 0 /\ w.conn = NoAddress /\ w.tries = 0 /\ w.why = "none"
BY DEF Idle, Worker, WorkerState, Control, NoPool

(* A turn changes one thread.                                              *)
LEMMA TurnEffect ==
  ASSUME NEW d \in DbState, NEW t \in PoolUser, NEW w \in WorkerState
  PROVE  /\ Turn(d, t, w) \in DbState
         /\ Turn(d, t, w).th = [d.th EXCEPT ![t] = w]
         /\ Turn(d, t, w).pools = d.pools /\ Turn(d, t, w).open = d.open
         /\ Turn(d, t, w).live = d.live /\ Turn(d, t, w).lock = d.lock
         /\ SameRest(d, Turn(d, t, w))
BY DEF Turn, DbState, SameRest

(* Closing a connection takes it from the open ones and the live ones.     *)
LEMMA ClosedEffect ==
  ASSUME NEW d \in DbState, NEW a
  PROVE  /\ Closed(d, a) \in DbState
         /\ Closed(d, a).th = d.th /\ Closed(d, a).pools = d.pools
         /\ Closed(d, a).open = d.open \ {a} /\ Closed(d, a).live = d.live \ {a}
         /\ Closed(d, a).lock = d.lock /\ SameRest(d, Closed(d, a))
BY DEF Closed, DbState, SameRest

(* New connections are open, and live unless the server is suspended.      *)
LEMMA ConnectedEffect ==
  ASSUME NEW d \in DbState, NEW S \in SUBSET Address
  PROVE  /\ Connected(d, S) \in DbState
         /\ Connected(d, S).th = d.th /\ Connected(d, S).pools = d.pools
         /\ Connected(d, S).open = d.open \union S
         /\ Connected(d, S).live = IF d.server = "asleep" THEN d.live ELSE d.live \union S
         /\ Connected(d, S).lock = d.lock /\ SameRest(d, Connected(d, S))
BY DEF Connected, DbState, SameRest

(* Pool p has other connections in e than in d.                            *)
PoolChange(d, e, p, idle, used) ==
  /\ Len(e.pools) = Len(d.pools)
  /\ \A q \in DOMAIN d.pools : q # p => e.pools[q] = d.pools[q]
  /\ e.pools[p].idle = idle /\ e.pools[p].used = used

OnlyPool(d, e, p, idle, used) ==
  /\ e \in DbState /\ e.th = d.th /\ e.lock = d.lock /\ SameRest(d, e)
  /\ PoolChange(d, e, p, idle, used)

(* Repooled changes the connections of one pool.                           *)
LEMMA RepooledEffect ==
  ASSUME NEW d \in DbState, NEW p \in DOMAIN d.pools,
         NEW idle \in SUBSET Address, NEW used \in SUBSET Address
  PROVE  LET e == Repooled(d, p, idle, used)
         IN OnlyPool(d, e, p, idle, used) /\ e.open = d.open /\ e.live = d.live
<1> DEFINE r == [idle |-> idle, used |-> used]
           ps == [d.pools EXCEPT ![p] = r]
<1>0. r \in PoolRecord /\ r.idle = idle /\ r.used = used
  BY DEF PoolRecord
<1> HIDE DEF r
<1>1. ps \in Seq(PoolRecord) /\ Len(ps) = Len(d.pools)
      /\ \A q \in DOMAIN d.pools : ps[q] = IF q = p THEN r ELSE d.pools[q]
  BY <1>0, StateFields, ExceptSeq
<1> HIDE DEF ps
<1>2. [d EXCEPT !.pools = ps] \in DbState
  BY <1>1 DEF DbState
<1>3. Repooled(d, p, idle, used) = [d EXCEPT !.pools = ps]
  BY DEF Repooled, ps, r, DbState
<1> QED
  BY <1>0, <1>1, <1>2, <1>3 DEF DbState, SameRest, OnlyPool, PoolChange

(* A connection goes back to the pool that counts it, or it is closed.     *)
PutBack(d, e, p, c) ==
  \/ /\ PoolChange(d, e, p, d.pools[p].idle \union {c}, d.pools[p].used \ {c})
     /\ e.open = d.open /\ e.live = d.live
  \/ /\ PoolChange(d, e, p, d.pools[p].idle, d.pools[p].used \ {c})
     /\ e.open = d.open \ {c} /\ e.live = d.live \ {c}

(* putconn puts a connection of the pool back or closes it.                *)
LEMMA PutConnEffect ==
  ASSUME NEW d \in DbState, NEW p, NEW c, NEW close, Keyed(d, p, c)
  PROVE  LET e == PutConn(d, p, c, close)
         IN /\ e \in DbState /\ e.th = d.th /\ e.lock = d.lock /\ SameRest(d, e)
            /\ PutBack(d, e, p, c)
<1> DEFINE idle == d.pools[p].idle
           used == d.pools[p].used
           keep == Repooled(d, p, idle \union {c}, used \ {c})
           drop == Repooled(d, p, idle, used \ {c})
<1>1. p \in DOMAIN d.pools /\ idle \in SUBSET Address /\ used \in SUBSET Address
      /\ idle \union {c} \in SUBSET Address /\ used \ {c} \in SUBSET Address
  BY StateFields, PoolFields DEF Keyed
<1>2. \/ PutConn(d, p, c, close) = keep
      \/ PutConn(d, p, c, close) = Closed(drop, c)
  BY Zenon DEF PutConn
<1>3. /\ OnlyPool(d, drop, p, idle, used \ {c})
      /\ drop.open = d.open /\ drop.live = d.live
  BY <1>1, RepooledEffect, Zenon
<1>4. CASE PutConn(d, p, c, close) = keep
  <2>1. /\ OnlyPool(d, keep, p, idle \union {c}, used \ {c})
        /\ keep.open = d.open /\ keep.live = d.live
    BY <1>1, RepooledEffect, Zenon
  <2> QED
    BY <1>4, <2>1 DEF PutBack, OnlyPool
<1>5. CASE PutConn(d, p, c, close) = Closed(drop, c)
  <2> HIDE DEF drop
  <2>1. Closed(drop, c).open = d.open \ {c} /\ Closed(drop, c).live = d.live \ {c}
    BY <1>3, ClosedEffect DEF OnlyPool
  <2>2. OnlyPool(d, Closed(drop, c), p, idle, used \ {c})
    BY <1>3, ClosedEffect DEF OnlyPool, PoolChange, SameRest
  <2> QED
    BY <1>5, <2>1, <2>2 DEF PutBack, OnlyPool
<1> QED
  BY <1>2, <1>4, <1>5
-----------------------------------------------------------------------------
(* Where the connections are.  A thread that asks for a pool or for a      *)
(* connection has none; no two threads have the same; none is in two sets  *)
(* of the pools; a connection that is idle in a pool is no thread's.       *)
Asking(w) ==
  \/ w.pc \in {"idle", "get", "lock", "reset"}
  \/ w.pc \in {"pool", "poolReturn"} /\ w.then \notin {"adopt", "give"}

AskersHoldNothing(d) ==
  \A t \in PoolUser : Asking(d.th[t]) => d.th[t].conn = NoAddress

HeldOnce(d) ==
  \A t, u \in PoolUser :
    t # u /\ d.th[t].conn = d.th[u].conn => d.th[t].conn = NoAddress

IdleUnheld(d) ==
  \A p \in DOMAIN d.pools : \A t \in PoolUser : d.th[t].conn \notin d.pools[p].idle

PoolsApart(d) ==
  /\ \A p \in DOMAIN d.pools : d.pools[p].idle \cap d.pools[p].used = {}
  /\ \A p, q \in DOMAIN d.pools : p # q =>
       (d.pools[p].idle \union d.pools[p].used)
         \cap (d.pools[q].idle \union d.pools[q].used) = {}

PingedIsUsed(d) ==
  \A t \in PoolUser : d.th[t].pc = "ping" =>
    d.th[t].pool \in DOMAIN d.pools /\ d.th[t].conn \in d.pools[d.th[t].pool].used

(* An open connection is held or idle: this is what makes NoConnectionLost *)
(* hold when nobody is left to return one.                                 *)
OpenIsHeldOrIdle(d) ==
  \A a \in d.open : \/ \E t \in PoolUser : d.th[t].conn = a
                    \/ \E p \in DOMAIN d.pools : a \in d.pools[p].idle

Accounted(d) ==
  /\ AskersHoldNothing(d) /\ HeldOnce(d) /\ IdleUnheld(d) /\ PoolsApart(d)
  /\ PingedIsUsed(d) /\ OpenIsHeldOrIdle(d)

(* In e, t has gone on as w.                                               *)
Moves(d, e, t, w) ==
  /\ e.th[t] = w
  /\ \A u \in PoolUser : u # t => e.th[u] = d.th[u]

(* Connections stay accounted for: a thread goes on with what it has ...   *)
LEMMA KeepsConnection ==
  ASSUME NEW d \in DbState, NEW e \in DbState, Accounted(d),
         NEW t \in PoolUser, NEW w \in WorkerState, Moves(d, e, t, w),
         w.conn = d.th[t].conn, Asking(w) => w.conn = NoAddress, w.pc # "ping",
         e.pools = d.pools, e.open = d.open
  PROVE  Accounted(e)
<1>1. \A u \in PoolUser : e.th[u].conn = d.th[u].conn
  BY DEF Moves
<1> QED
  BY <1>1 DEF Accounted, Moves, AskersHoldNothing, HeldOnce, IdleUnheld, PoolsApart,
              PingedIsUsed, OpenIsHeldOrIdle

(* ... closes its connection ...                                           *)
LEMMA Closes ==
  ASSUME NEW d \in DbState, NEW e \in DbState, Accounted(d),
         NEW t \in PoolUser, NEW w \in WorkerState, Moves(d, e, t, w),
         w.conn = NoAddress, w.pc # "ping",
         e.pools = d.pools, e.open = d.open \ {d.th[t].conn}
  PROVE  Accounted(e)
<1>1. \A u \in PoolUser : e.th[u].conn = IF u = t THEN NoAddress ELSE d.th[u].conn
  BY DEF Moves
<1>2. NoAddress \notin Address /\ \A p \in DOMAIN d.pools : d.pools[p].idle \subseteq Address
  BY PoolSizesAssumption, StateFields, PoolFields
<1> QED
  BY <1>1, <1>2 DEF Accounted, Moves, AskersHoldNothing, HeldOnce, IdleUnheld, PoolsApart,
              PingedIsUsed, OpenIsHeldOrIdle

(* ... gives it back to the pool that counts it ...                        *)
LEMMA GivesBack ==
  ASSUME NEW d \in DbState, NEW e \in DbState, Accounted(d),
         NEW t \in PoolUser, NEW w \in WorkerState, Moves(d, e, t, w),
         w.conn = NoAddress, w.pc # "ping",
         NEW p \in DOMAIN d.pools, d.th[t].conn \in d.pools[p].used,
         PutBack(d, e, p, d.th[t].conn)
  PROVE  Accounted(e)
<1> DEFINE c == d.th[t].conn
<1>1. \A u \in PoolUser : e.th[u].conn = IF u = t THEN NoAddress ELSE d.th[u].conn
  BY DEF Moves
<1>2. /\ NoAddress \notin Address /\ c \in Address /\ DOMAIN e.pools = DOMAIN d.pools
      /\ \A q \in DOMAIN d.pools : d.pools[q].idle \subseteq Address
  BY PoolSizesAssumption, StateFields, PoolFields DEF PutBack, PoolChange
<1>3. /\ \A q \in DOMAIN d.pools : q # p => e.pools[q] = d.pools[q]
      /\ e.pools[p].used = d.pools[p].used \ {c}
      /\ \/ e.pools[p].idle = d.pools[p].idle \union {c} /\ e.open = d.open
         \/ e.pools[p].idle = d.pools[p].idle /\ e.open = d.open \ {c}
  BY DEF PutBack, PoolChange
<1>4. \A u \in PoolUser : u # t => d.th[u].conn # c
  BY <1>2, PoolSizesAssumption DEF Accounted, HeldOnce
<1> HIDE DEF c
<1>5. AskersHoldNothing(e) /\ HeldOnce(e)
  BY <1>1 DEF Accounted, Moves, AskersHoldNothing, HeldOnce
<1>6. IdleUnheld(e)
  BY <1>1, <1>2, <1>3, <1>4 DEF Accounted, IdleUnheld
<1>7. PoolsApart(e)
  BY <1>2, <1>3 DEF Accounted, PoolsApart, c
<1>8. PingedIsUsed(e)
  BY <1>2, <1>3, <1>4 DEF Accounted, PingedIsUsed, Moves
<1>9. OpenIsHeldOrIdle(e)
  <2> SUFFICES ASSUME NEW a \in e.open,
                      \A p_1 \in DOMAIN e.pools : a \notin e.pools[p_1].idle
               PROVE  \E u \in PoolUser : e.th[u].conn = a
    BY DEF OpenIsHeldOrIdle
  <2>1. a \in d.open /\ a # c
    BY <1>2, <1>3
  <2>2. \A q \in DOMAIN d.pools : a \notin d.pools[q].idle
    BY <1>2, <1>3
  <2>3. PICK u \in PoolUser : d.th[u].conn = a
    BY <2>1, <2>2 DEF Accounted, OpenIsHeldOrIdle
  <2> QED
    BY <1>1, <2>1, <2>3 DEF c
<1> QED
  BY <1>5, <1>6, <1>7, <1>8, <1>9 DEF Accounted

(* A free address is no thread's and in no pool.                           *)
LEMMA FreeIsNowhere ==
  ASSUME NEW d \in DbState, NEW c \in Free(d)
  PROVE  /\ c \in Address /\ \A t \in PoolUser : d.th[t].conn # c
         /\ \A p \in DOMAIN d.pools : c \notin d.pools[p].idle /\ c \notin d.pools[p].used
<1>1. c \in Address /\ c \notin Held(d) /\ c \notin Counted(d) /\ c # NoAddress
  BY PoolSizesAssumption DEF Free
<1>2. \A t \in PoolUser : d.th[t].conn # c
  BY <1>1 DEF Held
<1>3. \A p \in DOMAIN d.pools : c \notin d.pools[p].idle \union d.pools[p].used
  BY <1>1 DEF Counted
<1> QED
  BY <1>1, <1>2, <1>3

(* ... takes an idle connection or a new one ...                           *)
LEMMA Takes ==
  ASSUME NEW d \in DbState, NEW e \in DbState, Accounted(d),
         NEW t \in PoolUser, NEW w \in WorkerState, Moves(d, e, t, w),
         NEW p \in DOMAIN d.pools, NEW c \in Address,
         w.conn = c, w.pc = "ping", w.pool = p, d.th[t].conn = NoAddress,
         PoolChange(d, e, p, d.pools[p].idle \ {c}, d.pools[p].used \union {c}),
         \/ c \in d.pools[p].idle /\ e.open = d.open
         \/ c \in Free(d) /\ e.open = d.open \union {c}
  PROVE  Accounted(e)
<1>1. \A u \in PoolUser : e.th[u].conn = IF u = t THEN c ELSE d.th[u].conn
  BY DEF Moves
<1>2. DOMAIN e.pools = DOMAIN d.pools /\ c # NoAddress
  BY StateFields, PoolSizesAssumption DEF PoolChange
<1>3. /\ \A q \in DOMAIN d.pools : q # p => e.pools[q] = d.pools[q]
      /\ e.pools[p].used = d.pools[p].used \union {c}
      /\ e.pools[p].idle = d.pools[p].idle \ {c}
  BY DEF PoolChange
<1>4. /\ \A u \in PoolUser : d.th[u].conn # c
      /\ \A q \in DOMAIN d.pools : q # p => c \notin d.pools[q].idle \union d.pools[q].used
  BY FreeIsNowhere DEF Accounted, IdleUnheld, PoolsApart
<1>5. AskersHoldNothing(e) /\ HeldOnce(e)
  BY <1>1, <1>4 DEF Accounted, Moves, AskersHoldNothing, HeldOnce, Asking
<1>6. IdleUnheld(e)
  BY <1>1, <1>2, <1>3, <1>4 DEF Accounted, IdleUnheld
<1>7. PoolsApart(e)
  BY <1>2, <1>3, <1>4 DEF Accounted, PoolsApart
<1>8. PingedIsUsed(e)
  BY <1>2, <1>3, <1>4 DEF Accounted, PingedIsUsed, Moves
<1>9. OpenIsHeldOrIdle(e)
  <2> SUFFICES ASSUME NEW a \in e.open, a # c
               PROVE  \/ \E u \in PoolUser : e.th[u].conn = a
                      \/ \E q \in DOMAIN e.pools : a \in e.pools[q].idle
    BY <1>1 DEF OpenIsHeldOrIdle
  <2>1. a \in d.open /\ \A q \in DOMAIN d.pools : a \in d.pools[q].idle => a \in e.pools[q].idle
    BY <1>3
  <2>2. a = NoAddress \/ \A u \in PoolUser : d.th[u].conn = a => e.th[u].conn = a
    BY <1>1
  <2>3. a # NoAddress
    BY <2>1, StateFields, PoolSizesAssumption
  <2> QED
    BY <1>2, <2>1, <2>2, <2>3 DEF Accounted, OpenIsHeldOrIdle
<1> QED
  BY <1>5, <1>6, <1>7, <1>8, <1>9 DEF Accounted

(* ... or creates a pool of new connections.                               *)
LEMMA Creates ==
  ASSUME NEW d \in DbState, NEW e \in DbState, Accounted(d),
         NEW t \in PoolUser, NEW w \in WorkerState, Moves(d, e, t, w),
         w.conn = d.th[t].conn, Asking(w) => w.conn = NoAddress, w.pc # "ping",
         NEW S \in SUBSET Free(d), e.open = d.open \union S,
         e.pools = Append(d.pools, [idle |-> S, used |-> {}])
  PROVE  Accounted(e)
<1> DEFINE n == Len(d.pools) + 1
<1>1. \A u \in PoolUser : e.th[u].conn = d.th[u].conn
  BY DEF Moves
<1>2. /\ DOMAIN e.pools = DOMAIN d.pools \union {n} /\ n \notin DOMAIN d.pools
      /\ \A q \in DOMAIN d.pools : e.pools[q] = d.pools[q]
      /\ e.pools[n] = [idle |-> S, used |-> {}]
  BY StateFields
<1>3. e.pools[n].idle = S /\ e.pools[n].used = {}
  BY <1>2
<1> HIDE DEF n
<1>4. \A c \in S : /\ \A u \in PoolUser : d.th[u].conn # c
                   /\ \A q \in DOMAIN d.pools : c \notin d.pools[q].idle \union d.pools[q].used
  BY FreeIsNowhere
<1>5. AskersHoldNothing(e) /\ HeldOnce(e)
  BY <1>1 DEF Accounted, Moves, AskersHoldNothing, HeldOnce, Asking
<1>6. IdleUnheld(e)
  BY <1>1, <1>2, <1>3, <1>4 DEF Accounted, IdleUnheld
<1>7. PoolsApart(e)
  BY <1>2, <1>3, <1>4 DEF Accounted, PoolsApart
<1>8. PingedIsUsed(e)
  BY <1>2, <1>3, <1>4 DEF Accounted, PingedIsUsed, Moves
<1>9. OpenIsHeldOrIdle(e)
  BY <1>1, <1>2, <1>3 DEF Accounted, OpenIsHeldOrIdle
<1> QED
  BY <1>5, <1>6, <1>7, <1>8, <1>9 DEF Accounted

-----------------------------------------------------------------------------
(* The cold start.  A thread that wakes the server holds the lock, and     *)
(* there is one such thread; in the first attempts under the lock it asks  *)
(* the pool that is current.                                               *)
InWake(w) ==
  \/ w.pc = "reset"
  \/ w.pc \in {"get", "ping"} /\ w.stage \in {"existing", "fresh"}
  \/ w.pc \in {"pool", "poolReturn"} /\ w.then = "fresh"

OneInWake(d) ==
  /\ \A t, u \in d.lock : t = u
  /\ \A t \in PoolUser : InWake(d.th[t]) => t \in d.lock

AsksExisting(w) == w.pc \in {"get", "ping"} /\ w.stage = "existing"

ExistingIsCurrent(d) ==
  \A t \in PoolUser : AsksExisting(d.th[t]) => d.th[t].pool = d.current /\ d.current # NoPool

(* The connections of the current pool answer.                             *)
CurrentLives(d) ==
  d.current # NoPool =>
    /\ d.pools[d.current].idle \subseteq d.live
    /\ \A t \in PoolUser :
         d.th[t].conn \in d.pools[d.current].used => d.th[t].conn \in d.live

Rebuilds(w) == w.pc = "pool" /\ w.then = "fresh"

(* Once a thread has reset the pool of a server that is awake, the pool is *)
(* being rebuilt or its connections answer, so that only a thread that     *)
(* found it exhausted resets it again.                                     *)
AfterRebuild(d) ==
  d.rebuilt > 0 =>
    /\ d.server = "awake"
    /\ CurrentLives(d)
    /\ d.current = NoPool => \E t \in PoolUser : Rebuilds(d.th[t])
    /\ \A t \in PoolUser : d.th[t].pc = "reset" => d.th[t].why = "exhausted"

WakeSound(d) ==
  OneInWake(d) /\ ExistingIsCurrent(d) /\ AfterRebuild(d) /\ d.rebuilt <= 1

PoolSound(d) == d \in DbState /\ PoolsNamed(d) /\ Accounted(d) /\ WakeSound(d)

(* The connections of the current pool keep answering: when a thread goes  *)
(* on or drops what it has ...                                             *)
LEMMA KeepingLives ==
  ASSUME NEW d \in DbState, NEW e \in DbState, NEW t \in PoolUser, NEW w, Moves(d, e, t, w),
         w.conn \in {d.th[t].conn, NoAddress}, e.pools = d.pools, e.live = d.live,
         PoolsNamed(d), CurrentLives(d), e.current = d.current
  PROVE  CurrentLives(e)
<1>1. \A u \in PoolUser : e.th[u].conn \in {d.th[u].conn, NoAddress}
  BY DEF Moves
<1>2. d.current # NoPool =>
        d.pools[d.current].used \subseteq Address /\ NoAddress \notin Address
  BY StateFields, PoolFields, PoolSizesAssumption DEF PoolsNamed, NoPool
<1> QED
  BY <1>1, <1>2 DEF CurrentLives

(* ... when it closes its connection ...                                   *)
LEMMA ClosingLives ==
  ASSUME NEW d \in DbState, NEW e \in DbState, NEW t \in PoolUser, NEW w, Moves(d, e, t, w),
         w.conn = NoAddress, e.pools = d.pools, e.live = d.live \ {d.th[t].conn},
         PoolsNamed(d), Accounted(d), CurrentLives(d), e.current = d.current
  PROVE  CurrentLives(e)
<1>1. \A u \in PoolUser : e.th[u].conn = IF u = t THEN NoAddress ELSE d.th[u].conn
  BY DEF Moves
<1>2. d.current # NoPool =>
        /\ d.current \in DOMAIN d.pools
        /\ d.pools[d.current].used \subseteq Address /\ NoAddress \notin Address
  BY StateFields, PoolFields, PoolSizesAssumption DEF PoolsNamed, NoPool
<1> QED
  BY <1>1, <1>2 DEF CurrentLives, Accounted, HeldOnce, IdleUnheld

(* ... when it gives it back ...                                           *)
LEMMA GivingBackLives ==
  ASSUME NEW d \in DbState, NEW e \in DbState, NEW t \in PoolUser, NEW w, Moves(d, e, t, w),
         w.conn = NoAddress, NEW p \in DOMAIN d.pools, d.th[t].conn \in d.pools[p].used,
         PutBack(d, e, p, d.th[t].conn),
         PoolsNamed(d), Accounted(d), CurrentLives(d), e.current = d.current
  PROVE  CurrentLives(e)
<1> SUFFICES ASSUME d.current # NoPool
             PROVE  /\ e.pools[d.current].idle \subseteq e.live
                    /\ \A u \in PoolUser :
                         e.th[u].conn \in e.pools[d.current].used => e.th[u].conn \in e.live
  BY DEF CurrentLives
<1> DEFINE c == d.th[t].conn
           k == d.current
<1>1. \A u \in PoolUser : e.th[u].conn = IF u = t THEN NoAddress ELSE d.th[u].conn
  BY DEF Moves
<1>2. /\ k \in DOMAIN d.pools /\ NoAddress \notin Address /\ d.pools[k].used \subseteq Address
      /\ c \in Address /\ d.pools[k].idle \subseteq d.live
      /\ \A u \in PoolUser : d.th[u].conn \in d.pools[k].used => d.th[u].conn \in d.live
  BY StateFields, PoolFields, PoolSizesAssumption DEF PoolsNamed, NoPool, CurrentLives
<1>3. /\ e.pools[k].used \subseteq d.pools[k].used
      /\ \/ e.pools[k].idle \subseteq d.pools[k].idle \union (IF k = p THEN {c} ELSE {}) /\ e.live = d.live
         \/ e.pools[k].idle = d.pools[k].idle /\ e.live = d.live \ {c}
  BY <1>2 DEF PutBack, PoolChange
<1>4. \A u \in PoolUser : u # t => d.th[u].conn # c
  BY <1>2 DEF Accounted, HeldOnce
<1>5. \A q \in DOMAIN d.pools : c \notin d.pools[q].idle
  BY DEF Accounted, IdleUnheld
<1> HIDE DEF c, k
<1>6. e.pools[k].idle \subseteq e.live
  BY <1>2, <1>3, <1>5 DEF c
<1>7. ASSUME NEW u \in PoolUser, e.th[u].conn \in e.pools[k].used
      PROVE  e.th[u].conn \in e.live
  BY <1>1, <1>2, <1>3, <1>4, <1>7
<1> QED
  BY <1>6, <1>7 DEF k

(* ... and when it takes one that answers.                                 *)
LEMMA TakingLives ==
  ASSUME NEW d \in DbState, NEW e \in DbState, NEW t \in PoolUser, NEW w, Moves(d, e, t, w),
         NEW p \in DOMAIN d.pools, NEW c \in Address, w.conn = c,
         PoolChange(d, e, p, d.pools[p].idle \ {c}, d.pools[p].used \union {c}),
         \/ c \in d.pools[p].idle /\ e.live = d.live
         \/ e.live = d.live \union {c},
         PoolsNamed(d), Accounted(d), CurrentLives(d), e.current = d.current,
         \A q \in DOMAIN d.pools : q # p => c \notin d.pools[q].used
  PROVE  CurrentLives(e)
<1> SUFFICES ASSUME d.current # NoPool
             PROVE  /\ e.pools[d.current].idle \subseteq e.live
                    /\ \A u \in PoolUser :
                         e.th[u].conn \in e.pools[d.current].used => e.th[u].conn \in e.live
  BY DEF CurrentLives
<1> DEFINE k == d.current
<1>1. \A u \in PoolUser : e.th[u].conn = IF u = t THEN c ELSE d.th[u].conn
  BY DEF Moves
<1>2. /\ k \in DOMAIN d.pools /\ d.pools[k].idle \subseteq d.live
      /\ \A u \in PoolUser : d.th[u].conn \in d.pools[k].used => d.th[u].conn \in d.live
  BY StateFields DEF PoolsNamed, NoPool, CurrentLives
<1>3. /\ e.pools[k].used = IF k = p THEN d.pools[k].used \union {c} ELSE d.pools[k].used
      /\ e.pools[k].idle \subseteq d.pools[k].idle
  BY <1>2 DEF PoolChange
<1> HIDE DEF k
<1> QED
  BY <1>1, <1>2, <1>3 DEF k

(* A step that leaves the pool current and nobody enters the wake-up in.   *)
WakeStep(d, e, t, w) ==
  /\ e.server = d.server /\ e.rebuilt = d.rebuilt /\ e.current = d.current
  /\ \/ e.lock = d.lock
     \/ e.lock = d.lock \ {t} /\ ~InWake(w)
  /\ InWake(w) => InWake(d.th[t])
  /\ AsksExisting(w) => AsksExisting(d.th[t]) /\ w.pool = d.th[t].pool
  /\ w.pc = "reset" /\ d.rebuilt > 0 => w.why = "exhausted"
  /\ Rebuilds(d.th[t]) => d.server = "asleep" \/ d.current # NoPool

(* Such a step keeps the wake-up sound.                                    *)
LEMMA WakeKept ==
  ASSUME NEW d \in DbState, NEW e \in DbState, NEW t \in PoolUser, NEW w,
         Moves(d, e, t, w), WakeStep(d, e, t, w), WakeSound(d),
         d.rebuilt > 0 /\ CurrentLives(d) => CurrentLives(e)
  PROVE  WakeSound(e)
<1>1. OneInWake(e)
  BY DEF Moves, WakeStep, WakeSound, OneInWake
<1>2. ExistingIsCurrent(e)
  BY DEF Moves, WakeStep, WakeSound, ExistingIsCurrent
<1>3. ASSUME e.rebuilt > 0
      PROVE  /\ e.server = "awake" /\ CurrentLives(e)
             /\ \A u \in PoolUser : e.th[u].pc = "reset" => e.th[u].why = "exhausted"
  BY <1>3 DEF Moves, WakeStep, WakeSound, AfterRebuild
<1>4. ASSUME e.rebuilt > 0, e.current = NoPool
      PROVE  \E u \in PoolUser : Rebuilds(e.th[u])
  <2>1. d.server = "awake" /\ d.current = NoPool /\ \E u \in PoolUser : Rebuilds(d.th[u])
    BY <1>4 DEF WakeStep, WakeSound, AfterRebuild
  <2>2. ~Rebuilds(d.th[t])
    BY <2>1 DEF WakeStep
  <2> QED
    BY <2>1, <2>2 DEF Moves
<1>5. e.rebuilt <= 1
  BY DEF WakeStep, WakeSound
<1> QED
  BY <1>1, <1>2, <1>3, <1>4, <1>5 DEF WakeSound, AfterRebuild

(* Pools that are named exist still when none was added.                   *)
LEMMA NamesKept ==
  ASSUME NEW d \in DbState, NEW e \in DbState, NEW t \in PoolUser, NEW w \in WorkerState,
         Moves(d, e, t, w), PoolsNamed(d), Len(e.pools) = Len(d.pools),
         w.pool <= Len(d.pools), e.current <= Len(d.pools), e.clientPool <= Len(d.pools),
         e.primaryPool <= Len(d.pools)
  PROVE  PoolsNamed(e)
BY DEF Moves, PoolsNamed

(* A thread goes on with the connection it has, or without one.            *)
LEMMA QuietTurn ==
  ASSUME NEW d \in DbState, NEW e \in DbState, PoolSound(d),
         NEW t \in PoolUser, NEW w \in WorkerState, Moves(d, e, t, w),
         w.conn = d.th[t].conn, Asking(w) => w.conn = NoAddress, w.pc # "ping",
         w.pool <= Len(d.pools), e.clientPool <= Len(d.pools), e.primaryPool <= Len(d.pools),
         e.pools = d.pools, e.open = d.open, e.live = d.live, WakeStep(d, e, t, w)
  PROVE  PoolSound(e)
<1>1. Accounted(e)
  BY KeepsConnection DEF PoolSound
<1>2. CurrentLives(d) => CurrentLives(e)
  BY KeepingLives DEF PoolSound, WakeStep
<1>3. PoolsNamed(e)
  BY NamesKept DEF PoolSound, WakeStep, PoolsNamed
<1> QED
  BY <1>1, <1>2, <1>3, WakeKept DEF PoolSound

(* A thread's turn is a move of it.                                        *)
LEMMA MovesOf ==
  ASSUME NEW d \in DbState, NEW e, NEW t \in PoolUser, NEW w,
         e.th = [d.th EXCEPT ![t] = w]
  PROVE  Moves(d, e, t, w)
BY StateFields DEF Moves

(* What a thread's next record must be for a plain turn to be sound.       *)
MayBecome(d, t, w) ==
  /\ w \in WorkerState /\ w.pool <= Len(d.pools) /\ w.pc # "ping"
  /\ w.conn = d.th[t].conn /\ (Asking(w) => w.conn = NoAddress)
  /\ InWake(w) => InWake(d.th[t])
  /\ AsksExisting(w) => AsksExisting(d.th[t]) /\ w.pool = d.th[t].pool
  /\ w.pc = "reset" /\ d.rebuilt > 0 => w.why = "exhausted"
  /\ Rebuilds(d.th[t]) => d.server = "asleep" \/ d.current # NoPool

(* What is used most often of a sound state.                               *)
LEMMA SoundFields ==
  ASSUME NEW d, PoolSound(d), NEW t \in PoolUser
  PROVE  /\ d \in DbState /\ d.th[t] \in WorkerState /\ Len(d.pools) \in Nat
         /\ d.current <= Len(d.pools) /\ d.clientPool <= Len(d.pools)
         /\ d.primaryPool <= Len(d.pools) /\ d.th[t].pool <= Len(d.pools)
         /\ Asking(d.th[t]) => d.th[t].conn = NoAddress
         /\ d.rebuilt > 0 => d.server = "awake"
BY StateFields DEF PoolSound, PoolsNamed, Accounted, AskersHoldNothing, WakeSound, AfterRebuild

(* Such a turn, in which the lock may be released, keeps the state sound.  *)
LEMMA TurnedSound ==
  ASSUME NEW d, PoolSound(d), NEW t \in PoolUser, NEW w, MayBecome(d, t, w),
         NEW e \in DbState, e.th = [d.th EXCEPT ![t] = w], e.pools = d.pools,
         e.open = d.open, e.live = d.live, e.server = d.server, e.rebuilt = d.rebuilt,
         e.current = d.current, e.clientPool <= Len(d.pools),
         e.primaryPool <= Len(d.pools),
         e.lock = d.lock \/ (e.lock = d.lock \ {t} /\ ~InWake(w))
  PROVE  PoolSound(e)
<1>1. d \in DbState /\ w \in WorkerState
  BY DEF PoolSound, MayBecome
<1>2. Moves(d, e, t, w)
  BY <1>1, MovesOf
<1>3. WakeStep(d, e, t, w)
  BY DEF WakeStep, MayBecome
<1> QED
  BY <1>1, <1>2, <1>3, QuietTurn DEF MayBecome

(* The same for Turn itself.                                               *)
LEMMA TurnSound ==
  ASSUME NEW d, PoolSound(d), NEW t \in PoolUser, NEW w, MayBecome(d, t, w)
  PROVE  PoolSound(Turn(d, t, w))
<1>1. d \in DbState /\ w \in WorkerState
  BY DEF PoolSound, MayBecome
<1>2. d.clientPool <= Len(d.pools) /\ d.primaryPool <= Len(d.pools)
  BY SoundFields
<1> DEFINE e == Turn(d, t, w)
<1>3. /\ e \in DbState /\ e.th = [d.th EXCEPT ![t] = w] /\ e.pools = d.pools
      /\ e.open = d.open /\ e.live = d.live /\ e.lock = d.lock /\ SameRest(d, e)
  BY <1>1, TurnEffect
<1> HIDE DEF e
<1>4. PoolSound(e)
  BY <1>2, <1>3, TurnedSound DEF SameRest
<1> QED
  BY <1>4 DEF e

(* A turn with which the client takes over a pool, or the lock is released. *)
LEMMA TurnAndMoreSound ==
  ASSUME NEW d, PoolSound(d), NEW t \in PoolUser, NEW w, MayBecome(d, t, w),
         NEW x \in Nat, x <= Len(d.pools), NEW y \in Nat, y <= Len(d.pools)
  PROVE  /\ PoolSound([Turn(d, t, w) EXCEPT !.clientPool = x])
         /\ PoolSound([Turn(d, t, w) EXCEPT !.primaryPool = y])
         /\ PoolSound([Turn(d, t, w) EXCEPT !.clientPool = x, !.primaryPool = y])
         /\ ~InWake(w) => PoolSound([Turn(d, t, w) EXCEPT !.lock = @ \ {t}])
<1> DEFINE a == Turn(d, t, w)
<1>1. d \in DbState /\ w \in WorkerState
  BY DEF PoolSound, MayBecome
<1>2. /\ a \in DbState /\ a.th = [d.th EXCEPT ![t] = w] /\ a.pools = d.pools
      /\ a.open = d.open /\ a.live = d.live /\ a.lock = d.lock /\ SameRest(d, a)
  BY <1>1, TurnEffect
<1> HIDE DEF a
<1>3. d.clientPool <= Len(d.pools) /\ d.primaryPool <= Len(d.pools)
  BY SoundFields
<1>4. ASSUME NEW e \in DbState, e.th = a.th, e.pools = a.pools, e.open = a.open,
             e.live = a.live, e.server = a.server, e.rebuilt = a.rebuilt,
             e.current = a.current, e.clientPool \in {a.clientPool, x},
             e.primaryPool \in {a.primaryPool, y},
             e.lock = a.lock \/ (e.lock = a.lock \ {t} /\ ~InWake(w))
      PROVE  PoolSound(e)
  <2>1. e.clientPool <= Len(d.pools) /\ e.primaryPool <= Len(d.pools)
    BY <1>2, <1>3, <1>4 DEF SameRest
  <2>2. /\ e.th = [d.th EXCEPT ![t] = w] /\ e.pools = d.pools /\ e.open = d.open
        /\ e.live = d.live /\ e.server = d.server /\ e.rebuilt = d.rebuilt
        /\ e.current = d.current /\ (e.lock = d.lock \/ (e.lock = d.lock \ {t} /\ ~InWake(w)))
    BY <1>2, <1>4 DEF SameRest
  <2> QED
    BY <2>1, <2>2, TurnedSound
<1>5. PoolSound([a EXCEPT !.clientPool = x])
  <2> DEFINE e == [a EXCEPT !.clientPool = x]
  <2>1. /\ e \in DbState /\ e.th = a.th /\ e.pools = a.pools /\ e.open = a.open
        /\ e.live = a.live /\ e.server = a.server /\ e.rebuilt = a.rebuilt
        /\ e.current = a.current /\ e.clientPool = x
        /\ e.primaryPool = a.primaryPool /\ e.lock = a.lock
    BY <1>2 DEF DbState
  <2> HIDE DEF e
  <2>2. PoolSound(e)
    BY <1>4, <2>1
  <2> QED
    BY <2>2 DEF e
<1>6. PoolSound([a EXCEPT !.primaryPool = y])
  <2> DEFINE e == [a EXCEPT !.primaryPool = y]
  <2>1. /\ e \in DbState /\ e.th = a.th /\ e.pools = a.pools /\ e.open = a.open
        /\ e.live = a.live /\ e.server = a.server /\ e.rebuilt = a.rebuilt
        /\ e.current = a.current /\ e.clientPool = a.clientPool
        /\ e.primaryPool = y /\ e.lock = a.lock
    BY <1>2 DEF DbState
  <2> HIDE DEF e
  <2>2. PoolSound(e)
    BY <1>4, <2>1
  <2> QED
    BY <2>2 DEF e
<1>7. PoolSound([a EXCEPT !.clientPool = x, !.primaryPool = y])
  <2> DEFINE e == [a EXCEPT !.clientPool = x, !.primaryPool = y]
  <2>1. /\ e \in DbState /\ e.th = a.th /\ e.pools = a.pools /\ e.open = a.open
        /\ e.live = a.live /\ e.server = a.server /\ e.rebuilt = a.rebuilt
        /\ e.current = a.current /\ e.clientPool = x
        /\ e.primaryPool = y /\ e.lock = a.lock
    BY <1>2 DEF DbState
  <2> HIDE DEF e
  <2>2. PoolSound(e)
    BY <1>4, <2>1
  <2> QED
    BY <2>2 DEF e
<1>8. ASSUME ~InWake(w) PROVE PoolSound([a EXCEPT !.lock = @ \ {t}])
  <2> DEFINE e == [a EXCEPT !.lock = @ \ {t}]
  <2>1. /\ e \in DbState /\ e.th = a.th /\ e.pools = a.pools /\ e.open = a.open
        /\ e.live = a.live /\ e.server = a.server /\ e.rebuilt = a.rebuilt
        /\ e.current = a.current /\ e.clientPool = a.clientPool
        /\ e.primaryPool = a.primaryPool /\ e.lock = a.lock \ {t}
    BY <1>2 DEF DbState
  <2> HIDE DEF e
  <2>2. PoolSound(e)
    BY <1>4, <1>8, <2>1
  <2> QED
    BY <2>2 DEF e
<1> QED
  BY <1>5, <1>6, <1>7, <1>8 DEF a

(* The actions, one by one, keep the state sound.  A thread asks for the   *)
(* pool ...                                                                *)
LEMMA StartClientSound == PoolSound(db) /\ StartClient => PoolSound(db')
<1> SUFFICES ASSUME PoolSound(db), StartClient PROVE PoolSound(db')
  OBVIOUS
<1>1. PICK t \in {Client, Persister} :
        /\ db.th[t].pc = "idle"
        /\ db' = Turn(db, t, [db.th[t] EXCEPT !.pc = "pool", !.then = "borrow"])
  BY DEF StartClient
<1> DEFINE w == [db.th[t] EXCEPT !.pc = "pool", !.then = "borrow"]
<1>2. t \in PoolUser /\ db.th[t] \in WorkerState
  BY SoundFields DEF PoolUser
<1>3. w \in WorkerState /\ w.pc = "pool" /\ w.then = "borrow" /\ w.conn = db.th[t].conn
      /\ w.pool = db.th[t].pool
  BY <1>2 DEF WorkerState, Control
<1> HIDE DEF w
<1>4. MayBecome(db, t, w)
  BY <1>1, <1>2, <1>3, SoundFields DEF MayBecome, Asking, InWake, AsksExisting, Rebuilds
<1> QED
  BY <1>1, <1>2, <1>4, TurnSound DEF w

(* A thread without a connection asks a pool for one.                      *)
LEMMA AsksSound ==
  ASSUME NEW d, PoolSound(d), NEW t \in PoolUser, Asking(d.th[t]),
         NEW stage \in {"fast", "fresh"}, NEW p \in Nat, NEW n \in Int, p <= Len(d.pools),
         stage = "fresh" => InWake(d.th[t]), ~Rebuilds(d.th[t])
  PROVE  MayBecome(d, t, Asks(d.th[t], stage, p, n))
<1>1. PICK v \in WorkerState : v = d.th[t]
  BY SoundFields
<1> DEFINE w == Asks(v, stage, p, n)
<1>2. w \in WorkerState /\ w.pc = "get" /\ w.stage = stage /\ w.conn = v.conn /\ w.pool = p
  BY DEF Asks, WorkerState, Control
<1> HIDE DEF w
<1>3. v.conn = NoAddress
  BY <1>1, SoundFields
<1>4. MayBecome(d, t, w)
  BY <1>1, <1>2, <1>3 DEF MayBecome, InWake, AsksExisting
<1> QED
  BY <1>1, <1>4 DEF w

(* ... or a fetch starts.                                                  *)
LEMMA StartFetchSound == PoolSound(db) /\ StartFetch => PoolSound(db')
<1> SUFFICES ASSUME PoolSound(db), StartFetch PROVE PoolSound(db')
  OBVIOUS
<1>1. PICK t \in Fetcher :
        /\ db.th[t].pc = "idle"
        /\ db' = Turn(db, t, Asks(db.th[t], "fast", db.clientPool, Tries))
  BY DEF StartFetch
<1>2. PICK p \in Nat : p = db.clientPool
  BY StateFields DEF PoolSound
<1>3. t \in PoolUser /\ Tries \in Int
  BY PoolSizesAssumption DEF PoolUser
<1>4. MayBecome(db, t, Asks(db.th[t], "fast", p, Tries))
  BY <1>1, <1>2, <1>3, SoundFields, AsksSound DEF Asking, Rebuilds
<1> QED
  BY <1>1, <1>2, <1>3, <1>4, TurnSound

(* A thread without a connection gives up.                                 *)
LEMMA GivenUpSound ==
  ASSUME NEW d, PoolSound(d), NEW t \in PoolUser, d.th[t].conn = NoAddress,
         Rebuilds(d.th[t]) => d.server = "asleep" \/ d.current # NoPool
  PROVE  PoolSound(GivenUp(d, t))
<1> DEFINE w == [Idle EXCEPT !.pc = "failed"]
<1>1. w \in WorkerState /\ w.pc = "failed" /\ w.conn = NoAddress /\ w.pool = 0
  BY IdleEffect DEF Control
<1> HIDE DEF w
<1>2. MayBecome(d, t, w) /\ ~InWake(w)
  BY <1>1, SoundFields DEF MayBecome, InWake, AsksExisting
<1>3. d.clientPool \in Nat /\ d.clientPool <= Len(d.pools)
  BY StateFields, SoundFields DEF PoolSound
<1>4. PoolSound([Turn(d, t, w) EXCEPT !.lock = @ \ {t}])
  BY <1>2, <1>3, TurnAndMoreSound
<1> QED
  BY <1>4 DEF GivenUp, w

(* A stage ends without a connection.                                      *)
LEMMA StageFailsSound ==
  ASSUME NEW d, PoolSound(d), NEW t \in PoolUser, d.th[t].pc = "get",
         d.th[t].stage = "existing" /\ d.rebuilt > 0 => d.th[t].why = "exhausted"
  PROVE  PoolSound(StageFails(d, t))
<1>1. d.th[t] \in WorkerState /\ d.th[t].conn = NoAddress
  BY SoundFields DEF Asking
<1>2. ASSUME NEW pc \in {"lock", "reset"},
             pc = "reset" => d.th[t].stage = "existing"
      PROVE  PoolSound(Goto(d, t, pc))
  <2> DEFINE w == [d.th[t] EXCEPT !.pc = pc]
  <2>1. w \in WorkerState /\ w.pc = pc /\ w.conn = NoAddress /\ w.pool = d.th[t].pool
        /\ w.why = d.th[t].why
    <3>1. pc \in Control
      BY DEF Control
    <3> QED
      BY <1>1, <3>1, GoesTo, Zenon
  <2> HIDE DEF w
  <2>2. MayBecome(d, t, w)
    BY <1>1, <1>2, <2>1, SoundFields DEF MayBecome, Asking, InWake, AsksExisting, Rebuilds
  <2> QED
    BY <2>2, TurnSound DEF w, Goto
<1>3. PoolSound(GivenUp(d, t))
  BY <1>1, GivenUpSound DEF Rebuilds
<1> QED
  BY <1>2, <1>3 DEF StageFails

(* One attempt fails, and t is to try again.                               *)
LEMMA TriedFields ==
  ASSUME NEW v \in WorkerState, NEW why \in {"stale", "exhausted"}
  PROVE  LET w == Tried(v, why)
         IN /\ w \in WorkerState /\ w.pc = "get" /\ w.stage = v.stage /\ w.pool = v.pool
            /\ w.conn = NoAddress /\ w.why = why
<1> v.tries - 1 \in Int
  BY WorkerFields
<1> QED
  BY DEF WorkerState, Control, Tried

(* When a failed attempt leaves a sound state, so does what follows it.    *)
LEMMA AttemptFailsSound ==
  ASSUME NEW d \in DbState, NEW t \in PoolUser, NEW why \in {"stale", "exhausted"},
         PoolSound(Turn(d, t, Tried(d.th[t], why))),
         d.th[t].stage = "existing" /\ d.rebuilt > 0 => why = "exhausted"
  PROVE  PoolSound(AttemptFails(d, t, why))
<1>1. PICK v \in WorkerState : v = d.th[t]
  BY StateFields
<1> DEFINE w == Tried(v, why)
           e == Turn(d, t, w)
<1>2. /\ w \in WorkerState /\ w.pc = "get" /\ w.stage = v.stage /\ w.conn = NoAddress
      /\ w.why = why
  BY TriedFields
<1> HIDE DEF w
<1>3. e.th[t] = w /\ e.rebuilt = d.rebuilt
  <2>1. e.th = [d.th EXCEPT ![t] = w] /\ SameRest(d, e)
    BY <1>2, TurnEffect
  <2> QED
    BY <2>1, StateFields DEF SameRest
<1>4. PoolSound(e)
  BY <1>1 DEF w
<1> HIDE DEF e
<1>5. PoolSound(StageFails(e, t))
  BY <1>1, <1>2, <1>3, <1>4, StageFailsSound
<1> QED
  BY <1>1, <1>4, <1>5 DEF AttemptFails, e, w

(* A thread ends: its connection goes to the pool that counts it, or it is *)
(* closed.                                                                 *)
Leaves(d, t, w) ==
  /\ w \in WorkerState /\ w.conn = NoAddress /\ w.pool = 0 /\ w.pc \in {"done", "failed"}
  /\ Rebuilds(d.th[t]) => d.server = "asleep" \/ d.current # NoPool

(* It closes its connection ...                                            *)
LEMMA ClosesSound ==
  ASSUME NEW d, PoolSound(d), NEW t \in PoolUser, NEW w, Leaves(d, t, w)
  PROVE  PoolSound(Closed(Turn(d, t, w), d.th[t].conn))
<1> DEFINE a == Turn(d, t, w)
           e == Closed(a, d.th[t].conn)
<1>1. d \in DbState /\ w \in WorkerState /\ w.conn = NoAddress /\ w.pool = 0 /\ w.pc # "ping"
  BY DEF PoolSound, Leaves
<1>2. /\ a \in DbState /\ a.th = [d.th EXCEPT ![t] = w] /\ a.pools = d.pools
      /\ a.open = d.open /\ a.live = d.live /\ a.lock = d.lock /\ SameRest(d, a)
  BY <1>1, TurnEffect
<1> HIDE DEF a
<1>3. /\ e \in DbState /\ e.th = a.th /\ e.pools = a.pools /\ e.open = a.open \ {d.th[t].conn}
      /\ e.live = a.live \ {d.th[t].conn} /\ e.lock = a.lock /\ SameRest(a, e)
  BY <1>2, ClosedEffect
<1> HIDE DEF e
<1>4. Moves(d, e, t, w)
  BY <1>1, <1>2, <1>3, MovesOf
<1>5. Accounted(e)
  BY <1>1, <1>2, <1>3, <1>4, Closes DEF PoolSound
<1>6. CurrentLives(d) => CurrentLives(e)
  BY <1>1, <1>2, <1>3, <1>4, ClosingLives DEF PoolSound, SameRest
<1>7. WakeStep(d, e, t, w)
  BY <1>2, <1>3 DEF WakeStep, SameRest, Leaves, InWake, AsksExisting
<1>8. WakeSound(e)
  BY <1>1, <1>3, <1>4, <1>6, <1>7, WakeKept DEF PoolSound
<1>9. PoolsNamed(e)
  BY <1>1, <1>2, <1>3, <1>4, NamesKept, SoundFields DEF PoolSound, SameRest
<1> QED
  BY <1>3, <1>5, <1>8, <1>9 DEF PoolSound, e, a

(* ... or gives it back ...                                                *)
LEMMA GivesBackSound ==
  ASSUME NEW d, PoolSound(d), NEW t \in PoolUser, NEW p, NEW close, NEW w, Leaves(d, t, w),
         Keyed(d, p, d.th[t].conn)
  PROVE  PoolSound(PutConn(Turn(d, t, w), p, d.th[t].conn, close))
<1> DEFINE a == Turn(d, t, w)
           c == d.th[t].conn
           e == PutConn(a, p, c, close)
<1>1. d \in DbState /\ w \in WorkerState /\ w.conn = NoAddress /\ w.pool = 0 /\ w.pc # "ping"
  BY DEF PoolSound, Leaves
<1>2. /\ a \in DbState /\ a.th = [d.th EXCEPT ![t] = w] /\ a.pools = d.pools
      /\ a.open = d.open /\ a.live = d.live /\ a.lock = d.lock /\ SameRest(d, a)
  BY <1>1, TurnEffect
<1> HIDE DEF a
<1>3. Keyed(a, p, c)
  BY <1>2 DEF Keyed
<1>4. /\ e \in DbState /\ e.th = a.th /\ e.lock = a.lock /\ SameRest(a, e) /\ PutBack(a, e, p, c)
  BY <1>2, <1>3, PutConnEffect, Zenon
<1> HIDE DEF e
<1>5. PutBack(d, e, p, c) /\ p \in DOMAIN d.pools /\ c \in d.pools[p].used
  BY <1>2, <1>4 DEF PutBack, PoolChange, Keyed
<1>6. Moves(d, e, t, w)
  BY <1>1, <1>2, <1>4, MovesOf
<1>7. Accounted(e)
  BY <1>1, <1>4, <1>5, <1>6, GivesBack DEF PoolSound
<1>8. CurrentLives(d) => CurrentLives(e)
  BY <1>1, <1>2, <1>4, <1>5, <1>6, GivingBackLives DEF PoolSound, SameRest
<1>9. WakeStep(d, e, t, w)
  BY <1>2, <1>4 DEF WakeStep, SameRest, Leaves, InWake, AsksExisting
<1>10. WakeSound(e)
  BY <1>1, <1>4, <1>6, <1>8, <1>9, WakeKept DEF PoolSound
<1>11. Len(e.pools) = Len(d.pools)
  BY <1>5 DEF PutBack, PoolChange
<1>12. PoolsNamed(e)
  BY <1>1, <1>2, <1>4, <1>6, <1>11, NamesKept, SoundFields DEF PoolSound, SameRest
<1> QED
  BY <1>4, <1>7, <1>10, <1>12 DEF PoolSound, e, a

(* ... as _return_conn and the persisting thread do.                       *)
LEMMA EndsSound ==
  ASSUME NEW d, PoolSound(d), NEW t \in PoolUser, ~Rebuilds(d.th[t])
  PROVE  /\ PoolSound(Closed(Turn(d, t, Ended), d.th[t].conn))
         /\ \A p, noticed : /\ PoolSound(Returned(d, t, p, noticed))
                            /\ Keyed(d, p, d.th[t].conn) =>
                                 PoolSound(PutConn(Turn(d, t, Ended), p, d.th[t].conn, noticed))
<1>1. Leaves(d, t, Ended)
  BY IdleEffect DEF Leaves, Ended, Control
<1>2. PoolSound(Closed(Turn(d, t, Ended), d.th[t].conn))
  BY <1>1, ClosesSound
<1>3. ASSUME NEW p, NEW noticed, Keyed(d, p, d.th[t].conn)
      PROVE  PoolSound(PutConn(Turn(d, t, Ended), p, d.th[t].conn, noticed))
  BY <1>1, <1>3, GivesBackSound, Zenon
<1>4. Turn(d, t, Ended).pools = d.pools
  BY <1>1, TurnEffect DEF Leaves, PoolSound
<1>5. ASSUME NEW p PROVE Keyed(Turn(d, t, Ended), p, d.th[t].conn) <=> Keyed(d, p, d.th[t].conn)
  BY <1>4 DEF Keyed
<1>6. ASSUME NEW p, NEW noticed PROVE PoolSound(Returned(d, t, p, noticed))
  BY <1>2, <1>3, <1>5, Zenon DEF Returned
<1> QED
  BY <1>2, <1>3, <1>6

-----------------------------------------------------------------------------
(* The server suspends itself, which ends a cold start, or resumes.        *)
LEMMA SuspendSound == PoolSound(db) /\ (Suspend \/ Resume) => PoolSound(db')
<1> SUFFICES ASSUME PoolSound(db), Suspend \/ Resume PROVE PoolSound(db')
  OBVIOUS
<1>1. db \in DbState
  BY DEF PoolSound
<1>2. /\ db' \in DbState /\ db'.th = db.th /\ db'.pools = db.pools /\ db'.open = db.open
      /\ db'.lock = db.lock /\ db'.current = db.current /\ db'.clientPool = db.clientPool
      /\ db'.primaryPool = db.primaryPool
      /\ \/ db'.server = "asleep" /\ db'.rebuilt = 0
         \/ db.server = "asleep" /\ db'.live = db.live /\ db'.rebuilt = db.rebuilt
  <2>1. CASE Suspend
    <3>1. db.sleeps + 1 \in Nat /\ 0 \in Nat
      BY <1>1, StateFields
    <3> QED
      BY <1>1, <2>1, <3>1 DEF Suspend, DbState
  <2>2. CASE Resume
    BY <1>1, <2>2 DEF Resume, DbState
  <2> QED
    BY <2>1, <2>2
<1>3. db'.rebuilt = 0
  BY <1>1, <1>2, StateFields DEF PoolSound, WakeSound, AfterRebuild
<1>4. WakeSound(db')
  BY <1>2, <1>3 DEF PoolSound, WakeSound, OneInWake, ExistingIsCurrent, AfterRebuild
<1>5. Accounted(db') /\ PoolsNamed(db')
  BY <1>2 DEF PoolSound, PoolsNamed, Accounted, AskersHoldNothing, HeldOnce, IdleUnheld,
              PoolsApart, PingedIsUsed, OpenIsHeldOrIdle
<1> QED
  BY <1>2, <1>4, <1>5 DEF PoolSound

(* A pool is created with the connections S, which answer if the server is *)
(* awake.                                                                  *)
LEMMA CreatesSound ==
  ASSUME NEW d, PoolSound(d), NEW t \in PoolUser, d.th[t].pc = "pool", d.current = NoPool,
         NEW S \in SUBSET Free(d)
  PROVE  PoolSound([Goto(Connected(d, S), t, "poolReturn") EXCEPT
                       !.current = Len(d.pools) + 1,
                       !.pools = Append(@, [idle |-> S, used |-> {}])])
<1>1. PICK v \in WorkerState : v = d.th[t]
  BY SoundFields
<1> DEFINE w == [v EXCEPT !.pc = "poolReturn"]
           a == Connected(d, S)
           b == Turn(a, t, w)
           r == [idle |-> S, used |-> {}]
           n == Len(d.pools) + 1
           ps == Append(d.pools, r)
           e == [b EXCEPT !.current = n, !.pools = ps]
<1>2. /\ w \in WorkerState /\ w.pc = "poolReturn" /\ w.conn = v.conn /\ w.pool = v.pool
      /\ w.then = v.then
  BY GoesTo DEF Control
<1> HIDE DEF w
<1>3. d \in DbState /\ S \in SUBSET Address
  BY DEF PoolSound, Free
<1>4. r \in PoolRecord
  BY <1>3 DEF PoolRecord
<1>5. /\ a \in DbState /\ a.th = d.th /\ a.pools = d.pools /\ a.open = d.open \union S
      /\ a.live = IF d.server = "asleep" THEN d.live ELSE d.live \union S
      /\ a.lock = d.lock /\ SameRest(d, a)
  BY <1>3, ConnectedEffect
<1> HIDE DEF a
<1>6. /\ b \in DbState /\ b.th = [a.th EXCEPT ![t] = w] /\ b.pools = a.pools
      /\ b.open = a.open /\ b.live = a.live /\ b.lock = a.lock /\ SameRest(a, b)
  BY <1>2, <1>5, TurnEffect
<1> HIDE DEF b
<1> HIDE DEF r
<1>7. Append(d.pools, r) \in Seq(PoolRecord) /\ Len(Append(d.pools, r)) = Len(d.pools) + 1
      /\ Len(d.pools) \in Nat
  BY <1>3, <1>4, StateFields
<1>8. /\ e \in DbState /\ e.th = b.th /\ e.pools = Append(d.pools, r) /\ e.open = b.open
      /\ e.live = b.live /\ e.lock = b.lock /\ e.server = b.server
      /\ e.rebuilt = b.rebuilt /\ e.clientPool = b.clientPool
      /\ e.primaryPool = b.primaryPool /\ e.current = Len(d.pools) + 1
  <2>1. n \in Nat /\ n = Len(d.pools) + 1 /\ ps \in Seq(PoolRecord) /\ ps = Append(d.pools, r)
    BY <1>7
  <2> HIDE DEF n, ps
  <2>2. /\ e \in DbState /\ e.th = b.th /\ e.pools = ps /\ e.open = b.open
        /\ e.live = b.live /\ e.lock = b.lock /\ e.server = b.server
        /\ e.rebuilt = b.rebuilt /\ e.clientPool = b.clientPool
        /\ e.primaryPool = b.primaryPool /\ e.current = n
    BY <1>6, <2>1 DEF DbState
  <2> HIDE DEF e
  <2> QED
    BY <2>1, <2>2
<1> HIDE DEF e
<1>9. Moves(d, e, t, w)
  BY <1>2, <1>3, <1>5, <1>6, <1>8, MovesOf
<1>10. Accounted(e)
  <2>1. Asking(w) => w.conn = NoAddress
    BY <1>1, <1>2, SoundFields DEF Asking
  <2>2. e.open = d.open \union S
    BY <1>5, <1>6, <1>8
  <2> QED
    BY <1>1, <1>2, <1>3, <1>8, <1>9, <2>1, <2>2, Creates DEF PoolSound, r
<1>11. CurrentLives(e) \/ e.server = "asleep"
  <2>1. e.pools[Len(d.pools) + 1] = r
    BY <1>3, <1>8, StateFields
  <2> QED
    BY <1>5, <1>6, <1>8, <2>1 DEF CurrentLives, r, SameRest
<1>12. OneInWake(e)
  BY <1>1, <1>2, <1>5, <1>6, <1>8, <1>9 DEF Moves, OneInWake, InWake, PoolSound, WakeSound
<1>13. ExistingIsCurrent(e)
  BY <1>2, <1>9 DEF Moves, ExistingIsCurrent, AsksExisting, PoolSound, WakeSound
<1>14. AfterRebuild(e) /\ e.rebuilt <= 1
  BY <1>2, <1>5, <1>6, <1>7, <1>8, <1>9, <1>11
     DEF Moves, AfterRebuild, PoolSound, WakeSound, SameRest, NoPool
<1>15. PoolsNamed(e)
  <2>1. /\ Len(e.pools) = Len(d.pools) + 1 /\ Len(d.pools) \in Nat
        /\ e.clientPool = d.clientPool /\ e.primaryPool = d.primaryPool
        /\ e.current = Len(d.pools) + 1
        /\ d.clientPool \in Nat /\ d.primaryPool \in Nat
    BY <1>3, <1>5, <1>6, <1>7, <1>8, StateFields DEF SameRest
  <2>2. \A u \in PoolUser : e.th[u].pool = d.th[u].pool /\ d.th[u].pool \in Nat
    BY <1>1, <1>2, <1>3, <1>9, StateFields, WorkerFields DEF Moves
  <2> QED
    BY <2>1, <2>2 DEF PoolsNamed, PoolSound
<1>16. PoolSound(e)
  BY <1>8, <1>10, <1>12, <1>13, <1>14, <1>15 DEF PoolSound, WakeSound
<1>17. Goto(Connected(d, S), t, "poolReturn") = b
  <2>1. Goto(a, t, "poolReturn") = b
    BY <1>1, <1>5 DEF Goto, b, w
  <2> QED
    BY <2>1 DEF a
<1>18. b.pools = d.pools
  BY <1>5, <1>6
<1> QED
  BY <1>16, <1>17, <1>18 DEF e, r

(* A thread finds the pool or creates it ...                               *)
LEMMA LookUpPoolSound == PoolSound(db) /\ LookUpPool => PoolSound(db')
<1> SUFFICES ASSUME PoolSound(db), LookUpPool PROVE PoolSound(db')
  OBVIOUS
<1>1. PICK t \in PoolUser :
        /\ db.th[t].pc = "pool"
        /\ \/ db.current # NoPool /\ db' = Goto(db, t, "poolReturn")
           \/ /\ db.current = NoPool
              /\ \E S \in SUBSET Free(db) :
                   db' = [Goto(Connected(db, S), t, "poolReturn") EXCEPT
                            !.current = Len(db.pools) + 1,
                            !.pools = Append(@, [idle |-> S, used |-> {}])]
  BY DEF LookUpPool
<1>2. CASE db.current # NoPool /\ db' = Goto(db, t, "poolReturn")
  <2>1. PICK v \in WorkerState : v = db.th[t]
    BY SoundFields
  <2> DEFINE w == [v EXCEPT !.pc = "poolReturn"]
  <2>2. /\ w \in WorkerState /\ w.pc = "poolReturn" /\ w.conn = v.conn /\ w.pool = v.pool
        /\ w.then = v.then
    BY GoesTo DEF Control
  <2> HIDE DEF w
  <2>3. MayBecome(db, t, w)
    BY <1>1, <1>2, <2>1, <2>2, SoundFields DEF MayBecome, Asking, InWake, AsksExisting
  <2> QED
    BY <1>2, <2>1, <2>3, TurnSound DEF Goto, w
<1>3. CASE /\ db.current = NoPool
           /\ \E S \in SUBSET Free(db) :
                db' = [Goto(Connected(db, S), t, "poolReturn") EXCEPT
                         !.current = Len(db.pools) + 1,
                         !.pools = Append(@, [idle |-> S, used |-> {}])]
  <2>1. PICK S \in SUBSET Free(db) :
          db' = [Goto(Connected(db, S), t, "poolReturn") EXCEPT
                   !.current = Len(db.pools) + 1,
                   !.pools = Append(@, [idle |-> S, used |-> {}])]
    BY <1>3
  <2>2. PoolSound([Goto(Connected(db, S), t, "poolReturn") EXCEPT
                     !.current = Len(db.pools) + 1,
                     !.pools = Append(@, [idle |-> S, used |-> {}])])
    BY <1>1, <1>3, CreatesSound
  <2> QED
    BY <2>1, <2>2, Zenon
<1> QED
  BY <1>1, <1>2, <1>3

(* ... or cannot ...                                                       *)
LEMMA CreatePoolFailsSound == PoolSound(db) /\ CreatePoolFails => PoolSound(db')
<1> SUFFICES ASSUME PoolSound(db), NEW t \in PoolUser,
                    db.th[t].pc = "pool", db.server = "asleep",
                    \/ /\ db.th[t].then = "give"
                       /\ db' = Closed(Turn(db, t, Ended), db.th[t].conn)
                    \/ /\ db.th[t].then = "adopt"
                       /\ db' = Goto(db, t, "failed")
                    \/ /\ db.th[t].then \notin {"give", "adopt"}
                       /\ db' = GivenUp(db, t)
             PROVE  PoolSound(db')
  BY DEF CreatePoolFails
<1>1. CASE db.th[t].then = "give" /\ db' = Closed(Turn(db, t, Ended), db.th[t].conn)
  BY <1>1, EndsSound DEF Rebuilds
<1>2. CASE db.th[t].then = "adopt" /\ db' = Goto(db, t, "failed")
  <2>1. PICK v \in WorkerState : v = db.th[t]
    BY SoundFields
  <2> DEFINE w == [v EXCEPT !.pc = "failed"]
  <2>2. w \in WorkerState /\ w.pc = "failed" /\ w.conn = v.conn /\ w.pool = v.pool
    BY GoesTo DEF Control
  <2> HIDE DEF w
  <2>3. MayBecome(db, t, w)
    BY <2>1, <2>2, SoundFields DEF MayBecome, Asking, InWake, AsksExisting
  <2> QED
    BY <1>2, <2>1, <2>3, TurnSound DEF Goto, w
<1>3. CASE db.th[t].then \notin {"give", "adopt"} /\ db' = GivenUp(db, t)
  BY <1>3, GivenUpSound, SoundFields DEF Asking
<1> QED
  BY <1>1, <1>2, <1>3

(* ... and reads the global again.                                         *)
LEMMA ReturnPoolSound == PoolSound(db) /\ ReturnPool => PoolSound(db')
<1> SUFFICES ASSUME PoolSound(db), ReturnPool PROVE PoolSound(db')
  OBVIOUS
<1>1. PICK t \in PoolUser :
        LET w == db.th[t]
            got == db.current
        IN /\ w.pc = "poolReturn"
           /\ \/ /\ w.then = "borrow"
                 /\ db' = [Turn(db, t, Asks(w, "fast", got, Tries)) EXCEPT
                             !.clientPool = IF t = Client THEN got ELSE @]
              \/ /\ w.then = "fresh"
                 /\ db' = Turn(db, t, Asks(w, "fresh", got, WakeTries))
              \/ /\ w.then = "adopt"
                 /\ db' = [Goto(db, t, IF t = Client THEN "ready" ELSE "using") EXCEPT
                             !.clientPool = got,
                             !.primaryPool = IF t = Client THEN got ELSE @]
              \/ /\ w.then = "give"
                 /\ db' = IF Keyed(db, got, w.conn)
                          THEN PutConn(Turn(db, t, Ended), got, w.conn, FALSE)
                          ELSE Closed(Turn(db, t, Ended), w.conn)
  BY Zenon DEF ReturnPool
<1>2. PICK v \in WorkerState : v = db.th[t]
  BY SoundFields
<1>3. PICK got \in Nat : got = db.current
  BY StateFields DEF PoolSound
<1>4. got <= Len(db.pools) /\ Tries \in Int /\ WakeTries \in Int
      /\ (Asking(v) => v.conn = NoAddress)
  BY <1>2, <1>3, SoundFields, PoolSizesAssumption
<1>5. v.pc = "poolReturn" /\ ~Rebuilds(v)
  BY <1>1, <1>2 DEF Rebuilds
<1>6. /\ db.clientPool \in Nat /\ db.clientPool <= Len(db.pools)
      /\ db.primaryPool \in Nat /\ db.primaryPool <= Len(db.pools)
  BY StateFields, SoundFields DEF PoolSound
<1>7. CASE /\ v.then = "borrow"
           /\ db' = [Turn(db, t, Asks(v, "fast", got, Tries)) EXCEPT
                       !.clientPool = IF t = Client THEN got ELSE @]
  <2> DEFINE w == Asks(v, "fast", got, Tries)
  <2>1. MayBecome(db, t, w)
    BY <1>2, <1>4, <1>5, <1>7, AsksSound DEF Asking
  <2> HIDE DEF w
  <2>2. PICK x \in Nat : x <= Len(db.pools)
                         /\ x = IF t = Client THEN got ELSE Turn(db, t, w).clientPool
    <3>1. Turn(db, t, w).clientPool = db.clientPool
      BY <2>1, TurnEffect DEF MayBecome, PoolSound, SameRest
    <3> QED
      BY <1>4, <1>6, <3>1
  <2>3. PoolSound([Turn(db, t, w) EXCEPT !.clientPool = x])
    BY <1>6, <2>1, <2>2, TurnAndMoreSound
  <2> QED
    BY <1>7, <2>2, <2>3 DEF w
<1>8. CASE /\ v.then = "fresh"
           /\ db' = Turn(db, t, Asks(v, "fresh", got, WakeTries))
  <2>1. MayBecome(db, t, Asks(v, "fresh", got, WakeTries))
    BY <1>2, <1>4, <1>5, <1>8, AsksSound DEF Asking, InWake
  <2> QED
    BY <1>8, <2>1, TurnSound
<1>9. CASE /\ v.then = "adopt"
           /\ db' = [Goto(db, t, IF t = Client THEN "ready" ELSE "using") EXCEPT
                       !.clientPool = got,
                       !.primaryPool = IF t = Client THEN got ELSE @]
  <2>1. PICK pc \in {"ready", "using"} : pc = IF t = Client THEN "ready" ELSE "using"
    OBVIOUS
  <2> DEFINE w == [v EXCEPT !.pc = pc]
  <2>2. w \in WorkerState /\ w.pc = pc /\ w.conn = v.conn /\ w.pool = v.pool
    <3>1. pc \in Control
      BY DEF Control
    <3> QED
      BY <3>1, GoesTo
  <2> HIDE DEF w
  <2>3. MayBecome(db, t, w)
    BY <1>2, <1>5, <2>2, SoundFields DEF MayBecome, Asking, InWake, AsksExisting
  <2>4. PICK y \in Nat : y <= Len(db.pools)
                         /\ y = IF t = Client THEN got ELSE Turn(db, t, w).primaryPool
    <3>1. Turn(db, t, w).primaryPool = db.primaryPool
      BY <2>3, TurnEffect DEF MayBecome, PoolSound, SameRest
    <3> QED
      BY <1>4, <1>6, <3>1
  <2>5. PoolSound([Turn(db, t, w) EXCEPT !.clientPool = got, !.primaryPool = y])
    BY <1>4, <2>3, <2>4, TurnAndMoreSound
  <2>6. Goto(db, t, pc) = Turn(db, t, w)
    BY <1>2 DEF Goto, w
  <2> QED
    BY <1>9, <2>1, <2>4, <2>5, <2>6
<1>10. CASE /\ v.then = "give"
            /\ db' = IF Keyed(db, got, v.conn)
                     THEN PutConn(Turn(db, t, Ended), got, v.conn, FALSE)
                     ELSE Closed(Turn(db, t, Ended), v.conn)
  BY <1>2, <1>5, <1>10, EndsSound, Zenon
<1> QED
  BY <1>1, <1>2, <1>3, <1>7, <1>8, <1>9, <1>10, Zenon

(* A pool hands c out to t, which has connected to c before or finds it    *)
(* idle.                                                                   *)
LEMMA GetsSound ==
  ASSUME NEW d, PoolSound(d), NEW t \in PoolUser, d.th[t].pc = "get",
         d.th[t].pool # NoPool, NEW c \in Address,
         NEW a \in DbState, a.th = d.th, a.pools = d.pools, a.lock = d.lock, SameRest(d, a),
         \/ c \in d.pools[d.th[t].pool].idle /\ a.open = d.open /\ a.live = d.live
         \/ /\ c \in Free(d) /\ a.open = d.open \union {c}
            /\ a.live = IF d.server = "asleep" THEN d.live ELSE d.live \union {c}
  PROVE  PoolSound(Gets(a, t, c))
<1>1. PICK v \in WorkerState : v = d.th[t]
  BY SoundFields
<1>2. PICK p \in Nat : p = v.pool
  BY WorkerFields
<1>3. d \in DbState /\ p \in DOMAIN d.pools /\ v.conn = NoAddress
  BY <1>1, <1>2, SoundFields, StateFields DEF PoolSound, NoPool, Asking
<1> DEFINE w == [v EXCEPT !.pc = "ping", !.conn = c]
           idle == d.pools[p].idle \ {c}
           used == d.pools[p].used \union {c}
           b == Repooled(a, p, idle, used)
           e == Turn(b, t, w)
<1>4. /\ w \in WorkerState /\ w.pc = "ping" /\ w.conn = c /\ w.pool = p
      /\ w.stage = v.stage
  BY <1>2 DEF WorkerState, Control
<1> HIDE DEF w
<1>5. idle \in SUBSET Address /\ used \in SUBSET Address
  BY <1>3, StateFields, PoolFields
<1> HIDE DEF idle, used
<1>6. OnlyPool(a, b, p, idle, used) /\ b.open = a.open /\ b.live = a.live
  <2>1. p \in DOMAIN a.pools
    BY <1>3
  <2> QED
    BY <1>5, <2>1, RepooledEffect, Zenon
<1> HIDE DEF b
<1>7. /\ e \in DbState /\ e.th = [b.th EXCEPT ![t] = w] /\ e.pools = b.pools
      /\ e.open = b.open /\ e.live = b.live /\ e.lock = b.lock /\ SameRest(b, e)
  BY <1>4, <1>6, TurnEffect DEF OnlyPool
<1> HIDE DEF e
<1>8. /\ PoolChange(d, e, p, idle, used) /\ SameRest(d, e) /\ e.lock = d.lock
      /\ e.th = [d.th EXCEPT ![t] = w] /\ e.open = a.open /\ e.live = a.live
  BY <1>6, <1>7 DEF OnlyPool, PoolChange, SameRest
<1>9. Moves(d, e, t, w)
  BY <1>3, <1>7, <1>8, MovesOf
<1>10. Accounted(e)
  BY <1>1, <1>2, <1>3, <1>4, <1>7, <1>8, <1>9, Takes DEF PoolSound, idle, used
<1>11. \A q \in DOMAIN d.pools : q # p => c \notin d.pools[q].used
  BY <1>1, <1>2, <1>3, FreeIsNowhere DEF PoolSound, Accounted, PoolsApart
<1>12. d.rebuilt > 0 /\ CurrentLives(d) => CurrentLives(e)
  <2>1. d.rebuilt > 0 => d.server = "awake"
    BY SoundFields
  <2>2. d.rebuilt > 0 => \/ (c \in d.pools[p].idle /\ e.live = d.live)
                          \/ e.live = d.live \union {c}
    BY <1>1, <1>2, <1>8, <2>1
  <2>3. PoolChange(d, e, p, d.pools[p].idle \ {c}, d.pools[p].used \union {c})
        /\ PoolsNamed(d) /\ Accounted(d) /\ e.current = d.current
    BY <1>8 DEF PoolSound, idle, used, SameRest
  <2> QED
    BY <1>3, <1>4, <1>7, <1>9, <1>11, <2>2, <2>3, TakingLives
<1>13. WakeStep(d, e, t, w)
  BY <1>1, <1>2, <1>4, <1>8 DEF WakeStep, SameRest, InWake, AsksExisting, Rebuilds
<1>14. WakeSound(e)
  BY <1>3, <1>7, <1>9, <1>12, <1>13, WakeKept DEF PoolSound
<1>15. PoolsNamed(e)
  <2>1. Len(e.pools) = Len(d.pools) /\ w.pool <= Len(d.pools)
    BY <1>1, <1>2, <1>4, <1>8, SoundFields DEF PoolChange
  <2>2. e.current <= Len(d.pools) /\ e.clientPool <= Len(d.pools) /\ e.primaryPool <= Len(d.pools)
    BY <1>8, SoundFields DEF SameRest
  <2> QED
    BY <1>3, <1>4, <1>7, <1>9, <2>1, <2>2, NamesKept DEF PoolSound
<1>16. PoolSound(e)
  BY <1>7, <1>10, <1>14, <1>15 DEF PoolSound
<1> QED
  BY <1>1, <1>2, <1>16 DEF e, b, w, idle, used, Gets

(* A thread gets a connection, or the pool is exhausted.                   *)
LEMMA GetConnSound == PoolSound(db) /\ GetConn => PoolSound(db')
<1> SUFFICES ASSUME PoolSound(db), NEW t \in PoolUser,
                    db.th[t].pc = "get", db.th[t].pool # NoPool,
                    \/ \E c \in db.pools[db.th[t].pool].idle : db' = Gets(db, t, c)
                    \/ \E c \in Free(db) : db' = Gets(Connected(db, {c}), t, c)
                    \/ db' = AttemptFails(db, t, "exhausted")
             PROVE  PoolSound(db')
  BY Zenon DEF GetConn
<1>1. db \in DbState /\ db.th[t] \in WorkerState /\ db.th[t].conn = NoAddress
  BY SoundFields DEF Asking
<1>2. db.th[t].pool \in DOMAIN db.pools
  BY <1>1, SoundFields, StateFields, WorkerFields DEF NoPool
<1>3. ASSUME NEW c \in db.pools[db.th[t].pool].idle PROVE PoolSound(Gets(db, t, c))
  <2>1. c \in Address
    BY <1>1, <1>2, StateFields, PoolFields
  <2>2. SameRest(db, db)
    BY DEF SameRest
  <2> QED
    BY <1>1, <2>1, <2>2, GetsSound
<1>4. ASSUME NEW c \in Free(db) PROVE PoolSound(Gets(Connected(db, {c}), t, c))
  <2> DEFINE a == Connected(db, {c})
  <2>1. c \in Address /\ {c} \in SUBSET Address
    BY DEF Free
  <2>2. /\ a \in DbState /\ a.th = db.th /\ a.pools = db.pools
        /\ a.open = db.open \union {c}
        /\ a.live = IF db.server = "asleep" THEN db.live ELSE db.live \union {c}
        /\ a.lock = db.lock /\ SameRest(db, a)
    BY <1>1, <2>1, ConnectedEffect
  <2> HIDE DEF a
  <2>3. PoolSound(Gets(a, t, c))
    BY <2>1, <2>2, GetsSound
  <2> QED
    BY <2>3 DEF a
<1>5. PoolSound(AttemptFails(db, t, "exhausted"))
  <2>1. PICK v \in WorkerState : v = db.th[t]
    BY <1>1
  <2>2. PICK why \in {"stale", "exhausted"} : why = "exhausted"
    OBVIOUS
  <2> DEFINE w == Tried(v, why)
  <2>3. /\ w \in WorkerState /\ w.pc = "get" /\ w.stage = v.stage /\ w.pool = v.pool
        /\ w.conn = NoAddress
    BY TriedFields
  <2> HIDE DEF w
  <2>4. MayBecome(db, t, w)
    BY <1>1, <2>1, <2>3, SoundFields DEF MayBecome, Asking, InWake, AsksExisting, Rebuilds
  <2>5. PoolSound(Turn(db, t, Tried(db.th[t], why)))
    BY <2>1, <2>4, TurnSound DEF w
  <2> QED
    BY <1>1, <2>2, <2>5, AttemptFailsSound
<1> QED
  BY <1>3, <1>4, <1>5

(* It cannot connect.                                                      *)
LEMMA ConnectFailsSound == PoolSound(db) /\ ConnectFails => PoolSound(db')
<1> SUFFICES ASSUME PoolSound(db), NEW t \in PoolUser,
                    db.th[t].pc = "get", db.server = "asleep",
                    db' = StageFails(Turn(db, t, [db.th[t] EXCEPT !.why = "stale"]), t)
             PROVE  PoolSound(db')
  BY DEF ConnectFails
<1>1. PICK v \in WorkerState : v = db.th[t]
  BY SoundFields
<1> DEFINE w == [v EXCEPT !.why = "stale"]
           e == Turn(db, t, w)
<1>2. /\ w \in WorkerState /\ w.pc = v.pc /\ w.stage = v.stage /\ w.pool = v.pool
      /\ w.conn = v.conn
  BY DEF WorkerState
<1> HIDE DEF w
<1>3. MayBecome(db, t, w)
  BY <1>1, <1>2, SoundFields DEF MayBecome, Asking, InWake, AsksExisting, Rebuilds
<1>4. PoolSound(e)
  BY <1>3, TurnSound
<1>5. e.th = [db.th EXCEPT ![t] = w] /\ e.server = "asleep"
  BY <1>2, TurnEffect DEF PoolSound, SameRest
<1> HIDE DEF e
<1>6. e.th[t] = w
  BY <1>5, StateFields DEF PoolSound
<1>7. PoolSound(StageFails(e, t))
  BY <1>1, <1>2, <1>4, <1>5, <1>6, SoundFields, StageFailsSound
<1> QED
  BY <1>1, <1>7 DEF e, w

(* The pool it read was none.                                              *)
LEMMA PoolGoneSound == PoolSound(db) /\ PoolGone => PoolSound(db')
<1> SUFFICES ASSUME PoolSound(db), NEW t \in PoolUser,
                    db.th[t].pc = "get", db' = GivenUp(db, t)
             PROVE  PoolSound(db')
  BY DEF PoolGone
<1> QED
  BY GivenUpSound, SoundFields DEF Asking, Rebuilds

(* A connection that does not answer is discarded.                         *)
LEMMA DiscardsSound ==
  ASSUME NEW d, PoolSound(d), NEW t \in PoolUser, d.th[t].pc = "ping",
         d.th[t].conn \notin d.live
  PROVE  PoolSound(AttemptFails(PutConn(d, d.th[t].pool, d.th[t].conn, TRUE), t, "stale"))
<1>1. PICK v \in WorkerState : v = d.th[t]
  BY SoundFields
<1>2. PICK p \in DOMAIN d.pools : p = v.pool /\ v.conn \in d.pools[p].used
  BY <1>1 DEF PoolSound, Accounted, PingedIsUsed
<1>3. PICK why \in {"stale", "exhausted"} : why = "stale"
  OBVIOUS
<1> DEFINE a == PutConn(d, p, v.conn, TRUE)
           w == Tried(v, why)
           e == Turn(a, t, w)
<1>4. d \in DbState /\ Keyed(d, p, v.conn)
  BY <1>2 DEF PoolSound, Keyed
<1>5. /\ a \in DbState /\ a.th = d.th /\ a.lock = d.lock /\ SameRest(d, a)
      /\ PutBack(d, a, p, v.conn)
  BY <1>4, PutConnEffect, Zenon
<1> HIDE DEF a
<1>6. /\ w \in WorkerState /\ w.pc = "get" /\ w.stage = v.stage /\ w.pool = v.pool
      /\ w.conn = NoAddress
  BY TriedFields
<1> HIDE DEF w
<1>7. /\ e \in DbState /\ e.th = [a.th EXCEPT ![t] = w] /\ e.pools = a.pools
      /\ e.open = a.open /\ e.live = a.live /\ e.lock = a.lock /\ SameRest(a, e)
  BY <1>5, <1>6, TurnEffect
<1> HIDE DEF e
<1>8. /\ PutBack(d, e, p, v.conn) /\ SameRest(d, e) /\ e.lock = d.lock
      /\ Len(e.pools) = Len(d.pools)
  BY <1>5, <1>7 DEF PutBack, PoolChange, SameRest
<1>9. Moves(d, e, t, w)
  BY <1>4, <1>5, <1>7, MovesOf
<1>10. Accounted(e)
  BY <1>1, <1>2, <1>4, <1>6, <1>7, <1>8, <1>9, GivesBack DEF PoolSound
<1>11. CurrentLives(d) => CurrentLives(e)
  BY <1>1, <1>2, <1>4, <1>6, <1>7, <1>8, <1>9, GivingBackLives DEF PoolSound, SameRest
<1>12. WakeStep(d, e, t, w)
  BY <1>1, <1>6, <1>8 DEF WakeStep, SameRest, InWake, AsksExisting, Rebuilds
<1>13. WakeSound(e)
  BY <1>4, <1>7, <1>9, <1>11, <1>12, WakeKept DEF PoolSound
<1>14. PoolsNamed(e)
  <2>1. w.pool <= Len(d.pools) /\ e.current <= Len(d.pools)
        /\ e.clientPool <= Len(d.pools) /\ e.primaryPool <= Len(d.pools)
    BY <1>1, <1>6, <1>8, SoundFields DEF SameRest
  <2> QED
    BY <1>4, <1>6, <1>7, <1>8, <1>9, <2>1, NamesKept DEF PoolSound
<1>15. PoolSound(Turn(a, t, Tried(a.th[t], why)))
  BY <1>1, <1>5, <1>7, <1>10, <1>13, <1>14 DEF PoolSound, e, w
<1>16. ~(v.stage = "existing" /\ d.rebuilt > 0)
  BY <1>1, <1>2
     DEF PoolSound, WakeSound, AfterRebuild, ExistingIsCurrent, AsksExisting, CurrentLives
<1>17. ~(a.th[t].stage = "existing" /\ a.rebuilt > 0)
  BY <1>1, <1>5, <1>16 DEF SameRest
<1>18. PoolSound(AttemptFails(a, t, why))
  BY <1>5, <1>15, <1>17, AttemptFailsSound
<1> QED
  BY <1>1, <1>2, <1>3, <1>18 DEF a

(* A thread with a connection that answered.                               *)
LEMMA InUseFields ==
  ASSUME NEW c \in Address \union {NoAddress}, NEW pc \in {"pool", "ready", "using"},
         NEW then \in {"none", "adopt"}
  PROVE  LET w == Worker(pc, then, "none", NoPool, c, 0, "none")
         IN w \in WorkerState /\ w.pc = pc /\ w.then = then /\ w.conn = c /\ w.pool = 0
BY DEF WorkerState, Worker, NoPool, Control

(* The connection answers or is discarded.                                 *)
LEMMA PingSound == PoolSound(db) /\ Ping => PoolSound(db')
<1> SUFFICES ASSUME PoolSound(db), Ping PROVE PoolSound(db')
  OBVIOUS
<1>1. PICK t \in PoolUser :
        LET w == db.th[t]
            c == w.conn
        IN /\ w.pc = "ping"
           /\ \/ /\ c \notin db.live
                 /\ db' = AttemptFails(PutConn(db, w.pool, c, TRUE), t, "stale")
              \/ db' = [InUse(db, t, "pool", "adopt") EXCEPT !.lock = @ \ {t}]
              \/ db' = [InUse(db, t, "ready", "none") EXCEPT !.primaryPool = db.clientPool]
              \/ db' = InUse(db, t, "using", "none")
  BY Zenon DEF Ping
<1>2. CASE /\ db.th[t].conn \notin db.live
           /\ db' = AttemptFails(PutConn(db, db.th[t].pool, db.th[t].conn, TRUE), t, "stale")
  BY <1>1, <1>2, DiscardsSound
<1>3. PICK v \in WorkerState : v = db.th[t]
  BY SoundFields
<1>4. ASSUME NEW pc \in {"pool", "ready", "using"}, NEW then \in {"none", "adopt"},
             pc = "pool" => then = "adopt"
      PROVE  LET w == Worker(pc, then, "none", NoPool, v.conn, 0, "none")
             IN MayBecome(db, t, w) /\ InUse(db, t, pc, then) = Turn(db, t, w) /\ ~InWake(w)
  <2> DEFINE w == Worker(pc, then, "none", NoPool, v.conn, 0, "none")
  <2>1. w \in WorkerState /\ w.pc = pc /\ w.then = then /\ w.conn = v.conn /\ w.pool = 0
    BY WorkerFields, InUseFields
  <2>2. InUse(db, t, pc, then) = Turn(db, t, w)
    BY <1>3 DEF InUse
  <2> HIDE DEF w
  <2>3. MayBecome(db, t, w) /\ ~InWake(w)
    BY <1>1, <1>3, <1>4, <2>1, SoundFields DEF MayBecome, Asking, InWake, AsksExisting, Rebuilds
  <2> QED
    BY <2>2, <2>3 DEF w
<1>5. db.clientPool \in Nat /\ db.clientPool <= Len(db.pools)
  BY StateFields, SoundFields DEF PoolSound
<1>6. CASE db' = [InUse(db, t, "pool", "adopt") EXCEPT !.lock = @ \ {t}]
  <2> DEFINE w == Worker("pool", "adopt", "none", NoPool, v.conn, 0, "none")
  <2>1. MayBecome(db, t, w) /\ InUse(db, t, "pool", "adopt") = Turn(db, t, w) /\ ~InWake(w)
    BY <1>4
  <2> HIDE DEF w
  <2>2. PoolSound([Turn(db, t, w) EXCEPT !.lock = @ \ {t}])
    BY <1>5, <2>1, TurnAndMoreSound
  <2> QED
    BY <1>6, <2>1, <2>2
<1>7. CASE db' = [InUse(db, t, "ready", "none") EXCEPT !.primaryPool = db.clientPool]
  <2> DEFINE w == Worker("ready", "none", "none", NoPool, v.conn, 0, "none")
  <2>1. MayBecome(db, t, w) /\ InUse(db, t, "ready", "none") = Turn(db, t, w)
    BY <1>4
  <2> HIDE DEF w
  <2>2. PoolSound([Turn(db, t, w) EXCEPT !.primaryPool = db.clientPool])
    BY <1>5, <2>1, TurnAndMoreSound
  <2> QED
    BY <1>7, <2>1, <2>2
<1>8. CASE db' = InUse(db, t, "using", "none")
  <2> DEFINE w == Worker("using", "none", "none", NoPool, v.conn, 0, "none")
  <2>1. MayBecome(db, t, w) /\ InUse(db, t, "using", "none") = Turn(db, t, w)
    BY <1>4
  <2> HIDE DEF w
  <2> QED
    BY <1>8, <2>1, TurnSound
<1> QED
  BY <1>1, <1>2, <1>6, <1>7, <1>8, Zenon

(* A thread enters the wake-up: nobody else is in it.                      *)
LEMMA EntersSound ==
  ASSUME NEW d, PoolSound(d), NEW t \in PoolUser, d.th[t].pc = "lock", d.lock = {},
         NEW w \in WorkerState, w.conn = d.th[t].conn, w.pool <= Len(d.pools),
         \/ w.pc = "reset" /\ d.current = NoPool
         \/ w.pc = "get" /\ w.pool = d.current /\ d.current # NoPool
  PROVE  PoolSound([Turn(d, t, w) EXCEPT !.lock = {t}])
<1> DEFINE a == Turn(d, t, w)
           e == [a EXCEPT !.lock = {t}]
<1>1. d \in DbState /\ w.conn = NoAddress
  BY SoundFields DEF Asking
<1>2. /\ a \in DbState /\ a.th = [d.th EXCEPT ![t] = w] /\ a.pools = d.pools
      /\ a.open = d.open /\ a.live = d.live /\ a.lock = d.lock /\ SameRest(d, a)
  BY <1>1, TurnEffect
<1> HIDE DEF a
<1>3. /\ e \in DbState /\ e.th = a.th /\ e.pools = a.pools /\ e.open = a.open
      /\ e.live = a.live /\ e.lock = {t} /\ SameRest(a, e)
  BY <1>2 DEF DbState, SameRest
<1> HIDE DEF e
<1>4. Moves(d, e, t, w) /\ SameRest(d, e)
  BY <1>1, <1>2, <1>3, MovesOf DEF SameRest
<1>5. Accounted(e)
  BY <1>1, <1>2, <1>3, <1>4, KeepsConnection DEF PoolSound
<1>6. \A u \in PoolUser : ~InWake(d.th[u])
  BY DEF PoolSound, WakeSound, OneInWake
<1>7. OneInWake(e)
  BY <1>3, <1>4, <1>6 DEF OneInWake, Moves
<1>8. ExistingIsCurrent(e)
  BY <1>4, <1>6 DEF ExistingIsCurrent, Moves, AsksExisting, InWake, SameRest
<1>9. ASSUME e.rebuilt > 0
      PROVE  /\ e.server = "awake" /\ CurrentLives(e) /\ e.current # NoPool
             /\ \A u \in PoolUser : e.th[u].pc # "reset"
  <2>1. d.server = "awake" /\ CurrentLives(d) /\ d.current # NoPool
    BY <1>4, <1>6, <1>9
       DEF PoolSound, WakeSound, AfterRebuild, SameRest, InWake, Rebuilds
  <2>2. CurrentLives(e)
    BY <1>1, <1>2, <1>3, <1>4, <2>1, KeepingLives DEF PoolSound, SameRest
  <2> QED
    BY <1>4, <1>6, <2>1, <2>2 DEF SameRest, Moves, InWake
<1>10. WakeSound(e)
  BY <1>4, <1>7, <1>8, <1>9 DEF WakeSound, AfterRebuild, PoolSound, SameRest
<1>11. PoolsNamed(e)
  <2>1. Len(e.pools) = Len(d.pools) /\ e.current <= Len(d.pools)
        /\ e.clientPool <= Len(d.pools) /\ e.primaryPool <= Len(d.pools)
    BY <1>2, <1>3, <1>4, SoundFields DEF SameRest
  <2> QED
    BY <1>1, <1>3, <1>4, <2>1, NamesKept DEF PoolSound
<1> QED
  BY <1>3, <1>5, <1>10, <1>11 DEF PoolSound, e, a

(* A thread enters the wake-up.                                            *)
LEMMA EnterWakeSound == PoolSound(db) /\ EnterWake => PoolSound(db')
<1> SUFFICES ASSUME PoolSound(db), NEW t \in PoolUser,
                    db.th[t].pc = "lock", db.lock = {},
                    \/ /\ db.current = NoPool
                       /\ db' = [Goto(db, t, "reset") EXCEPT !.lock = {t}]
                    \/ /\ db.current # NoPool
                       /\ db' = [Turn(db, t, Asks(db.th[t], "existing", db.current,
                                                  ExistingTries)) EXCEPT !.lock = {t}]
             PROVE  PoolSound(db')
  BY DEF EnterWake
<1>1. PICK v \in WorkerState : v = db.th[t]
  BY SoundFields
<1>2. PICK p \in Nat : p = db.current /\ p <= Len(db.pools)
  BY StateFields, SoundFields DEF PoolSound
<1>3. v.pool <= Len(db.pools) /\ ExistingTries \in Int
  BY <1>1, SoundFields, PoolSizesAssumption
<1>4. CASE db.current = NoPool /\ db' = [Goto(db, t, "reset") EXCEPT !.lock = {t}]
  <2> DEFINE w == [v EXCEPT !.pc = "reset"]
  <2>1. w \in WorkerState /\ w.pc = "reset" /\ w.conn = v.conn /\ w.pool = v.pool
    BY GoesTo DEF Control
  <2> HIDE DEF w
  <2>2. PoolSound([Turn(db, t, w) EXCEPT !.lock = {t}])
    BY <1>1, <1>3, <1>4, <2>1, EntersSound
  <2> QED
    BY <1>1, <1>4, <2>2 DEF Goto, w
<1>5. CASE /\ db.current # NoPool
           /\ db' = [Turn(db, t, Asks(v, "existing", p, ExistingTries)) EXCEPT !.lock = {t}]
  <2> DEFINE w == Asks(v, "existing", p, ExistingTries)
  <2>1. w \in WorkerState /\ w.pc = "get" /\ w.conn = v.conn /\ w.pool = p
    BY <1>3 DEF Asks, WorkerState, Control
  <2> HIDE DEF w
  <2>2. PoolSound([Turn(db, t, w) EXCEPT !.lock = {t}])
    BY <1>1, <1>2, <1>5, <2>1, EntersSound
  <2> QED
    BY <1>5, <2>2 DEF w
<1> QED
  BY <1>1, <1>2, <1>4, <1>5

(* The thread in the wake-up resets the pool: one found awake is reset at  *)
(* most once, unless it is exhausted.                                      *)
LEMMA ResetsSound ==
  ASSUME NEW d, PoolSound(d), NEW t \in PoolUser, d.th[t].pc = "reset"
  PROVE  PoolSound([Turn(d, t, [d.th[t] EXCEPT !.pc = "pool", !.then = "fresh"]) EXCEPT
                      !.current = NoPool,
                      !.rebuilt = IF d.server = "asleep" THEN 0 ELSE 1])
<1>1. PICK v \in WorkerState : v = d.th[t]
  BY SoundFields
<1>2. PICK r \in {0, 1} : r = IF d.server = "asleep" THEN 0 ELSE 1
  BY StateFields DEF PoolSound
<1> DEFINE w == [v EXCEPT !.pc = "pool", !.then = "fresh"]
           a == Turn(d, t, w)
           e == [a EXCEPT !.current = NoPool, !.rebuilt = r]
<1>3. /\ w \in WorkerState /\ w.pc = "pool" /\ w.then = "fresh" /\ w.conn = v.conn
      /\ w.pool = v.pool
  BY DEF WorkerState, Control
<1> HIDE DEF w
<1>4. d \in DbState /\ v.conn = NoAddress
  BY <1>1, SoundFields DEF Asking
<1>5. /\ a \in DbState /\ a.th = [d.th EXCEPT ![t] = w] /\ a.pools = d.pools
      /\ a.open = d.open /\ a.live = d.live /\ a.lock = d.lock /\ SameRest(d, a)
  BY <1>3, <1>4, TurnEffect
<1> HIDE DEF a
<1>6. /\ e \in DbState /\ e.th = a.th /\ e.pools = a.pools /\ e.open = a.open
      /\ e.live = a.live /\ e.lock = a.lock /\ e.server = a.server /\ e.rebuilt = r
      /\ e.current = NoPool /\ e.clientPool = a.clientPool /\ e.primaryPool = a.primaryPool
  BY <1>5 DEF DbState, NoPool
<1> HIDE DEF e
<1>7. Moves(d, e, t, w)
  BY <1>4, <1>5, <1>6, MovesOf
<1>8. Accounted(e)
  BY <1>1, <1>3, <1>4, <1>5, <1>6, <1>7, KeepsConnection DEF PoolSound
<1>9. \A u \in PoolUser : InWake(d.th[u]) => u = t
  BY DEF PoolSound, WakeSound, OneInWake, InWake
<1>10. OneInWake(e)
  BY <1>5, <1>6, <1>7 DEF PoolSound, WakeSound, OneInWake, Moves, InWake
<1>11. ExistingIsCurrent(e)
  BY <1>3, <1>7, <1>9 DEF ExistingIsCurrent, Moves, AsksExisting, InWake
<1>12. r <= 1 /\ (r > 0 => d.server = "awake")
  <2>1. /\ d.rebuilt <= 1 /\ d.rebuilt \in {0, 1} /\ d.server \in {"awake", "asleep"}
        /\ d.rebuilt > 0 => d.server = "awake" /\ d.th[t].why = "exhausted"
    BY <1>4, StateFields DEF PoolSound, WakeSound, AfterRebuild
  <2> QED
    BY <1>2, <2>1
<1>13. AfterRebuild(e)
  <2>1. \A u \in PoolUser : e.th[u].pc # "reset"
    BY <1>3, <1>7, <1>9 DEF Moves, InWake
  <2>2. Rebuilds(e.th[t])
    BY <1>3, <1>7 DEF Moves, Rebuilds
  <2>3. CurrentLives(e)
    BY <1>6 DEF CurrentLives
  <2>4. r > 0 => e.server = "awake"
    BY <1>5, <1>6, <1>12 DEF SameRest
  <2> QED
    BY <1>6, <2>1, <2>2, <2>3, <2>4 DEF AfterRebuild
<1>14. WakeSound(e)
  BY <1>6, <1>10, <1>11, <1>12, <1>13 DEF WakeSound
<1>15. PoolsNamed(e)
  <2>1. /\ Len(e.pools) = Len(d.pools) /\ e.current <= Len(d.pools) /\ w.pool <= Len(d.pools)
        /\ e.clientPool <= Len(d.pools) /\ e.primaryPool <= Len(d.pools)
    BY <1>1, <1>3, <1>5, <1>6, SoundFields DEF SameRest, NoPool
  <2> QED
    BY <1>3, <1>4, <1>6, <1>7, <2>1, NamesKept DEF PoolSound
<1>16. PoolSound(e)
  BY <1>6, <1>8, <1>14, <1>15 DEF PoolSound
<1>17. a.rebuilt = d.rebuilt
  BY <1>5 DEF SameRest
<1> QED
  BY <1>1, <1>2, <1>16, <1>17 DEF e, a, w

(* The same for the action.                                                *)
LEMMA ResetPoolSound == PoolSound(db) /\ ResetPool => PoolSound(db')
<1> SUFFICES ASSUME PoolSound(db), ResetPool PROVE PoolSound(db')
  OBVIOUS
<1>1. PICK t \in PoolUser :
        /\ db.th[t].pc = "reset"
        /\ db' = [Turn(db, t, [db.th[t] EXCEPT !.pc = "pool", !.then = "fresh"]) EXCEPT
                    !.current = NoPool,
                    !.rebuilt = IF db.server = "asleep" THEN 0 ELSE 1]
  BY Zenon DEF ResetPool
<1>2. PoolSound([Turn(db, t, [db.th[t] EXCEPT !.pc = "pool", !.then = "fresh"]) EXCEPT
                    !.current = NoPool,
                    !.rebuilt = IF db.server = "asleep" THEN 0 ELSE 1])
  BY <1>1, ResetsSound
<1> QED
  BY <1>1, <1>2, Zenon

(* A fetch or the client returns its connection.                           *)
LEMMA ReturnsSound ==
  PoolSound(db) /\ (ReturnFetch \/ CloseClient) => PoolSound(db')
<1>1. ASSUME PoolSound(db), NEW t \in PoolUser, NEW p, NEW noticed,
             db.th[t].pc \in {"using", "ready"}, db' = Returned(db, t, p, noticed)
      PROVE  PoolSound(db')
  BY <1>1, EndsSound DEF Rebuilds
<1>2. ASSUME PoolSound(db), ReturnFetch PROVE PoolSound(db')
  <2>1. PICK t \in Fetcher, noticed \in BOOLEAN :
          db.th[t].pc = "using" /\ db' = Returned(db, t, db.clientPool, noticed)
    BY <1>2 DEF ReturnFetch
  <2>2. t \in PoolUser /\ db.th[t].pc \in {"using", "ready"}
    BY <2>1 DEF PoolUser
  <2> QED
    BY <1>1, <1>2, <2>1, <2>2
<1>3. ASSUME PoolSound(db), CloseClient PROVE PoolSound(db')
  <2>1. PICK noticed \in BOOLEAN :
          db.th[Client].pc = "ready" /\ db' = Returned(db, Client, db.primaryPool, noticed)
    BY <1>3 DEF CloseClient
  <2>2. Client \in PoolUser /\ db.th[Client].pc \in {"using", "ready"}
    BY <2>1 DEF PoolUser
  <2> QED
    BY <1>1, <1>3, <2>1, <2>2
<1> QED
  BY <1>2, <1>3

(* The persisting thread is done with its connection.                      *)
LEMMA PersistDoneSound == PoolSound(db) /\ PersistDone => PoolSound(db')
<1> SUFFICES ASSUME PoolSound(db), PersistDone PROVE PoolSound(db')
  OBVIOUS
<1>1. Persister \in PoolUser
  BY DEF PoolUser
<1>2. PICK v \in WorkerState : v = db.th[Persister]
  BY <1>1, SoundFields
<1> DEFINE w == [v EXCEPT !.pc = "pool", !.then = "give"]
<1>3. w \in WorkerState /\ w.pc = "pool" /\ w.then = "give" /\ w.conn = v.conn /\ w.pool = v.pool
  BY DEF WorkerState, Control
<1> HIDE DEF w
<1>4. MayBecome(db, Persister, w)
  BY <1>1, <1>2, <1>3, SoundFields DEF PersistDone, MayBecome, Asking, InWake, AsksExisting, Rebuilds
<1> QED
  BY <1>1, <1>2, <1>4, TurnSound DEF PersistDone, w

-----------------------------------------------------------------------------
(* The first states are sound.                                             *)
LEMMA PoolInit == DbInit => PoolSound(db)
<1> SUFFICES ASSUME NEW server \in {"awake", "asleep"},
                    db = [server |-> server, sleeps |-> IF server = "asleep" THEN 1 ELSE 0,
                          current |-> NoPool, pools |-> <<>>, open |-> {}, live |-> {},
                          lock |-> {}, rebuilt |-> 0, clientPool |-> NoPool,
                          primaryPool |-> NoPool, th |-> [t \in PoolUser |-> Idle]]
             PROVE  PoolSound(db)
  BY DEF DbInit
<1>1. /\ Idle \in WorkerState /\ Idle.pc = "idle" /\ Idle.conn = NoAddress /\ Idle.pool = 0
      /\ Idle.then = "none"
  BY DEF Idle, Worker, WorkerState, Control, NoPool
<1>2. PICK n \in Nat : n = IF server = "asleep" THEN 1 ELSE 0
  OBVIOUS
<1>3. <<>> \in Seq(PoolRecord) /\ Len(<<>>) = 0 /\ DOMAIN <<>> = {}
  OBVIOUS
<1>4. [t \in PoolUser |-> Idle] \in [PoolUser -> WorkerState]
  BY <1>1
<1>5. db \in DbState
  BY <1>2, <1>3, <1>4 DEF DbState, NoPool
<1>6. /\ db.current = 0 /\ db.pools = <<>> /\ db.open = {} /\ db.lock = {} /\ db.rebuilt = 0
      /\ db.clientPool = 0 /\ db.primaryPool = 0 /\ \A t \in PoolUser : db.th[t] = Idle
  BY DEF NoPool
<1>7. PoolsNamed(db)
  BY <1>1, <1>3, <1>6 DEF PoolsNamed
<1>8. Accounted(db)
  BY <1>1, <1>3, <1>6 DEF Accounted, AskersHoldNothing, HeldOnce, IdleUnheld, PoolsApart,
                      PingedIsUsed, OpenIsHeldOrIdle
<1>9. WakeSound(db)
  BY <1>1, <1>6 DEF WakeSound, OneInWake, InWake, ExistingIsCurrent, AsksExisting, AfterRebuild
<1> QED
  BY <1>5, <1>7, <1>8, <1>9 DEF PoolSound

PoolInvariant == PoolSound(db)

(* The connections are accounted for and the wake-up is sound, always.     *)
THEOREM PoolStaysSound == DbSpec => []PoolInvariant
<1>1. ASSUME PoolSound(db), DbNext PROVE PoolSound(db')
  BY <1>1, SuspendSound, StartClientSound, StartFetchSound, LookUpPoolSound, CreatePoolFailsSound,
     ReturnPoolSound, GetConnSound, ConnectFailsSound, PoolGoneSound, PingSound,
     EnterWakeSound, ResetPoolSound, ReturnsSound, PersistDoneSound, Zenon DEF DbNext
<1>2. PoolInvariant /\ [DbNext]_db => PoolInvariant'
  BY <1>1 DEF PoolInvariant
<1>3. DbInit => PoolInvariant
  BY PoolInit DEF PoolInvariant
<1> QED
  BY <1>2, <1>3, PTL DEF DbSpec

(* Every field of the state has its type and every pool named exists.      *)
THEOREM PoolTypeCorrect == DbSpec => []PoolTypeOK
<1>1. PoolInvariant => PoolTypeOK
  BY DEF PoolInvariant, PoolSound, PoolTypeOK
<1> QED
  BY <1>1, PoolStaysSound, PTL

(* NoConnectionLost: when everyone has ended an open connection is idle in *)
(* some pool or kept by a thread that failed.                              *)
THEOREM NothingIsLost == DbSpec => []NoConnectionLost
<1>1. PoolInvariant => NoConnectionLost
  <2> SUFFICES ASSUME PoolInvariant, NEW a \in db.open \ Held(db)
               PROVE  \E p \in DOMAIN db.pools : a \in db.pools[p].idle
    BY DEF NoConnectionLost
  <2>1. a # NoAddress
    BY StateFields, PoolSizesAssumption DEF PoolInvariant, PoolSound
  <2>2. \A t \in PoolUser : db.th[t].conn # a
    BY <2>1 DEF Held
  <2> QED
    BY <2>2 DEF PoolInvariant, PoolSound, Accounted, OpenIsHeldOrIdle
<1> QED
  BY <1>1, PoolStaysSound, PTL

(* AnsweringPoolKept: a pool rebuilt while the server answers is not       *)
(* thrown away by the threads that wait, exhaustion aside.                 *)
THEOREM RebuiltPoolKept == DbSpec => []AnsweringPoolKept
<1>1. PoolInvariant => AnsweringPoolKept
  <2> SUFFICES ASSUME PoolSound(db), db.rebuilt = 1
               PROVE  \A t \in PoolUser : db.th[t].pc = "reset" => db.th[t].why = "exhausted"
    BY DEF PoolInvariant, AnsweringPoolKept
  <2>1. db.rebuilt > 0
    OBVIOUS
  <2> QED
    BY <2>1 DEF PoolSound, WakeSound, AfterRebuild
<1> QED
  BY <1>1, PoolStaysSound, PTL
=============================================================================
