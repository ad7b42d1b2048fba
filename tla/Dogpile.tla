------------------------------ MODULE Dogpile ------------------------------
(***************************************************************************)
(* CacheService.get_or_set (django core/cache_service.py) under one key:   *)
(* the one request that gets the lock computes the value, the others poll  *)
(* for it and compute it themselves when they have polled long enough.     *)
(*                                                                         *)
(* The lock is a key with a time to live that names no owner.  A value is  *)
(* there or not; what it says, and what the view answers with it, is left  *)
(* out.  With IGNORE_EXCEPTIONS a Redis that fails looks like a miss, a    *)
(* lock held by another or a deletion that does nothing.                   *)
(***************************************************************************)
EXTENDS Naturals, FiniteSets

CONSTANTS
  Caller,        \* requests to the view
  LockRetries,   \* 300
  MaxExpiries    \* bound of the model: how often the lock expires

ASSUME DogpileAssumption ==
  IsFiniteSet(Caller) /\ LockRetries \in Nat /\ MaxExpiries \in Nat

VARIABLES
  cached,     \* is the value in the cache?
  lock,       \* is the lock there?
  caller,     \* the requests
  expiries    \* history: how often the lock expired

dgVars == <<cached, lock, caller, expiries>>

-----------------------------------------------------------------------------
DogpileInit ==
  /\ cached = FALSE /\ lock = FALSE /\ expiries = 0
  /\ caller = [r \in Caller |-> [pc |-> "new", polls |-> 0]]

-----------------------------------------------------------------------------
Is(r, pc)      == caller[r].pc = pc
Becomes(r, pc) == caller' = [caller EXCEPT ![r].pc = pc]

LookInCache(r) ==
  /\ Is(r, "new")
  /\ \/ cached /\ Becomes(r, "done")
     \/ Becomes(r, "add")                        \* a miss, or Redis failed
  /\ UNCHANGED <<cached, lock, expiries>>

(* Mutant: the lock is written with SET, not with SET NX.                  *)
AddLockWithSet(r) ==
  /\ Is(r, "add")
  /\ lock' = TRUE /\ Becomes(r, "fetch")
  /\ UNCHANGED <<cached, expiries>>

(* cache.add: SET NX.  The value is not looked for again.                  *)
AddLock(r) ==
  /\ Is(r, "add")
  /\ \/ ~lock /\ lock' = TRUE /\ Becomes(r, "fetch")
     \/ lock' = lock /\ Becomes(r, "wait")       \* held by another, or Redis failed
  /\ UNCHANGED <<cached, expiries>>

(* The holder computes the value, stores it and deletes the lock, whoever  *)
(* has made the lock that is there by then.                                *)
Fetch(r) ==
  /\ Is(r, "fetch")
  /\ \/ Becomes(r, "store")
     \/ Becomes(r, "release")                    \* None, or an exception
  /\ UNCHANGED <<cached, lock, expiries>>

StoreValue(r) ==
  /\ Is(r, "store")
  /\ \E stored \in {TRUE, cached} : cached' = stored
  /\ Becomes(r, "release")
  /\ UNCHANGED <<lock, expiries>>

Release(r) ==
  /\ Is(r, "release")
  /\ \E left \in {FALSE, lock} : lock' = left
  /\ Becomes(r, "done")
  /\ UNCHANGED <<cached, expiries>>

(* The others poll, and in the end compute the value and do not store it.  *)
Poll(r) ==
  /\ Is(r, "wait")
  /\ \/ caller[r].polls < LockRetries /\ cached /\ Becomes(r, "done")
     \/ caller[r].polls < LockRetries                      \* a miss, or Redis failed
        /\ caller' = [caller EXCEPT ![r].polls = @ + 1]
     \/ caller[r].polls = LockRetries /\ Becomes(r, "compute")
  /\ UNCHANGED <<cached, lock, expiries>>

ComputeDirectly(r) ==
  /\ Is(r, "compute")
  /\ Becomes(r, "done")
  /\ UNCHANGED <<cached, lock, expiries>>

ExpireLock ==
  /\ lock /\ expiries < MaxExpiries
  /\ lock' = FALSE /\ expiries' = expiries + 1
  /\ UNCHANGED <<cached, caller>>

ExpireValue ==
  /\ cached /\ cached' = FALSE
  /\ UNCHANGED <<lock, caller, expiries>>

DogpileNext ==
  \/ \E r \in Caller : \/ LookInCache(r) \/ AddLock(r) \/ Fetch(r) \/ StoreValue(r)
                       \/ Release(r) \/ Poll(r) \/ ComputeDirectly(r)
  \/ ExpireLock \/ ExpireValue

DogpileSpec == DogpileInit /\ [][DogpileNext]_dgVars

-----------------------------------------------------------------------------
CallerState ==
  [pc : {"new", "add", "fetch", "store", "release", "wait", "compute", "done"},
   polls : Nat]

DogpileTypeOK ==
  /\ cached \in BOOLEAN /\ lock \in BOOLEAN /\ expiries \in Nat
  /\ caller \in [Caller -> CallerState]

Holders == {r \in Caller : caller[r].pc \in {"fetch", "store", "release"}}

(* The lock keeps the value from being computed by many requests at once,  *)
(* as far as it can: each time the lock expires under the one that holds   *)
(* it, one more can hold it, and never more than that, although a holder   *)
(* deletes whatever lock it finds and Redis may refuse to delete it.       *)
(* (Those that stop waiting compute without the lock and store nothing.)   *)
OneHolderPerLock == Cardinality(Holders) <= 1 + expiries
=============================================================================
