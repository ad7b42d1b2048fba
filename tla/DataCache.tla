----------------------------- MODULE DataCache -----------------------------
(***************************************************************************)
(* One cached list of an organisation (fastapi utils/cache_manager.py and  *)
(* the fetch_* methods of utils/django_client.py) and how Django clears it *)
(* when a record changes (django academics/signals.py).  A large list is   *)
(* cut into chunks under keys of their own, announced by a manifest.  Only *)
(* the course list carries a version next to it.                           *)
(*                                                                         *)
(* Data is named by the number of changes it reflects.  Every Redis        *)
(* command and pipeline is a step.  The in-memory mirror of CacheManager   *)
(* is left out: it lives as long as one client, which reads a list once.   *)
(***************************************************************************)
EXTENDS Integers, FiniteSets

CONSTANTS
  Loader,        \* clients that load the list, each one again and again
  Chunks,        \* chunk keys of a large list
  MaxChanges,    \* bound of the model: committed or rolled back changes
  MaxClock       \* bound of the model: seconds

ASSUME DataCacheAssumption == Chunks \in Nat \ {0} /\ MaxChanges \in Nat /\ MaxClock \in Nat

VARIABLE dc

NoData == -1
NoTime == -1

LoaderIdle == [pc |-> "idle", data |-> NoData]

CacheInit ==
  \E versioned \in BOOLEAN :
    dc = [versioned |-> versioned, stored |-> 0, changes |-> 0, writer |-> "none",
          main |-> [kind |-> "none", data |-> NoData],
          chunk |-> [i \in 1..Chunks |-> NoData],
          version |-> NoTime, listVersion |-> NoTime, clock |-> 0,
          at |-> [l \in Loader |-> LoaderIdle]]

-----------------------------------------------------------------------------
NoMain   == [kind |-> "none", data |-> NoData]
NoChunks == [i \in 1..Chunks |-> NoData]
At(l, pc) == [dc EXCEPT !.at[l] = IF pc = "idle" THEN LoaderIdle ELSE [@ EXCEPT !.pc = pc]]

Tick == dc.clock < MaxClock /\ dc' = [dc EXCEPT !.clock = @ + 1]

(* A record is saved: post_save runs inside the transaction of the request *)
(* (ATOMIC_REQUESTS or the caller's), so readers still see the old rows.   *)
BeginChange ==
  /\ dc.writer = "none" /\ dc.changes < MaxChanges
  /\ dc' = [dc EXCEPT !.writer = "saved", !.changes = @ + 1]

(* _delete_org_cache: the keys of the list, chunks and version included,   *)
(* and then a new version; without Redis neither.                          *)
SignalDeletes ==
  /\ dc.writer = "saved"
  /\ dc' = [dc EXCEPT !.writer = "deleted", !.main = NoMain, !.chunk = NoChunks,
                      !.listVersion = NoTime]
SignalBumpsVersion ==
  /\ dc.writer = "deleted"
  /\ dc' = [dc EXCEPT !.writer = "signalled", !.version = dc.clock]
SignalFails ==
  /\ dc.writer \in {"saved", "deleted"}
  /\ dc' = [dc EXCEPT !.writer = "signalled"]

EndChange ==
  /\ dc.writer = "signalled"
  /\ \E stored \in {dc.stored, dc.changes} :         \* rolled back or committed
       dc' = [dc EXCEPT !.writer = "none", !.stored = stored]

-----------------------------------------------------------------------------
StartLoad(l) ==
    /\ dc.at[l].pc = "idle"
    /\ dc' = At(l, IF dc.versioned THEN "version" ELSE "read")

(* fetch_courses compares the versions, if both are there.                 *)
CompareVersions(l) ==
    /\ dc.at[l].pc = "version"
    /\ dc' = IF /\ dc.version # NoTime /\ dc.listVersion # NoTime
                /\ dc.version # dc.listVersion
             THEN At(l, "drop") ELSE At(l, "read")

(* _redis_delete_smart: the chunks go with their manifest.                 *)
Dropped(d) == [d EXCEPT !.main = NoMain,
                        !.chunk = IF d.main.kind = "chunked" THEN NoChunks ELSE @]
DropList(l) ==
    /\ dc.at[l].pc = "drop"
    /\ dc' = Dropped(At(l, "query"))

(* _redis_get_smart: the main key ...                                      *)
ReadMain(l) ==
    /\ dc.at[l].pc = "read"
    /\ dc' = CASE dc.main.kind = "none"    -> At(l, "query")
               [] dc.main.kind = "plain"   -> At(l, "idle")      \* a hit
               [] dc.main.kind = "chunked" -> At(l, "chunks")

(* ... and the chunks, which may be missing or from different writes: then *)
(* the bytes do not decode and the list is fetched.                        *)
ReadChunks(l) ==
    /\ dc.at[l].pc = "chunks"
    /\ dc' = IF dc.chunk[1] # NoData /\ \A i \in 1..Chunks : dc.chunk[i] = dc.chunk[1]
             THEN At(l, "idle") ELSE At(l, "query")

QueryRows(l) ==
    /\ dc.at[l].pc = "query"
    /\ dc' = [At(l, "store") EXCEPT !.at[l].data = dc.stored]

(* _redis_set_smart: one key, or the manifest first and then its chunks.   *)
StoreMain(l) ==
  \E kind \in {"plain", "chunked"} :
    /\ dc.at[l].pc = "store"
    /\ dc' = [At(l, CASE kind = "chunked" -> "storeChunks"
                      [] kind = "plain" /\ dc.versioned -> "storeVersion"
                      [] OTHER -> "idle")
                EXCEPT !.main = [kind |-> kind, data |-> dc.at[l].data]]

StoreChunks(l) ==
    /\ dc.at[l].pc = "storeChunks"
    /\ dc' = [At(l, IF dc.versioned THEN "storeVersion" ELSE "idle")
                EXCEPT !.chunk = [i \in 1..Chunks |-> dc.at[l].data]]

(* The version read now, after the rows were, is stored as theirs.         *)
StoreVersion(l) ==
    LET current == IF dc.version = NoTime THEN dc.clock ELSE dc.version
    IN /\ dc.at[l].pc = "storeVersion"
       /\ dc' = [At(l, "idle") EXCEPT !.version = current, !.listVersion = current]

(* Redis refuses or the query raises: the load ends without (more) cache.  *)
LoadFails(l) ==
    /\ dc.at[l].pc \in {"query", "store", "storeChunks", "storeVersion"}
    /\ dc' = At(l, "idle")

-----------------------------------------------------------------------------
(* Mutant: a list under one key is stored without a time to live.          *)
ExpireMainOfChunks == dc.main.kind = "chunked" /\ dc' = [dc EXCEPT !.main = NoMain]

(* Every key has a time to live of its own, or is evicted.                 *)
ExpireMain == dc.main # NoMain /\ dc' = [dc EXCEPT !.main = NoMain]
ExpireChunk(i) == dc.chunk[i] # NoData /\ dc' = [dc EXCEPT !.chunk[i] = NoData]
ExpireVersion ==
  \/ dc.version # NoTime /\ dc' = [dc EXCEPT !.version = NoTime]
  \/ dc.listVersion # NoTime /\ dc' = [dc EXCEPT !.listVersion = NoTime]

(* POST /api/cache/invalidate for one resource, or for all of them: its    *)
(* pattern *:{org}:* matches no key without a parameter after the          *)
(* organisation, so only the course list.                                  *)
InvalidateOne == dc.main # NoMain /\ dc' = Dropped(dc)
InvalidateAll ==
  /\ dc.versioned
  /\ dc' = [dc EXCEPT !.main = NoMain, !.chunk = NoChunks, !.version = NoTime,
                      !.listVersion = NoTime]

LoadStep(l) == \/ CompareVersions(l) \/ DropList(l) \/ ReadMain(l) \/ ReadChunks(l)
               \/ QueryRows(l) \/ StoreMain(l) \/ StoreChunks(l) \/ StoreVersion(l)
               \/ LoadFails(l)

CacheNext == \/ Tick \/ BeginChange \/ SignalDeletes \/ SignalBumpsVersion \/ SignalFails
             \/ EndChange
             \/ \E l \in Loader : StartLoad(l) \/ LoadStep(l)
             \/ ExpireMain \/ ExpireVersion \/ \E i \in 1..Chunks : ExpireChunk(i)
             \/ InvalidateOne \/ InvalidateAll

(* A load goes on (its requests time out), and time passes for every key.  *)
CacheFairness ==
  /\ \A l \in Loader : WF_dc(LoadStep(l))
  /\ WF_dc(ExpireMain) /\ \A i \in 1..Chunks : WF_dc(ExpireChunk(i))

CacheSpec == CacheInit /\ [][CacheNext]_dc /\ CacheFairness

-----------------------------------------------------------------------------
(* What a reader would take from the cache now.                            *)
Served ==
  CASE dc.main.kind = "plain" -> {dc.main.data}
    [] dc.main.kind = "chunked" /\ dc.chunk[1] # NoData
         /\ (\A i \in 1..Chunks : dc.chunk[i] = dc.chunk[1]) -> {dc.chunk[1]}
    [] OTHER -> {}

(* A list read before a change and stored after the signal is served, with *)
(* the new version, as if it were current.  But not for ever: once changes *)
(* stop, from some point on whatever is served is what the database holds, *)
(* however loads, signals, failures and expiry fell.                       *)
EventuallyFresh == <>[](Served \subseteq {dc.stored})
=============================================================================
