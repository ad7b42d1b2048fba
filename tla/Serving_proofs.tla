--------------------------- MODULE Serving_proofs ---------------------------
(***************************************************************************)
(* The caches, their stampede lock and the rate limiter, for any number of *)
(* requests, changes, processes and clients and for any limits.            *)
(***************************************************************************)
EXTENDS ListCache, Dogpile, StatsCache, RateLimit, FiniteSetTheorems, TLAPS

(***************************************************************************)
(* ListIncludesEarlierChanges for any number of requests and changes, and  *)
(* any bound on the versions.  It is not inductive: one must know that     *)
(* nobody holds a version that was not made yet.                           *)
(***************************************************************************)

(* The versions that are made up, and the next one, are versions.          *)
LEMMA NextVersions ==
  ASSUME ListTypeOK
  PROVE  /\ {0, 1, 2} \subseteq Version
         /\ counter < MaxVersion => counter + 1 \in Version
  BY ListCacheAssumption DEF ListTypeOK, Version

(* An increment keeps the types.                                           *)
LEMMA BumpKeepsTypes ==
  ASSUME ListTypeOK, NEW c \in Change, NEW from, NEW missing \in WriterState,
         NEW to \in WriterState, Bump(c, from, missing, to) \/ SetTwo(c, from, to)
  PROVE  ListTypeOK'
<1>1. counter' \in Version
  BY NextVersions DEF Bump, SetTwo, ListTypeOK
<1>2. base' \in [Version -> SUBSET Change]
  BY DEF Bump, SetTwo, ListTypeOK
<1>3. writer' \in [Change -> WriterState]
  BY DEF Bump, SetTwo, ListTypeOK
<1>4. steady' \in BOOLEAN /\ UNCHANGED <<versioned, rows, entry, reader>>
  BY DEF Bump, SetTwo, ListTypeOK
<1> QED
  BY <1>1, <1>2, <1>3, <1>4 DEF ListTypeOK

(* Every step keeps the types.                                             *)
LEMMA ListStepTypes == ListTypeOK /\ [ListNext]_lcVars => ListTypeOK'
<1> SUFFICES ASSUME ListTypeOK, [ListNext]_lcVars
             PROVE  ListTypeOK'
  OBVIOUS
<1>1. ASSUME NEW r \in Request, ReadCounter(r)
      PROVE  ListTypeOK'
  <2>1. reader' \in [Request -> ReaderState]
    BY <1>1, NextVersions DEF ReadCounter, ListTypeOK, ReaderState
  <2> QED
    BY <1>1, <2>1 DEF ReadCounter, ListTypeOK
<1>2. ASSUME NEW r \in Request, AddCounter(r)
      PROVE  ListTypeOK'
  <2>1. reader' \in [Request -> ReaderState]
    BY <1>2 DEF AddCounter, Goes, ListTypeOK, ReaderState
  <2>2. counter' \in Version
    BY <1>2, NextVersions DEF AddCounter, ListTypeOK
  <2> QED
    BY <1>2, <2>1, <2>2 DEF AddCounter, ListTypeOK
<1>3. ASSUME NEW r \in Request, ReadAgain(r)
      PROVE  ListTypeOK'
  <2>1. reader' \in [Request -> ReaderState]
    BY <1>3, NextVersions DEF ReadAgain, ListTypeOK, ReaderState
  <2> QED
    BY <1>3, <2>1 DEF ReadAgain, ListTypeOK
<1>4. ASSUME NEW r \in Request, GetEntry(r)
      PROVE  ListTypeOK'
  <2>1. entry[reader[r].v].rows \in SUBSET Change
    BY DEF ListTypeOK, ReaderState
  <2>2. CASE reader' = [reader EXCEPT ![r] = [@ EXCEPT !.pc = "done",
                                 !.rows = entry[reader[r].v].rows]]
    <3>1. reader' \in [Request -> ReaderState]
      BY <2>1, <2>2 DEF ListTypeOK, ReaderState
    <3> QED
      BY <1>4, <3>1 DEF GetEntry, ListTypeOK
  <2>3. CASE Goes(r, "query")
    <3>1. reader' \in [Request -> ReaderState]
      BY <2>3 DEF Goes, ListTypeOK, ReaderState
    <3> QED
      BY <1>4, <3>1 DEF GetEntry, ListTypeOK
  <2> QED
    BY <1>4, <2>2, <2>3 DEF GetEntry
<1>5. ASSUME NEW r \in Request, QueryRowsOfList(r)
      PROVE  ListTypeOK'
  <2>1. reader' \in [Request -> ReaderState]
    BY <1>5 DEF QueryRowsOfList, ListTypeOK, ReaderState
  <2> QED
    BY <1>5, <2>1 DEF QueryRowsOfList, ListTypeOK
<1>6. ASSUME NEW r \in Request, StoreEntry(r)
      PROVE  ListTypeOK'
  <2>1. reader' \in [Request -> ReaderState]
    BY <1>6 DEF StoreEntry, Goes, ListTypeOK, ReaderState
  <2>2. reader[r].v \in Version /\ reader[r].rows \in SUBSET Change
    BY DEF ListTypeOK, ReaderState
  <2>3. entry' \in [Version -> [there : BOOLEAN, rows : SUBSET Change]]
    <3>1. [there |-> TRUE, rows |-> reader[r].rows] \in [there : BOOLEAN, rows : SUBSET Change]
      BY <2>2
    <3> QED
      BY <1>6, <2>2, <3>1 DEF StoreEntry, ListTypeOK
  <2> QED
    BY <1>6, <2>1, <2>3 DEF StoreEntry, ListTypeOK
<1>7. ASSUME NEW c \in Change, Save(c) \/ CommitChange(c) \/ RollBack(c)
      PROVE  ListTypeOK'
  <2>1. writer' \in [Change -> WriterState]
    BY <1>7 DEF Save, CommitChange, RollBack, ListTypeOK, WriterState
  <2>2. rows' \in SUBSET Change
    BY <1>7 DEF Save, CommitChange, RollBack, ListTypeOK
  <2> QED
    BY <1>7, <2>1, <2>2 DEF Save, CommitChange, RollBack, ListTypeOK
<1>8. ASSUME NEW c \in Change, AutoInvalidate(c)
      PROVE  ListTypeOK'
  BY <1>8, BumpKeepsTypes DEF AutoInvalidate, WriterState
<1>9. ASSUME NEW c \in Change, ViewInvalidates(c)
      PROVE  ListTypeOK'
  <2>1. ASSUME writer[c] = "signalled", writer' = [writer EXCEPT ![c] = "bumped"],
               UNCHANGED <<versioned, rows, counter, entry, reader, base, steady>>
        PROVE  ListTypeOK'
    <3>1. writer' \in [Change -> WriterState]
      BY <2>1 DEF ListTypeOK, WriterState
    <3> QED
      BY <2>1, <3>1 DEF ListTypeOK
  <2> QED
    BY <1>9, <2>1, BumpKeepsTypes DEF ViewInvalidates, WriterState
<1>10. ASSUME NEW v \in Version, ExpireEntry(v)
       PROVE  ListTypeOK'
  <2>1. entry' \in [Version -> [there : BOOLEAN, rows : SUBSET Change]]
    BY <1>10 DEF ExpireEntry, Empty, ListTypeOK
  <2> QED
    BY <1>10, <2>1 DEF ExpireEntry, ListTypeOK
<1>11. CASE ExpireCounter
  BY <1>11, NextVersions DEF ExpireCounter, ListTypeOK
<1>12. CASE WarmUp
  <2>1. entry' \in [Version -> [there : BOOLEAN, rows : SUBSET Change]]
    BY <1>12 DEF WarmUp, ListTypeOK
  <2> QED
    BY <1>12, <2>1 DEF WarmUp, ListTypeOK
<1>13. CASE UNCHANGED lcVars
  BY <1>13 DEF lcVars, ListTypeOK
<1> QED
  BY <1>1, <1>2, <1>3, <1>4, <1>5, <1>6, <1>7, <1>8, <1>9, <1>10, <1>11, <1>12, <1>13
     DEF ListNext

(* The types of the cached list and of the requests.                       *)
THEOREM ListTypeCorrect == ListSpec => []ListTypeOK
<1>1. ListInit => ListTypeOK
  BY ListCacheAssumption
     DEF ListInit, ListTypeOK, Version, Empty, ReaderState, WriterState
<1> QED
  BY <1>1, ListStepTypes, PTL DEF ListSpec

-----------------------------------------------------------------------------
(* A version that is in use was made: only 0, which is in no versioned     *)
(* key, and 1, which get_model_version makes up, are used before that.     *)
Made(v) == v <= 1 \/ v <= counter

VersionsUsedWereMade ==
  steady =>
    /\ \A r \in Request : Made(reader[r].v)
    /\ \A v \in Version : entry[v].there => Made(v)

RowsIncludeBase ==
  /\ \A v \in Version : base[v] \subseteq rows
  /\ base[0] = {} /\ base[1] = {}

ReadersIncludeBase ==
  steady => \A r \in Request :
    reader[r].pc = "store" => base[reader[r].v] \subseteq reader[r].rows

ListInvariant ==
  /\ VersionsUsedWereMade /\ RowsIncludeBase /\ ReadersIncludeBase
  /\ ListIncludesEarlierChanges

(* What ListInvariant says of a state in which only the counter and the    *)
(* base of a version that nobody used have changed.                        *)
LEMMA NewVersionKeepsInvariant ==
  ASSUME ListTypeOK, ListInvariant, NEW n \in Version, n > 1,
         counter' = n, base' = [base EXCEPT ![n] = rows],
         UNCHANGED <<rows, entry, reader>>,
         steady' => steady /\ counter < n
  PROVE  ListInvariant'
<1> USE ListCacheAssumption DEF ListTypeOK, ListInvariant, Version, ReaderState, Made
<1>1. VersionsUsedWereMade'
  BY DEF VersionsUsedWereMade
<1>2. RowsIncludeBase'
  BY DEF RowsIncludeBase
<1>3. ASSUME steady'
      PROVE  /\ \A r \in Request : reader[r].v # n
             /\ ~entry[n].there
  BY <1>3 DEF VersionsUsedWereMade
<1>4. ReadersIncludeBase'
  BY <1>3 DEF ReadersIncludeBase
<1>5. ListIncludesEarlierChanges'
  BY <1>3 DEF ListIncludesEarlierChanges
<1> QED
  BY <1>1, <1>2, <1>4, <1>5

(* An increment makes a version that nobody used.                          *)
LEMMA BumpKeepsInvariant ==
  ASSUME ListTypeOK, ListInvariant, NEW c \in Change,
         NEW from, NEW missing, NEW to, Bump(c, from, missing, to)
  PROVE  ListInvariant'
<1>1. CASE counter > 0 /\ counter' = counter + 1
           /\ base' = [base EXCEPT ![counter + 1] = rows]
  <2>1. counter + 1 \in Version /\ counter + 1 > 1 /\ counter < counter + 1
    BY <1>1, ListCacheAssumption DEF Bump, ListTypeOK, Version
  <2> QED
    BY <1>1, <2>1, NewVersionKeepsInvariant DEF Bump
<1>2. CASE UNCHANGED <<counter, base>>
  BY <1>2 DEF Bump, ListInvariant, VersionsUsedWereMade, Made, RowsIncludeBase,
              ReadersIncludeBase, ListIncludesEarlierChanges
<1> QED
  BY <1>1, <1>2 DEF Bump

(* So does SET 2, unless it sets the counter back.                         *)
LEMMA SetTwoKeepsInvariant ==
  ASSUME ListTypeOK, ListInvariant, NEW c \in Change, NEW from, NEW to, SetTwo(c, from, to)
  PROVE  ListInvariant'
<1>1. 2 \in Version /\ 2 > 1
  BY ListCacheAssumption DEF Version
<1> QED
  BY <1>1, NewVersionKeepsInvariant DEF SetTwo

(* A list cached under a version holds every change that was committed     *)
(* when the version was made, as long as the counter only moves up.        *)
THEOREM ListsIncludeEarlierChanges == ListSpec => []ListIncludesEarlierChanges
<1>1. ListInit => ListInvariant
  BY ListCacheAssumption DEF ListInit, ListInvariant, VersionsUsedWereMade, Made,
       RowsIncludeBase, ReadersIncludeBase, ListIncludesEarlierChanges, Version, Empty
<1>2. ListTypeOK /\ ListInvariant /\ [ListNext]_lcVars => ListInvariant'
  <2> SUFFICES ASSUME ListTypeOK, ListInvariant, [ListNext]_lcVars
               PROVE  ListInvariant'
    OBVIOUS
  <2>1. ASSUME NEW r \in Request,
               ReadCounter(r) \/ AddCounter(r) \/ ReadAgain(r) \/ GetEntry(r)
                 \/ QueryRowsOfList(r)
        PROVE  ListInvariant'
    <3>1. /\ UNCHANGED <<rows, entry, base, steady>>
          /\ counter' = counter \/ (counter = 0 /\ counter' = 1)
      BY <2>1 DEF ReadCounter, AddCounter, ReadAgain, GetEntry, QueryRowsOfList
    <3>2. \A q \in Request \ {r} : reader'[q] = reader[q]
      BY <2>1 DEF ReadCounter, AddCounter, ReadAgain, GetEntry, QueryRowsOfList, Goes,
                  ListTypeOK
    <3>3. /\ \/ reader'[r].v = reader[r].v \/ reader'[r].v <= 1
             \/ reader'[r].v = counter
          /\ reader'[r].pc = "store" =>
                reader'[r].v = reader[r].v /\ reader'[r].rows = rows
      <4>1. CASE ReadCounter(r)
        BY <4>1 DEF ReadCounter, ListTypeOK
      <4>2. CASE AddCounter(r) \/ QueryRowsOfList(r)
        BY <4>2 DEF AddCounter, QueryRowsOfList, Goes, ListTypeOK, ReaderState
      <4>3. CASE ReadAgain(r)
        BY <4>3 DEF ReadAgain, ListTypeOK, ReaderState
      <4>4. CASE GetEntry(r)
        BY <4>4 DEF GetEntry, Goes, ListTypeOK, ReaderState
      <4> QED
        BY <2>1, <4>1, <4>2, <4>3, <4>4
    <3>4. counter \in Nat /\ \A q \in Request : reader[q].v \in Version
      BY ListCacheAssumption DEF ListTypeOK, ReaderState, Version
    <3>5. reader'[r].v \in Version
      BY ListStepTypes DEF ListTypeOK, ReaderState
    <3>6. VersionsUsedWereMade'
      BY <3>1, <3>2, <3>3, <3>4, <3>5, ListCacheAssumption
         DEF ListInvariant, VersionsUsedWereMade, Made, Version
    <3>7. RowsIncludeBase' /\ ListIncludesEarlierChanges'
      BY <3>1 DEF ListInvariant, RowsIncludeBase, ListIncludesEarlierChanges
    <3>8. ReadersIncludeBase'
      BY <3>1, <3>2, <3>3, <3>4 DEF ListInvariant, RowsIncludeBase, ReadersIncludeBase
    <3> QED
      BY <3>6, <3>7, <3>8 DEF ListInvariant
  <2>2. ASSUME NEW r \in Request, StoreEntry(r)
        PROVE  ListInvariant'
    BY <2>2 DEF StoreEntry, Goes, ListTypeOK, ListInvariant, ReaderState,
         VersionsUsedWereMade, Made, RowsIncludeBase, ReadersIncludeBase,
         ListIncludesEarlierChanges
  <2>3. ASSUME NEW c \in Change, Save(c) \/ CommitChange(c) \/ RollBack(c)
        PROVE  ListInvariant'
    BY <2>3 DEF Save, CommitChange, RollBack, ListInvariant, VersionsUsedWereMade, Made,
         RowsIncludeBase, ReadersIncludeBase, ListIncludesEarlierChanges
  <2>4. ASSUME NEW c \in Change, AutoInvalidate(c)
        PROVE  ListInvariant'
    BY <2>4, BumpKeepsInvariant, SetTwoKeepsInvariant DEF AutoInvalidate
  <2>5. ASSUME NEW c \in Change, ViewInvalidates(c)
        PROVE  ListInvariant'
    <3>1. CASE UNCHANGED <<versioned, rows, counter, entry, reader, base, steady>>
      BY <3>1 DEF ListInvariant, VersionsUsedWereMade, Made, RowsIncludeBase,
           ReadersIncludeBase, ListIncludesEarlierChanges
    <3> QED
      BY <2>5, <3>1, BumpKeepsInvariant, SetTwoKeepsInvariant DEF ViewInvalidates
  <2>6. ASSUME NEW v \in Version, ExpireEntry(v)
        PROVE  ListInvariant'
    BY <2>6 DEF ExpireEntry, Empty, ListTypeOK, ListInvariant, VersionsUsedWereMade, Made,
         RowsIncludeBase, ReadersIncludeBase, ListIncludesEarlierChanges
  <2>7. CASE ExpireCounter
    BY <2>7 DEF ExpireCounter, ListInvariant, VersionsUsedWereMade, Made,
         RowsIncludeBase, ReadersIncludeBase, ListIncludesEarlierChanges
  <2>8. CASE WarmUp
    BY <2>8, ListCacheAssumption DEF WarmUp, ListTypeOK, Version, ListInvariant,
         VersionsUsedWereMade, Made, RowsIncludeBase, ReadersIncludeBase,
         ListIncludesEarlierChanges
  <2>9. CASE UNCHANGED lcVars
    BY <2>9 DEF lcVars, ListInvariant, VersionsUsedWereMade, Made, RowsIncludeBase,
         ReadersIncludeBase, ListIncludesEarlierChanges
  <2> QED
    BY <2>1, <2>2, <2>3, <2>4, <2>5, <2>6, <2>7, <2>8, <2>9 DEF ListNext
<1>3. ListInvariant => ListIncludesEarlierChanges
  BY DEF ListInvariant
<1> QED
  BY <1>1, <1>2, <1>3, ListTypeCorrect, PTL DEF ListSpec

(***************************************************************************)
(* OneHolderPerLock for any number of requests, polls and expiries.  The   *)
(* strengthening counts the lock: it and its holders are never more than   *)
(* one for each time it expired, and one.                                  *)
(***************************************************************************)

(* A step of a request is a step of that request only.                     *)
Becoming(r, new) == caller' = [caller EXCEPT ![r] = new]

(* A step of one request that keeps its own type keeps all types.          *)
LEMMA RequestStepTypes ==
  ASSUME DogpileTypeOK, NEW r \in Caller, NEW new \in CallerState, Becoming(r, new),
         cached' \in BOOLEAN, lock' \in BOOLEAN, expiries' = expiries
  PROVE  DogpileTypeOK'
<1>1. caller' \in [Caller -> CallerState]
  BY DEF Becoming, DogpileTypeOK
<1> QED
  BY <1>1 DEF DogpileTypeOK

(* Every step keeps the types.                                             *)
LEMMA DogpileStepTypes == DogpileTypeOK /\ [DogpileNext]_dgVars => DogpileTypeOK'
<1> SUFFICES ASSUME DogpileTypeOK, [DogpileNext]_dgVars
             PROVE  DogpileTypeOK'
  OBVIOUS
<1>1. ASSUME NEW r \in Caller,
             NEW pc \in {"add", "fetch", "store", "release", "wait", "compute", "done"},
             Becomes(r, pc), cached' \in BOOLEAN, lock' \in BOOLEAN, expiries' = expiries
      PROVE  DogpileTypeOK'
  <2> DEFINE new == [caller[r] EXCEPT !.pc = pc]
  <2>1. new \in CallerState
    BY DEF DogpileTypeOK, CallerState
  <2>2. Becoming(r, new)
    BY <1>1 DEF Becomes, Becoming
  <2> QED
    BY <1>1, <2>1, <2>2, RequestStepTypes
<1>2. ASSUME NEW r \in Caller, LookInCache(r) \/ AddLock(r) \/ Fetch(r) \/ StoreValue(r)
                                 \/ Release(r) \/ ComputeDirectly(r)
      PROVE  DogpileTypeOK'
  <2>1. cached' \in BOOLEAN /\ lock' \in BOOLEAN /\ expiries' = expiries
    BY <1>2 DEF LookInCache, AddLock, Fetch, StoreValue, Release, ComputeDirectly,
                DogpileTypeOK
  <2>2. PICK pc \in {"add", "fetch", "store", "release", "wait", "compute", "done"} :
          Becomes(r, pc)
    BY <1>2 DEF LookInCache, AddLock, Fetch, StoreValue, Release, ComputeDirectly
  <2> QED
    BY <1>1, <2>1, <2>2
<1>3. ASSUME NEW r \in Caller, Poll(r)
      PROVE  DogpileTypeOK'
  <2>1. cached' \in BOOLEAN /\ lock' \in BOOLEAN /\ expiries' = expiries
    BY <1>3 DEF Poll, DogpileTypeOK
  <2>2. CASE caller' = [caller EXCEPT ![r].polls = @ + 1]
    <3> DEFINE new == [caller[r] EXCEPT !.polls = @ + 1]
    <3>1. new \in CallerState
      BY DEF DogpileTypeOK, CallerState
    <3>2. Becoming(r, new)
      BY <2>2 DEF Becoming
    <3> QED
      BY <2>1, <3>1, <3>2, RequestStepTypes
  <2>3. CASE Becomes(r, "done") \/ Becomes(r, "compute")
    BY <1>1, <2>1, <2>3
  <2> QED
    BY <1>3, <2>2, <2>3 DEF Poll
<1>4. CASE ExpireLock \/ ExpireValue
  <2>1. cached' \in BOOLEAN /\ lock' \in BOOLEAN
    BY <1>4 DEF ExpireLock, ExpireValue, DogpileTypeOK
  <2>2. expiries \in Nat /\ expiries' \in {expiries, expiries + 1}
    BY <1>4 DEF ExpireLock, ExpireValue, DogpileTypeOK
  <2>3. UNCHANGED caller
    BY <1>4 DEF ExpireLock, ExpireValue
  <2> QED
    BY <2>1, <2>2, <2>3 DEF DogpileTypeOK
<1>5. CASE UNCHANGED dgVars
  BY <1>5 DEF dgVars, DogpileTypeOK
<1> QED
  BY <1>2, <1>3, <1>4, <1>5 DEF DogpileNext

(* The types of the lock, the value and the requests.                      *)
THEOREM DogpileTypeCorrect == DogpileSpec => []DogpileTypeOK
<1>1. DogpileInit => DogpileTypeOK
  <2> SUFFICES ASSUME DogpileInit PROVE DogpileTypeOK
    OBVIOUS
  <2>1. caller \in [Caller -> CallerState]
    BY DEF DogpileInit, CallerState
  <2> QED
    BY <2>1 DEF DogpileInit, DogpileTypeOK
<1> QED
  BY <1>1, DogpileStepTypes, PTL DEF DogpileSpec

-----------------------------------------------------------------------------
LockUnits == IF lock THEN 1 ELSE 0

HoldersCounted == Cardinality(Holders) <= LockUnits + expiries

(* The holders of the lock can be counted.                                 *)
LEMMA HoldersFinite == IsFiniteSet(Holders) /\ Cardinality(Holders) \in Nat
  BY DogpileAssumption, FS_Subset, FS_CardinalityType DEF Holders

(* A step that touches neither lock nor holders keeps the count.           *)
LEMMA HoldersStay ==
  ASSUME DogpileTypeOK, HoldersCounted, Holders' = Holders, UNCHANGED <<lock, expiries>>
  PROVE  HoldersCounted'
  BY DEF HoldersCounted, LockUnits

(* Each time the lock expires one more can hold it, and never more.        *)
THEOREM OneHolderPerLockHolds == DogpileSpec => []OneHolderPerLock
<1>1. DogpileInit => HoldersCounted
  <2> SUFFICES ASSUME DogpileInit PROVE HoldersCounted
    OBVIOUS
  <2>1. Holders = {}
    BY DEF DogpileInit, Holders
  <2> QED
    BY <2>1, FS_EmptySet DEF DogpileInit, HoldersCounted, LockUnits
<1>2. DogpileTypeOK /\ HoldersCounted /\ [DogpileNext]_dgVars => HoldersCounted'
  <2> SUFFICES ASSUME DogpileTypeOK, HoldersCounted, [DogpileNext]_dgVars
               PROVE  HoldersCounted'
    OBVIOUS
  <2>1. expiries \in Nat /\ lock \in BOOLEAN
    BY DEF DogpileTypeOK
  <2>2. ASSUME NEW r \in Caller,
               LookInCache(r) \/ Poll(r) \/ ComputeDirectly(r)
        PROVE  HoldersCounted'
    <3>1. Holders' = Holders
      BY <2>2 DEF LookInCache, Poll, ComputeDirectly, Is, Becomes,
                  DogpileTypeOK, CallerState, Holders
    <3> QED
      BY <2>2, <3>1, HoldersStay DEF LookInCache, Poll, ComputeDirectly
  <2>3. ASSUME NEW r \in Caller, Fetch(r) \/ StoreValue(r)
        PROVE  HoldersCounted'
    <3>1. Holders' = Holders
      BY <2>3 DEF Fetch, StoreValue, Is, Becomes, DogpileTypeOK, CallerState, Holders
    <3> QED
      BY <2>3, <3>1, HoldersStay DEF Fetch, StoreValue
  <2>4. ASSUME NEW r \in Caller, AddLock(r)
        PROVE  HoldersCounted'
    <3>1. CASE lock' = lock /\ Becomes(r, "wait")
      <4>1. Holders' = Holders
        BY <2>4, <3>1 DEF AddLock, Is, Becomes, DogpileTypeOK, CallerState, Holders
      <4> QED
        BY <2>4, <3>1, <4>1, HoldersStay DEF AddLock
    <3>2. CASE ~lock /\ lock' = TRUE /\ Becomes(r, "fetch")
      <4>1. Holders' = Holders \cup {r} /\ r \notin Holders
        BY <2>4, <3>2 DEF AddLock, Is, Becomes, DogpileTypeOK, CallerState, Holders
      <4>2. Cardinality(Holders') = Cardinality(Holders) + 1
        BY <4>1, HoldersFinite, FS_AddElement
      <4> QED
        BY <2>1, <2>4, <3>2, <4>2, HoldersFinite DEF AddLock, HoldersCounted, LockUnits
    <3> QED
      BY <2>4, <3>1, <3>2 DEF AddLock
  <2>5. ASSUME NEW r \in Caller, Release(r)
        PROVE  HoldersCounted'
    <3>1. Holders' = Holders \ {r} /\ r \in Holders
      BY <2>5 DEF Release, Is, Becomes, DogpileTypeOK, CallerState, Holders
    <3>2. Cardinality(Holders') = Cardinality(Holders) - 1
      BY <3>1, HoldersFinite, FS_RemoveElement
    <3> QED
      BY <2>1, <2>5, <3>2, HoldersFinite DEF Release, HoldersCounted, LockUnits
  <2>6. CASE ExpireLock
    BY <2>1, <2>6, HoldersFinite DEF ExpireLock, Holders, HoldersCounted, LockUnits
  <2>7. CASE ExpireValue \/ UNCHANGED dgVars
    <3>1. Holders' = Holders
      BY <2>7 DEF ExpireValue, dgVars, Holders
    <3> QED
      BY <2>7, <3>1, HoldersStay DEF ExpireValue, dgVars
  <2> QED
    BY <2>2, <2>3, <2>4, <2>5, <2>6, <2>7 DEF DogpileNext
<1>3. DogpileTypeOK /\ HoldersCounted => OneHolderPerLock
  BY HoldersFinite DEF DogpileTypeOK, HoldersCounted, LockUnits, OneHolderPerLock
<1> QED
  BY <1>1, <1>2, <1>3, DogpileTypeCorrect, PTL DEF DogpileSpec

(***************************************************************************)
(* StatsAgeBounded for any number of processes and any time to live.  The  *)
(* strengthening follows a copy: in Redis its age and what is left to it   *)
(* are one time to live together, in a process two at most.                *)
(***************************************************************************)

CopyState == [there : BOOLEAN, age : Nat, left : Nat]

StatsTypeOK ==
  sc \in [l1 : [Process -> CopyState], l2 : CopyState,
          shown : [there : BOOLEAN, age : Nat]]

AgesBounded ==
  /\ sc.l2.there => sc.l2.left > 0 /\ sc.l2.age + sc.l2.left <= StatsTtl
  /\ \A p \in Process : sc.l1[p].there => sc.l1[p].age + sc.l1[p].left <= 2 * StatsTtl
  /\ StatsAgeBounded

(* What a copy gains in age it loses in time left.                         *)
LEMMA CopiesAge ==
  ASSUME NEW copy \in CopyState
  PROVE  /\ Older(copy) \in CopyState
         /\ Older(copy).there = copy.there
         /\ Older(copy).age + Older(copy).left = copy.age + copy.left
<1>1. CASE copy.there /\ copy.left > 0
  <2>1. Older(copy) = [copy EXCEPT !.age = copy.age + 1, !.left = copy.left - 1]
    BY <1>1 DEF Older, Fresh
  <2>2. /\ Older(copy).there = copy.there
        /\ Older(copy).age = copy.age + 1 /\ Older(copy).left = copy.left - 1
    BY <2>1 DEF CopyState
  <2>3. copy.age \in Nat /\ copy.left \in Nat /\ copy.left - 1 \in Nat
    BY <1>1 DEF CopyState
  <2>4. Older(copy) \in CopyState
    <3> DEFINE age == copy.age + 1
               left == copy.left - 1
    <3>1. age \in Nat /\ left \in Nat
      BY <2>3
    <3>2. Older(copy) = [copy EXCEPT !.age = age, !.left = left]
      BY <2>1
    <3> HIDE DEF age, left
    <3> QED
      BY <3>1, <3>2 DEF CopyState
  <2> QED
    BY <2>2, <2>3, <2>4
<1>2. CASE ~(copy.there /\ copy.left > 0)
  BY <1>2 DEF Older, Fresh
<1> QED
  BY <1>1, <1>2

(* No copy, a new copy and what is shown have their types.                 *)
LEMMA CopiesAreTyped ==
  /\ NoCopy \in CopyState /\ ~NoCopy.there
  /\ \A age \in Nat : /\ Copy(age) \in CopyState /\ Copy(age).there
                      /\ Copy(age).age = age /\ Copy(age).left = StatsTtl
                      /\ Show(age) \in [there : BOOLEAN, age : Nat]
                      /\ Show(age).there /\ Show(age).age = age
  /\ Zeros \in [there : BOOLEAN, age : Nat] /\ ~Zeros.there
  BY StatsAssumption DEF NoCopy, Copy, Show, Zeros, CopyState

(* Counts that are shown are less than two times to live old.              *)
THEOREM StatsStayYoung == StatsSpec => []StatsAgeBounded
<1> DEFINE Inv == StatsTypeOK /\ AgesBounded
<1>1. StatsInit => Inv
  BY CopiesAreTyped DEF StatsInit, StatsTypeOK, AgesBounded, StatsAgeBounded
<1>2. Inv /\ [StatsNext]_sc => Inv'
  <2> SUFFICES ASSUME StatsTypeOK, AgesBounded, [StatsNext]_sc
               PROVE  Inv'
    OBVIOUS
  <2>1. StatsTtl \in Nat /\ StatsTtl > 0
    BY StatsAssumption
  <2>2. CASE StatsTick
    <3> DEFINE l2 == IF Older(sc.l2).left = 0 THEN NoCopy ELSE Older(sc.l2)
    <3>1. sc.l2 \in CopyState /\ \A p \in Process : sc.l1[p] \in CopyState
      BY DEF StatsTypeOK
    <3>2. /\ l2 \in CopyState
          /\ l2.there => l2.left > 0 /\ l2.age + l2.left <= StatsTtl
      BY <3>1, CopiesAge, CopiesAreTyped DEF AgesBounded, CopyState
    <3>3. sc'.l2 = l2 /\ sc'.shown = Zeros
          /\ sc'.l1 = [p \in Process |-> Older(sc.l1[p])]
      BY <2>2 DEF StatsTick
    <3>4. StatsTypeOK'
      BY <2>2, <3>1, <3>2, CopiesAge, CopiesAreTyped DEF StatsTick, StatsTypeOK
    <3>5. AgesBounded'
      BY <3>1, <3>2, <3>3, CopiesAge, CopiesAreTyped DEF AgesBounded, StatsAgeBounded
    <3> QED
      BY <3>4, <3>5
  <2>3. ASSUME NEW p \in Process, AnswerFromL1(p)
        PROVE  Inv'
    <3>1. /\ sc.l1[p] \in CopyState /\ sc.l1[p].there /\ sc.l1[p].left > 0
          /\ sc.l1[p].age < 2 * StatsTtl
      BY <2>1, <2>3 DEF AnswerFromL1, Fresh, StatsTypeOK, AgesBounded, CopyState
    <3>2. sc'.l1 = sc.l1 /\ sc'.l2 = sc.l2 /\ sc'.shown = Show(sc.l1[p].age)
      BY <2>3 DEF AnswerFromL1, StatsTypeOK
    <3>3. sc.l1[p].age \in Nat
      BY <3>1 DEF CopyState
    <3>4. StatsTypeOK'
      BY <2>3, <3>3, CopiesAreTyped DEF AnswerFromL1, StatsTypeOK
    <3> QED
      BY <3>1, <3>2, <3>3, <3>4, CopiesAreTyped DEF AgesBounded, StatsAgeBounded
  <2>4. ASSUME NEW p \in Process, NEW age \in Nat, age < StatsTtl,
               NEW l2 \in {Copy(0), sc.l2},
               sc' = [sc EXCEPT !.shown = Show(age), !.l1[p] = Copy(age), !.l2 = l2]
        PROVE  Inv'
    <3>1. sc.l2 \in CopyState
      BY DEF StatsTypeOK
    <3>2. l2 \in CopyState /\ (l2.there => l2.left > 0 /\ l2.age + l2.left <= StatsTtl)
      BY <2>1, <3>1, CopiesAreTyped DEF AgesBounded
    <3>3. /\ sc'.l1 = [sc.l1 EXCEPT ![p] = Copy(age)]
          /\ sc'.l2 = l2 /\ sc'.shown = Show(age)
      BY <2>4 DEF StatsTypeOK
    <3>4. StatsTypeOK'
      BY <2>4, <3>2, CopiesAreTyped DEF StatsTypeOK
    <3>5. \A q \in Process : sc'.l1[q] = IF q = p THEN Copy(age) ELSE sc.l1[q]
      BY <3>3 DEF StatsTypeOK
    <3> QED
      BY <2>1, <2>4, <3>2, <3>3, <3>4, <3>5, CopiesAreTyped
         DEF AgesBounded, StatsAgeBounded
  <2>5. ASSUME NEW p \in Process, AnswerFromL2(p)
        PROVE  Inv'
    <3>1. sc.l2.age \in Nat /\ sc.l2.age < StatsTtl
      BY <2>1, <2>5 DEF AnswerFromL2, StatsTypeOK, AgesBounded, CopyState
    <3>2. sc' = [sc EXCEPT !.shown = Show(sc.l2.age), !.l1[p] = Copy(sc.l2.age),
                           !.l2 = sc.l2]
      BY <2>5 DEF AnswerFromL2, StatsTypeOK
    <3> QED
      BY <2>4, <3>1, <3>2
  <2>6. ASSUME NEW p \in Process, AnswerFromDatabase(p)
        PROVE  Inv'
    BY <2>1, <2>4, <2>6 DEF AnswerFromDatabase
  <2>7. ASSUME NEW p \in Process, AnswerZeros(p)
        PROVE  Inv'
    <3>1. /\ sc'.l1 = [sc.l1 EXCEPT ![p] = NoCopy]
          /\ sc'.l2 = sc.l2 /\ sc'.shown = Zeros
      BY <2>7 DEF AnswerZeros, StatsTypeOK
    <3>2. StatsTypeOK'
      BY <2>7, CopiesAreTyped DEF AnswerZeros, StatsTypeOK
    <3>3. \A q \in Process : sc'.l1[q] = IF q = p THEN NoCopy ELSE sc.l1[q]
      BY <3>1 DEF StatsTypeOK
    <3> QED
      BY <3>1, <3>2, <3>3, CopiesAreTyped DEF AgesBounded, StatsAgeBounded
  <2>8. CASE UNCHANGED sc
    BY <2>8 DEF StatsTypeOK, AgesBounded, StatsAgeBounded
  <2> QED
    BY <2>2, <2>3, <2>5, <2>6, <2>7, <2>8 DEF StatsNext
<1>3. Inv => StatsAgeBounded
  BY DEF AgesBounded
<1> QED
  BY <1>1, <1>2, <1>3, PTL DEF StatsSpec

(***************************************************************************)
(* WindowNeverExceeded for any number of clients and any limit.  Counting  *)
(* what passed says nothing of the next request: the strengthening is that *)
(* the records of the last minute are exactly what was let through in it.  *)
(***************************************************************************)

(* The requests recorded for a client and, of them, those of the last      *)
(* minute: exactly the ones let through in it.                             *)
RecordExact(requests, passed) ==
  /\ requests = [r \in DOMAIN requests |-> requests[r]]
  /\ passed = Recent(requests)
  /\ \A r \in DOMAIN requests : requests[r] \in Nat
  /\ IsFiniteSet(DOMAIN requests) /\ Cardinality(DOMAIN requests) <= RequestsPerMinute

RecordsExact ==
  /\ rl = [requests |-> rl.requests, passed |-> rl.passed, answer |-> rl.answer]
  /\ DOMAIN rl.requests = Client /\ rl.requests = [c \in Client |-> rl.requests[c]]
  /\ rl.passed = [c \in Client |-> rl.passed[c]] /\ rl.answer = [c \in Client |-> rl.answer[c]]
  /\ \A c \in Client : RecordExact(rl.requests[c], rl.passed[c])

(* A tick of the clock keeps the records exact: ages only grow.            *)
LEMMA AgedExact ==
  ASSUME NEW f, NEW g, RecordExact(f, g)
  PROVE  RecordExact(Aged(f), Recent(Aged(g)))
<1>1. DOMAIN Aged(f) = DOMAIN f /\ \A r \in DOMAIN f : Aged(f)[r] \in Nat /\ f[r] <= Aged(f)[r]
  BY DEF Aged, RecordExact
<1>2. Recent(Aged(g)) = Recent(Aged(f))
  <2>1. DOMAIN g = {r \in DOMAIN f : f[r] < Minute} /\ \A r \in DOMAIN g : g[r] = f[r]
    BY DEF RecordExact, Recent
  <2>2. DOMAIN Aged(g) = DOMAIN g /\ \A r \in DOMAIN g : Aged(g)[r] = Aged(f)[r]
    BY <2>1 DEF Aged
  <2>3. \A r \in DOMAIN f : Aged(f)[r] < Minute => f[r] < Minute
    BY <1>1, RateAssumption DEF RecordExact
  <2>4. {r \in DOMAIN Aged(g) : Aged(g)[r] < Minute} = {r \in DOMAIN Aged(f) : Aged(f)[r] < Minute}
    BY <1>1, <2>1, <2>2, <2>3
  <2> QED
    BY <2>1, <2>2, <2>4 DEF Recent
<1>3. Aged(f) = [r \in DOMAIN Aged(f) |-> Aged(f)[r]]
  BY DEF Aged
<1> QED
  BY <1>1, <1>2, <1>3 DEF RecordExact

(* What is left after cleaning is exactly what passed, and not too much.   *)
LEMMA RecentExact ==
  ASSUME NEW f, NEW g, RecordExact(f, g)
  PROVE  /\ RecordExact(g, g) /\ DOMAIN g \subseteq DOMAIN f
         /\ IsFiniteSet(DOMAIN g) /\ Cardinality(DOMAIN g) <= RequestsPerMinute
<1>1. DOMAIN g = {r \in DOMAIN f : f[r] < Minute} /\ (\A r \in DOMAIN g : g[r] = f[r])
      /\ g = [q \in DOMAIN g |-> g[q]]
  BY DEF RecordExact, Recent
<1>7. g = [r \in DOMAIN g |-> g[r]]
  <2>1. g = Recent(f)
    BY DEF RecordExact
  <2> QED
    BY <2>1 DEF Recent
<1>2. DOMAIN g \subseteq DOMAIN f
  BY <1>1
<1>3. /\ IsFiniteSet(DOMAIN g) /\ Cardinality(DOMAIN g) \in Nat
      /\ Cardinality(DOMAIN f) \in Nat /\ Cardinality(DOMAIN g) <= Cardinality(DOMAIN f)
  BY <1>2, FS_Subset, FS_CardinalityType DEF RecordExact
<1>4. Cardinality(DOMAIN g) <= RequestsPerMinute
  BY <1>3, RateAssumption DEF RecordExact
<1>5. g = Recent(g)
  <2>1. {r \in DOMAIN g : g[r] < Minute} = DOMAIN g
    BY <1>1
  <2>2. g = [r \in DOMAIN g |-> g[r]]
    BY <1>7
  <2> QED
    BY <2>1, <2>2 DEF Recent
<1>6. \A r \in DOMAIN g : g[r] \in Nat
  BY <1>1 DEF RecordExact
<1> QED
  BY <1>2, <1>3, <1>4, <1>5, <1>6, <1>7 DEF RecordExact

(* One more request fits when fewer than the limit are recorded.           *)
LEMMA RecordedExact ==
  ASSUME NEW g, NEW r, RecordExact(g, g), r \notin DOMAIN g,
         Cardinality(DOMAIN g) < RequestsPerMinute
  PROVE  RecordExact(Recorded(g, r), Recorded(g, r))
<1>1. /\ DOMAIN Recorded(g, r) = DOMAIN g \union {r}
      /\ Recorded(g, r) = [q \in DOMAIN Recorded(g, r) |-> Recorded(g, r)[q]]
      /\ \A q \in DOMAIN Recorded(g, r) :
           Recorded(g, r)[q] \in Nat /\ Recorded(g, r)[q] < Minute
  BY RateAssumption DEF Recorded, RecordExact, Recent
<1>2. /\ IsFiniteSet(DOMAIN g \union {r})
      /\ Cardinality(DOMAIN g \union {r}) = Cardinality(DOMAIN g) + 1
  BY FS_AddElement DEF RecordExact
<1>3. Cardinality(DOMAIN g) \in Nat
  BY FS_CardinalityType DEF RecordExact
<1>4. Recorded(g, r) = Recent(Recorded(g, r))
  <2>1. {q \in DOMAIN Recorded(g, r) : Recorded(g, r)[q] < Minute} = DOMAIN Recorded(g, r)
    BY <1>1
  <2> QED
    BY <1>1, <2>1 DEF Recent
<1> QED
  BY <1>1, <1>2, <1>3, <1>4, RateAssumption DEF RecordExact

(* WindowNeverExceeded: no minute holds more requests of a client than the *)
(* limit, for any clients, any limit and any length of a minute.           *)
THEOREM WindowsNeverExceeded == RateSpec => []WindowNeverExceeded
<1>1. RateInit => RecordsExact
  <2> SUFFICES ASSUME RateInit PROVE RecordExact(NoneRecorded, NoneRecorded) /\ RecordsExact
    OBVIOUS
  <2>1. RecordExact(NoneRecorded, NoneRecorded)
    <3>1. DOMAIN NoneRecorded = {} /\ NoneRecorded = [r \in DOMAIN NoneRecorded |-> NoneRecorded[r]]
      BY DEF NoneRecorded
    <3>2. Recent(NoneRecorded) = NoneRecorded
      BY DEF NoneRecorded, Recent
    <3> QED
      BY <3>1, <3>2, FS_EmptySet, RateAssumption DEF RecordExact
  <2> QED
    BY <2>1 DEF RateInit, RecordsExact
<1>2. RecordsExact /\ [RateNext]_rl => RecordsExact'
  <2> SUFFICES ASSUME RecordsExact, [RateNext]_rl PROVE RecordsExact'
    OBVIOUS
  <2>1. CASE RateTick
    <3>1. rl' = [requests |-> [c \in Client |-> Aged(rl.requests[c])],
                 passed |-> [c \in Client |-> Recent(Aged(rl.passed[c]))],
                 answer |-> rl.answer]
      BY <2>1 DEF RateTick, RecordsExact
    <3>2. \A c \in Client : RecordExact(Aged(rl.requests[c]), Recent(Aged(rl.passed[c])))
      BY AgedExact DEF RecordsExact
    <3> QED
      BY <3>1, <3>2 DEF RecordsExact
  <2>2. ASSUME NEW c \in Client, CheckRateLimit(c) PROVE RecordsExact'
    <3> DEFINE f == rl.requests[c]
               g == rl.passed[c]
    <3>1. RecordExact(f, g) /\ Cleaned(f) = g
      BY DEF RecordsExact, RecordExact, Cleaned
    <3>2. /\ RecordExact(g, g) /\ DOMAIN g \subseteq DOMAIN f
          /\ IsFiniteSet(DOMAIN g) /\ Cardinality(DOMAIN g) <= RequestsPerMinute
      BY <3>1, RecentExact, Zenon
    <3>3. ASSUME NEW p, NEW q, NEW a, RecordExact(p, q),
                 rl' = [requests |-> [rl.requests EXCEPT ![c] = p],
                        passed |-> [rl.passed EXCEPT ![c] = q],
                        answer |-> [rl.answer EXCEPT ![c] = a]]
          PROVE  RecordsExact'
      BY <3>3 DEF RecordsExact
    <3>4. CASE rl' = [rl EXCEPT !.requests[c] = g, !.answer[c] = 429]
      <4>1. rl' = [requests |-> [rl.requests EXCEPT ![c] = g],
                   passed |-> [rl.passed EXCEPT ![c] = g],
                   answer |-> [rl.answer EXCEPT ![c] = 429]]
        <5>1. rl.passed = [rl.passed EXCEPT ![c] = g]
          BY DEF RecordsExact
        <5>2. rl' = [requests |-> [rl.requests EXCEPT ![c] = g], passed |-> rl.passed,
                     answer |-> [rl.answer EXCEPT ![c] = 429]]
          BY <3>4 DEF RecordsExact
        <5> QED
          BY <5>1, <5>2
      <4> QED
        BY <3>2, <3>3, <4>1, Zenon
    <3> QED
      <4>1. CASE rl' = [rl EXCEPT !.requests[c] = Cleaned(f), !.answer[c] = 429]
        BY <3>1, <3>4, <4>1
      <4>2. CASE /\ Cardinality(DOMAIN Cleaned(f)) < RequestsPerMinute
                 /\ \E r \in PassedRequest \ (DOMAIN Cleaned(f) \union DOMAIN g),
                       answer \in {200, 429} :
                      rl' = [rl EXCEPT !.requests[c] = Recorded(Cleaned(f), r),
                                       !.passed[c] = Recorded(@, r), !.answer[c] = answer]
        <5>1. PICK r \in PassedRequest \ (DOMAIN Cleaned(f) \union DOMAIN g),
                   answer \in {200, 429} :
                rl' = [rl EXCEPT !.requests[c] = Recorded(Cleaned(f), r),
                                 !.passed[c] = Recorded(@, r), !.answer[c] = answer]
          BY <4>2
        <5>2. RecordExact(Recorded(g, r), Recorded(g, r))
          BY <3>1, <3>2, <4>2, RecordedExact
        <5>3. rl' = [requests |-> [rl.requests EXCEPT ![c] = Recorded(g, r)],
                     passed |-> [rl.passed EXCEPT ![c] = Recorded(g, r)],
                     answer |-> [rl.answer EXCEPT ![c] = answer]]
          BY <3>1, <5>1 DEF RecordsExact
        <5> QED
          BY <3>3, <5>2, <5>3, Zenon
      <4> QED
        BY <2>2, <4>1, <4>2, Zenon DEF CheckRateLimit
  <2> QED
    BY <2>1, <2>2 DEF RateNext, RecordsExact
<1>3. RecordsExact => WindowNeverExceeded
  BY RecentExact DEF RecordsExact, WindowNeverExceeded
<1> QED
  BY <1>1, <1>2, <1>3, PTL DEF RateSpec
=============================================================================
