----------------------- MODULE PartitionedSolve_proofs -----------------------
(***************************************************************************)
(* RegistryExact and CrossPhaseExclusion for any courses, slots, rooms and *)
(* departments.  Neither is inductive: one must know which sessions the    *)
(* bucket at hand may still place (SolveInvariant).                        *)
(***************************************************************************)
EXTENDS PartitionedSolve, TLAPS

Real == {"solver", "greedy", "forced"}
Working == solvePc \in {"solve", "greedy"}

(* What sessions and entries are made of.                                  *)
LEMMA SessionPairs ==
  /\ \A s \in Session : s[1] \in Course
  /\ \A e \in Entry \union {Nowhere} : e[1] # Unscheduled => e \in Entry /\ e[1] \in Slot
  /\ Slot \X Room \subseteq Entry
  /\ \A e \in Entry : <<Unscheduled, e[2]>> \in Entry
BY DEF Session, Entry, Nowhere

(* What the catalogue says of a session.                                   *)
LEMMA CatalogueOfSession ==
  ASSUME catalogue \in Catalogue, NEW s \in Session
  PROVE  /\ catalogue.teacher[s[1]] \in Teacher \union {None}
         /\ catalogue.students[s[1]] \subseteq Student
         /\ Domain(s) \subseteq Slot \X Room
         /\ catalogue.first \in Entry
BY SessionPairs DEF Catalogue, Domain

-----------------------------------------------------------------------------
(* The types, step by step.                                                *)
LEMMA PutTypes ==
  ASSUME SolveTypeOK, NEW a, NEW origin \in Origin, Put(a, origin),
         \A s \in Session : s \in DOMAIN a => a[s] \in Entry
  PROVE  /\ place' \in [Session -> Entry \union {Nowhere}]
         /\ how' \in [Session -> Origin] /\ epoch' \in [Session -> Nat]
BY DEF Put, SolveTypeOK

(* A strategy's model assigns pairs of the sessions' domains.              *)
LEMMA ModelsDrawFromDomains ==
  ASSUME NEW cs, NEW i \in 1..3, NEW a \in Models(cs, i)
  PROVE  /\ DOMAIN a \subseteq SessionsOf(cs)
         /\ \A s \in DOMAIN a : a[s] \in Domain(s)
BY DEF Models

(* A commit keeps the registry's type.                                     *)
LEMMA CommittedTypes ==
  ASSUME SolveTypeOK, NEW cs PROVE Committed(cs) \in Busy
<1>1. \A s \in Placed(cs) : place[s][1] \in Slot
  BY SessionPairs DEF Placed, SessionsOf, SolveTypeOK
<1>2. \A x \in Teacher : registry.teacher[x] \in SUBSET Slot
  BY DEF SolveTypeOK, Busy
<1>3. \A x \in Room : registry.room[x] \in SUBSET Slot
  BY DEF SolveTypeOK, Busy
<1>4. \A x \in Student : registry.student[x] \in SUBSET Slot
  BY DEF SolveTypeOK, Busy
<1> QED BY <1>1, <1>2, <1>3, <1>4 DEF Committed, Busy

(* Every step keeps the types.                                             *)
LEMMA SolveStepTypes == SolveTypeOK /\ [SolveNext]_psVars => SolveTypeOK'
<1> SUFFICES ASSUME SolveTypeOK, [SolveNext]_psVars PROVE SolveTypeOK'
  OBVIOUS
<1> USE CataloguesAssumption DEF psVars, progressVars, answerVars
<1>0. solvePc # "load" => catalogue \in Catalogue
  BY DEF SolveTypeOK
<1>1. CASE Load
  BY <1>1 DEF Load, SolveTypeOK
<1>2. CASE Partition
  BY <1>2 DEF Partition, SolveTypeOK
<1>3. CASE Dispatch
  <2>1. bucket' \in Bucket
    BY <1>3 DEF Dispatch, SolveTypeOK, Bucket
  <2>2. left' \subseteq Course
    BY <1>0, <1>3 DEF Dispatch, SolveTypeOK, BucketOf, Catalogue
  <2> QED BY <1>3, <2>1, <2>2 DEF Dispatch, SolveTypeOK
<1>4. ASSUME NEW cs \in SUBSET left, ClusterOverloaded(cs) \/ WorkerErrs(cs)
      PROVE  SolveTypeOK'
  <2>1. catalogue \in Catalogue
    BY <1>0, <1>4 DEF ClusterOverloaded, WorkerErrs, NextCluster
  <2>2. Put(Sentinels(cs), "sentinel") /\ "sentinel" \in Origin
    BY <1>4 DEF ClusterOverloaded, WorkerErrs, Origin
  <2>3. \A s \in Session : s \in DOMAIN Sentinels(cs) => Sentinels(cs)[s] \in Entry
    BY <2>1, SessionPairs DEF Sentinels, Catalogue
  <2>4. /\ place' \in [Session -> Entry \union {Nowhere}]
        /\ how' \in [Session -> Origin] /\ epoch' \in [Session -> Nat]
    BY <2>2, <2>3, PutTypes
  <2> QED BY <1>4, <2>4 DEF ClusterOverloaded, WorkerErrs, NextCluster, SolveTypeOK
<1>5. ASSUME NEW cs \in SUBSET left, StrategyAnswers(cs) PROVE SolveTypeOK'
  <2>1. catalogue \in Catalogue
    BY <1>0, <1>5 DEF StrategyAnswers, NextCluster
  <2>i. PICK i \in 1..3 : \E a \in Models(cs, i) : Put(a, "solver")
    BY <1>5 DEF StrategyAnswers
  <2>2. PICK a \in Models(cs, i) : Put(a, "solver")
    BY <2>i
  <2>3. \A s \in Session : s \in DOMAIN a => a[s] \in Entry
    BY <2>1, ModelsDrawFromDomains, CatalogueOfSession, SessionPairs
  <2>4. /\ place' \in [Session -> Entry \union {Nowhere}]
        /\ how' \in [Session -> Origin] /\ epoch' \in [Session -> Nat]
    BY <2>2, <2>3, PutTypes DEF Origin
  <2> QED BY <1>5, <2>4 DEF StrategyAnswers, NextCluster, SolveTypeOK
<1>6. ASSUME NEW cs \in SUBSET left, StrategiesFail(cs) PROVE SolveTypeOK'
  BY <1>6 DEF StrategiesFail, NextCluster, SolveTypeOK, SessionsOf
<1>7. ASSUME NEW s \in todo, GreedyPlace(s) PROVE SolveTypeOK'
  <2>1. catalogue \in Catalogue /\ s \in Session
    BY <1>0, <1>7 DEF GreedyPlace, SolveTypeOK
  <2>2. PICK p \in Entry, origin \in Origin : Put([t \in {s} |-> p], origin)
    <3>1. CASE Domain(s) = {}
      BY <1>7, <2>1, <3>1, CatalogueOfSession DEF GreedyPlace, Origin
    <3>2. CASE Domain(s) # {}
      <4>1. PICK p \in Domain(s) : Put([t \in {s} |-> p], "greedy")
        BY <1>7, <3>2 DEF GreedyPlace, NotBusy
      <4> QED BY <2>1, <4>1, CatalogueOfSession, SessionPairs DEF Origin
    <3> QED BY <3>1, <3>2
  <2>3. /\ place' \in [Session -> Entry \union {Nowhere}]
        /\ how' \in [Session -> Origin] /\ epoch' \in [Session -> Nat]
    BY <2>2, PutTypes
  <2> QED BY <1>7, <2>3 DEF GreedyPlace, SolveTypeOK
<1>8. CASE GreedyDone
  BY <1>8 DEF GreedyDone, SolveTypeOK
<1>9. CASE CommitBucket
  <2>1. registry' \in Busy
    BY <1>9, CommittedTypes DEF CommitBucket
  <2> QED BY <1>9, <2>1 DEF CommitBucket, SolveTypeOK, Bucket
<1>10. CASE Merge
  BY <1>10 DEF Merge, SolveTypeOK
<1>11. CASE PartitionedFails \/ PoolFails
  <2>1. catalogue \in Catalogue /\ catalogue.courses \subseteq Course
    BY <1>0, <1>11 DEF PartitionedFails, PoolFails, Catalogue
  <2>2. EmptyRegistry \in Busy
    BY DEF EmptyRegistry, Busy
  <2>3. /\ place' \in [Session -> Entry \union {Nowhere}]
        /\ how' \in [Session -> Origin] /\ epoch' \in [Session -> Nat]
    BY <1>11 DEF PartitionedFails, PoolFails, Discard, Origin
  <2> QED BY <1>11, <2>1, <2>2, <2>3 DEF PartitionedFails, PoolFails, SolveTypeOK, Bucket
<1>12. CASE WorkerDies
  BY <1>12 DEF WorkerDies, SolveTypeOK
<1>13. CASE UNCHANGED psVars
  BY <1>13 DEF SolveTypeOK
<1> QED
  BY <1>1, <1>2, <1>3, <1>4, <1>5, <1>6, <1>7, <1>8, <1>9, <1>10, <1>11, <1>12, <1>13
  DEF SolveNext

(* The types hold at first.                                                *)
LEMMA SolveInitTypes == SolveInit => SolveTypeOK
BY DEF SolveInit, SolveTypeOK, EmptyRegistry, Busy, Bucket, Origin

(* Every variable of the partitioned solve keeps its type.                 *)
THEOREM SolveTypeCorrect == SolveSpec => []SolveTypeOK
BY SolveInitTypes, SolveStepTypes, PTL DEF SolveSpec

-----------------------------------------------------------------------------
Settled(s) == Assigned(s) /\ epoch[s] < commits

EpochsBounded == \A s \in Session : epoch[s] <= commits

RealPlacesAssigned == \A s \in Session : place[s][1] # Unscheduled => how[s] \in Real

(* What is still to be solved belongs to the bucket at hand.               *)
WorkInBucket ==
  /\ Working => left \subseteq BucketOf(bucket)
  /\ solvePc = "greedy" => cluster \subseteq BucketOf(bucket) /\ todo \subseteq SessionsOf(cluster)

(* The bucket at hand has the current epoch for itself.                    *)
EpochOfBucket ==
  solveMode = "partitioned" =>
    \A s \in Session :
      /\ Working /\ how[s] # "none" /\ epoch[s] = commits => s \in SessionsOf(BucketOf(bucket))
      /\ Working /\ s[1] \in BucketOf(bucket) => how[s] = "none" \/ epoch[s] = commits
      /\ solvePc = "dispatch" /\ how[s] # "none" => epoch[s] < commits

(* The buckets that are still to come.                                     *)
ToCome == pending \union (IF bucket = "shared" THEN {} ELSE {"shared"})

BucketsToComeFresh ==
  /\ solvePc \in {"load", "partition"} => \A s \in Session : how[s] = "none"
  /\ solvePc = "load" => registry = EmptyRegistry
  /\ solvePc \in {"load", "partition", "dispatch"} => bucket = "none"
  /\ solveMode = "partitioned" /\ (Working \/ solvePc = "dispatch") =>
       /\ bucket \notin ToCome
       /\ Working => bucket \in Department \union {"shared"}
       /\ \A b \in ToCome : \A s \in Session : s[1] \in BucketOf(b) => how[s] = "none"

MonolithicUncommitted == solveMode # "partitioned" => commits = 0 /\ bucket = "all"

SolveInvariant ==
  /\ SolveTypeOK /\ RegistryExact /\ CrossPhaseExclusion
  /\ EpochsBounded /\ RealPlacesAssigned /\ WorkInBucket /\ EpochOfBucket
  /\ BucketsToComeFresh /\ MonolithicUncommitted

-----------------------------------------------------------------------------
(* A course is in one bucket.                                              *)
LEMMA BucketsDisjoint ==
  ASSUME NEW b \in Department \union {"shared"}, NEW c \in Department \union {"shared"},
         b # c
  PROVE  BucketOf(b) \cap BucketOf(c) = {}
BY BucketsAssumption DEF BucketOf

(* The registry stays exact while no settled session comes, goes or moves. *)
LEMMA RegistryStaysExact ==
  ASSUME RegistryExact, solvePc # "load", solvePc' # "load",
         catalogue' = catalogue, registry' = registry,
         \A s \in Session : Settled(s)' <=> Settled(s),
         \A s \in Session : Settled(s) => place'[s] = place[s]
  PROVE  RegistryExact'
<1> DEFINE old(S) == {place[s][1] : s \in {t \in S : Settled(t)}}
           new(S) == {place'[s][1] : s \in {t \in S : Settled(t)'}}
<1>1. ASSUME NEW S, NEW T, S \subseteq Session, T \subseteq Session,
             \A s \in Session : Settled(s) => (s \in S <=> s \in T)
      PROVE  old(S) = new(T)
  <2>1. \A s \in S : Settled(s) => s \in T /\ Settled(s)' /\ place'[s] = place[s]
    BY <1>1
  <2>2. \A s \in T : Settled(s)' => s \in S /\ Settled(s) /\ place'[s] = place[s]
    BY <1>1
  <2> HIDE DEF Settled
  <2> QED BY <2>1, <2>2
<1>2. ASSUME NEW x \in Teacher PROVE registry'.teacher[x] =
        new({s \in Session : solvePc' # "load" /\ catalogue'.teacher[s[1]] = x})
  <2> DEFINE S == {s \in Session : solvePc # "load" /\ catalogue.teacher[s[1]] = x}
             T == {s \in Session : solvePc' # "load" /\ catalogue'.teacher[s[1]] = x}
  <2>1. registry.teacher[x] = old(S)
    BY DEF RegistryExact, Settled
  <2>2. S = T
    OBVIOUS
  <2>3. S \subseteq Session /\ T \subseteq Session
    OBVIOUS
  <2>4. old(S) = new(T)
    <3> HIDE DEF S, T, old, new
    <3> QED BY <1>1, <2>2, <2>3
  <2> HIDE DEF old, new
  <2> QED BY <2>1, <2>4
<1>3. ASSUME NEW x \in Room PROVE registry'.room[x] = new({s \in Session : place'[s][2] = x})
  <2> DEFINE S == {s \in Session : place[s][2] = x}
             T == {s \in Session : place'[s][2] = x}
  <2>1. registry.room[x] = old(S)
    BY DEF RegistryExact, Settled
  <2>2. \A s \in Session : Settled(s) => (s \in S <=> s \in T)
    OBVIOUS
  <2>3. S \subseteq Session /\ T \subseteq Session
    OBVIOUS
  <2>4. old(S) = new(T)
    <3> HIDE DEF S, T, old, new
    <3> QED BY <1>1, <2>2, <2>3
  <2> HIDE DEF old, new
  <2> QED BY <2>1, <2>4
<1>4. ASSUME NEW x \in Student PROVE registry'.student[x] =
        new({s \in Session : solvePc' # "load" /\ x \in catalogue'.students[s[1]]})
  <2> DEFINE S == {s \in Session : solvePc # "load" /\ x \in catalogue.students[s[1]]}
             T == {s \in Session : solvePc' # "load" /\ x \in catalogue'.students[s[1]]}
  <2>1. registry.student[x] = old(S)
    BY DEF RegistryExact, Settled
  <2>2. S = T
    OBVIOUS
  <2>3. S \subseteq Session /\ T \subseteq Session
    OBVIOUS
  <2>4. old(S) = new(T)
    <3> HIDE DEF S, T, old, new
    <3> QED BY <1>1, <2>2, <2>3
  <2> HIDE DEF old, new
  <2> QED BY <2>1, <2>4
<1> QED BY <1>2, <1>3, <1>4 DEF RegistryExact, Settled

(* A pair of a filtered domain clashes with no settled session.            *)
LEMMA DomainAvoidsSettled ==
  ASSUME RegistryExact, catalogue \in Catalogue, solvePc # "load",
         NEW s \in Session, NEW t \in Session, Settled(s),
         NEW p \in Domain(t), place[s][1] = p[1]
  PROVE  ~ SameTeacher(s, t) /\ ~ SharedStudent(s, t) /\ place[s][2] # p[2]
<1>1. p \in Slot \X Room /\ ~ Blocked(t[1], p[1], p[2])
  BY CatalogueOfSession DEF Domain
<1>2. ASSUME SameTeacher(s, t) PROVE FALSE
  <2>1. catalogue.teacher[s[1]] \in Teacher
    BY <1>2, CatalogueOfSession DEF SameTeacher
  <2>2. place[s][1] \in registry.teacher[catalogue.teacher[s[1]]]
    BY <2>1 DEF RegistryExact, Settled
  <2> QED BY <1>1, <1>2, <2>2 DEF SameTeacher, Blocked
<1>3. ASSUME SharedStudent(s, t) PROVE FALSE
  <2>1. PICK x \in Student : x \in catalogue.students[s[1]] /\ x \in catalogue.students[t[1]]
    BY <1>3, CatalogueOfSession DEF SharedStudent
  <2>2. place[s][1] \in registry.student[x]
    BY <2>1 DEF RegistryExact, Settled
  <2> QED BY <1>1, <2>1, <2>2 DEF Blocked
<1>4. ASSUME place[s][2] = p[2] PROVE FALSE
  <2>1. p[2] \in Room /\ place[s][1] \in registry.room[p[2]]
    BY <1>1, <1>4 DEF RegistryExact, Settled
  <2> QED BY <1>1, <2>1 DEF Blocked
<1> QED BY <1>2, <1>3, <1>4

-----------------------------------------------------------------------------
(* What the answer of a cluster of the bucket at hand may do.              *)
AnswerAllowed(a, origin) ==
  /\ origin \in Origin \ {"none"}
  /\ DOMAIN a \subseteq SessionsOf(BucketOf(bucket))
  /\ origin \in {"solver", "greedy"} => \A s \in DOMAIN a : a[s] \in Domain(s)
  /\ origin = "sentinel" => \A s \in DOMAIN a : a[s][1] = Unscheduled

(* An answer keeps the invariant: it is entered in the current epoch.      *)
LEMMA AnswerKeepsInvariant ==
  ASSUME SolveInvariant, Working, solvePc' = solvePc,
         NEW a, NEW origin, AnswerAllowed(a, origin), Put(a, origin),
         UNCHANGED <<solveMode, bucket, pending, catalogue, registry, commits>>
  PROVE  /\ RegistryExact' /\ CrossPhaseExclusion' /\ EpochsBounded'
         /\ RealPlacesAssigned' /\ EpochOfBucket' /\ BucketsToComeFresh'
         /\ MonolithicUncommitted'
<1>0. /\ catalogue \in Catalogue /\ commits \in Nat
      /\ \A s \in Session : epoch[s] \in Nat
      /\ DOMAIN a \subseteq Session
      /\ \A s \in DOMAIN a : s[1] \in BucketOf(bucket)
  BY CataloguesAssumption DEF SolveInvariant, SolveTypeOK, Working, AnswerAllowed, SessionsOf
<1>1. \A s \in DOMAIN a : /\ place'[s] = a[s] /\ how'[s] = origin /\ epoch'[s] = commits
  BY <1>0 DEF Put
<1>2. \A s \in Session \ DOMAIN a :
        place'[s] = place[s] /\ how'[s] = how[s] /\ epoch'[s] = epoch[s]
  BY DEF Put
<1>3. \A s \in DOMAIN a : ~ Settled(s)
  BY <1>0 DEF SolveInvariant, EpochOfBucket, MonolithicUncommitted, Settled, Assigned
<1>4. \A s \in Session : Settled(s)' <=> Settled(s)
  BY <1>0, <1>1, <1>2, <1>3 DEF Settled, Assigned
<1>5. \A s \in Session : Settled(s) => place'[s] = place[s]
  BY <1>2, <1>3
<1>6. RegistryExact'
  BY <1>4, <1>5, RegistryStaysExact DEF SolveInvariant, Working
<1>7. CrossPhaseExclusion'
  <2> SUFFICES ASSUME NEW s \in Session, NEW t \in Session,
                      Assigned(s)', Assigned(t)', epoch'[s] < epoch'[t],
                      how'[t] \in {"solver", "greedy"}
               PROVE  ~ Clash(s, t)'
    BY DEF CrossPhaseExclusion
  <2>1. s \notin DOMAIN a
    BY <1>0, <1>1, <1>2 DEF SolveInvariant, EpochsBounded
  <2>2. CASE t \in DOMAIN a
    <3>1. Settled(s)
      BY <1>1, <1>2, <2>1, <2>2 DEF Settled, Assigned
    <3>2. a[t] \in Domain(t) /\ place'[t] = a[t] /\ place'[s] = place[s]
      BY <1>1, <1>2, <2>1, <2>2 DEF AnswerAllowed
    <3>3. place[s][1] = a[t][1] =>
            ~ SameTeacher(s, t) /\ ~ SharedStudent(s, t) /\ place[s][2] # a[t][2]
      BY <1>0, <3>1, <3>2, DomainAvoidsSettled DEF SolveInvariant, Working
    <3> QED BY <3>2, <3>3 DEF Clash, SameTeacher, SharedStudent
  <2>3. CASE t \notin DOMAIN a
    <3>1. ~ Clash(s, t)
      BY <1>2, <2>1, <2>3 DEF SolveInvariant, CrossPhaseExclusion, Assigned
    <3> QED BY <1>2, <2>1, <2>3, <3>1 DEF Clash, SameTeacher, SharedStudent
  <2> QED BY <2>2, <2>3
<1>8. EpochsBounded'
  BY <1>0, <1>1, <1>2 DEF SolveInvariant, EpochsBounded
<1>9. RealPlacesAssigned'
  BY <1>1, <1>2 DEF SolveInvariant, RealPlacesAssigned, AnswerAllowed, Origin, Real
<1>10. EpochOfBucket'
  <2>1. SessionsOf(BucketOf(bucket))' = SessionsOf(BucketOf(bucket))
        /\ BucketOf(bucket)' = BucketOf(bucket)
    BY DEF SessionsOf, BucketOf, ClassifyCourse
  <2> QED BY <1>0, <1>1, <1>2, <2>1 DEF SolveInvariant, EpochOfBucket, Working, AnswerAllowed
<1>11. BucketsToComeFresh'
  <2>1. ASSUME solveMode = "partitioned", NEW b \in ToCome, NEW s \in Session,
               s[1] \in BucketOf(b)
        PROVE  how'[s] = "none"
    <3>1. b \in Department \union {"shared"} /\ bucket \in Department \union {"shared"}
          /\ b # bucket /\ how[s] = "none"
      BY <2>1 DEF SolveInvariant, BucketsToComeFresh, ToCome, SolveTypeOK
    <3>2. s \notin DOMAIN a
      BY <1>0, <2>1, <3>1, BucketsDisjoint
    <3> QED BY <1>2, <3>1, <3>2
  <2>2. ToCome' = ToCome /\ \A b : BucketOf(b)' = BucketOf(b)
    BY DEF ToCome, BucketOf, ClassifyCourse
  <2> QED BY <2>1, <2>2 DEF SolveInvariant, BucketsToComeFresh, Working
<1>12. MonolithicUncommitted'
  BY DEF SolveInvariant, MonolithicUncommitted
<1> QED BY <1>6, <1>7, <1>8, <1>9, <1>10, <1>11, <1>12

(* A committed bucket is in the registry, with nothing else.               *)
LEMMA CommitKeepsRegistryExact ==
  ASSUME SolveInvariant, CommitBucket PROVE RegistryExact'
<1> DEFINE B == BucketOf(bucket)
           here(S) == {place[s][1] : s \in S}
<1>0. /\ commits \in Nat /\ commits' = commits + 1
      /\ \A s \in Session : epoch[s] \in Nat /\ epoch[s] <= commits
      /\ UNCHANGED <<place, how, epoch, catalogue>>
      /\ solvePc # "load" /\ solvePc' # "load"
      /\ registry' = Committed(B)
      /\ Placed(B) \subseteq Session
  BY DEF CommitBucket, SolveInvariant, SolveTypeOK, EpochsBounded, answerVars, Placed,
         SessionsOf
<1>1. ASSUME NEW s \in Session PROVE Settled(s)' <=> Settled(s) \/ s \in Placed(B)
  <2>1. Settled(s)' <=> Assigned(s)
    BY <1>0 DEF Settled, Assigned
  <2>2. s \in Placed(B) => Assigned(s)
    BY DEF Placed, SolveInvariant, RealPlacesAssigned, Assigned, Real
  <2>3. Assigned(s) /\ ~ Settled(s) => s \in Placed(B)
    <3>1. Assigned(s) /\ ~ Settled(s) => how[s] # "none" /\ epoch[s] = commits
      BY <1>0 DEF Settled, Assigned
    <3> QED BY <3>1 DEF Placed, Assigned, SolveInvariant, EpochOfBucket, CommitBucket, Working
  <2> QED BY <2>1, <2>2, <2>3 DEF Settled
<1>2. ASSUME NEW S, S \subseteq Session
      PROVE  here({s \in S : Settled(s)'})
               = here({s \in S : Settled(s)}) \union here({s \in Placed(B) : s \in S})
  <2>1. {s \in S : Settled(s)'} = {s \in S : Settled(s)} \union {s \in Placed(B) : s \in S}
    BY <1>1, <1>2
  <2> HIDE DEF B
  <2> QED BY <2>1
<1>3. ASSUME NEW x \in Teacher PROVE registry'.teacher[x] =
        here({s \in {t \in Session : catalogue.teacher[t[1]] = x} : Settled(s)'})
  <2> DEFINE S == {t \in Session : catalogue.teacher[t[1]] = x}
  <2>1. registry.teacher[x] = here({s \in S : Settled(s)})
    BY <1>0 DEF SolveInvariant, RegistryExact, Settled
  <2>2. {s \in Placed(B) : catalogue.teacher[s[1]] = x} = {s \in Placed(B) : s \in S}
    BY <1>0
  <2>3. registry'.teacher[x] = registry.teacher[x] \union here({s \in Placed(B) : s \in S})
    BY <1>0, <2>2 DEF Committed
  <2> QED BY <1>2, <2>1, <2>3
<1>4. ASSUME NEW x \in Room PROVE registry'.room[x] =
        here({s \in {t \in Session : place[t][2] = x} : Settled(s)'})
  <2> DEFINE S == {t \in Session : place[t][2] = x}
  <2>1. registry.room[x] = here({s \in S : Settled(s)})
    BY <1>0 DEF SolveInvariant, RegistryExact, Settled
  <2>2. {s \in Placed(B) : place[s][2] = x} = {s \in Placed(B) : s \in S}
    BY <1>0
  <2>3. registry'.room[x] = registry.room[x] \union here({s \in Placed(B) : s \in S})
    BY <1>0, <2>2 DEF Committed
  <2> QED BY <1>2, <2>1, <2>3
<1>5. ASSUME NEW x \in Student PROVE registry'.student[x] =
        here({s \in {t \in Session : x \in catalogue.students[t[1]]} : Settled(s)'})
  <2> DEFINE S == {t \in Session : x \in catalogue.students[t[1]]}
  <2>1. registry.student[x] = here({s \in S : Settled(s)})
    BY <1>0 DEF SolveInvariant, RegistryExact, Settled
  <2>2. {s \in Placed(B) : x \in catalogue.students[s[1]]} = {s \in Placed(B) : s \in S}
    BY <1>0
  <2>3. registry'.student[x] = registry.student[x] \union here({s \in Placed(B) : s \in S})
    BY <1>0, <2>2 DEF Committed
  <2> QED BY <1>2, <2>1, <2>3
<1> QED BY <1>0, <1>3, <1>4, <1>5 DEF RegistryExact, Settled, Assigned

-----------------------------------------------------------------------------
(* Steps that place nothing and commit nothing.                            *)
LEMMA QuietStepKeepsAnswers ==
  ASSUME SolveInvariant, solvePc # "load", solvePc' # "load",
         UNCHANGED <<answerVars, catalogue, registry, commits>>
  PROVE  RegistryExact' /\ CrossPhaseExclusion' /\ EpochsBounded' /\ RealPlacesAssigned'
<1>1. RegistryExact'
  BY RegistryStaysExact DEF SolveInvariant, Settled, Assigned, answerVars
<1>2. CrossPhaseExclusion'
  BY DEF SolveInvariant, CrossPhaseExclusion, Assigned, Clash, SameTeacher, SharedStudent,
         answerVars
<1> QED BY <1>1, <1>2 DEF SolveInvariant, EpochsBounded, RealPlacesAssigned, answerVars

(* An answer that was dropped leaves nothing behind.                       *)
LEMMA DiscardKeepsAnswers ==
  ASSUME Discard, commits' = 0, RegistryExact'
  PROVE  RegistryExact' /\ CrossPhaseExclusion' /\ EpochsBounded' /\ RealPlacesAssigned'
BY DEF Discard, CrossPhaseExclusion, Assigned, EpochsBounded, RealPlacesAssigned, Nowhere

(* An empty registry is exact when nothing was placed.                     *)
LEMMA NothingAssignedNothingBusy ==
  ASSUME \A s \in Session : how'[s] = "none", registry' = EmptyRegistry
  PROVE  RegistryExact'
<1>1. \A s \in Session : ~ Assigned(s)'
  BY DEF Assigned
<1> QED BY <1>1 DEF RegistryExact, EmptyRegistry

(* The invariant holds at first.                                           *)
LEMMA SolveInvariantInit == SolveInit => SolveInvariant
<1> SUFFICES ASSUME SolveInit PROVE SolveInvariant
  OBVIOUS
<1>1. RegistryExact
  BY DEF SolveInit, RegistryExact, EmptyRegistry, Assigned
<1>2. CrossPhaseExclusion /\ EpochsBounded /\ RealPlacesAssigned
  BY DEF SolveInit, CrossPhaseExclusion, Assigned, EpochsBounded, RealPlacesAssigned, Nowhere
<1>3. WorkInBucket /\ EpochOfBucket /\ BucketsToComeFresh /\ MonolithicUncommitted
  BY DEF SolveInit, WorkInBucket, EpochOfBucket, BucketsToComeFresh, MonolithicUncommitted,
         Working
<1> QED BY <1>1, <1>2, <1>3, SolveInitTypes DEF SolveInvariant

(* Every step keeps the invariant.                                         *)
LEMMA SolveInvariantStep == SolveInvariant /\ [SolveNext]_psVars => SolveInvariant'
<1> SUFFICES ASSUME SolveInvariant, [SolveNext]_psVars PROVE SolveInvariant'
  OBVIOUS
<1> USE DEF psVars, progressVars, answerVars
<1>t. SolveTypeOK /\ SolveTypeOK'
  BY SolveStepTypes DEF SolveInvariant
<1>b. ASSUME catalogue' = catalogue
      PROVE  /\ \A b : BucketOf(b)' = BucketOf(b)
             /\ \A cs : SessionsOf(cs)' = SessionsOf(cs)
  BY <1>b DEF BucketOf, ClassifyCourse, SessionsOf
<1>1. CASE Load
  <2>1. (\A s \in Session : how[s] = "none") /\ registry' = EmptyRegistry
    BY <1>1 DEF Load, SolveInvariant, BucketsToComeFresh
  <2>2. RegistryExact'
    BY <1>1, <2>1, NothingAssignedNothingBusy DEF Load
  <2>3. CrossPhaseExclusion' /\ EpochsBounded' /\ RealPlacesAssigned'
    BY <1>1, <2>1 DEF Load, SolveInvariant, CrossPhaseExclusion, EpochsBounded,
       RealPlacesAssigned, Assigned
  <2>4. WorkInBucket' /\ EpochOfBucket' /\ BucketsToComeFresh' /\ MonolithicUncommitted'
    BY <1>1, <2>1 DEF Load, SolveInvariant, WorkInBucket, EpochOfBucket, BucketsToComeFresh,
       MonolithicUncommitted, Working
  <2> QED BY <1>t, <2>2, <2>3, <2>4 DEF SolveInvariant
<1>2. CASE Partition
  <2>1. RegistryExact' /\ CrossPhaseExclusion' /\ EpochsBounded' /\ RealPlacesAssigned'
    BY <1>2, QuietStepKeepsAnswers DEF Partition
  <2>2. /\ \A s \in Session : how'[s] = "none"
        /\ bucket' = "none" /\ "none" \notin ToCome'
    BY <1>2, BucketsAssumption DEF Partition, SolveInvariant, BucketsToComeFresh, ToCome
  <2>3. WorkInBucket' /\ EpochOfBucket' /\ BucketsToComeFresh' /\ MonolithicUncommitted'
    BY <1>2, <2>2 DEF Partition, SolveInvariant, WorkInBucket, EpochOfBucket,
       BucketsToComeFresh, MonolithicUncommitted, Working
  <2> QED BY <1>t, <2>1, <2>3 DEF SolveInvariant
<1>3. CASE Dispatch
  <2>1. RegistryExact' /\ CrossPhaseExclusion' /\ EpochsBounded' /\ RealPlacesAssigned'
    BY <1>3, QuietStepKeepsAnswers DEF Dispatch
  <2>2. bucket = "none" /\ bucket' \in ToCome /\ bucket' \notin ToCome'
        /\ ToCome' \subseteq ToCome /\ bucket' \in Department \union {"shared"}
    BY <1>3, <1>t, BucketsAssumption
    DEF Dispatch, SolveInvariant, BucketsToComeFresh, ToCome, SolveTypeOK
  <2>3. WorkInBucket'
    BY <1>3 DEF Dispatch, WorkInBucket, BucketOf, ClassifyCourse, Working
  <2>4. solveMode = "partitioned" =>
          \A b \in ToCome : \A s \in Session : s[1] \in BucketOf(b) => how[s] = "none"
    BY <1>3 DEF Dispatch, SolveInvariant, BucketsToComeFresh
  <2>5. EpochOfBucket'
    BY <1>3, <1>b, <2>2, <2>4, <1>t
    DEF Dispatch, SolveInvariant, EpochOfBucket, Working, SolveTypeOK
  <2>6. BucketsToComeFresh'
    BY <1>3, <1>b, <2>2, <2>4 DEF Dispatch, BucketsToComeFresh, Working
  <2>7. MonolithicUncommitted'
    BY <1>3, <2>2, BucketsAssumption DEF Dispatch, SolveInvariant, MonolithicUncommitted
  <2> QED BY <1>t, <2>1, <2>3, <2>5, <2>6, <2>7 DEF SolveInvariant
<1>4. ASSUME NEW cs \in SUBSET left, ClusterOverloaded(cs) \/ WorkerErrs(cs)
      PROVE  SolveInvariant'
  <2>1. AnswerAllowed(Sentinels(cs), "sentinel")
    BY <1>4 DEF ClusterOverloaded, WorkerErrs, NextCluster, AnswerAllowed, Sentinels, Origin,
       SessionsOf, SolveInvariant, WorkInBucket, Working
  <2>2. Working /\ Put(Sentinels(cs), "sentinel") /\ solvePc' = solvePc
        /\ UNCHANGED <<solveMode, bucket, pending, catalogue, registry, commits>>
    BY <1>4 DEF ClusterOverloaded, WorkerErrs, NextCluster, Working
  <2>3. WorkInBucket'
    BY <1>4, <1>b DEF ClusterOverloaded, WorkerErrs, NextCluster, SolveInvariant,
       WorkInBucket, Working
  <2> QED BY <1>t, <2>1, <2>2, <2>3, AnswerKeepsInvariant DEF SolveInvariant
<1>5. ASSUME NEW cs \in SUBSET left, StrategyAnswers(cs) PROVE SolveInvariant'
  <2>i. PICK i \in 1..3 : \E a \in Models(cs, i) : Put(a, "solver")
    BY <1>5 DEF StrategyAnswers
  <2>1. PICK a \in Models(cs, i) : Put(a, "solver")
    BY <2>i
  <2>2. DOMAIN a \subseteq SessionsOf(cs) /\ \A s \in DOMAIN a : a[s] \in Domain(s)
    BY ModelsDrawFromDomains
  <2>3. AnswerAllowed(a, "solver")
    BY <1>5, <2>2 DEF StrategyAnswers, NextCluster, AnswerAllowed, Origin, SessionsOf,
       SolveInvariant, WorkInBucket, Working
  <2>4. Working /\ solvePc' = solvePc
        /\ UNCHANGED <<solveMode, bucket, pending, catalogue, registry, commits>>
    BY <1>5 DEF StrategyAnswers, NextCluster, Working
  <2>5. WorkInBucket'
    BY <1>5, <1>b DEF StrategyAnswers, NextCluster, SolveInvariant, WorkInBucket, Working
  <2> QED BY <1>t, <2>1, <2>3, <2>4, <2>5, AnswerKeepsInvariant DEF SolveInvariant
<1>6. ASSUME NEW cs \in SUBSET left, StrategiesFail(cs) PROVE SolveInvariant'
  <2>1. RegistryExact' /\ CrossPhaseExclusion' /\ EpochsBounded' /\ RealPlacesAssigned'
    BY <1>6, QuietStepKeepsAnswers DEF StrategiesFail, NextCluster
  <2>2. WorkInBucket'
    BY <1>6, <1>b DEF StrategiesFail, NextCluster, SolveInvariant, WorkInBucket, Working
  <2>3. EpochOfBucket' /\ BucketsToComeFresh' /\ MonolithicUncommitted'
    BY <1>6, <1>b DEF StrategiesFail, NextCluster, SolveInvariant, EpochOfBucket,
       BucketsToComeFresh, ToCome, MonolithicUncommitted, Working
  <2> QED BY <1>t, <2>1, <2>2, <2>3 DEF SolveInvariant
<1>7. ASSUME NEW s \in todo, GreedyPlace(s) PROVE SolveInvariant'
  <2>1. Working /\ solvePc' = solvePc
        /\ UNCHANGED <<solveMode, bucket, pending, catalogue, registry, commits>>
    BY <1>7 DEF GreedyPlace, Working
  <2>2. s \in SessionsOf(BucketOf(bucket))
    BY <1>7 DEF GreedyPlace, SolveInvariant, WorkInBucket, SessionsOf
  <2>3. \E a, origin : AnswerAllowed(a, origin) /\ Put(a, origin)
    <3>1. CASE Domain(s) = {}
      <4>1. AnswerAllowed([t \in {s} |-> catalogue.first], "forced")
        BY <2>2 DEF AnswerAllowed, Origin
      <4> QED BY <1>7, <3>1, <4>1 DEF GreedyPlace
    <3>2. CASE Domain(s) # {}
      <4>1. PICK p \in Domain(s) : Put([t \in {s} |-> p], "greedy")
        BY <1>7, <3>2 DEF GreedyPlace, NotBusy
      <4>2. AnswerAllowed([t \in {s} |-> p], "greedy")
        BY <2>2 DEF AnswerAllowed, Origin
      <4> QED BY <4>1, <4>2
    <3> QED BY <3>1, <3>2
  <2>4. WorkInBucket'
    BY <1>7, <1>b DEF GreedyPlace, SolveInvariant, WorkInBucket, Working
  <2> QED BY <1>t, <2>1, <2>3, <2>4, AnswerKeepsInvariant DEF SolveInvariant
<1>8. CASE GreedyDone
  <2>1. RegistryExact' /\ CrossPhaseExclusion' /\ EpochsBounded' /\ RealPlacesAssigned'
    BY <1>8, QuietStepKeepsAnswers DEF GreedyDone
  <2>2. WorkInBucket' /\ EpochOfBucket' /\ BucketsToComeFresh' /\ MonolithicUncommitted'
    BY <1>8, <1>b DEF GreedyDone, SolveInvariant, WorkInBucket, EpochOfBucket,
       BucketsToComeFresh, ToCome, MonolithicUncommitted, Working
  <2> QED BY <1>t, <2>1, <2>2 DEF SolveInvariant
<1>9. CASE CommitBucket
  <2>1. RegistryExact'
    BY <1>9, CommitKeepsRegistryExact
  <2>2. CrossPhaseExclusion'
    BY <1>9 DEF CommitBucket, SolveInvariant, CrossPhaseExclusion, Assigned, Clash,
       SameTeacher, SharedStudent
  <2>3. \A s \in Session : epoch'[s] < commits'
    BY <1>9, <1>t DEF CommitBucket, SolveInvariant, EpochsBounded, SolveTypeOK
  <2>4. EpochsBounded' /\ RealPlacesAssigned' /\ MonolithicUncommitted'
    BY <1>9, <1>t, <2>3 DEF CommitBucket, SolveInvariant, EpochsBounded, SolveTypeOK,
       RealPlacesAssigned, MonolithicUncommitted
  <2>5. WorkInBucket' /\ EpochOfBucket'
    BY <1>9, <2>3 DEF CommitBucket, SolveInvariant, WorkInBucket, EpochOfBucket, Working
  <2>6. BucketsToComeFresh'
    <3>1. bucket # "shared" => ToCome' = ToCome /\ bucket' \notin ToCome'
      BY <1>9, <1>t, BucketsAssumption DEF CommitBucket, ToCome, SolveTypeOK
    <3> QED BY <1>9, <1>b, <3>1 DEF CommitBucket, SolveInvariant, BucketsToComeFresh, Working
  <2> QED BY <1>t, <2>1, <2>2, <2>4, <2>5, <2>6 DEF SolveInvariant
<1>10. CASE Merge \/ WorkerDies
  <2>1. RegistryExact' /\ CrossPhaseExclusion' /\ EpochsBounded' /\ RealPlacesAssigned'
    BY <1>10, QuietStepKeepsAnswers DEF Merge, WorkerDies
  <2>2. WorkInBucket' /\ EpochOfBucket' /\ BucketsToComeFresh' /\ MonolithicUncommitted'
    BY <1>10, <1>b DEF Merge, WorkerDies, SolveInvariant, WorkInBucket, EpochOfBucket,
       BucketsToComeFresh, ToCome, MonolithicUncommitted, Working
  <2> QED BY <1>t, <2>1, <2>2 DEF SolveInvariant
<1>11. CASE PartitionedFails
  <2>1. RegistryExact'
    BY <1>11 DEF PartitionedFails, Discard, RegistryExact, EmptyRegistry, Assigned
  <2>2. CrossPhaseExclusion' /\ EpochsBounded' /\ RealPlacesAssigned'
    BY <1>11, <2>1, DiscardKeepsAnswers DEF PartitionedFails
  <2>3. WorkInBucket' /\ EpochOfBucket' /\ BucketsToComeFresh' /\ MonolithicUncommitted'
    BY <1>11 DEF PartitionedFails, WorkInBucket, EpochOfBucket, BucketsToComeFresh,
       MonolithicUncommitted, Working, BucketOf
  <2> QED BY <1>t, <2>1, <2>2, <2>3 DEF SolveInvariant
<1>12. CASE PoolFails
  <2>1. commits = 0 /\ commits' = 0 /\ bucket' = "all" /\ bucket = "all"
        /\ \A s \in Session : epoch[s] \in Nat
    BY <1>12, <1>t DEF PoolFails, SolveInvariant, MonolithicUncommitted, SolveTypeOK
  <2>2. RegistryExact'
    BY <1>12, <2>1, RegistryStaysExact DEF PoolFails, SolveInvariant, Settled, Discard
  <2>3. CrossPhaseExclusion' /\ EpochsBounded' /\ RealPlacesAssigned'
    BY <1>12, <2>1, <2>2, DiscardKeepsAnswers DEF PoolFails
  <2>4. WorkInBucket' /\ EpochOfBucket' /\ BucketsToComeFresh' /\ MonolithicUncommitted'
    BY <1>12, <2>1 DEF PoolFails, WorkInBucket, EpochOfBucket, BucketsToComeFresh,
       MonolithicUncommitted, Working, BucketOf
  <2> QED BY <1>t, <2>2, <2>3, <2>4 DEF SolveInvariant
<1>13. CASE UNCHANGED psVars
  <2>0. RegistryExact'
    <3>1. CASE solvePc = "load"
      BY <1>13, <3>1, NothingAssignedNothingBusy DEF SolveInvariant, BucketsToComeFresh
    <3>2. CASE solvePc # "load"
      BY <1>13, <3>2, QuietStepKeepsAnswers
    <3> QED BY <3>1, <3>2
  <2>1. CrossPhaseExclusion'
    BY <1>13 DEF SolveInvariant, CrossPhaseExclusion, Assigned, Clash, SameTeacher,
       SharedStudent
  <2>2. EpochsBounded' /\ RealPlacesAssigned' /\ MonolithicUncommitted'
    BY <1>13 DEF SolveInvariant, EpochsBounded, RealPlacesAssigned, MonolithicUncommitted
  <2>3. WorkInBucket' /\ EpochOfBucket' /\ BucketsToComeFresh'
    BY <1>13, <1>b DEF SolveInvariant, WorkInBucket, EpochOfBucket, BucketsToComeFresh,
       ToCome, Working
  <2> QED BY <1>t, <2>0, <2>1, <2>2, <2>3 DEF SolveInvariant
<1> QED
  BY <1>1, <1>2, <1>3, <1>4, <1>5, <1>6, <1>7, <1>8, <1>9, <1>10, <1>11, <1>12, <1>13
  DEF SolveNext

(* The inductive invariant of the partitioned solve.                       *)
THEOREM SolveInvariantHolds == SolveSpec => []SolveInvariant
BY SolveInvariantInit, SolveInvariantStep, PTL DEF SolveSpec

(* The registry is exactly what the committed buckets' entries occupy,     *)
(* whatever failed, was discarded or was forced into the first slot.       *)
THEOREM RegistryAlwaysExact == SolveSpec => []RegistryExact
<1>1. SolveInvariant => RegistryExact
  BY DEF SolveInvariant
<1> QED BY SolveInvariantHolds, <1>1, PTL

(* An entry drawn from a filtered domain clashes with no earlier bucket.   *)
THEOREM CrossPhasesExclude == SolveSpec => []CrossPhaseExclusion
<1>1. SolveInvariant => CrossPhaseExclusion
  BY DEF SolveInvariant
<1> QED BY SolveInvariantHolds, <1>1, PTL

-----------------------------------------------------------------------------
(* MissingOnlyWhenBlocked, while the greedy fallback is at work as well.   *)
MissingInvariant ==
  /\ solvePc # "greedy" => todo = {}
  /\ Working /\ solveMode = "partitioned" =>
       \A s \in SessionsOf(BucketOf(bucket) \ left) :
         s \notin todo /\ place[s] = Nowhere => Domain(s) = {}

(* A step that adds the sessions of cs to the solved ones, all of them     *)
(* placed, blocked or left to the greedy fallback.                         *)
LEMMA SolvedClusterKeepsMissing ==
  ASSUME MissingInvariant, Working, NEW cs, UNCHANGED <<catalogue, registry, bucket, solveMode>>,
         left' = left \ cs,
         \A s \in Session : s \notin SessionsOf(cs) =>
           place'[s] = place[s] /\ (s \in todo <=> s \in todo'),
         \A s \in SessionsOf(cs) :
           s \notin todo' /\ place'[s] = Nowhere => Domain(s) = {},
         solvePc' # "greedy" => todo' = {}
  PROVE  MissingInvariant'
<1>1. \A s : Domain(s)' = Domain(s)
  BY DEF Domain, Blocked
<1>2. /\ \A S : SessionsOf(S)' = SessionsOf(S)
      /\ \A b : BucketOf(b)' = BucketOf(b)
  BY DEF SessionsOf, BucketOf, ClassifyCourse
<1>3. \A s \in SessionsOf(BucketOf(bucket) \ (left \ cs)) :
        s \in Session /\ (s \in SessionsOf(cs) \/ s \in SessionsOf(BucketOf(bucket) \ left))
  BY DEF SessionsOf
<1> QED BY <1>1, <1>2, <1>3 DEF MissingInvariant

(* An entry is never the value of a session without one.                   *)
LEMMA EntriesAreSomewhere == Nowhere \notin Entry
BY SentinelAssumption DEF Nowhere, Entry

(* Every step keeps the invariant of the missing sessions.                 *)
LEMMA MissingInvariantStep ==
  SolveInvariant /\ MissingInvariant /\ [SolveNext]_psVars => MissingInvariant'
<1> SUFFICES ASSUME SolveInvariant, MissingInvariant, [SolveNext]_psVars
             PROVE  MissingInvariant'
  OBVIOUS
<1> USE DEF psVars, progressVars, answerVars
<1>t. SolveTypeOK /\ (solvePc # "load" => catalogue \in Catalogue)
  BY CataloguesAssumption DEF SolveInvariant, SolveTypeOK
<1>1. CASE Load \/ Partition \/ CommitBucket \/ Merge
  BY <1>1 DEF Load, Partition, CommitBucket, Merge, MissingInvariant, Working
<1>2. CASE Dispatch
  <2>1. SessionsOf(BucketOf(bucket) \ left)' = {}
    BY <1>2 DEF Dispatch, SessionsOf, BucketOf, ClassifyCourse
  <2> QED BY <1>2, <2>1 DEF Dispatch, MissingInvariant
<1>3. CASE PartitionedFails \/ PoolFails \/ WorkerDies
  BY <1>3 DEF PartitionedFails, PoolFails, WorkerDies, MissingInvariant
<1>4. ASSUME NEW cs \in SUBSET left, ClusterOverloaded(cs) \/ WorkerErrs(cs)
      PROVE  MissingInvariant'
  <2>1. /\ Put(Sentinels(cs), "sentinel") /\ solvePc = "solve" /\ solvePc' = "solve"
        /\ left' = left \ cs
        /\ UNCHANGED <<catalogue, registry, bucket, solveMode, todo>>
    BY <1>4 DEF ClusterOverloaded, WorkerErrs, NextCluster
  <2>2. \A s \in SessionsOf(cs) : Sentinels(cs)[s] \in Entry
    BY <1>t, <2>1, SessionPairs DEF Sentinels, Catalogue
  <2>3. \A s \in SessionsOf(cs) : place'[s] # Nowhere
    BY <2>1, <2>2, EntriesAreSomewhere DEF Put, Sentinels, SessionsOf
  <2>4. \A s \in Session : s \notin SessionsOf(cs) => place'[s] = place[s]
    BY <2>1 DEF Put, Sentinels
  <2> QED BY <2>1, <2>3, <2>4, SolvedClusterKeepsMissing DEF MissingInvariant, Working
<1>5. ASSUME NEW cs \in SUBSET left, StrategyAnswers(cs) PROVE MissingInvariant'
  <2>1. /\ solvePc = "solve" /\ solvePc' = "solve" /\ left' = left \ cs
        /\ UNCHANGED <<catalogue, registry, bucket, solveMode, todo>>
    BY <1>5 DEF StrategyAnswers, NextCluster
  <2>i. PICK i \in 1..3 : \E a \in Models(cs, i) : Put(a, "solver")
    BY <1>5 DEF StrategyAnswers
  <2>2. PICK a \in Models(cs, i) : Put(a, "solver")
    BY <2>i
  <2>3. DOMAIN a = {s \in SessionsOf(cs) : Domain(s) # {}} /\ \A s \in DOMAIN a : a[s] \in Domain(s)
    BY DEF Models
  <2>4. \A s \in DOMAIN a : s \in Session /\ a[s] \in Entry
    BY <1>t, <2>1, <2>3, CatalogueOfSession, SessionPairs DEF SessionsOf
  <2>5. \A s \in SessionsOf(cs) : place'[s] = Nowhere => Domain(s) = {}
    BY <2>2, <2>3, <2>4, EntriesAreSomewhere DEF Put
  <2>6. \A s \in Session : s \notin SessionsOf(cs) => place'[s] = place[s]
    BY <2>2, <2>3 DEF Put
  <2> QED BY <2>1, <2>5, <2>6, SolvedClusterKeepsMissing DEF MissingInvariant, Working
<1>6. ASSUME NEW cs \in SUBSET left, StrategiesFail(cs) PROVE MissingInvariant'
  BY <1>6, SolvedClusterKeepsMissing
  DEF StrategiesFail, NextCluster, MissingInvariant, Working
<1>7. ASSUME NEW s \in todo, GreedyPlace(s) PROVE MissingInvariant'
  <2>1. /\ solvePc = "greedy" /\ solvePc' = "greedy" /\ todo' = todo \ {s} /\ s \in Session
        /\ UNCHANGED <<catalogue, registry, bucket, solveMode, left>>
    BY <1>7, <1>t DEF GreedyPlace, SolveTypeOK
  <2>2. PICK p \in Entry : \E origin : Put([t \in {s} |-> p], origin)
    <3>1. CASE Domain(s) = {}
      BY <1>7, <1>t, <2>1, <3>1, CatalogueOfSession DEF GreedyPlace
    <3>2. CASE Domain(s) # {}
      <4>1. PICK p \in Domain(s) : Put([t \in {s} |-> p], "greedy")
        BY <1>7, <3>2 DEF GreedyPlace, NotBusy
      <4> QED BY <1>t, <2>1, <4>1, CatalogueOfSession, SessionPairs
    <3> QED BY <3>1, <3>2
  <2>3. place'[s] # Nowhere /\ \A t \in Session \ {s} : place'[t] = place[t]
    BY <2>1, <2>2, EntriesAreSomewhere DEF Put
  <2>4. /\ \A t : Domain(t)' = Domain(t)
        /\ SessionsOf(BucketOf(bucket) \ left)' = SessionsOf(BucketOf(bucket) \ left)
        /\ SessionsOf(BucketOf(bucket) \ left) \subseteq Session
    BY <2>1 DEF Domain, Blocked, SessionsOf, BucketOf, ClassifyCourse
  <2> QED BY <2>1, <2>3, <2>4 DEF MissingInvariant, Working
<1>8. CASE GreedyDone \/ UNCHANGED psVars
  <2>1. /\ \A t : Domain(t)' = Domain(t)
        /\ SessionsOf(BucketOf(bucket) \ left)' = SessionsOf(BucketOf(bucket) \ left)
    BY <1>8 DEF GreedyDone, Domain, Blocked, SessionsOf, BucketOf, ClassifyCourse
  <2> QED BY <1>8, <2>1 DEF GreedyDone, MissingInvariant, Working
<1> QED BY <1>1, <1>2, <1>3, <1>4, <1>5, <1>6, <1>7, <1>8 DEF SolveNext

(* A session of a solved bucket without a place had nowhere to go.         *)
THEOREM MissingWereBlocked == SolveSpec => []MissingOnlyWhenBlocked
<1>1. SolveInit => MissingInvariant
  BY DEF SolveInit, MissingInvariant, Working
<1>2. MissingInvariant => MissingOnlyWhenBlocked
  BY DEF MissingInvariant, MissingOnlyWhenBlocked, Working
<1> QED BY SolveInvariantHolds, MissingInvariantStep, <1>1, <1>2, PTL DEF SolveSpec
=============================================================================
