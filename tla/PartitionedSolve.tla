-------------------------- MODULE PartitionedSolve --------------------------
(***************************************************************************)
(* Stage 2 of the saga: the courses are divided into departments and a     *)
(* shared pool (core/services/course_partitioner.py), each bucket is       *)
(* solved cluster by cluster against the registry of what earlier buckets  *)
(* committed (engine/cpsat/committed_registry.py, dept_solver.py,          *)
(* cross_dept_solver.py, solver.py) and the answers are merged             *)
(* (timetable_merger.py).  Any exception falls back to the monolithic      *)
(* solve, in worker processes or one cluster after the other (saga.py).    *)
(*                                                                         *)
(* CP-SAT is a library: a strategy returns any assignment its constraints  *)
(* admit, or nothing (infeasible, timed out, raised).  Orders the          *)
(* properties cannot see are left open: of departments, of clusters (any   *)
(* grouping of a bucket, see Clustering), and of the pairs of a domain.    *)
(* The safe points that check for a cancellation are in GenerationSaga.    *)
(***************************************************************************)
EXTENDS Integers, FiniteSets

CONSTANTS
  Course, Department, Teacher, Student, Slot, Room,
  MaxDuration,     \* sessions a week of a course
  Catalogues,      \* what _load_data may have loaded: see Catalogue
  None,            \* a missing teacher, department, fixed slot or room
  Unscheduled      \* the sentinel slot "__UNSCHEDULED__"

Session == Course \X (0..(MaxDuration - 1))
Entry == (Slot \union {Unscheduled}) \X (Room \union {None})
Nowhere == <<Unscheduled, Unscheduled>>        \* no entry in the dict

(* rooms[c]: the candidate rooms of c (RoomDomain); first: time_slots[0]   *)
(* and rooms[0], what the greedy fallback takes when a domain is empty.    *)
Catalogue ==
  [courses : SUBSET Course, dept : [Course -> Department \union {None}],
   crossType : [Course -> BOOLEAN], teacher : [Course -> Teacher \union {None}],
   students : [Course -> SUBSET Student], duration : [Course -> 1..MaxDuration],
   fixed : [Course -> Slot \union {None}], slots : SUBSET Slot,
   rooms : [Course -> SUBSET Room], first : Entry]

ASSUME SentinelAssumption ==
  None \notin Teacher /\ None \notin Department /\ None \notin Slot
    /\ None \notin Room /\ Unscheduled \notin Slot /\ Unscheduled \notin Room
    /\ Unscheduled # None
ASSUME BucketsAssumption == Department \cap {"shared", "all", "none"} = {}
ASSUME CataloguesAssumption == MaxDuration \in Nat \ {0} /\ Catalogues \subseteq Catalogue

VARIABLES
  solvePc,     \* control
  solveMode,   \* which of the three ways to solve
  catalogue,   \* data: courses, rooms, time slots as loaded
  pending,     \* department buckets still to be solved
  bucket,      \* the bucket being solved
  left,        \* its courses whose cluster is not solved yet
  cluster,     \* the cluster in the greedy fallback
  todo,        \* its sessions the greedy fallback has still to place
  place,       \* the answers' dicts: {(course, session): (slot, room)}
  registry,    \* CommittedResourceRegistry: busy slots
  merged,      \* what stage 2 returns
  commits,     \* history: buckets committed so far
  how,         \* history: which code placed a session
  epoch        \* history: commits when the session was placed

progressVars == <<solvePc, solveMode, pending, bucket, left, cluster, todo>>
answerVars == <<place, how, epoch>>
psVars == <<progressVars, answerVars, catalogue, registry, merged, commits>>

-----------------------------------------------------------------------------
Bucket == Department \union {"shared", "all", "none"}
Origin == {"none", "solver", "greedy", "forced", "sentinel"}

Busy == [teacher : [Teacher -> SUBSET Slot], room : [Room -> SUBSET Slot],
         student : [Student -> SUBSET Slot]]
EmptyRegistry ==
  [teacher |-> [x \in Teacher |-> {}], room |-> [x \in Room |-> {}],
   student |-> [x \in Student |-> {}]]

SessionsOf(cs) == {s \in Session : s[1] \in cs /\ s[2] < catalogue.duration[s[1]]}

(* _classify_course; partition puts every course in one bucket.            *)
ClassifyCourse(c) ==
  IF catalogue.crossType[c] \/ catalogue.dept[c] = None
  THEN "shared" ELSE catalogue.dept[c]
BucketOf(b) == {c \in catalogue.courses : b = "all" \/ ClassifyCourse(c) = b}

(* Mutant: the students of a course are not looked up.                     *)
BlockedByStaffOnly(c, slot, room) ==
  \/ catalogue.teacher[c] # None /\ slot \in registry.teacher[catalogue.teacher[c]]
  \/ slot \in registry.room[room]

(* CommittedAwareSolver drops the pairs whose slot is busy for the room,   *)
(* the teacher or one of the students; the monolithic solve has an empty   *)
(* registry.                                                               *)
Blocked(c, slot, room) ==
  \/ catalogue.teacher[c] # None /\ slot \in registry.teacher[catalogue.teacher[c]]
  \/ slot \in registry.room[room]
  \/ \E x \in catalogue.students[c] : slot \in registry.student[x]

Domain(s) == {p \in catalogue.slots \X catalogue.rooms[s[1]] :
                ~ Blocked(s[1], p[1], p[2])}

SameTeacher(s, t) ==
  catalogue.teacher[s[1]] # None /\ catalogue.teacher[s[1]] = catalogue.teacher[t[1]]
SharedStudent(s, t) == catalogue.students[s[1]] \cap catalogue.students[t[1]] # {}

(* Mutant: a session gets at most one entry.                               *)
ModelsOptional(cs, strategy) ==
  UNION {{a \in [ss -> catalogue.slots \X Room] :
     /\ \A s \in DOMAIN a : /\ a[s] \in Domain(s)
                            /\ catalogue.fixed[s[1]] \in {None, a[s][1]}
     /\ \A s, t \in DOMAIN a : s # t =>
          /\ strategy <= 2 => ~ (SameTeacher(s, t) /\ a[s][1] = a[t][1])
          /\ strategy = 1 => a[s] # a[t]} : ss \in SUBSET SessionsOf(cs)}

(* The models of the three strategies, over the sessions of cs whose       *)
(* domain is not empty: each has one entry, at its fixed slot if it has    *)
(* one; HC1 in the first two strategies, HC2 in the first.                 *)
Models(cs, strategy) ==
  {a \in [{s \in SessionsOf(cs) : Domain(s) # {}} -> catalogue.slots \X Room] :
     /\ \A s \in DOMAIN a : /\ a[s] \in Domain(s)
                            /\ catalogue.fixed[s[1]] \in {None, a[s][1]}
     /\ \A s, t \in DOMAIN a : s # t =>
          /\ strategy <= 2 => ~ (SameTeacher(s, t) /\ a[s][1] = a[t][1])
          /\ strategy = 1 => a[s] # a[t]}

(* Pre-flight: a teacher with more sessions in the cluster than slots.     *)
Overloaded(cs) ==
  \E x \in Teacher :
    Cardinality({s \in SessionsOf(cs) : catalogue.teacher[s[1]] = x})
      > Cardinality(catalogue.slots)

Put(a, origin) ==
  /\ place' = [s \in Session |-> IF s \in DOMAIN a THEN a[s] ELSE place[s]]
  /\ how' = [s \in Session |-> IF s \in DOMAIN a THEN origin ELSE how[s]]
  /\ epoch' = [s \in Session |-> IF s \in DOMAIN a THEN commits ELSE epoch[s]]

(* solution[(c, s)] = (sentinel, rooms[0]) for a cluster without answer.   *)
Sentinels(cs) == [s \in SessionsOf(cs) |-> <<Unscheduled, catalogue.first[2]>>]

Discard ==      \* the answers so far are dropped
  /\ place' = [s \in Session |-> Nowhere]
  /\ how' = [s \in Session |-> "none"]
  /\ epoch' = [s \in Session |-> 0]

-----------------------------------------------------------------------------
SolveInit ==
  /\ solvePc = "load" /\ solveMode = "partitioned"
  /\ catalogue = [courses |-> {}]
  /\ pending = {} /\ bucket = "none" /\ left = {} /\ cluster = {} /\ todo = {}
  /\ place = [s \in Session |-> Nowhere]
  /\ how = [s \in Session |-> "none"] /\ epoch = [s \in Session |-> 0]
  /\ registry = EmptyRegistry /\ merged = [s \in Session |-> Nowhere]
  /\ commits = 0

(* _stage2_partitioned_solve is entered with the loaded data.              *)
Load ==
  /\ solvePc = "load"
  /\ catalogue' \in Catalogues
  /\ solvePc' = IF catalogue'.courses = {} THEN "done" ELSE "partition"
  /\ UNCHANGED <<solveMode, pending, bucket, left, cluster, todo, answerVars,
                 registry, merged, commits>>

(* Phase 1.                                                                *)
Partition ==
  /\ solvePc = "partition"
  /\ solvePc' = "dispatch"
  /\ pending' = {d \in Department : BucketOf(d) # {}}
  /\ UNCHANGED <<solveMode, bucket, left, cluster, todo, answerVars, catalogue,
                 registry, merged, commits>>

(* Phases 2 and 3: the next department, or the shared pool after the last. *)
Dispatch ==
  /\ solvePc = "dispatch"
  /\ \/ \E d \in pending : bucket' = d /\ pending' = pending \ {d}
     \/ pending = {} /\ bucket' = "shared" /\ UNCHANGED pending
  /\ left' = BucketOf(bucket')
  /\ solvePc' = "solve"
  /\ UNCHANGED <<solveMode, cluster, todo, answerVars, catalogue, registry,
                 merged, commits>>

NextCluster(cs) ==
  /\ solvePc = "solve"
  /\ cs # {}
  /\ left' = left \ cs

(* solve_cluster returns None and the caller writes sentinels.             *)
ClusterOverloaded(cs) ==
  /\ NextCluster(cs)
  /\ Overloaded(cs)
  /\ Put(Sentinels(cs), "sentinel")
  /\ UNCHANGED <<solvePc, solveMode, pending, bucket, cluster, todo, catalogue,
                 registry, merged, commits>>

(* The strategies before the i-th gave nothing, the i-th an answer that is *)
(* not empty.                                                              *)
StrategyAnswers(cs) ==
  /\ NextCluster(cs)
  /\ ~ Overloaded(cs)
  /\ \E i \in 1..3 : \E a \in Models(cs, i) : DOMAIN a # {} /\ Put(a, "solver")
  /\ UNCHANGED <<solvePc, solveMode, pending, bucket, cluster, todo, catalogue,
                 registry, merged, commits>>

(* None of them gave one: _greedy_fallback.                                *)
StrategiesFail(cs) ==
  /\ NextCluster(cs)
  /\ ~ Overloaded(cs)
  /\ cluster' = cs /\ todo' = SessionsOf(cs)
  /\ solvePc' = "greedy"
  /\ UNCHANGED <<solveMode, pending, bucket, answerVars, catalogue, registry,
                 merged, commits>>

(* Pairs of the domain that double-book neither the teacher nor the room   *)
(* with what the fallback placed in this cluster.                          *)
NotBusy(s) ==
  {p \in Domain(s) : \A t \in SessionsOf(cluster) \ todo :
     /\ ~ (SameTeacher(s, t) /\ place[t][1] = p[1])
     /\ place[t] # p}

GreedyPlace(s) ==
  /\ solvePc = "greedy"
  /\ todo' = todo \ {s}
  /\ IF Domain(s) = {}
     THEN Put([t \in {s} |-> catalogue.first], "forced")
     ELSE \E p \in (IF NotBusy(s) # {} THEN NotBusy(s) ELSE Domain(s)) :
            Put([t \in {s} |-> p], "greedy")
  /\ UNCHANGED <<solvePc, solveMode, pending, bucket, left, cluster, catalogue,
                 registry, merged, commits>>

GreedyDone ==
  /\ solvePc = "greedy" /\ todo = {}
  /\ solvePc' = "solve" /\ cluster' = {}
  /\ UNCHANGED <<solveMode, pending, bucket, left, todo, answerVars, catalogue,
                 registry, merged, commits>>

Placed(cs) == {s \in SessionsOf(cs) : place[s][1] # Unscheduled}

(* Mutant: only the first session of a course is entered.                  *)
CommittedFirstOnly(cs) ==
  LET at(S) == {place[s][1] : s \in {t \in S : t[2] = 0}}
  IN [teacher |-> [x \in Teacher |-> registry.teacher[x] \union
                     at({s \in Placed(cs) : catalogue.teacher[s[1]] = x})],
      room |-> [x \in Room |-> registry.room[x] \union
                     at({s \in Placed(cs) : place[s][2] = x})],
      student |-> [x \in Student |-> registry.student[x] \union
                     at({s \in Placed(cs) : x \in catalogue.students[s[1]]})]]

(* commit_solution: sentinels are skipped.                                 *)
Committed(cs) ==
  LET at(S) == {place[s][1] : s \in S}
  IN [teacher |-> [x \in Teacher |-> registry.teacher[x] \union
                     at({s \in Placed(cs) : catalogue.teacher[s[1]] = x})],
      room |-> [x \in Room |-> registry.room[x] \union
                     at({s \in Placed(cs) : place[s][2] = x})],
      student |-> [x \in Student |-> registry.student[x] \union
                     at({s \in Placed(cs) : x \in catalogue.students[s[1]]})]]

(* The bucket is solved and committed as a whole.                          *)
CommitBucket ==
  /\ solvePc = "solve" /\ left = {} /\ solveMode = "partitioned"
  /\ registry' = Committed(BucketOf(bucket))
  /\ commits' = commits + 1
  /\ bucket' = "none"
  /\ solvePc' = IF bucket = "shared" THEN "merge" ELSE "dispatch"
  /\ UNCHANGED <<solveMode, pending, left, cluster, todo, answerVars, catalogue,
                 merged>>

(* merge_timetables; the monolithic solve returns its own dict.            *)
Merge ==
  /\ \/ solvePc = "merge"
     \/ solvePc = "solve" /\ left = {} /\ solveMode # "partitioned"
  /\ merged' = place
  /\ solvePc' = "done"
  /\ UNCHANGED <<solveMode, pending, bucket, left, cluster, todo, answerVars,
                 catalogue, registry, commits>>

-----------------------------------------------------------------------------
(* Anything in the partitioned solve raises: _stage2_cpsat_legacy starts   *)
(* from nothing, in processes when there is memory for them.               *)
PartitionedFails ==
  /\ solveMode = "partitioned"
  /\ solvePc \in {"partition", "dispatch", "solve", "greedy", "merge"}
  /\ solveMode' \in {"parallel", "sequential"}
  /\ solvePc' = "solve" /\ bucket' = "all" /\ left' = catalogue.courses
  /\ pending' = {} /\ cluster' = {} /\ todo' = {}
  /\ registry' = EmptyRegistry /\ commits' = 0
  /\ Discard
  /\ UNCHANGED <<catalogue, merged>>

(* _solve_cluster_worker caught an exception.                              *)
WorkerErrs(cs) ==
  /\ NextCluster(cs)
  /\ solveMode = "parallel"
  /\ Put(Sentinels(cs), "sentinel")
  /\ UNCHANGED <<solvePc, solveMode, pending, bucket, cluster, todo, catalogue,
                 registry, merged, commits>>

(* A worker process was killed: the future of its cluster, and with the    *)
(* pool broken every other one, raises and is only counted.                *)
WorkerDies ==
  /\ solvePc = "solve" /\ solveMode = "parallel"
  /\ left # {} /\ left' = {}
  /\ UNCHANGED <<solvePc, solveMode, pending, bucket, cluster, todo, answerVars,
                 catalogue, registry, merged, commits>>

(* The pool itself fails: everything again, sequentially.                  *)
PoolFails ==
  /\ solveMode = "parallel" /\ solvePc \in {"solve", "greedy"}
  /\ solveMode' = "sequential"
  /\ solvePc' = "solve" /\ left' = catalogue.courses
  /\ cluster' = {} /\ todo' = {}
  /\ Discard
  /\ UNCHANGED <<pending, bucket, catalogue, registry, merged, commits>>

-----------------------------------------------------------------------------
SolveNext ==
  \/ Load \/ Partition \/ Dispatch
  \/ \E cs \in SUBSET left :
       \/ ClusterOverloaded(cs) \/ StrategyAnswers(cs) \/ StrategiesFail(cs)
       \/ WorkerErrs(cs)
  \/ \E s \in todo : GreedyPlace(s)
  \/ GreedyDone \/ CommitBucket \/ Merge
  \/ PartitionedFails \/ WorkerDies \/ PoolFails

SolveSpec == SolveInit /\ [][SolveNext]_psVars

-----------------------------------------------------------------------------
SolveTypeOK ==
  /\ solvePc \in {"load", "partition", "dispatch", "solve", "greedy", "merge",
                  "done"}
  /\ solveMode \in {"partitioned", "parallel", "sequential"}
  /\ solvePc # "load" => catalogue \in Catalogues
  /\ pending \subseteq Department /\ bucket \in Bucket
  /\ left \subseteq Course /\ cluster \subseteq Course /\ todo \subseteq Session
  /\ place \in [Session -> Entry \union {Nowhere}]
  /\ merged \in [Session -> Entry \union {Nowhere}]
  /\ how \in [Session -> Origin] /\ epoch \in [Session -> Nat]
  /\ registry \in Busy /\ commits \in Nat

Assigned(s) == how[s] \in {"solver", "greedy", "forced"} /\ place[s][1] # Unscheduled

Clash(s, t) ==
  /\ place[s][1] = place[t][1]
  /\ \/ SameTeacher(s, t)
     \/ SharedStudent(s, t)
     \/ place[s][2] = place[t][2] /\ place[s][2] # None

(* What the registry is for: an entry drawn from a filtered domain, by     *)
(* CP-SAT or by the greedy fallback, never uses a teacher, a room or a     *)
(* student at a slot an earlier bucket committed, however that earlier     *)
(* entry was placed.                                                       *)
CrossPhaseExclusion ==
  \A s, t \in Session :
    /\ Assigned(s) /\ Assigned(t) /\ epoch[s] < epoch[t]
    /\ how[t] \in {"solver", "greedy"}
    => ~ Clash(s, t)

(* The registry is exactly what the committed buckets' entries occupy: no  *)
(* slot is left out, none is blocked by a sentinel or by an answer that    *)
(* was thrown away.                                                        *)
RegistryExact ==
  LET at(S) == {place[s][1] : s \in {t \in S : Assigned(t) /\ epoch[t] < commits}}
  IN /\ \A x \in Teacher :
          registry.teacher[x] = at({s \in Session : solvePc # "load"
                                     /\ catalogue.teacher[s[1]] = x})
     /\ \A x \in Room : registry.room[x] = at({s \in Session : place[s][2] = x})
     /\ \A x \in Student :
          registry.student[x] = at({s \in Session : solvePc # "load"
                                     /\ x \in catalogue.students[s[1]]})

(* A session of a solved bucket that is in no dict had nowhere to go:      *)
(* every pair of its domain was busy.                                      *)
MissingOnlyWhenBlocked ==
  solvePc = "solve" /\ solveMode = "partitioned" =>
    \A s \in SessionsOf(BucketOf(bucket) \ left) :
      place[s] = Nowhere => Domain(s) = {}

(* timetable_merger.py: "by construction [...] no resource conflicts exist *)
(* between dept timetables or between dept and cross-dept timetables".     *)
(* They do when the fallback puts a session without domain in the first    *)
(* slot and room.                                                          *)
MergedConflictFree ==
  solvePc = "done" /\ solveMode = "partitioned" =>
    \A s, t \in SessionsOf(catalogue.courses) :
      Assigned(s) /\ Assigned(t) /\ epoch[s] # epoch[t] => ~ Clash(s, t)
=============================================================================
