------------------------------ MODULE Optimise ------------------------------
(***************************************************************************)
(* Stages 2B and 3 of the saga and what is built from them: three runs of  *)
(* the genetic algorithm from the CP-SAT answer, each with weights of its  *)
(* own (saga.py _stage2b_ga, engine/ga/optimizer.py, operators.py,         *)
(* fitness.py), the RL stage that passes the best one through, and the     *)
(* payload of each variant (_persist_results).                             *)
(*                                                                         *)
(* Random choices are left open.  Fitness is computed as in the code, in   *)
(* hundredths and with the peak penalty rounded down.                      *)
(***************************************************************************)
EXTENDS Integers, Sequences, FiniteSets, Bags

CONSTANTS
  GaCourse,          \* courses: records of id, duration, teacher, students
  GaSlot,            \* time slots: records of id and period
  GaRoom,            \* rooms: records of id and capacity
  GaInitial,         \* CP-SAT answers: functions from (course id, session) to
                     \* (slot id, room id)
  GaWeights,         \* VARIANT_CONFIGS: a sequence of weights in hundredths
  GaPopulation, GaGenerations,   \* settings
  GaCheckEvery,      \* generations between two looks at the token: 5
  GaUnscheduled      \* "__UNSCHEDULED__"

ASSUME GaAssumption ==
  GaPopulation \in Nat \ {0} /\ GaGenerations \in Nat \ {0} /\ GaCheckEvery \in Nat \ {0}

(* Finite data, weights that are not negative, solutions that give pairs.  *)
ASSUME GaInputsAssumption ==
  /\ IsFiniteSet(UNION {c.students : c \in GaCourse})
  /\ GaWeights \in Seq([faculty : Nat, room : Nat, spread : Nat, student : Nat])
  /\ \A sol \in GaInitial :
       IsFiniteSet(DOMAIN sol) /\ sol = [k \in DOMAIN sol |-> <<sol[k][1], sol[k][2]>>]

VARIABLE ga    \* control, the variant's search, the variants, the final answer

-----------------------------------------------------------------------------
AtLeast0(n) == IF n < 0 THEN 0 ELSE n
AtLeast1(n) == IF n < 1 THEN 1 ELSE n

CourseOf(key) == CHOOSE c \in GaCourse : c.id = key[1]
Keys(sol) == {k \in DOMAIN sol : \E c \in GaCourse : c.id = k[1] /\ k[2] < c.duration}
SlotsNamed(id) == {s \in GaSlot : s.id = id}
Capacity(id) ==
  IF \E r \in GaRoom : r.id = id THEN (CHOOSE r \in GaRoom : r.id = id).capacity ELSE 100

(* The greatest of some numbers.                                           *)
Highest(numbers) == CHOOSE n \in numbers : \A m \in numbers : m <= n

(* _evaluate_faculty_preferences: five points off for a first period, three *)
(* for a late one, one more for a good one; sessions without a known slot   *)
(* are skipped.                                                             *)
FacultyScore(sol) ==
  LET periods(k) == {s.period : s \in SlotsNamed(sol[k][1])}
      first == {k \in Keys(sol) : 0 \in periods(k)}
      late == {k \in Keys(sol) \ first : \E p \in periods(k) : p >= 7}
      good == {k \in Keys(sol) \ (first \union late) : \E p \in periods(k) : p \in 1..5}
  IN AtLeast0(100 - 5 * Cardinality(first) - 3 * Cardinality(late) + Cardinality(good))

(* _evaluate_room_utilization: rooms over twice, over one and a half times *)
(* and up to one and a half times the class; empty classes are skipped.    *)
RoomScore(sol) ==
  LET size(k) == Cardinality(CourseOf(k).students)
      cap(k) == Capacity(sol[k][2])
      filled == {k \in Keys(sol) : size(k) > 0}
      huge == {k \in filled : cap(k) > 2 * size(k)}
      wide == {k \in filled \ huge : 2 * cap(k) > 3 * size(k)}
      right == {k \in filled \ (huge \union wide) : cap(k) >= size(k)}
  IN AtLeast0(100 - 5 * Cardinality(huge) - 2 * Cardinality(wide) + 2 * Cardinality(right))

(* _evaluate_peak_spreading: the fullest slot against twice the average;   *)
(* the sentinel counts as a slot.                                          *)
SpreadScore(sol) ==
  LET used == {sol[k][1] : k \in Keys(sol)}
      load(s) == Cardinality({k \in Keys(sol) : sol[k][1] = s})
      peak == IF used = {} THEN 0 ELSE Highest({load(s) : s \in used})
      over == peak * Cardinality(used) - 2 * Cardinality(Keys(sol))
  IN IF used # {} /\ over > 0
     THEN AtLeast0(100 - (10 * over) \div Cardinality(used)) ELSE 100

(* _evaluate_student_conflicts: the sessions of a student beyond the first *)
(* one in a slot.                                                          *)
StudentScore(sol) ==
  LET attended == UNION {{k} \X CourseOf(k).students : k \in Keys(sol)}
      busy == {<<sol[a[1]][1], a[2]>> : a \in attended}
  IN AtLeast0(100 - 20 * (Cardinality(attended) - Cardinality(busy)))

(* evaluate_fitness_simple.                                                *)
Fitness(sol, w) ==
  w.faculty * FacultyScore(sol) + w.room * RoomScore(sol)
    + w.spread * SpreadScore(sol) + w.student * StudentScore(sol)

-----------------------------------------------------------------------------
(* mutate: each session of the solution may get another slot or another    *)
(* room.                                                                   *)
Options(sol, k) ==
  {sol[k]} \union (IF k \in Keys(sol)
                   THEN {<<s.id, sol[k][2]>> : s \in GaSlot}
                          \union {<<sol[k][1], r.id>> : r \in GaRoom}
                   ELSE {})
MutationsOf(sol) ==
  {m \in [DOMAIN sol -> UNION {Options(sol, k) : k \in DOMAIN sol}] :
     \A k \in DOMAIN sol : m[k] \in Options(sol, k)}

(* Mutant: a session the second parent has elsewhere is dropped.           *)
CrossoverLosing(p, q, split) ==
  [k \in {j \in DOMAIN p : j[1] \in split \/ p[j] = q[j]} |-> p[k]]

(* crossover: the courses in split from the one, the others from the other *)
(* parent.  No crossover is the split with all courses.                    *)
Crossover(p, q, split) ==
  [k \in DOMAIN p |-> IF k[1] \in split \/ k \notin DOMAIN q THEN p[k] ELSE q[k]]

(* _initialize_population: the answer itself, 40% conservative, 40%        *)
(* moderate, the rest exploratory; never fewer than three individuals.     *)
PopulationCount ==
  LET rest == (IF GaPopulation < 25 THEN GaPopulation ELSE 25) - 1
      share == AtLeast1((2 * rest) \div 5)
  IN 1 + 2 * share + AtLeast0(rest - 2 * share)

BagOf(s) == [x \in {s[i] : i \in DOMAIN s} |-> Cardinality({i \in DOMAIN s : s[i] = x})]
SomeOf(S, n) == {BagOf(s) : s \in [1..n -> S]}     \* n members, repetition allowed

(* Mutant: the answer itself is not kept among the first individuals.      *)
FirstPopulationsAllMutated(initial) == SomeOf(MutationsOf(initial), PopulationCount)

FirstPopulations(initial) ==
  {SetToBag({initial}) (+) others :
     others \in SomeOf(MutationsOf(initial), PopulationCount - 1)}

(* The bag's members whose score no other member exceeds; max takes the    *)
(* first, the model any.                                                   *)
Fittest(pop, w) ==
  {s \in DOMAIN pop : \A t \in DOMAIN pop : Fitness(t, w) <= Fitness(s, w)}

(* tournament_selection: the best of three different individuals.          *)
Winners(pop, w) ==
  {s \in DOMAIN pop :
     BagCardinality([t \in {u \in DOMAIN pop : Fitness(u, w) <= Fitness(s, w)}
                       |-> pop[t]]) >= 3}

(* _evolve_generation: the best fifth survives, the rest is offspring of   *)
(* tournament winners, crossed and mutated.  Which two offspring are       *)
(* siblings is left open.                                                  *)
Elites(pop, w, keep) ==
  {e \in UNION {[S -> 1..keep] : S \in SUBSET DOMAIN pop} :
     /\ BagCardinality(e) = keep /\ e \sqsubseteq pop
     /\ \A s \in DOMAIN e, t \in DOMAIN (pop (-) e) : Fitness(t, w) <= Fitness(s, w)}

Offspring(pop, w) ==
  LET ids == {k[1] : k \in UNION {DOMAIN s : s \in DOMAIN pop}}
  IN UNION {MutationsOf(Crossover(p, q, split)) :
              p \in Winners(pop, w), q \in Winners(pop, w), split \in SUBSET ids}

NextPopulations(pop, w) ==
  LET n == BagCardinality(pop)
      keep == AtLeast1(n \div 5)
  IN {e (+) o : e \in Elites(pop, w, keep), o \in SomeOf(Offspring(pop, w), n - keep)}

-----------------------------------------------------------------------------
(* Entries the persistence step can resolve: neither the sentinel nor an   *)
(* unknown course, slot or room.                                           *)
Scheduled(sol) ==
  {k \in DOMAIN sol : /\ sol[k][1] # GaUnscheduled
                      /\ \E c \in GaCourse : c.id = k[1]
                      /\ SlotsNamed(sol[k][1]) # {}
                      /\ \E r \in GaRoom : r.id = sol[k][2]}

NoTeacher == "nobody"     \* an empty faculty_id

(* Mutant: only rooms are counted.                                         *)
ConflictsOfRooms(sol) ==
  LET rooms == {sol[k] : k \in Scheduled(sol)}
  IN Cardinality(Scheduled(sol)) - Cardinality(rooms)

(* The conflict count of _build_variant_payload: entries beyond the first  *)
(* for a teacher and slot, or a room and slot; no teacher, no conflict.    *)
Conflicts(sol) ==
  LET taught == {k \in Scheduled(sol) : CourseOf(k).teacher # NoTeacher}
      teacherSlots == {<<CourseOf(k).teacher, sol[k][1]>> : k \in taught}
      roomSlots == {sol[k] : k \in Scheduled(sol)}
  IN (Cardinality(taught) - Cardinality(teacherSlots))
       + (Cardinality(Scheduled(sol)) - Cardinality(roomSlots))

(* The nearest number to a / b; a tie is rounded up.                       *)
Rounded(a, b) == (2 * a + b) \div (2 * b)

(* A variant's score: its fitness in percent of the run's best fitness,    *)
(* rounded to one decimal, in tenths.  (The fitness itself is rounded to   *)
(* four decimals, which keeps hundredths.)                                 *)
VariantScores(variants) ==
  LET best == Highest({0} \union {variants[i].fitness : i \in DOMAIN variants})
      norm == IF best = 0 THEN 1 ELSE best
  IN [i \in DOMAIN variants |-> Rounded(1000 * variants[i].fitness, norm)]

(* int(round()) of a score in the list of variants: a tie goes to the even *)
(* number.                                                                 *)
ListedScore(score) ==
  LET whole == score \div 10
  IN IF score % 10 > 5 \/ (score % 10 = 5 /\ whole % 2 = 1) THEN whole + 1 ELSE whole

(* is_recommended: the rounded score against the highest unrounded one.    *)
Recommended(payload, i) ==
  LET best == Highest({0} \union {payload[j].score : j \in DOMAIN payload})
  IN best > 0 /\ 10 * ListedScore(payload[i].score) >= best

-----------------------------------------------------------------------------
Nothing == <<>>      \* no solution, no population

GaInit ==
  ga = [pc |-> "load", idx |-> 1, gen |-> 0, initial |-> Nothing, pop |-> Nothing,
        best |-> Nothing, bestFit |-> -1, variants |-> <<>>, chosen |-> Nothing,
        chosenFit |-> -1, payload |-> <<>>]

(* Stage 2 answers; an empty answer skips the genetic algorithm.           *)
GaLoad ==
  /\ ga.pc = "load"
  /\ \E sol \in GaInitial :
       ga' = [ga EXCEPT !.pc = IF sol = Nothing THEN "persist" ELSE "variant",
                        !.initial = sol, !.chosen = sol]

GaCancel ==         \* a safe point: before a variant and every GaCheckEvery generations
  /\ \/ ga.pc = "variant" /\ ga.idx <= Len(GaWeights)
     \/ ga.pc = "evolve" /\ ga.gen % GaCheckEvery = 0
  /\ ga' = [ga EXCEPT !.pc = "cancelled"]

StartVariant ==
  /\ ga.pc = "variant" /\ ga.idx <= Len(GaWeights)
  /\ \E pop \in FirstPopulations(ga.initial) :
       ga' = [ga EXCEPT !.pc = "evaluate", !.gen = 0, !.pop = pop,
                        !.best = ga.initial, !.bestFit = -1]

(* One pass of the evolution loop up to the progress callback.             *)
Evaluate ==
  /\ ga.pc = "evaluate" /\ ga.gen < GaGenerations
  /\ LET w == GaWeights[ga.idx]
     IN \E s \in Fittest(ga.pop, w) :
          LET f == Fitness(s, w)
          IN ga' = [ga EXCEPT !.pc = "evolve", !.gen = @ + 1,
                      !.best = IF f > ga.bestFit THEN s ELSE @,
                      !.bestFit = IF f > @ THEN f ELSE @]

(* The population bred after the last generation is never looked at.       *)
Evolve ==
  /\ ga.pc = "evolve"
  /\ IF ga.gen = GaGenerations
     THEN ga' = [ga EXCEPT !.pc = "evaluate", !.pop = Nothing]
     ELSE \E pop \in NextPopulations(ga.pop, GaWeights[ga.idx]) :
            ga' = [ga EXCEPT !.pc = "evaluate", !.pop = pop]

(* Mutant: a later variant of equal fitness replaces the chosen one.       *)
FinishVariantOnTies ==
  /\ ga.pc = "evaluate" /\ ga.gen = GaGenerations
  /\ LET f == Fitness(ga.best, GaWeights[ga.idx])
     IN ga' = [ga EXCEPT !.pc = "variant", !.idx = @ + 1, !.best = Nothing,
                 !.bestFit = -1, !.gen = 0,
                 !.variants = Append(@, [config |-> ga.idx, solution |-> ga.best,
                                         fitness |-> f]),
                 !.chosen = IF f >= ga.chosenFit THEN ga.best ELSE @,
                 !.chosenFit = IF f > @ THEN f ELSE @]

FinishVariant ==
  /\ ga.pc = "evaluate" /\ ga.gen = GaGenerations
  /\ LET f == Fitness(ga.best, GaWeights[ga.idx])
     IN ga' = [ga EXCEPT !.pc = "variant", !.idx = @ + 1, !.best = Nothing,
                 !.bestFit = -1, !.gen = 0,
                 !.variants = Append(@, [config |-> ga.idx, solution |-> ga.best,
                                         fitness |-> f]),
                 !.chosen = IF f > ga.chosenFit THEN ga.best ELSE @,
                 !.chosenFit = IF f > @ THEN f ELSE @]

VariantFails ==     \* anything but a cancellation: the variant is left out
  /\ ga.pc \in {"evaluate", "evolve"}
  /\ ga' = [ga EXCEPT !.pc = "variant", !.idx = @ + 1, !.gen = 0,
                      !.pop = Nothing, !.best = Nothing, !.bestFit = -1]

(* _stage3_rl returns what it was given, whether it loads a policy, finds  *)
(* none or fails.                                                          *)
RefinePassThrough ==
  /\ ga.pc = "variant" /\ ga.idx > Len(GaWeights)
  /\ ga' = [ga EXCEPT !.pc = "persist"]

BuildPayload ==
  /\ ga.pc = "persist"
  /\ LET scores == VariantScores(ga.variants)
     IN ga' = [ga EXCEPT !.pc = "done",
                 !.payload = [i \in DOMAIN ga.variants |->
                    [score |-> scores[i],
                     conflicts |-> Conflicts(ga.variants[i].solution)]]]

GaNext == \/ GaLoad \/ GaCancel \/ StartVariant \/ Evaluate \/ Evolve
          \/ FinishVariant \/ VariantFails \/ RefinePassThrough \/ BuildPayload

GaSpec == GaInit /\ [][GaNext]_ga

-----------------------------------------------------------------------------
(* The search neither loses nor invents a session: through mutation,       *)
(* crossover and elitism every variant, and the solution persisted, holds  *)
(* exactly the sessions of the CP-SAT answer.                              *)
SessionsSurviveSearch ==
  /\ ga.pc # "load" => DOMAIN ga.chosen = DOMAIN ga.initial
  /\ \A i \in DOMAIN ga.variants :
       DOMAIN ga.variants[i].solution = DOMAIN ga.initial

(* No variant is worse, under its own weights, than the answer the search  *)
(* started from, however the random choices fall.                          *)
SearchNeverWorsens ==
  \A i \in DOMAIN ga.variants :
    LET w == GaWeights[ga.variants[i].config]
    IN Fitness(ga.variants[i].solution, w) >= Fitness(ga.initial, w)

(* The timetable persisted is that of the first variant with the highest   *)
(* fitness, also when variants were skipped, and a reviewer sees it with   *)
(* the full score and among the recommended, whatever is rounded on the    *)
(* way.  Others that come close may be recommended too.  Without variants  *)
(* it is the CP-SAT answer.                                                *)
TopVariantPersisted ==
  ga.pc = "done" =>
    IF ga.variants = <<>> THEN ga.chosen = ga.initial
    ELSE \E i \in DOMAIN ga.variants :
           /\ ga.chosen = ga.variants[i].solution
           /\ \A j \in DOMAIN ga.variants : ga.variants[j].fitness <= ga.variants[i].fitness
           /\ \A j \in 1..(i - 1) : ga.variants[j].fitness < ga.variants[i].fitness
           /\ IF ga.variants[i].fitness = 0 THEN ga.payload[i].score = 0
              ELSE ga.payload[i].score = 1000 /\ Recommended(ga.payload, i)

(* What the list of variants recommends is the best, or less than half a   *)
(* percent below it: the score is rounded to whole percents before it is   *)
(* compared with the highest, which is not.                                *)
RecommendedNearBest ==
  ga.pc = "done" =>
    \A i \in DOMAIN ga.payload :
      Recommended(ga.payload, i) =>
        \A j \in DOMAIN ga.payload : ga.payload[j].score <= ga.payload[i].score + 5

(* A variant shown without conflicts has no two classes of a teacher, and  *)
(* no two in a room, at one time; one shown with conflicts has.            *)
ShownConflictsReal ==
  ga.pc = "done" =>
    \A i \in DOMAIN ga.variants :
      LET sol == ga.variants[i].solution
      IN ga.payload[i].conflicts > 0 <=>
           \E p, q \in Scheduled(sol) :
             /\ p # q /\ sol[p][1] = sol[q][1]
             /\ \/ sol[p][2] = sol[q][2]
                \/ CourseOf(p).teacher = CourseOf(q).teacher /\ CourseOf(p).teacher # NoTeacher

(* What is persisted and shown for review is what the search found.        *)
VariantPayloadSound == TopVariantPersisted /\ RecommendedNearBest /\ ShownConflictsReal
=============================================================================
