--------------------------- MODULE Optimise_proofs ---------------------------
(***************************************************************************)
(* SessionsSurviveSearch, SearchNeverWorsens and VariantPayloadSound for   *)
(* any sessions, slots, rooms, weights, and any sizes of the population.   *)
(*                                                                         *)
(* The argument: every member of every population places the sessions of   *)
(* the solver's answer (Solutions); the first population holds that answer *)
(* itself, so the best seen is at least as fit from the first evaluation   *)
(* on; and what is persisted of a variant is the best seen with its        *)
(* fitness, the highest of which has the full score.                       *)
(***************************************************************************)
EXTENDS Optimise, FiniteSetTheorems, NaturalsInduction, WellFoundedInduction, TLAPS

(* The values of a function.                                               *)
ImageOf(f) == {f[x] : x \in DOMAIN f}
OneToOne(f) == \A x, y \in DOMAIN f : f[x] = f[y] => x = y

(* The slots and rooms a session may be given, and the solutions made of   *)
(* them: the sessions of the first answer, each somewhere.                 *)
SlotIds ==
  (UNION {{sol[k][1] : k \in DOMAIN sol} : sol \in GaInitial}) \union {s.id : s \in GaSlot}
RoomIds ==
  (UNION {{sol[k][2] : k \in DOMAIN sol} : sol \in GaInitial}) \union {r.id : r \in GaRoom}
Solutions(initial) == [DOMAIN initial -> SlotIds \X RoomIds]

(* ------------------------------- counting ------------------------------ *)
LEMMA CountOfPart ==
  ASSUME NEW S, IsFiniteSet(S), NEW T, T \subseteq S
  PROVE  IsFiniteSet(T) /\ Cardinality(T) \in Nat
BY FS_Subset, FS_CardinalityType

(* A finite function has at most as many values as arguments, and as many  *)
(* only if it is one to one.                                               *)
LEMMA CountOfImage ==
  ASSUME NEW f, IsFiniteSet(DOMAIN f)
  PROVE  /\ IsFiniteSet(ImageOf(f))
         /\ Cardinality(ImageOf(f)) \in Nat /\ Cardinality(DOMAIN f) \in Nat
         /\ Cardinality(ImageOf(f)) <= Cardinality(DOMAIN f)
         /\ Cardinality(ImageOf(f)) = Cardinality(DOMAIN f) <=> OneToOne(f)
<1> DEFINE g == [x \in DOMAIN f |-> f[x]]
<1>1. g \in Surjection(DOMAIN f, ImageOf(f))
  BY DEF Surjection, ImageOf
<1>2. g \in Injection(DOMAIN f, ImageOf(f)) <=> OneToOne(f)
  BY DEF Injection, IsInjective, OneToOne, ImageOf
<1> HIDE DEF g
<1>3. /\ IsFiniteSet(ImageOf(f))
      /\ Cardinality(ImageOf(f)) <= Cardinality(DOMAIN f)
      /\ Cardinality(ImageOf(f)) = Cardinality(DOMAIN f)
           <=> g \in Injection(DOMAIN f, ImageOf(f))
  BY <1>1, FS_Surjection
<1>4. Cardinality(ImageOf(f)) \in Nat /\ Cardinality(DOMAIN f) \in Nat
  BY <1>3, FS_CardinalityType
<1> QED
  BY <1>2, <1>3, <1>4, Zenon

(* The highest of some bounded numbers is one of them.                     *)
LEMMA HighestIsOne ==
  ASSUME NEW most \in Nat, NEW S, S \subseteq 0..most, S # {}
  PROVE  Highest(S) \in S /\ \A n \in S : n <= Highest(S)
<1> DEFINE gaps == {most - n : n \in S}
<1>1. gaps \subseteq Nat /\ gaps # {}
  <2>1. \A n \in S : n \in Nat /\ most - n \in Nat
    OBVIOUS
  <2>2. PICK n \in S : TRUE
    OBVIOUS
  <2>3. most - n \in gaps
    BY <2>2
  <2> QED
    BY <2>1, <2>3
<1>2. PICK m \in gaps : \A k \in gaps : <<k, m>> \notin OpToRel(<, Nat)
  BY <1>1, WFMin, NatLessThanWellFounded, Zenon
<1>3. \A k \in gaps : ~ (k < m)
  BY <1>1, <1>2, Zenon DEF OpToRel
<1>4. \A k \in gaps : \E n \in S : k = most - n
  OBVIOUS
<1>4a. PICK n \in S : m = most - n
  BY <1>4, Zenon
<1>5. \A k \in S : k <= n
  BY <1>3, <1>4a
<1> QED
  BY <1>5 DEF Highest

(* ------------------------------- fitness ------------------------------- *)
LEMMA ScoreIsNat ==
  ASSUME NEW n \in Int
  PROVE  AtLeast0(n) \in Nat
BY DEF AtLeast0

(* A solution schedules finitely many sessions.                            *)
LEMMA KeysFinite ==
  ASSUME NEW initial \in GaInitial, NEW sol \in Solutions(initial)
  PROVE  IsFiniteSet(Keys(sol))
<1>1. DOMAIN sol = DOMAIN initial
  BY DEF Solutions
<1>2. Keys(sol) \subseteq DOMAIN sol
  BY DEF Keys
<1> QED
  BY <1>1, <1>2, GaInputsAssumption, FS_Subset

(* The soft scores are never negative: the teachers' hours,                *)
LEMMA FacultyScoreIsNat ==
  ASSUME NEW sol, IsFiniteSet(Keys(sol))
  PROVE  FacultyScore(sol) \in Nat
<1> DEFINE periods(k) == {s.period : s \in SlotsNamed(sol[k][1])}
           first == {k \in Keys(sol) : 0 \in periods(k)}
           late == {k \in Keys(sol) \ first : \E p \in periods(k) : p >= 7}
           good == {k \in Keys(sol) \ (first \union late) : \E p \in periods(k) : p \in 1..5}
<1>1. first \subseteq Keys(sol) /\ late \subseteq Keys(sol) /\ good \subseteq Keys(sol)
  OBVIOUS
<1>2. FacultyScore(sol)
        = AtLeast0(100 - 5 * Cardinality(first) - 3 * Cardinality(late) + Cardinality(good))
  BY Zenon DEF FacultyScore
<1> HIDE DEF first, late, good
<1>3. Cardinality(first) \in Nat /\ Cardinality(late) \in Nat /\ Cardinality(good) \in Nat
  BY <1>1, CountOfPart
<1>4. 100 - 5 * Cardinality(first) - 3 * Cardinality(late) + Cardinality(good) \in Int
  BY <1>3
<1> QED
  BY <1>2, <1>4, ScoreIsNat

(* the seats left empty,                                                   *)
LEMMA RoomScoreIsNat ==
  ASSUME NEW sol, IsFiniteSet(Keys(sol))
  PROVE  RoomScore(sol) \in Nat
<1> DEFINE size(k) == Cardinality(CourseOf(k).students)
           cap(k) == Capacity(sol[k][2])
           filled == {k \in Keys(sol) : size(k) > 0}
           huge == {k \in filled : cap(k) > 2 * size(k)}
           wide == {k \in filled \ huge : 2 * cap(k) > 3 * size(k)}
           right == {k \in filled \ (huge \union wide) : cap(k) >= size(k)}
<1>1. huge \subseteq Keys(sol) /\ wide \subseteq Keys(sol) /\ right \subseteq Keys(sol)
  OBVIOUS
<1>2. RoomScore(sol)
        = AtLeast0(100 - 5 * Cardinality(huge) - 2 * Cardinality(wide) + 2 * Cardinality(right))
  BY Zenon DEF RoomScore
<1> HIDE DEF huge, wide, right
<1>3. Cardinality(huge) \in Nat /\ Cardinality(wide) \in Nat /\ Cardinality(right) \in Nat
  BY <1>1, CountOfPart
<1>4. 100 - 5 * Cardinality(huge) - 2 * Cardinality(wide) + 2 * Cardinality(right) \in Int
  BY <1>3
<1> QED
  BY <1>2, <1>4, ScoreIsNat

(* the spread over the slots,                                              *)
LEMMA SpreadScoreIsNat ==
  ASSUME NEW sol, IsFiniteSet(Keys(sol))
  PROVE  SpreadScore(sol) \in Nat
<1> DEFINE used == {sol[k][1] : k \in Keys(sol)}
           load(s) == Cardinality({k \in Keys(sol) : sol[k][1] = s})
           loads == {load(s) : s \in used}
           peak == IF used = {} THEN 0 ELSE Highest(loads)
           over == peak * Cardinality(used) - 2 * Cardinality(Keys(sol))
           slotOf == [k \in Keys(sol) |-> sol[k][1]]
<1>1. SpreadScore(sol) =
        IF used # {} /\ over > 0
        THEN AtLeast0(100 - (10 * over) \div Cardinality(used)) ELSE 100
  BY Zenon DEF SpreadScore
<1>2. IsFiniteSet(used) /\ Cardinality(used) \in Nat
  <2>1. used = ImageOf(slotOf) /\ DOMAIN slotOf = Keys(sol)
    BY DEF ImageOf
  <2> HIDE DEF used, slotOf
  <2> QED
    BY <2>1, CountOfImage
<1>3. Cardinality(Keys(sol)) \in Nat
  BY FS_CardinalityType
<1>4. \A s : load(s) \in 0..Cardinality(Keys(sol))
  <2> SUFFICES ASSUME NEW s
               PROVE  load(s) \in 0..Cardinality(Keys(sol))
    OBVIOUS
  <2> DEFINE there == {k \in Keys(sol) : sol[k][1] = s}
  <2>1. there \subseteq Keys(sol)
    OBVIOUS
  <2> HIDE DEF there
  <2>2. Cardinality(there) \in Nat /\ Cardinality(there) <= Cardinality(Keys(sol))
    BY <2>1, CountOfPart, FS_Subset
  <2> QED
    BY <1>3, <2>2 DEF there
<1> HIDE DEF load
<1>5. used # {} => Highest(loads) \in Nat
  <2> SUFFICES ASSUME used # {}
               PROVE  Highest(loads) \in Nat
    OBVIOUS
  <2>1. loads \subseteq 0..Cardinality(Keys(sol)) /\ loads # {}
    BY <1>4
  <2> HIDE DEF loads
  <2>2. Highest(loads) \in loads
    BY <1>3, <2>1, HighestIsOne
  <2> QED
    BY <1>3, <2>1, <2>2
<1> HIDE DEF loads, used
<1>6. peak \in Nat
  BY <1>5
<1> HIDE DEF peak
<1>7. over \in Int
  BY <1>2, <1>3, <1>6
<1> HIDE DEF over
<1>8. used # {} => Cardinality(used) > 0
  BY <1>2, FS_EmptySet
<1>9. used # {} => AtLeast0(100 - (10 * over) \div Cardinality(used)) \in Nat
  <2> SUFFICES ASSUME used # {}
               PROVE  AtLeast0(100 - (10 * over) \div Cardinality(used)) \in Nat
    OBVIOUS
  <2> DEFINE n == Cardinality(used)
             m == 10 * over
  <2>1. n \in Nat /\ n > 0 /\ m \in Int
    BY <1>2, <1>7, <1>8
  <2> HIDE DEF n, m
  <2>2. m \div n \in Int
    BY <2>1
  <2>3. 100 - m \div n \in Int
    BY <2>2
  <2> QED
    BY <2>3, ScoreIsNat DEF n, m
<1> QED
  BY <1>1, <1>9

(* and the clashes of the students.                                        *)
LEMMA StudentScoreIsNat ==
  ASSUME NEW sol, IsFiniteSet(Keys(sol))
  PROVE  StudentScore(sol) \in Nat
<1> DEFINE all == UNION {c.students : c \in GaCourse}
           attended == UNION {{k} \X CourseOf(k).students : k \in Keys(sol)}
           busy == {<<sol[a[1]][1], a[2]>> : a \in attended}
           hour == [a \in attended |-> <<sol[a[1]][1], a[2]>>]
<1>1. StudentScore(sol) = AtLeast0(100 - 20 * (Cardinality(attended) - Cardinality(busy)))
  BY Zenon DEF StudentScore
<1>2. IsFiniteSet(attended) /\ Cardinality(attended) \in Nat
  <2>1. ASSUME NEW k \in Keys(sol)
        PROVE  CourseOf(k).students \subseteq all
    <3>1. CourseOf(k) \in GaCourse
      BY DEF Keys, CourseOf
    <3> QED
      BY <3>1
  <2> HIDE DEF all
  <2>2. attended \subseteq Keys(sol) \X all
    BY <2>1
  <2>3. IsFiniteSet(all)
    BY GaInputsAssumption DEF all
  <2>4. IsFiniteSet(Keys(sol) \X all)
    BY <2>3, FS_Product
  <2> HIDE DEF attended
  <2> QED
    BY <2>2, <2>4, CountOfPart
<1>3. busy = ImageOf(hour) /\ DOMAIN hour = attended
  BY DEF ImageOf
<1> HIDE DEF attended, busy, hour
<1>4. Cardinality(busy) \in Nat
  BY <1>2, <1>3, CountOfImage
<1>5. 100 - 20 * (Cardinality(attended) - Cardinality(busy)) \in Int
  BY <1>2, <1>4
<1> QED
  BY <1>1, <1>5, ScoreIsNat

(* A weight times a score.                                                 *)
LEMMA ProductIsNat ==
  ASSUME NEW m \in Nat, NEW n \in Nat
  PROVE  m * n \in Nat
OBVIOUS

(* So is the fitness of a solution, under any weights.                     *)
LEMMA FitnessIsNat ==
  ASSUME NEW initial \in GaInitial, NEW sol \in Solutions(initial),
         NEW w \in [faculty : Nat, room : Nat, spread : Nat, student : Nat]
  PROVE  Fitness(sol, w) \in Nat
<1>1. IsFiniteSet(Keys(sol))
  BY KeysFinite
<1>2. /\ w.faculty \in Nat /\ w.room \in Nat /\ w.spread \in Nat /\ w.student \in Nat
      /\ FacultyScore(sol) \in Nat /\ RoomScore(sol) \in Nat
      /\ SpreadScore(sol) \in Nat /\ StudentScore(sol) \in Nat
  BY <1>1, FacultyScoreIsNat, RoomScoreIsNat, SpreadScoreIsNat, StudentScoreIsNat
<1>3. /\ w.faculty * FacultyScore(sol) \in Nat /\ w.room * RoomScore(sol) \in Nat
      /\ w.spread * SpreadScore(sol) \in Nat /\ w.student * StudentScore(sol) \in Nat
  BY <1>2, ProductIsNat
<1> DEFINE a == w.faculty * FacultyScore(sol)
           b == w.room * RoomScore(sol)
           c == w.spread * SpreadScore(sol)
           d == w.student * StudentScore(sol)
<1>4. Fitness(sol, w) = a + b + c + d
  BY DEF Fitness
<1> HIDE DEF a, b, c, d
<1>5. a \in Nat /\ b \in Nat /\ c \in Nat /\ d \in Nat
  BY <1>3 DEF a, b, c, d
<1> QED
  BY <1>4, <1>5

(* ------------------------------- breeding ------------------------------ *)
LEMMA InitialIsSolution ==
  ASSUME NEW initial \in GaInitial
  PROVE  initial \in Solutions(initial)
<1>0. initial = [k \in DOMAIN initial |-> <<initial[k][1], initial[k][2]>>]
  BY GaInputsAssumption
<1>1. ASSUME NEW k \in DOMAIN initial
      PROVE  <<initial[k][1], initial[k][2]>> \in SlotIds \X RoomIds
  <2>1. initial[k][1] \in {initial[j][1] : j \in DOMAIN initial}
        /\ initial[k][2] \in {initial[j][2] : j \in DOMAIN initial}
    OBVIOUS
  <2>2. initial[k][1] \in SlotIds
    BY <2>1, Zenon DEF SlotIds
  <2>3. initial[k][2] \in RoomIds
    BY <2>1, Zenon DEF RoomIds
  <2> QED
    BY <2>2, <2>3
<1>2. [k \in DOMAIN initial |-> <<initial[k][1], initial[k][2]>>] \in Solutions(initial)
  BY <1>1 DEF Solutions
<1> QED
  BY <1>0, <1>2, Zenon

(* Mutation moves sessions between the slots and rooms there are.          *)
LEMMA MutantsAreSolutions ==
  ASSUME NEW initial, NEW sol \in Solutions(initial), NEW m \in MutationsOf(sol)
  PROVE  m \in Solutions(initial)
<1>1. m \in [DOMAIN sol -> UNION {Options(sol, k) : k \in DOMAIN sol}]
      /\ \A k \in DOMAIN sol : m[k] \in Options(sol, k)
  BY DEF MutationsOf
<1>2. DOMAIN sol = DOMAIN initial /\ \A k \in DOMAIN sol : sol[k] \in SlotIds \X RoomIds
  BY DEF Solutions
<1>3. ASSUME NEW k \in DOMAIN sol
      PROVE  m[k] \in SlotIds \X RoomIds
  <2>1. m[k] \in Options(sol, k) /\ sol[k] \in SlotIds \X RoomIds
    BY <1>1, <1>2
  <2>2. CASE m[k] = sol[k]
    BY <2>1, <2>2
  <2>3. ASSUME NEW s \in GaSlot, m[k] = <<s.id, sol[k][2]>>
        PROVE  m[k] \in SlotIds \X RoomIds
    <3>0. s.id \in {x.id : x \in GaSlot}
      OBVIOUS
    <3>1. s.id \in SlotIds
      BY <3>0, Zenon DEF SlotIds
    <3>2. sol[k][2] \in RoomIds
      BY <2>1
    <3> QED
      BY <2>3, <3>1, <3>2
  <2>4. ASSUME NEW r \in GaRoom, m[k] = <<sol[k][1], r.id>>
        PROVE  m[k] \in SlotIds \X RoomIds
    <3>0. r.id \in {x.id : x \in GaRoom}
      OBVIOUS
    <3>1. r.id \in RoomIds
      BY <3>0, Zenon DEF RoomIds
    <3>2. sol[k][1] \in SlotIds
      BY <2>1
    <3> QED
      BY <2>4, <3>1, <3>2
  <2> QED
    BY <2>1, <2>2, <2>3, <2>4 DEF Options
<1> QED
  BY <1>1, <1>2, <1>3 DEF Solutions

(* So does crossover of two parents with the same sessions.                *)
LEMMA ChildrenAreSolutions ==
  ASSUME NEW initial, NEW p \in Solutions(initial), NEW q \in Solutions(initial), NEW split
  PROVE  Crossover(p, q, split) \in Solutions(initial)
BY DEF Crossover, Solutions

(* A choice of some, with repetition, chooses members only.                *)
LEMMA MembersOfSome ==
  ASSUME NEW S, NEW n, NEW bag \in SomeOf(S, n)
  PROVE  DOMAIN bag \subseteq S
<1>1. PICK s \in [1..n -> S] : bag = BagOf(s)
  BY DEF SomeOf
<1>2. DOMAIN bag = {s[i] : i \in DOMAIN s}
  BY <1>1 DEF BagOf
<1> QED
  BY <1>2

(* The first population holds the solver's answer and mutations of it.     *)
LEMMA FirstPopulationHoldsAnswer ==
  ASSUME NEW initial \in GaInitial, NEW pop \in FirstPopulations(initial)
  PROVE  DOMAIN pop \subseteq Solutions(initial) /\ initial \in DOMAIN pop
<1>1. PICK others \in SomeOf(MutationsOf(initial), PopulationCount - 1) :
        pop = SetToBag({initial}) (+) others
  BY DEF FirstPopulations
<1>2. DOMAIN pop = {initial} \union DOMAIN others
  BY <1>1 DEF (+), SetToBag
<1>3. DOMAIN others \subseteq MutationsOf(initial)
  BY MembersOfSome
<1>4. MutationsOf(initial) \subseteq Solutions(initial)
  BY InitialIsSolution, MutantsAreSolutions
<1> QED
  BY <1>2, <1>3, <1>4, InitialIsSolution

(* A later population holds the elites of the one before and offspring of  *)
(* its members: solutions again.                                           *)
LEMMA NextPopulationHoldsSolutions ==
  ASSUME NEW initial, NEW pop, DOMAIN pop \subseteq Solutions(initial), NEW w,
         NEW next \in NextPopulations(pop, w)
  PROVE  DOMAIN next \subseteq Solutions(initial)
<1> DEFINE n == BagCardinality(pop)
           keep == AtLeast1(n \div 5)
           ids == {k[1] : k \in UNION {DOMAIN s : s \in DOMAIN pop}}
<1>1. PICK e \in Elites(pop, w, keep), o \in SomeOf(Offspring(pop, w), n - keep) :
        next = e (+) o
  <2> HIDE DEF n, keep
  <2> QED
    BY DEF NextPopulations, n, keep
<1>2. DOMAIN e \subseteq DOMAIN pop
  <2>1. e \in UNION {[S -> 1..keep] : S \in SUBSET DOMAIN pop}
    BY DEF Elites
  <2> HIDE DEF keep
  <2> QED
    BY <2>1
<1>3. Offspring(pop, w) \subseteq Solutions(initial)
  <2>1. Winners(pop, w) \subseteq Solutions(initial)
    BY DEF Winners
  <2>2. ASSUME NEW p \in Winners(pop, w), NEW q \in Winners(pop, w), NEW split \in SUBSET ids
        PROVE  MutationsOf(Crossover(p, q, split)) \subseteq Solutions(initial)
    BY <2>1, ChildrenAreSolutions, MutantsAreSolutions
  <2> HIDE DEF ids
  <2> QED
    BY <2>2 DEF Offspring, ids
<1>4. DOMAIN o \subseteq Offspring(pop, w)
  BY MembersOfSome
<1>5. DOMAIN next = DOMAIN e \union DOMAIN o
  BY <1>1 DEF (+)
<1> QED
  BY <1>2, <1>3, <1>4, <1>5

(* --------------------------- the search's states ------------------------ *)
Weights == [faculty : Nat, room : Nat, spread : Nat, student : Nat]
Variant(initial) ==
  [config : DOMAIN GaWeights, solution : Solutions(initial), fitness : Nat]

(* A run of the genetic algorithm: from the first look at a population on, *)
(* its best is no worse than the answer it started from.                   *)
Searching(pc, idx, gen, initial, pop, best, bestFit) ==
  pc \in {"evaluate", "evolve"} =>
    /\ idx \in DOMAIN GaWeights
    /\ best \in Solutions(initial)
    /\ gen < GaGenerations => DOMAIN pop \subseteq Solutions(initial)
    /\ gen = 0 => pc = "evaluate" /\ initial \in DOMAIN pop /\ bestFit = -1
    /\ gen > 0 => /\ bestFit = Fitness(best, GaWeights[idx])
                  /\ Fitness(initial, GaWeights[idx]) <= bestFit

Measured(initial, v) ==
  /\ v.fitness = Fitness(v.solution, GaWeights[v.config])
  /\ Fitness(initial, GaWeights[v.config]) <= v.fitness

(* The chosen solution is that of the first variant with the best fitness. *)
FirstBest(variants, i, chosen, chosenFit) ==
  /\ chosen = variants[i].solution /\ chosenFit = variants[i].fitness
  /\ \A j \in 1..(i - 1) : variants[j].fitness < chosenFit
  /\ \A j \in DOMAIN variants : variants[j].fitness <= chosenFit

Chosen(initial, variants, chosen, chosenFit) ==
  /\ variants \in Seq(Variant(initial))
  /\ \A i \in DOMAIN variants : Measured(initial, variants[i])
  /\ IF variants = <<>> THEN chosen = initial /\ chosenFit = -1
     ELSE \E i \in DOMAIN variants : FirstBest(variants, i, chosen, chosenFit)

PayloadOf(variants) ==
  [i \in DOMAIN variants |->
     [score |-> VariantScores(variants)[i], conflicts |-> Conflicts(variants[i].solution)]]

SearchInvariant ==
  /\ ga = [pc |-> ga.pc, idx |-> ga.idx, gen |-> ga.gen, initial |-> ga.initial,
           pop |-> ga.pop, best |-> ga.best, bestFit |-> ga.bestFit,
           variants |-> ga.variants, chosen |-> ga.chosen, chosenFit |-> ga.chosenFit,
           payload |-> ga.payload]
  /\ ga.idx \in Nat \ {0} /\ ga.gen \in Nat
  /\ ga.pc = "load" => ga.variants = <<>> /\ ga.chosenFit = -1
  /\ ga.pc # "load" => /\ ga.initial \in GaInitial
                       /\ Chosen(ga.initial, ga.variants, ga.chosen, ga.chosenFit)
  /\ Searching(ga.pc, ga.idx, ga.gen, ga.initial, ga.pop, ga.best, ga.bestFit)
  /\ ga.pc = "done" => ga.payload = PayloadOf(ga.variants)

(* Every variant has its weights.                                          *)
LEMMA WeightsOfVariant ==
  ASSUME NEW i \in DOMAIN GaWeights
  PROVE  GaWeights[i] \in Weights
<1>1. GaWeights \in Seq(Weights)
  BY GaInputsAssumption DEF Weights
<1> QED
  BY <1>1

(* A variant's number is within the list of weights.                       *)
LEMMA VariantIndex ==
  ASSUME NEW i \in Nat \ {0}, i <= Len(GaWeights)
  PROVE  i \in DOMAIN GaWeights
BY GaInputsAssumption

(* The fitness a variant is searched by.                                   *)
LEMMA FitnessOfVariant ==
  ASSUME NEW initial \in GaInitial, NEW sol \in Solutions(initial), NEW i \in DOMAIN GaWeights
  PROVE  Fitness(sol, GaWeights[i]) \in Nat
BY WeightsOfVariant, FitnessIsNat DEF Weights

(* The first look at a population, and every later one.                    *)
LEMMA EvaluationKeepsBest ==
  ASSUME NEW initial \in GaInitial, NEW idx, NEW gen \in Nat, gen < GaGenerations,
         NEW pop, NEW best, NEW bestFit,
         Searching("evaluate", idx, gen, initial, pop, best, bestFit),
         NEW s \in Fittest(pop, GaWeights[idx])
  PROVE  LET f == Fitness(s, GaWeights[idx])
         IN Searching("evolve", idx, gen + 1, initial, pop,
                      IF f > bestFit THEN s ELSE best, IF f > bestFit THEN f ELSE bestFit)
<1> DEFINE f == Fitness(s, GaWeights[idx])
           start == Fitness(initial, GaWeights[idx])
<1>1. /\ idx \in DOMAIN GaWeights /\ best \in Solutions(initial)
      /\ DOMAIN pop \subseteq Solutions(initial)
      /\ gen = 0 => initial \in DOMAIN pop /\ bestFit = -1
      /\ gen > 0 => bestFit = Fitness(best, GaWeights[idx]) /\ start <= bestFit
  BY DEF Searching
<1>2. s \in DOMAIN pop /\ \A t \in DOMAIN pop : Fitness(t, GaWeights[idx]) <= f
  BY DEF Fittest
<1>3. f \in Nat /\ start \in Nat /\ Fitness(best, GaWeights[idx]) \in Nat
  BY <1>1, <1>2, FitnessOfVariant, InitialIsSolution
<1>4. gen = 0 => f > bestFit /\ start <= f
  BY <1>1, <1>2, <1>3
<1> DEFINE best1 == IF f > bestFit THEN s ELSE best
           fit1 == IF f > bestFit THEN f ELSE bestFit
<1>5. best1 \in Solutions(initial) /\ fit1 = Fitness(best1, GaWeights[idx]) /\ start <= fit1
  <2>1. CASE f > bestFit
    <3>1. start <= f
      <4>1. CASE gen = 0
        BY <1>4, <4>1
      <4>2. CASE gen > 0
        BY <1>1, <1>3, <2>1, <4>2
      <4> QED
        BY <4>1, <4>2
    <3> QED
      BY <1>1, <1>2, <2>1, <3>1
  <2>2. CASE ~ (f > bestFit)
    <3>1. gen > 0
      BY <1>4, <2>2
    <3> QED
      BY <1>1, <2>2, <3>1
  <2> QED
    BY <2>1, <2>2
<1> HIDE DEF best1, fit1, f, start
<1>6. Searching("evolve", idx, gen + 1, initial, pop, best1, fit1)
  BY <1>1, <1>5 DEF Searching, start
<1> QED
  BY <1>6, Zenon DEF best1, fit1, f

(* A variant is added: it is chosen when it is better than those before.   *)
LEMMA VariantIsMeasured ==
  ASSUME NEW initial \in GaInitial, NEW variants, NEW chosen, NEW chosenFit,
         Chosen(initial, variants, chosen, chosenFit),
         NEW idx \in DOMAIN GaWeights, NEW sol \in Solutions(initial), NEW f,
         f = Fitness(sol, GaWeights[idx]), Fitness(initial, GaWeights[idx]) <= f,
         NEW v, v = [config |-> idx, solution |-> sol, fitness |-> f]
  PROVE  Chosen(initial, Append(variants, v),
                IF f > chosenFit THEN sol ELSE chosen, IF f > chosenFit THEN f ELSE chosenFit)
<1> DEFINE more == Append(variants, v)
           n == Len(variants)
           chosen1 == IF f > chosenFit THEN sol ELSE chosen
           fit1 == IF f > chosenFit THEN f ELSE chosenFit
<1>1. f \in Nat
  BY FitnessOfVariant
<1>2. v \in Variant(initial) /\ v.config = idx /\ v.solution = sol /\ v.fitness = f
  BY <1>1 DEF Variant
<1>3. variants \in Seq(Variant(initial)) /\ n \in Nat /\ DOMAIN variants = 1..n
  BY DEF Chosen
<1>4. /\ more \in Seq(Variant(initial)) /\ DOMAIN more = 1..(n + 1)
      /\ more[n + 1] = v /\ \A j \in 1..n : more[j] = variants[j]
  BY <1>2, <1>3
<1>5. \A j \in 1..n : variants[j].fitness \in Nat
  <2>1. \A j \in 1..n : variants[j] \in Variant(initial)
    BY <1>3
  <2> QED
    BY <2>1 DEF Variant
<1>6. more # <<>>
  BY <1>3, <1>4
<1> HIDE DEF more, n
<1>7. ASSUME NEW i \in DOMAIN more
      PROVE  Measured(initial, more[i])
  <2>1. CASE i = n + 1
    BY <1>2, <1>4, <2>1 DEF Measured
  <2>2. CASE i # n + 1
    <3>1. i \in 1..n
      BY <1>3, <1>4, <2>2
    <3> QED
      BY <1>3, <1>4, <3>1 DEF Chosen
  <2> QED
    BY <2>1, <2>2
<1>8. \E i \in DOMAIN more : FirstBest(more, i, chosen1, fit1)
  <2>1. CASE variants = <<>>
    <3>1. chosenFit = -1 /\ n = 0
      BY <1>3, <2>1 DEF Chosen, n
    <3>2. chosen1 = sol /\ fit1 = f
      BY <1>1, <3>1
    <3>3. FirstBest(more, 1, chosen1, fit1)
      BY <1>1, <1>2, <1>4, <3>1, <3>2 DEF FirstBest
    <3> QED
      BY <1>4, <3>1, <3>3
  <2>2. CASE variants # <<>>
    <3>1. PICK k \in 1..n : FirstBest(variants, k, chosen, chosenFit)
      BY <1>3, <2>2 DEF Chosen
    <3>2. /\ chosen = variants[k].solution /\ chosenFit = variants[k].fitness
          /\ \A j \in 1..(k - 1) : variants[j].fitness < chosenFit
          /\ \A j \in 1..n : variants[j].fitness <= chosenFit
          /\ chosenFit \in Nat
      BY <1>3, <1>5, <3>1 DEF FirstBest
    <3>3. CASE f > chosenFit
      <4>1. chosen1 = sol /\ fit1 = f
        BY <3>3
      <4>2. \A j \in 1..n : more[j].fitness < f
        BY <1>1, <1>4, <1>5, <3>2, <3>3
      <4>3. FirstBest(more, n + 1, sol, f)
        <5>1. \A j \in 1..(n + 1) : more[j].fitness <= f
          <6>1. ASSUME NEW j \in 1..(n + 1)
                PROVE  more[j].fitness <= f
            <7>1. CASE j = n + 1
              BY <1>1, <1>2, <1>4, <7>1
            <7>2. CASE j # n + 1
              <8>1. j \in 1..n
                BY <1>3, <7>2
              <8> QED
                BY <1>1, <1>4, <1>5, <4>2, <8>1
            <7> QED
              BY <7>1, <7>2
          <6> QED
            BY <6>1
        <5>2. (n + 1) - 1 = n
          BY <1>3
        <5> QED
          BY <1>2, <1>4, <4>2, <5>1, <5>2 DEF FirstBest
      <4>4. n + 1 \in DOMAIN more
        BY <1>3, <1>4
      <4> QED
        BY <4>1, <4>3, <4>4
    <3>4. CASE ~ (f > chosenFit)
      <4>1. chosen1 = chosen /\ fit1 = chosenFit /\ f <= chosenFit
        BY <1>1, <3>2, <3>4
      <4>2. \A j \in 1..(n + 1) : more[j].fitness <= chosenFit
        <5>1. ASSUME NEW j \in 1..(n + 1)
              PROVE  more[j].fitness <= chosenFit
          <6>1. CASE j = n + 1
            BY <1>2, <1>4, <4>1, <6>1
          <6>2. CASE j # n + 1
            <7>1. j \in 1..n
              BY <1>3, <6>2
            <7> QED
              BY <1>4, <3>2, <7>1
          <6> QED
            BY <6>1, <6>2
        <5> QED
          BY <5>1
      <4>3. \A j \in 1..(k - 1) : more[j].fitness < chosenFit
        <5>1. \A j \in 1..(k - 1) : j \in 1..n
          BY <1>3
        <5> QED
          BY <1>4, <3>2, <5>1
      <4>4. more[k] = variants[k] /\ k \in DOMAIN more
        BY <1>3, <1>4
      <4>5. FirstBest(more, k, chosen, chosenFit)
        BY <1>4, <3>2, <4>2, <4>3, <4>4 DEF FirstBest
      <4> QED
        BY <4>1, <4>4, <4>5
    <3> QED
      BY <3>3, <3>4
  <2> QED
    BY <2>1, <2>2
<1> HIDE DEF chosen1, fit1
<1>9. Chosen(initial, more, chosen1, fit1)
  BY <1>4, <1>6, <1>7, <1>8 DEF Chosen
<1> QED
  BY <1>9, Zenon DEF more, chosen1, fit1

(* Every step of the search keeps the invariant.                           *)
LEMMA SearchStays == GaSpec => []SearchInvariant
<1>1. GaInit => SearchInvariant
  BY DEF GaInit, SearchInvariant, Searching
<1>2. SearchInvariant /\ [GaNext]_ga => SearchInvariant'
  <2> SUFFICES ASSUME SearchInvariant, [GaNext]_ga
               PROVE  SearchInvariant'
    OBVIOUS
  <2>0. ga = [pc |-> ga.pc, idx |-> ga.idx, gen |-> ga.gen, initial |-> ga.initial,
              pop |-> ga.pop, best |-> ga.best, bestFit |-> ga.bestFit,
              variants |-> ga.variants, chosen |-> ga.chosen, chosenFit |-> ga.chosenFit,
              payload |-> ga.payload]
    BY DEF SearchInvariant
  <2>1. CASE GaLoad
    <3>1. PICK sol \in GaInitial :
            ga' = [ga EXCEPT !.pc = IF sol = Nothing THEN "persist" ELSE "variant",
                             !.initial = sol, !.chosen = sol]
      BY <2>1 DEF GaLoad
    <3>2. ga.pc = "load" /\ ga.variants = <<>> /\ ga.chosenFit = -1
          /\ ga.idx \in Nat \ {0} /\ ga.gen \in Nat
      BY <2>1 DEF GaLoad, SearchInvariant
    <3>3. Chosen(sol, <<>>, sol, -1)
      BY DEF Chosen
    <3>4. PICK pc \in {"persist", "variant"} :
            ga' = [pc |-> pc, idx |-> ga.idx, gen |-> ga.gen, initial |-> sol,
              pop |-> ga.pop, best |-> ga.best, bestFit |-> ga.bestFit,
              variants |-> ga.variants, chosen |-> sol, chosenFit |-> ga.chosenFit,
              payload |-> ga.payload]
      BY <2>0, <3>1
    <3> QED
      BY <3>2, <3>3, <3>4 DEF SearchInvariant, Searching
  <2>2. CASE GaCancel
    <3>1. ga' = [pc |-> "cancelled", idx |-> ga.idx, gen |-> ga.gen, initial |-> ga.initial,
              pop |-> ga.pop, best |-> ga.best, bestFit |-> ga.bestFit,
              variants |-> ga.variants, chosen |-> ga.chosen, chosenFit |-> ga.chosenFit,
              payload |-> ga.payload]
          /\ ga.pc \in {"variant", "evolve"}
      BY <2>0, <2>2 DEF GaCancel
    <3> QED
      BY <3>1 DEF SearchInvariant, Searching
  <2>3. CASE StartVariant
    <3>1. PICK pop \in FirstPopulations(ga.initial) :
            ga' = [ga EXCEPT !.pc = "evaluate", !.gen = 0, !.pop = pop,
                             !.best = ga.initial, !.bestFit = -1]
      BY <2>3 DEF StartVariant
    <3>2. ga' = [pc |-> "evaluate", idx |-> ga.idx, gen |-> 0, initial |-> ga.initial,
              pop |-> pop, best |-> ga.initial, bestFit |-> -1,
              variants |-> ga.variants, chosen |-> ga.chosen, chosenFit |-> ga.chosenFit,
              payload |-> ga.payload]
      BY <2>0, <3>1
    <3>3. /\ ga.initial \in GaInitial /\ ga.idx \in Nat \ {0} /\ ga.idx <= Len(GaWeights)
          /\ Chosen(ga.initial, ga.variants, ga.chosen, ga.chosenFit)
      BY <2>3 DEF StartVariant, SearchInvariant
    <3>4. /\ ga.idx \in DOMAIN GaWeights /\ ga.initial \in Solutions(ga.initial)
          /\ DOMAIN pop \subseteq Solutions(ga.initial) /\ ga.initial \in DOMAIN pop
      BY <3>3, VariantIndex, InitialIsSolution, FirstPopulationHoldsAnswer
    <3>5. Searching("evaluate", ga.idx, 0, ga.initial, pop, ga.initial, -1)
      BY <3>4 DEF Searching
    <3> QED
      BY <3>2, <3>3, <3>5 DEF SearchInvariant
  <2>4. CASE Evaluate
    <3> DEFINE w == GaWeights[ga.idx]
    <3>1. PICK s \in Fittest(ga.pop, w) :
            ga' = [ga EXCEPT !.pc = "evolve", !.gen = @ + 1,
                      !.best = IF Fitness(s, w) > ga.bestFit THEN s ELSE @,
                      !.bestFit = IF Fitness(s, w) > @ THEN Fitness(s, w) ELSE @]
      BY <2>4 DEF Evaluate
    <3> DEFINE best == IF Fitness(s, w) > ga.bestFit THEN s ELSE ga.best
               bestFit == IF Fitness(s, w) > ga.bestFit THEN Fitness(s, w) ELSE ga.bestFit
    <3>2. /\ ga.pc = "evaluate" /\ ga.gen < GaGenerations /\ ga.gen \in Nat
          /\ ga.initial \in GaInitial /\ ga.idx \in Nat \ {0}
          /\ Chosen(ga.initial, ga.variants, ga.chosen, ga.chosenFit)
          /\ Searching("evaluate", ga.idx, ga.gen, ga.initial, ga.pop, ga.best, ga.bestFit)
      BY <2>4 DEF Evaluate, SearchInvariant
    <3>3. Searching("evolve", ga.idx, ga.gen + 1, ga.initial, ga.pop, best, bestFit)
      BY <3>2, EvaluationKeepsBest, Zenon
    <3>4. ga' = [ga EXCEPT !.pc = "evolve", !.gen = ga.gen + 1, !.best = best,
                           !.bestFit = bestFit]
      BY <3>1
    <3> HIDE DEF best, bestFit, w
    <3>5. ga' = [pc |-> "evolve", idx |-> ga.idx, gen |-> ga.gen + 1, initial |-> ga.initial,
              pop |-> ga.pop, best |-> best, bestFit |-> bestFit,
              variants |-> ga.variants, chosen |-> ga.chosen, chosenFit |-> ga.chosenFit,
              payload |-> ga.payload]
      BY <2>0, <3>4
    <3> QED
      BY <3>2, <3>3, <3>5 DEF SearchInvariant
  <2>5. CASE Evolve
    <3>1. /\ ga.pc = "evolve" /\ ga.gen \in Nat
          /\ ga.initial \in GaInitial /\ ga.idx \in Nat \ {0}
          /\ Chosen(ga.initial, ga.variants, ga.chosen, ga.chosenFit)
          /\ Searching("evolve", ga.idx, ga.gen, ga.initial, ga.pop, ga.best, ga.bestFit)
      BY <2>5 DEF Evolve, SearchInvariant
    <3>2. PICK pop : /\ ga' = [ga EXCEPT !.pc = "evaluate", !.pop = pop]
                     /\ \/ ga.gen = GaGenerations
                        \/ pop \in NextPopulations(ga.pop, GaWeights[ga.idx])
      BY <2>5, Zenon DEF Evolve
    <3>3. ga.gen < GaGenerations => DOMAIN pop \subseteq Solutions(ga.initial)
      <4> SUFFICES ASSUME ga.gen < GaGenerations
                   PROVE  DOMAIN pop \subseteq Solutions(ga.initial)
        OBVIOUS
      <4>1. pop \in NextPopulations(ga.pop, GaWeights[ga.idx])
        BY <3>1, <3>2, GaAssumption
      <4>2. DOMAIN ga.pop \subseteq Solutions(ga.initial)
        BY <3>1 DEF Searching
      <4> QED
        BY <4>1, <4>2, NextPopulationHoldsSolutions
    <3>4. Searching("evaluate", ga.idx, ga.gen, ga.initial, pop, ga.best, ga.bestFit)
      BY <3>1, <3>3 DEF Searching
    <3>5. ga' = [pc |-> "evaluate", idx |-> ga.idx, gen |-> ga.gen, initial |-> ga.initial,
              pop |-> pop, best |-> ga.best, bestFit |-> ga.bestFit,
              variants |-> ga.variants, chosen |-> ga.chosen, chosenFit |-> ga.chosenFit,
              payload |-> ga.payload]
      BY <2>0, <3>2
    <3> QED
      BY <3>1, <3>4, <3>5 DEF SearchInvariant
  <2>6. CASE FinishVariant
    <3> DEFINE f == Fitness(ga.best, GaWeights[ga.idx])
               v == [config |-> ga.idx, solution |-> ga.best, fitness |-> f]
               variants == Append(ga.variants, v)
               chosen == IF f > ga.chosenFit THEN ga.best ELSE ga.chosen
               chosenFit == IF f > ga.chosenFit THEN f ELSE ga.chosenFit
    <3>1. /\ ga.pc = "evaluate" /\ ga.gen = GaGenerations /\ ga.gen > 0
          /\ ga.initial \in GaInitial /\ ga.idx \in Nat \ {0}
          /\ Chosen(ga.initial, ga.variants, ga.chosen, ga.chosenFit)
          /\ Searching("evaluate", ga.idx, ga.gen, ga.initial, ga.pop, ga.best, ga.bestFit)
      BY <2>6, GaAssumption DEF FinishVariant, SearchInvariant
    <3>2. /\ ga.idx \in DOMAIN GaWeights /\ ga.best \in Solutions(ga.initial)
          /\ Fitness(ga.initial, GaWeights[ga.idx]) <= f
      BY <3>1 DEF Searching
    <3>3. Chosen(ga.initial, variants, chosen, chosenFit)
      BY <3>1, <3>2, VariantIsMeasured, Zenon
    <3>4. ga' = [ga EXCEPT !.pc = "variant", !.idx = ga.idx + 1, !.best = Nothing,
                 !.bestFit = -1, !.gen = 0, !.variants = variants,
                 !.chosen = chosen, !.chosenFit = chosenFit]
      BY <2>6 DEF FinishVariant
    <3> HIDE DEF variants, chosen, chosenFit
    <3>5. ga' = [pc |-> "variant", idx |-> ga.idx + 1, gen |-> 0, initial |-> ga.initial,
              pop |-> ga.pop, best |-> Nothing, bestFit |-> -1,
              variants |-> variants, chosen |-> chosen, chosenFit |-> chosenFit,
              payload |-> ga.payload]
      BY <2>0, <3>4
    <3> QED
      BY <3>1, <3>3, <3>5 DEF SearchInvariant, Searching
  <2>7. CASE VariantFails
    <3>1. /\ ga.pc # "load" /\ ga.pc # "done" /\ ga.idx \in Nat \ {0}
          /\ ga' = [pc |-> "variant", idx |-> ga.idx + 1, gen |-> 0, initial |-> ga.initial,
              pop |-> Nothing, best |-> Nothing, bestFit |-> -1,
              variants |-> ga.variants, chosen |-> ga.chosen, chosenFit |-> ga.chosenFit,
              payload |-> ga.payload]
      BY <2>0, <2>7 DEF VariantFails, SearchInvariant
    <3> QED
      BY <3>1 DEF SearchInvariant, Searching
  <2>8. CASE RefinePassThrough
    <3>1. /\ ga.pc = "variant"
          /\ ga' = [pc |-> "persist", idx |-> ga.idx, gen |-> ga.gen, initial |-> ga.initial,
              pop |-> ga.pop, best |-> ga.best, bestFit |-> ga.bestFit,
              variants |-> ga.variants, chosen |-> ga.chosen, chosenFit |-> ga.chosenFit,
              payload |-> ga.payload]
      BY <2>0, <2>8 DEF RefinePassThrough
    <3> QED
      BY <3>1 DEF SearchInvariant, Searching
  <2>9. CASE BuildPayload
    <3> DEFINE payload == PayloadOf(ga.variants)
    <3>1. ga.pc = "persist" /\ ga' = [ga EXCEPT !.pc = "done", !.payload = payload]
      BY <2>9 DEF BuildPayload, PayloadOf
    <3> HIDE DEF payload
    <3>2. ga' = [pc |-> "done", idx |-> ga.idx, gen |-> ga.gen, initial |-> ga.initial,
              pop |-> ga.pop, best |-> ga.best, bestFit |-> ga.bestFit,
              variants |-> ga.variants, chosen |-> ga.chosen, chosenFit |-> ga.chosenFit,
              payload |-> payload]
      BY <2>0, <3>1
    <3> QED
      BY <3>1, <3>2 DEF SearchInvariant, Searching, payload
  <2>10. CASE UNCHANGED ga
    BY <2>10 DEF SearchInvariant
  <2> QED
    BY <2>1, <2>2, <2>3, <2>4, <2>5, <2>6, <2>7, <2>8, <2>9, <2>10 DEF GaNext
<1> QED
  BY <1>1, <1>2, PTL DEF GaSpec

(* What is kept of a finished variant is a solution of the same sessions   *)
(* with the fitness it was measured by.                                    *)
LEMMA VariantsOfSearch ==
  ASSUME NEW initial, NEW variants, NEW chosen, NEW chosenFit,
         Chosen(initial, variants, chosen, chosenFit), NEW i \in DOMAIN variants
  PROVE  /\ variants[i].config \in DOMAIN GaWeights
         /\ variants[i].solution \in Solutions(initial)
         /\ variants[i].fitness \in Nat
         /\ Measured(initial, variants[i])
<1>1. variants[i] \in Variant(initial) /\ Measured(initial, variants[i])
  BY DEF Chosen
<1> QED
  BY <1>1 DEF Variant

(* For any courses, slots, rooms, weights and random choices: the          *)
(* variants and the solution persisted have the sessions CP-SAT placed.    *)
THEOREM SearchKeepsSessions == GaSpec => []SessionsSurviveSearch
<1>1. SearchInvariant => SessionsSurviveSearch
  <2> SUFFICES ASSUME SearchInvariant
               PROVE  SessionsSurviveSearch
    OBVIOUS
  <2>1. CASE ga.pc = "load"
    BY <2>1 DEF SearchInvariant, SessionsSurviveSearch
  <2>2. CASE ga.pc # "load"
    <3>1. Chosen(ga.initial, ga.variants, ga.chosen, ga.chosenFit)
      BY <2>2 DEF SearchInvariant
    <3>2. ASSUME NEW i \in DOMAIN ga.variants
          PROVE  DOMAIN ga.variants[i].solution = DOMAIN ga.initial
      <4>1. ga.variants[i].solution \in Solutions(ga.initial)
        BY <3>1, VariantsOfSearch
      <4> QED
        BY <4>1 DEF Solutions
    <3>3. DOMAIN ga.chosen = DOMAIN ga.initial
      <4>1. CASE ga.variants = <<>>
        BY <3>1, <4>1 DEF Chosen
      <4>2. CASE ga.variants # <<>>
        <5>1. PICK i \in DOMAIN ga.variants : ga.chosen = ga.variants[i].solution
          BY <3>1, <4>2 DEF Chosen, FirstBest
        <5> QED
          BY <3>2, <5>1
      <4> QED
        BY <4>1, <4>2
    <3> QED
      BY <3>2, <3>3 DEF SessionsSurviveSearch
  <2> QED
    BY <2>1, <2>2
<1> QED
  BY <1>1, SearchStays, PTL

(* No variant is worse than the CP-SAT answer under its own weights.       *)
THEOREM SearchNeverLoses == GaSpec => []SearchNeverWorsens
<1>1. SearchInvariant => SearchNeverWorsens
  <2> SUFFICES ASSUME SearchInvariant, NEW i \in DOMAIN ga.variants
               PROVE  Fitness(ga.variants[i].solution, GaWeights[ga.variants[i].config])
                        >= Fitness(ga.initial, GaWeights[ga.variants[i].config])
    BY DEF SearchNeverWorsens
  <2>1. ga.pc # "load"
    BY DEF SearchInvariant
  <2>2. ga.initial \in GaInitial /\ Chosen(ga.initial, ga.variants, ga.chosen, ga.chosenFit)
    BY <2>1 DEF SearchInvariant
  <2>3. Measured(ga.initial, ga.variants[i]) /\ ga.variants[i].config \in DOMAIN GaWeights
    BY <2>2, VariantsOfSearch
  <2> DEFINE start == Fitness(ga.initial, GaWeights[ga.variants[i].config])
             found == Fitness(ga.variants[i].solution, GaWeights[ga.variants[i].config])
  <2>4. start <= found
    BY <2>3, Zenon DEF Measured
  <2>5. start \in Nat /\ found \in Nat
    BY <2>2, <2>3, VariantsOfSearch, InitialIsSolution, FitnessOfVariant
  <2> HIDE DEF start, found
  <2>6. found >= start
    BY <2>4, <2>5
  <2> QED
    BY <2>6 DEF start, found
<1> QED
  BY <1>1, SearchStays, PTL

(* Scores are in parts of the highest.                                     *)
LEMMA FullScore ==
  ASSUME NEW f \in Nat \ {0}
  PROVE  Rounded(1000 * f, f) = 1000
BY DEF Rounded

(* No score is above the full one.                                         *)
LEMMA NoneAboveFull ==
  ASSUME NEW n \in Nat \ {0}, NEW f \in Nat, f <= n
  PROVE  Rounded(1000 * f, n) \in Nat /\ Rounded(1000 * f, n) <= 1000
<1>1. PICK a \in Nat : a = 2 * (1000 * f) + n
  OBVIOUS
<1>2. PICK b \in Nat \ {0} : b = 2 * n
  OBVIOUS
<1>3. a < 1001 * b
  BY <1>1, <1>2
<1>4. a \div b \in Nat /\ b * (a \div b) <= a
  OBVIOUS
<1>5. a \div b <= 1000
  <2>1. ASSUME NEW q \in Nat, q >= 1001
        PROVE  b * q >= 1001 * b
    BY <2>1
  <2> QED
    BY <1>3, <1>4, <2>1
<1> QED
  BY <1>1, <1>2, <1>4, <1>5 DEF Rounded

(* A number that is the greatest is found.                                 *)
LEMMA HighestIs ==
  ASSUME NEW S, NEW m \in S, m \in Nat, \A n \in S : n \in Nat /\ n <= m
  PROVE  Highest(S) = m
<1>1. Highest(S) \in S /\ \A n \in S : n <= Highest(S)
  BY DEF Highest
<1> DEFINE h == Highest(S)
<1>2. h \in Nat /\ h <= m /\ m <= h
  BY <1>1
<1> HIDE DEF h
<1>3. h = m
  BY <1>2
<1> QED
  BY <1>3 DEF h

(* The best of the variants has the full score, the others no higher one.  *)
LEMMA BestScoresFull ==
  ASSUME NEW initial, NEW variants, NEW chosen, NEW chosenFit,
         Chosen(initial, variants, chosen, chosenFit), NEW i \in DOMAIN variants,
         FirstBest(variants, i, chosen, chosenFit)
  PROVE  /\ variants[i].fitness = 0 => VariantScores(variants)[i] = 0
         /\ variants[i].fitness # 0 => VariantScores(variants)[i] = 1000
         /\ \A j \in DOMAIN variants : /\ VariantScores(variants)[j] \in Nat
                                       /\ VariantScores(variants)[j] <= 1000
<1> DEFINE fits == {0} \union {variants[j].fitness : j \in DOMAIN variants}
           norm == IF Highest(fits) = 0 THEN 1 ELSE Highest(fits)
<1>1. \A j \in DOMAIN variants : variants[j].fitness \in Nat
  BY VariantsOfSearch
<1>2. variants[i].fitness \in Nat /\ \A j \in DOMAIN variants : variants[j].fitness <= variants[i].fitness
  BY <1>1 DEF FirstBest
<1>3. /\ variants[i].fitness \in fits
      /\ \A n \in fits : n \in Nat /\ n <= variants[i].fitness
  BY <1>1, <1>2
<1>4. Highest(fits) = variants[i].fitness
  <2> HIDE DEF fits
  <2> QED
    BY <1>2, <1>3, HighestIs
<1>5. \A j \in DOMAIN variants :
        VariantScores(variants)[j] = Rounded(1000 * variants[j].fitness, norm)
  BY DEF VariantScores
<1> HIDE DEF fits
<1>6. CASE variants[i].fitness = 0
  <2>1. norm = 1 /\ \A j \in DOMAIN variants : variants[j].fitness = 0
    BY <1>1, <1>2, <1>4, <1>6
  <2> HIDE DEF norm
  <2>2. Rounded(1000 * 0, 1) = 0
    BY DEF Rounded
  <2> QED
    BY <1>5, <1>6, <2>1, <2>2
<1>7. CASE variants[i].fitness # 0
  <2>1. norm = variants[i].fitness
    BY <1>4, <1>7
  <2> HIDE DEF norm
  <2>2. norm \in Nat \ {0} /\ \A j \in DOMAIN variants : variants[j].fitness <= norm
    BY <1>2, <1>7, <2>1
  <2>3. \A j \in DOMAIN variants : /\ VariantScores(variants)[j] \in Nat
                                   /\ VariantScores(variants)[j] <= 1000
    BY <1>1, <1>5, <2>2, NoneAboveFull
  <2>4. VariantScores(variants)[i] = 1000
    BY <1>5, <2>1, <2>2, FullScore
  <2> QED
    BY <1>7, <2>3, <2>4
<1> QED
  BY <1>6, <1>7

(* The full score is recommended.                                          *)
LEMMA FullIsRecommended ==
  ASSUME NEW payload, NEW i \in DOMAIN payload, payload[i].score = 1000,
         \A j \in DOMAIN payload : payload[j].score \in Nat /\ payload[j].score <= 1000
  PROVE  Recommended(payload, i)
<1> DEFINE scores == {0} \union {payload[j].score : j \in DOMAIN payload}
<1>1. 1000 \in scores /\ \A n \in scores : n \in Nat /\ n <= 1000
  OBVIOUS
<1>2. Highest(scores) = 1000
  <2> HIDE DEF scores
  <2> QED
    BY <1>1, HighestIs
<1>3. ListedScore(1000) = 100
  BY DEF ListedScore
<1> QED
  BY <1>2, <1>3 DEF Recommended

(* Rounding to whole percents adds half a percent at most.                 *)
LEMMA ListedIsClose ==
  ASSUME NEW s \in Nat
  PROVE  ListedScore(s) \in Nat /\ 10 * ListedScore(s) <= s + 5
<1> DEFINE whole == s \div 10
           rest == s % 10
<1>1. whole \in Nat /\ rest \in 0..9 /\ s = 10 * whole + rest
  OBVIOUS
<1>2. ListedScore(s) = IF rest > 5 \/ (rest = 5 /\ whole % 2 = 1) THEN whole + 1 ELSE whole
  BY Zenon DEF ListedScore
<1> HIDE DEF whole, rest
<1>3. CASE rest > 5 \/ (rest = 5 /\ whole % 2 = 1)
  <2>1. ListedScore(s) = whole + 1 /\ rest >= 5
    BY <1>1, <1>2, <1>3
  <2> QED
    BY <1>1, <2>1
<1>4. CASE ~ (rest > 5 \/ (rest = 5 /\ whole % 2 = 1))
  <2>1. ListedScore(s) = whole
    BY <1>2, <1>4
  <2> QED
    BY <1>1, <2>1
<1> QED
  BY <1>3, <1>4

(* So nothing recommended lies further than that below the best.           *)
LEMMA RecommendedIsClose ==
  ASSUME NEW payload, NEW i \in DOMAIN payload, Recommended(payload, i),
         \A j \in DOMAIN payload : payload[j].score \in Nat /\ payload[j].score <= 1000
  PROVE  \A j \in DOMAIN payload : payload[j].score <= payload[i].score + 5
<1> DEFINE scores == {0} \union {payload[j].score : j \in DOMAIN payload}
           top == Highest(scores)
<1>1. /\ \A n \in scores : n \in Nat /\ n <= 1000
      /\ 0 \in scores
      /\ \A j \in DOMAIN payload : payload[j].score \in scores
  OBVIOUS
<1>2. top \in Nat /\ \A n \in scores : n <= top
  <2> HIDE DEF scores
  <2>1. scores \subseteq 0..1000 /\ scores # {}
    BY <1>1
  <2>2. 1000 \in Nat
    OBVIOUS
  <2>3. top \in scores /\ \A n \in scores : n <= top
    BY <2>1, <2>2, HighestIsOne, Zenon DEF top
  <2> QED
    BY <1>1, <2>3
<1>3. 10 * ListedScore(payload[i].score) >= top
  BY Zenon DEF Recommended
<1>4. 10 * ListedScore(payload[i].score) <= payload[i].score + 5
      /\ ListedScore(payload[i].score) \in Nat
  BY ListedIsClose
<1> HIDE DEF scores, top
<1> QED
  BY <1>1, <1>2, <1>3, <1>4

(* Two counts that do not exceed their totals.                             *)
LEMMA SomethingOver ==
  ASSUME NEW a \in Nat, NEW b \in Nat, NEW c \in Nat, NEW d \in Nat, b <= a, d <= c
  PROVE  (a - b) + (c - d) > 0 <=> b # a \/ d # c
OBVIOUS

(* The counted conflicts are there exactly when two sessions clash.        *)
LEMMA ConflictsAreClashes ==
  ASSUME NEW initial \in GaInitial, NEW sol \in Solutions(initial)
  PROVE  Conflicts(sol) > 0 <=>
           \E p, q \in Scheduled(sol) :
             /\ p # q /\ sol[p][1] = sol[q][1]
             /\ \/ sol[p][2] = sol[q][2]
                \/ CourseOf(p).teacher = CourseOf(q).teacher /\ CourseOf(p).teacher # NoTeacher
<1> DEFINE taught == {k \in Scheduled(sol) : CourseOf(k).teacher # NoTeacher}
           teacherSlots == {<<CourseOf(k).teacher, sol[k][1]>> : k \in taught}
           roomSlots == {sol[k] : k \in Scheduled(sol)}
           byTeacher == [k \in taught |-> <<CourseOf(k).teacher, sol[k][1]>>]
           byRoom == [k \in Scheduled(sol) |-> sol[k]]
<1>1. Conflicts(sol) = (Cardinality(taught) - Cardinality(teacherSlots))
                         + (Cardinality(Scheduled(sol)) - Cardinality(roomSlots))
  BY Zenon DEF Conflicts
<1>2. DOMAIN sol = DOMAIN initial /\ \A k \in DOMAIN sol : sol[k] \in SlotIds \X RoomIds
  BY DEF Solutions
<1>3. Scheduled(sol) \subseteq DOMAIN sol
  BY DEF Scheduled
<1>4. IsFiniteSet(Scheduled(sol)) /\ IsFiniteSet(taught)
  <2>1. IsFiniteSet(DOMAIN sol)
    BY <1>2, GaInputsAssumption
  <2>2. taught \subseteq Scheduled(sol)
    OBVIOUS
  <2> HIDE DEF taught
  <2>3. IsFiniteSet(Scheduled(sol))
    BY <1>3, <2>1, FS_Subset
  <2> QED
    BY <2>2, <2>3, FS_Subset
<1>5. /\ ImageOf(byTeacher) = teacherSlots /\ DOMAIN byTeacher = taught
      /\ ImageOf(byRoom) = roomSlots /\ DOMAIN byRoom = Scheduled(sol)
  BY DEF ImageOf
<1>6. OneToOne(byTeacher) <=>
        ~ \E p, q \in Scheduled(sol) :
            /\ p # q /\ sol[p][1] = sol[q][1]
            /\ CourseOf(p).teacher = CourseOf(q).teacher /\ CourseOf(p).teacher # NoTeacher
  BY DEF OneToOne
<1>7. OneToOne(byRoom) <=>
        ~ \E p, q \in Scheduled(sol) :
            p # q /\ sol[p][1] = sol[q][1] /\ sol[p][2] = sol[q][2]
  <2>1. \A p, q \in Scheduled(sol) :
          sol[p] = sol[q] <=> sol[p][1] = sol[q][1] /\ sol[p][2] = sol[q][2]
    BY <1>2, <1>3
  <2> QED
    BY <2>1 DEF OneToOne
<1> HIDE DEF taught, teacherSlots, roomSlots, byTeacher, byRoom
<1>8. /\ Cardinality(teacherSlots) \in Nat /\ Cardinality(taught) \in Nat
      /\ Cardinality(teacherSlots) <= Cardinality(taught)
      /\ Cardinality(teacherSlots) = Cardinality(taught) <=> OneToOne(byTeacher)
  BY <1>4, <1>5, CountOfImage
<1>9. /\ Cardinality(roomSlots) \in Nat /\ Cardinality(Scheduled(sol)) \in Nat
      /\ Cardinality(roomSlots) <= Cardinality(Scheduled(sol))
      /\ Cardinality(roomSlots) = Cardinality(Scheduled(sol)) <=> OneToOne(byRoom)
  BY <1>4, <1>5, CountOfImage
<1>10. Conflicts(sol) > 0 <=> ~ OneToOne(byTeacher) \/ ~ OneToOne(byRoom)
  BY <1>1, <1>8, <1>9, SomethingOver
<1> QED
  BY <1>6, <1>7, <1>10, Zenon

(* What is persisted is the first of the best variants, shown with the     *)
(* full score and recommended; nothing recommended is more than half a     *)
(* percent below the best, and a variant is shown with conflicts exactly   *)
(* when it has some.                                                       *)
THEOREM BestIsPersisted == GaSpec => []VariantPayloadSound
<1>1. SearchInvariant => VariantPayloadSound
  <2> SUFFICES ASSUME SearchInvariant, ga.pc = "done"
               PROVE  TopVariantPersisted /\ RecommendedNearBest /\ ShownConflictsReal
    BY DEF VariantPayloadSound, TopVariantPersisted, RecommendedNearBest,
           ShownConflictsReal
  <2>1. /\ ga.initial \in GaInitial
        /\ Chosen(ga.initial, ga.variants, ga.chosen, ga.chosenFit)
        /\ ga.payload = PayloadOf(ga.variants)
    BY DEF SearchInvariant
  <2>2. ASSUME NEW i \in DOMAIN ga.variants
        PROVE  /\ ga.payload[i].score = VariantScores(ga.variants)[i]
               /\ ga.payload[i].conflicts = Conflicts(ga.variants[i].solution)
    BY <2>1 DEF PayloadOf
  <2>3. TopVariantPersisted
    <3>1. CASE ga.variants = <<>>
      BY <2>1, <3>1 DEF Chosen, TopVariantPersisted
    <3>2. CASE ga.variants # <<>>
      <4>1. PICK i \in DOMAIN ga.variants :
              FirstBest(ga.variants, i, ga.chosen, ga.chosenFit)
        BY <2>1, <3>2 DEF Chosen
      <4>2. /\ ga.variants[i].fitness = 0 => ga.payload[i].score = 0
            /\ ga.variants[i].fitness # 0 => ga.payload[i].score = 1000
            /\ \A j \in DOMAIN ga.variants : /\ ga.payload[j].score \in Nat
                                             /\ ga.payload[j].score <= 1000
        BY <2>1, <2>2, <4>1, BestScoresFull
      <4>3. DOMAIN ga.payload = DOMAIN ga.variants
        BY <2>1 DEF PayloadOf
      <4>4. ga.variants[i].fitness # 0 => Recommended(ga.payload, i)
        BY <4>2, <4>3, FullIsRecommended
      <4>5. /\ ga.chosen = ga.variants[i].solution
            /\ \A j \in 1..(i - 1) : ga.variants[j].fitness < ga.variants[i].fitness
            /\ \A j \in DOMAIN ga.variants : ga.variants[j].fitness <= ga.variants[i].fitness
        BY <4>1 DEF FirstBest
      <4>6. IF ga.variants[i].fitness = 0 THEN ga.payload[i].score = 0
            ELSE ga.payload[i].score = 1000 /\ Recommended(ga.payload, i)
        BY <4>2, <4>4, Zenon
      <4> QED
        BY <3>2, <4>5, <4>6, Zenon DEF TopVariantPersisted
    <3> QED
      BY <3>1, <3>2
  <2>4. ShownConflictsReal
    <3>1. ASSUME NEW i \in DOMAIN ga.variants
          PROVE  ga.payload[i].conflicts > 0 <=>
                   \E p, q \in Scheduled(ga.variants[i].solution) :
                     /\ p # q
                     /\ ga.variants[i].solution[p][1] = ga.variants[i].solution[q][1]
                     /\ \/ ga.variants[i].solution[p][2] = ga.variants[i].solution[q][2]
                        \/ /\ CourseOf(p).teacher = CourseOf(q).teacher
                           /\ CourseOf(p).teacher # NoTeacher
      <4>1. ga.variants[i].solution \in Solutions(ga.initial)
        BY <2>1, VariantsOfSearch
      <4> QED
        BY <2>1, <2>2, <4>1, ConflictsAreClashes, Zenon
    <3> QED
      BY <3>1, Zenon DEF ShownConflictsReal
  <2>5. RecommendedNearBest
    <3>1. DOMAIN ga.payload = DOMAIN ga.variants
      BY <2>1 DEF PayloadOf
    <3>2. \A j \in DOMAIN ga.payload : ga.payload[j].score \in Nat
                                       /\ ga.payload[j].score <= 1000
      <4>1. CASE ga.variants = <<>>
        BY <3>1, <4>1
      <4>2. CASE ga.variants # <<>>
        <5>1. PICK i \in DOMAIN ga.variants :
                FirstBest(ga.variants, i, ga.chosen, ga.chosenFit)
          BY <2>1, <4>2 DEF Chosen
        <5> QED
          BY <2>1, <2>2, <3>1, <5>1, BestScoresFull
      <4> QED
        BY <4>1, <4>2
    <3> QED
      BY <3>2, RecommendedIsClose, Zenon DEF RecommendedNearBest
  <2> QED
    BY <2>3, <2>4, <2>5
<1> QED
  BY <1>1, SearchStays, PTL
=============================================================================
