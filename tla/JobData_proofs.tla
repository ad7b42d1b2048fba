-------------------------- MODULE JobData_proofs --------------------------
(***************************************************************************)
(* JobDataSound for any offerings, any section limit and any configured    *)
(* days.                                                                   *)
(*                                                                         *)
(* Two recursions stand between the code and the property, and neither is  *)
(* met by induction over an operator: the sections are found by where each *)
(* begins, and every place among the students lies between two beginnings  *)
(* (OneSectionPerPlace); the passes of the loop over a day are a function  *)
(* on an interval, which exists (PassesExist) and keeps the order of the   *)
(* day (DayAfterPasses) because a first pass at which it did not could not *)
(* be the first.                                                           *)
(***************************************************************************)
EXTENDS JobData, FiniteSetTheorems, SequenceTheorems, NaturalsInduction,
        WellFoundedInduction, TLAPS

(* Dividing by a positive number.                                          *)
LEMMA Division ==
  ASSUME NEW a \in Nat, NEW b \in Nat, b > 0
  PROVE  /\ a \div b \in Nat /\ a % b \in Nat
         /\ a = b * (a \div b) + (a % b)
         /\ a % b < b
  OBVIOUS

(* A larger factor gives a larger product.                                 *)
LEMMA ProductGrows ==
  ASSUME NEW a \in Nat, NEW b \in Nat, NEW d \in Nat, a <= b
  PROVE  a * d \in Nat /\ b * d \in Nat /\ a * d <= b * d
  OBVIOUS

(* Numbers of which there are some have a least one.                       *)
LEMMA LeastOf ==
  ASSUME NEW S, S \subseteq Nat, S # {}
  PROVE  \E m \in S : \A k \in S : m <= k
<1>1. PICK m \in S : \A k \in S : <<k, m>> \notin OpToRel(<, Nat)
  BY WFMin, NatLessThanWellFounded, Zenon
<1>2. \A k \in S : ~ (k < m)
  BY <1>1, Zenon DEF OpToRel
<1> QED
  BY <1>2

(* Enough sections, and each within the limit.                             *)
LEMMA SectionsWithinLimit ==
  ASSUME NEW N \in Nat, NEW L \in Nat, L > 0, N > L,
         NEW n, n = (N + L - 1) \div L
  PROVE  /\ n \in Nat /\ n > 0
         /\ N \div n <= L
         /\ N % n > 0 => N \div n + 1 <= L
<1>1. n \in Nat /\ N + L - 1 = L * n + ((N + L - 1) % L) /\ (N + L - 1) % L < L
      /\ (N + L - 1) % L \in Nat
  BY Division
<1>2. L * n >= N
  BY <1>1
<1>3. n > 0
  BY <1>1, <1>2
<1>4. N \div n \in Nat /\ N % n \in Nat /\ N = n * (N \div n) + (N % n)
  BY <1>1, <1>3, Division
<1>5. N \div n <= L
  <2>1. SUFFICES ASSUME N \div n >= L + 1  PROVE FALSE
    BY <1>4
  <2>2. (L + 1) * n <= (N \div n) * n
    BY <2>1, <1>1, <1>4, ProductGrows
  <2> QED
    BY <2>2, <1>1, <1>2, <1>3, <1>4
<1>6. ASSUME N % n > 0  PROVE N \div n + 1 <= L
  <2>1. SUFFICES ASSUME N \div n >= L  PROVE FALSE
    BY <1>4
  <2>2. L * n <= (N \div n) * n
    BY <2>1, <1>1, <1>4, ProductGrows
  <2> QED
    BY <2>2, <1>1, <1>2, <1>3, <1>4, <1>6
<1> QED
  BY <1>1, <1>3, <1>5, <1>6

(* Where the i-th of the sections begins among the students.               *)
Begin(size, rest, i) == (i - 1) * size + (IF i - 1 < rest THEN i - 1 ELSE rest)

(* A section begins where the one before it ends.                          *)
LEMMA BeginIsNat ==
  ASSUME NEW size \in Nat, NEW rest \in Nat, NEW i \in Nat \ {0}
  PROVE  /\ Begin(size, rest, i) \in Nat
         /\ Begin(size, rest, i + 1) =
              Begin(size, rest, i) + size + (IF i - 1 < rest THEN 1 ELSE 0)
<1>1. (i - 1) * size \in Nat /\ i * size = (i - 1) * size + size
  OBVIOUS
<1>2. Begin(size, rest, i + 1) = i * size + (IF i < rest THEN i ELSE rest)
  BY DEF Begin
<1> QED
  BY <1>1, <1>2 DEF Begin

(* A later section begins no earlier.                                      *)
LEMMA BeginGrows ==
  ASSUME NEW size \in Nat, NEW rest \in Nat, NEW i \in Nat \ {0}, NEW j \in Nat, i <= j
  PROVE  Begin(size, rest, i) <= Begin(size, rest, j)
<1>1. (i - 1) * size <= (j - 1) * size /\ (i - 1) * size \in Nat /\ (j - 1) * size \in Nat
  <2>1. i - 1 \in Nat /\ j - 1 \in Nat /\ i - 1 <= j - 1
    OBVIOUS
  <2> QED
    BY <2>1, ProductGrows
<1> QED
  BY <1>1 DEF Begin

(* Every place among the students belongs to exactly one of the sections.  *)
LEMMA OneSectionPerPlace ==
  ASSUME NEW n \in Nat \ {0}, NEW size \in Nat, NEW rest \in Nat, rest < n,
         NEW k \in Nat \ {0}, k <= n * size + rest
  PROVE  /\ \E i \in 1..n : Begin(size, rest, i) < k /\ k <= Begin(size, rest, i + 1)
         /\ \A i, j \in 1..n :
              /\ Begin(size, rest, i) < k /\ k <= Begin(size, rest, i + 1)
              /\ Begin(size, rest, j) < k /\ k <= Begin(size, rest, j + 1)
              => i = j
<1> DEFINE ends == {i \in 1..n : k <= Begin(size, rest, i + 1)}
<1>1. Begin(size, rest, n + 1) = n * size + rest /\ Begin(size, rest, 1) = 0
  BY DEF Begin
<1>2. n \in ends
  BY <1>1
<1>a. ends \subseteq Nat /\ ends # {}
  BY <1>2
<1>3. \E m \in ends : \A i \in ends : m <= i
  <2> HIDE DEF ends
  <2> QED
    BY <1>a, LeastOf
<1>b. PICK m \in ends : \A i \in ends : m <= i
  BY <1>3
<1>4. m \in 1..n /\ k <= Begin(size, rest, m + 1)
  BY <1>b
<1>5. Begin(size, rest, m) < k
  <2>1. CASE m = 1
    BY <2>1, <1>1
  <2>2. CASE m # 1
    <3>1. m - 1 \in 1..n /\ m - 1 \notin ends /\ (m - 1) + 1 = m
      BY <2>2, <1>b, <1>4
    <3>2. ~ (k <= Begin(size, rest, m))
      BY <3>1
    <3>3. m \in Nat \ {0}
      BY <1>4
    <3>4. Begin(size, rest, m) \in Nat
      BY <3>3, BeginIsNat, Zenon
    <3> QED
      BY <3>2, <3>4, <1>b
  <2> QED
    BY <2>1, <2>2
<1>6. ASSUME NEW i \in 1..n, NEW j \in 1..n,
             Begin(size, rest, i) < k, k <= Begin(size, rest, i + 1),
             Begin(size, rest, j) < k, k <= Begin(size, rest, j + 1)
      PROVE  i = j
  <2>1. /\ Begin(size, rest, i) \in Nat /\ Begin(size, rest, j) \in Nat
        /\ Begin(size, rest, i + 1) \in Nat /\ Begin(size, rest, j + 1) \in Nat
    <3>1. i \in Nat \ {0} /\ j \in Nat \ {0} /\ i + 1 \in Nat \ {0} /\ j + 1 \in Nat \ {0}
      BY <1>6
    <3> QED
      BY <3>1, BeginIsNat, Zenon
  <2>2. i + 1 <= j => Begin(size, rest, i + 1) <= Begin(size, rest, j)
    BY BeginGrows
  <2>3. j + 1 <= i => Begin(size, rest, j + 1) <= Begin(size, rest, i)
    BY BeginGrows
  <2> QED
    BY <2>1, <2>2, <2>3, <1>6
<1> QED
  BY <1>4, <1>5, <1>6

(* Among numbers there is a k-th one, up to as many as there are.          *)
LEMMA KthOf ==
  ASSUME NEW n \in Nat, NEW S, S \subseteq 1..n, NEW k \in 1..Cardinality(S)
  PROVE  \E i \in S : Cardinality({j \in S : j <= i}) = k
<1> DEFINE upto(p) == {j \in S : j <= p}
           reach == {p \in 0..n : k <= Cardinality(upto(p))}
<1>1. IsFiniteSet(S)
  <2>1. IsFiniteSet(1..n)
    BY FS_Interval
  <2> QED
    BY <2>1, FS_Subset
<1>2. ASSUME NEW p  PROVE IsFiniteSet(upto(p)) /\ Cardinality(upto(p)) \in Nat
  <2>1. upto(p) \subseteq S
    OBVIOUS
  <2> HIDE DEF upto
  <2> QED
    BY <2>1, <1>1, FS_Subset, FS_CardinalityType
<1>a. \A j \in S : j \in Nat /\ 1 <= j /\ j <= n
  OBVIOUS
<1>3. upto(n) = S /\ upto(0) = {} /\ Cardinality({}) = 0
  <2>1. upto(n) = S
    BY <1>a
  <2>2. \A j \in S : ~ (j <= 0)
    BY <1>a
  <2>3. upto(0) = {}
    BY <2>2
  <2> QED
    BY <2>1, <2>3, FS_EmptySet
<1>4. n \in reach
  <2>1. k <= Cardinality(upto(n))
    <3> HIDE DEF upto
    <3> QED
      BY <1>3
  <2> QED
    BY <2>1
<1>5. \E m \in reach : \A p \in reach : m <= p
  <2>1. reach \subseteq Nat /\ reach # {}
    BY <1>4
  <2> HIDE DEF reach
  <2> QED
    BY <2>1, LeastOf
<1>6. PICK m \in reach : \A p \in reach : m <= p
  BY <1>5
<1>7. m \in 0..n /\ k <= Cardinality(upto(m)) /\ m # 0
  BY <1>6, <1>3
<1>8. m - 1 \in 0..n /\ m - 1 \notin reach
  <2>1. m - 1 \in 0..n /\ ~ (m <= m - 1)
    BY <1>7
  <2> HIDE DEF reach
  <2> QED
    BY <2>1, <1>6
<1>9. ~ (k <= Cardinality(upto(m - 1)))
  BY <1>8
<1>10. m \in S
  <2>1. SUFFICES ASSUME m \notin S  PROVE FALSE
    OBVIOUS
  <2>2. \A j \in S : j <= m <=> j <= m - 1
    BY <2>1, <1>a, <1>7
  <2>3. upto(m) = upto(m - 1)
    BY <2>2
  <2> QED
    BY <2>3, <1>7, <1>9
<1>11. upto(m) = upto(m - 1) \cup {m} /\ m \notin upto(m - 1)
  <2>1. \A j \in S : j <= m <=> j <= m - 1 \/ j = m
    BY <1>a, <1>7
  <2>2. m <= m /\ ~ (m <= m - 1)
    BY <1>7
  <2> QED
    BY <1>10, <2>1, <2>2
<1>12. Cardinality(upto(m)) = Cardinality(upto(m - 1)) + 1
  <2> HIDE DEF upto
  <2> QED
    BY <1>11, <1>2, FS_AddElement
<1>13. Cardinality(upto(m)) = k
  <2>1. Cardinality(upto(m - 1)) \in Nat
    BY <1>2
  <2>2. Cardinality(S) \in Nat
    BY <1>1, FS_CardinalityType
  <2>3. k \in Nat
    BY <2>2
  <2> HIDE DEF upto
  <2> QED
    BY <2>1, <2>3, <1>12, <1>9, <1>7
<1> QED
  BY <1>10, <1>13

(* Every entry of an offering's faculty pool is one of its valid teachers. *)
LEMMA PoolIsValid ==
  ASSUME NEW row, IsSequence(row.co), row.primary # NoFaculty
  PROVE  /\ Len(FacultyPool(row)) \in Nat \ {0}
         /\ FacultyPool(row)[1] = row.primary
         /\ DOMAIN FacultyPool(row) = 1..Len(FacultyPool(row))
         /\ \A k \in DOMAIN FacultyPool(row) : FacultyPool(row)[k] # NoFaculty
<1> DEFINE valid == ValidCo(row)
           many == Cardinality(valid)
           nth == [k \in 1..many |-> NthCo(row, k)]
           ids == {row.primary} \cup {nth[k] : k \in 1..many}
<1>1. PICK n \in Nat : DOMAIN row.co = 1..n
  <2>1. row.co \in Seq({row.co[k] : k \in DOMAIN row.co})
    BY DEF IsSequence
  <2> QED
    BY <2>1
<1>2. valid \subseteq 1..n /\ IsFiniteSet(valid) /\ many \in Nat
  <2>1. valid \subseteq 1..n
    BY <1>1 DEF ValidCo
  <2>2. IsFiniteSet(1..n)
    BY FS_Interval
  <2> HIDE DEF valid
  <2> QED
    BY <2>1, <2>2, FS_Subset, FS_CardinalityType
<1>3. ASSUME NEW k \in 1..many  PROVE nth[k] # NoFaculty
  <2>1. \E i \in valid : Cardinality({j \in valid : j <= i}) = k
    <3>1. valid \subseteq 1..n /\ k \in 1..Cardinality(valid)
      BY <1>2
    <3> HIDE DEF valid
    <3> QED
      BY <3>1, KthOf, Zenon
  <2>2. (CHOOSE i \in valid : Cardinality({j \in valid : j <= i}) = k) \in valid
    BY <2>1
  <2>3. NthCo(row, k) # NoFaculty
    BY <2>2 DEF NthCo, ValidCo
  <2> QED
    BY <2>3
<1>4. nth \in Seq(ids) /\ Len(nth) = many
  <2> HIDE DEF valid
  <2>1. nth \in [1..many -> ids]
    OBVIOUS
  <2> HIDE DEF nth, ids
  <2> QED
    BY <2>1, <1>2
<1>5. <<row.primary>> \in Seq(ids) /\ Len(<<row.primary>>) = 1 /\ <<row.primary>>[1] = row.primary
  OBVIOUS
<1>6. FacultyPool(row) = <<row.primary>> \o nth
  BY DEF FacultyPool
<1>7. /\ FacultyPool(row) \in Seq(ids)
      /\ Len(FacultyPool(row)) = 1 + many
      /\ \A k \in 1..(1 + many) :
           FacultyPool(row)[k] = IF k <= 1 THEN <<row.primary>>[k] ELSE nth[k - 1]
  <2> HIDE DEF nth, ids, many
  <2> QED
    BY <1>4, <1>5, <1>6, ConcatProperties
<1>8. ASSUME NEW k \in 1..(1 + many)  PROVE FacultyPool(row)[k] # NoFaculty
  <2>1. CASE k = 1
    <3> HIDE DEF nth, many
    <3> QED
      BY <2>1, <1>5, <1>7
  <2>2. CASE k # 1
    <3>1. k - 1 \in 1..many /\ ~ (k <= 1)
      BY <2>2, <1>2
    <3> HIDE DEF nth, many
    <3> QED
      BY <3>1, <1>3, <1>7
  <2> QED
    BY <2>1, <2>2
<1>9. FacultyPool(row)[1] = row.primary
  <2> HIDE DEF many, nth
  <2> QED
    BY <1>2, <1>5, <1>7
<1> QED
  <2> HIDE DEF many, ids
  <2> QED
    BY <1>2, <1>7, <1>8, <1>9, LenProperties

(* The sections of an offering: n of them, the first ones larger by one.   *)
Split(row, sections, n, size, rest) ==
  /\ n \in Nat \ {0} /\ size \in Nat /\ rest \in Nat /\ rest < n
  /\ Len(row.students) = n * size + rest
  /\ size <= SectionLimit /\ (rest > 0 => size + 1 <= SectionLimit)
  /\ DOMAIN sections = 1..n
  /\ \A i \in 1..n :
       /\ Len(sections[i].students) = Begin(size, rest, i + 1) - Begin(size, rest, i)
       /\ \A k \in 1..Len(sections[i].students) :
            sections[i].students[k] = row.students[Begin(size, rest, i) + k]
       /\ sections[i].teacher # NoFaculty
       /\ \E k \in DOMAIN FacultyPool(row) : FacultyPool(row)[k] = sections[i].teacher

(* The places of the sections that hold student x.                         *)
Copies(sections, x) ==
  {p \in (DOMAIN sections) \X (1..SectionLimit) :
     p[2] <= Len(sections[p[1]].students) /\ sections[p[1]].students[p[2]] = x}

(* The size of one section.                                                *)
LEMMA SizeOfSection ==
  ASSUME NEW row, NEW sections, NEW n, NEW size, NEW rest,
         Split(row, sections, n, size, rest), NEW i \in 1..n
  PROVE  /\ Len(sections[i].students) = size + (IF i - 1 < rest THEN 1 ELSE 0)
         /\ Len(sections[i].students) <= SectionLimit
         /\ i \in Nat \ {0}
         /\ Begin(size, rest, i) \in Nat
         /\ Begin(size, rest, i + 1) =
              Begin(size, rest, i) + Len(sections[i].students)
<1>1. i \in Nat \ {0} /\ size \in Nat /\ rest \in Nat
  BY DEF Split
<1>2. /\ Begin(size, rest, i) \in Nat
      /\ Begin(size, rest, i + 1) =
           Begin(size, rest, i) + size + (IF i - 1 < rest THEN 1 ELSE 0)
  BY <1>1, BeginIsNat, Zenon
<1>3. Len(sections[i].students) = Begin(size, rest, i + 1) - Begin(size, rest, i)
  BY DEF Split
<1>4. Len(sections[i].students) = size + (IF i - 1 < rest THEN 1 ELSE 0)
  BY <1>1, <1>2, <1>3
<1>5. Len(sections[i].students) <= SectionLimit
  <2>1. size <= SectionLimit /\ (rest > 0 => size + 1 <= SectionLimit)
    BY DEF Split
  <2> QED
    BY <1>1, <1>4, <2>1
<1> QED
  BY <1>1, <1>2, <1>4, <1>5

(* The student of a place among them is in one section, once.              *)
LEMMA OneCopyOfEach ==
  ASSUME NEW row \in OfferingRows, NEW sections, NEW n, NEW size, NEW rest,
         Split(row, sections, n, size, rest), NEW k \in DOMAIN row.students
  PROVE  Cardinality(Copies(sections, row.students[k])) = 1
<1> DEFINE N == Len(row.students)
           Start(i) == Begin(size, rest, i)
<1>1. DOMAIN row.students = 1..N /\ N \in Nat
  <2>1. row.students \in Seq({row.students[j] : j \in DOMAIN row.students})
    BY RowsAssumption DEF IsSequence
  <2> QED
    BY <2>1, LenProperties
<1>2. /\ n \in Nat \ {0} /\ size \in Nat /\ rest \in Nat /\ rest < n
      /\ N = n * size + rest /\ DOMAIN sections = 1..n
  BY DEF Split
<1>3. k \in Nat \ {0} /\ k <= n * size + rest
  BY <1>1, <1>2
<1>4. PICK i \in 1..n : Start(i) < k /\ k <= Start(i + 1)
  BY <1>2, <1>3, OneSectionPerPlace, Zenon
<1>5. \A j \in 1..n : Start(j) < k /\ k <= Start(j + 1) => j = i
  BY <1>2, <1>3, <1>4, OneSectionPerPlace, Zenon
<1>6. /\ Len(sections[i].students) <= SectionLimit
      /\ Start(i) \in Nat /\ Start(i + 1) = Start(i) + Len(sections[i].students)
  BY SizeOfSection
<1> DEFINE q == k - Start(i)
<1>7. /\ q \in 1..Len(sections[i].students) /\ q \in 1..SectionLimit
      /\ Len(sections[i].students) \in Nat /\ Start(i) + q = k
  <2>1. Len(sections[i].students) = size + (IF i - 1 < rest THEN 1 ELSE 0)
    BY SizeOfSection
  <2>2. Len(sections[i].students) \in Nat
    BY <2>1, <1>2
  <2> HIDE DEF Start
  <2> QED
    BY <1>3, <1>4, <1>6, <2>2, SectionLimitAssumption
<1>8. sections[i].students[q] = row.students[k]
  <2>1. sections[i].students[q] = row.students[Start(i) + q]
    BY <1>7 DEF Split
  <2> QED
    BY <2>1, <1>7
<1>9. <<i, q>> \in Copies(sections, row.students[k])
  <2>1. q <= Len(sections[i].students)
    BY <1>7
  <2> HIDE DEF q
  <2> QED
    BY <2>1, <1>2, <1>7, <1>8 DEF Copies
<1>10. ASSUME NEW p \in Copies(sections, row.students[k])  PROVE p = <<i, q>>
  <2> DEFINE a == p[1]
             b == p[2]
  <2>1. /\ a \in 1..n /\ b \in 1..SectionLimit /\ p = <<a, b>>
        /\ b <= Len(sections[a].students) /\ sections[a].students[b] = row.students[k]
    BY <1>2 DEF Copies
  <2> HIDE DEF a, b
  <2>2. /\ a \in Nat \ {0} /\ Start(a) \in Nat
        /\ Start(a + 1) = Start(a) + Len(sections[a].students)
        /\ Len(sections[a].students) = size + (IF a - 1 < rest THEN 1 ELSE 0)
    BY <2>1, SizeOfSection
  <2>3. b \in 1..Len(sections[a].students) /\ Len(sections[a].students) \in Nat
    BY <2>1, <2>2, <1>2, SectionLimitAssumption
  <2>4. sections[a].students[b] = row.students[Start(a) + b]
    BY <2>1, <2>3 DEF Split
  <2>5. Start(a + 1) <= Start(n + 1) /\ Start(n + 1) = N
    <3>1. a + 1 \in Nat \ {0} /\ n + 1 \in Nat /\ a + 1 <= n + 1
      BY <2>1, <1>2
    <3>2. Start(n + 1) = n * size + rest
      BY <1>2 DEF Begin
    <3> QED
      BY <3>1, <3>2, <1>2, BeginGrows
  <2>6. Start(a) + b \in 1..N /\ Start(a) < Start(a) + b /\ Start(a) + b <= Start(a + 1)
    <3> HIDE DEF N, Start
    <3> QED
      BY <2>2, <2>3, <2>5, <1>1
  <2>7. Start(a) + b = k
    <3> HIDE DEF N, Start
    <3> QED
      BY <2>1, <2>4, <2>6, <1>1, RowsAssumption
  <2>8. a = i
    <3> HIDE DEF Start
    <3> QED
      BY <2>1, <2>6, <2>7, <1>5
  <2>9. b = q
    <3> HIDE DEF Start
    <3> QED
      BY <2>7, <2>8, <2>2, <2>3
  <2> QED
    BY <2>1, <2>8, <2>9
<1>11. Copies(sections, row.students[k]) = {<<i, q>>}
  <2> HIDE DEF q
  <2> QED
    BY <1>9, <1>10
<1> QED
  BY <1>11, FS_Singleton

(* An offering over the limit is split like that.                          *)
LEMMA LargeIsSplit ==
  ASSUME NEW row \in OfferingRows, row.primary # NoFaculty,
         Len(row.students) > SectionLimit
  PROVE  Split(row, SectionsOf(row), SectionCount(row),
               Len(row.students) \div SectionCount(row),
               Len(row.students) % SectionCount(row))
<1> DEFINE N == Len(row.students)
           n == SectionCount(row)
           size == N \div n
           rest == N % n
           pool == FacultyPool(row)
           Start(i) == Begin(size, rest, i)
           secs == [i \in 1..n |->
                      [teacher  |-> pool[((i - 1) % Len(pool)) + 1],
                       students |-> SubSeq(row.students, Start(i) + 1, Start(i + 1))]]
<1>1. /\ row.students \in Seq({row.students[j] : j \in DOMAIN row.students})
      /\ DOMAIN row.students = 1..N /\ N \in Nat
  <2>1. row.students \in Seq({row.students[j] : j \in DOMAIN row.students})
    BY RowsAssumption DEF IsSequence
  <2> QED
    BY <2>1, LenProperties
<1>2. /\ n \in Nat \ {0} /\ size <= SectionLimit
      /\ (rest > 0 => size + 1 <= SectionLimit)
  <2>1. n = (N + SectionLimit - 1) \div SectionLimit /\ N > SectionLimit
        /\ SectionLimit \in Nat /\ SectionLimit > 0
    BY SectionLimitAssumption DEF SectionCount
  <2>2. n \in Nat /\ n > 0 /\ N \div n <= SectionLimit
        /\ (N % n > 0 => N \div n + 1 <= SectionLimit)
    <3> HIDE DEF n, N
    <3> QED
      BY <2>1, <1>1, SectionsWithinLimit
  <2> QED
    BY <2>2
<1>3. size \in Nat /\ rest \in Nat /\ rest < n /\ N = n * size + rest
  <2> HIDE DEF n, N
  <2> QED
    BY <1>1, <1>2, Division
<1>4. SectionsOf(row) = secs
  <2>1. ~ (Len(row.students) <= SectionLimit)
    BY <1>1, SectionLimitAssumption
  <2>2. SectionsOf(row) = ParallelSections(row)
    BY <2>1 DEF SectionsOf
  <2>3. \A i : Before(row, i) = Start(i)
    BY DEF Before, Begin
  <2>4. ParallelSections(row) =
          [i \in 1..n |->
             [teacher  |-> pool[((i - 1) % Len(pool)) + 1],
              students |-> SubSeq(row.students, Before(row, i) + 1, Before(row, i + 1))]]
    BY Zenon DEF ParallelSections
  <2> HIDE DEF Start, pool, n
  <2>5. [i \in 1..n |->
             [teacher  |-> pool[((i - 1) % Len(pool)) + 1],
              students |-> SubSeq(row.students, Before(row, i) + 1, Before(row, i + 1))]]
         = secs
    <3>1. \A i \in 1..n : Before(row, i) = Start(i) /\ Before(row, i + 1) = Start(i + 1)
      BY <2>3, Zenon
    <3> QED
      BY <3>1, Zenon
  <2> QED
    BY <2>2, <2>4, <2>5
<1>5. ASSUME NEW i \in 1..n
      PROVE  /\ Len(secs[i].students) = Start(i + 1) - Start(i)
             /\ \A k \in 1..Len(secs[i].students) :
                  secs[i].students[k] = row.students[Start(i) + k]
             /\ secs[i].teacher # NoFaculty
             /\ \E k \in DOMAIN pool : pool[k] = secs[i].teacher
  <2>1. i \in Nat \ {0} /\ n + 1 \in Nat /\ i + 1 \in Nat \ {0} /\ i + 1 <= n + 1
    BY <1>2
  <2>2. /\ Start(i) \in Nat
        /\ Start(i + 1) = Start(i) + size + (IF i - 1 < rest THEN 1 ELSE 0)
    BY <2>1, <1>3, BeginIsNat, Zenon
  <2>3. Start(i + 1) <= N
    <3>1. Start(i + 1) <= Start(n + 1)
      BY <2>1, <1>3, BeginGrows, Zenon
    <3>2. Start(n + 1) = n * size + rest
      BY <1>2, <1>3 DEF Begin
    <3> QED
      BY <3>1, <3>2, <1>3
  <2>4. secs[i].students = SubSeq(row.students, Start(i) + 1, Start(i + 1))
    OBVIOUS
  <2>5. Start(i + 1) \in Nat /\ Start(i) + 1 <= Start(i + 1) + 1 /\ Start(i) + 1 \in Nat
    <3> HIDE DEF Start, size, rest, n
    <3> QED
      BY <1>3, <2>1, <2>2
  <2>6. \A k \in (Start(i) + 1)..Start(i + 1) : row.students[k] \in {row.students[j] : j \in DOMAIN row.students}
    <3>1. \A k \in (Start(i) + 1)..Start(i + 1) : k \in 1..N
      <4> HIDE DEF Start, size, rest, n, N
      <4> QED
        BY <2>2, <2>3, <2>5, <1>1
    <3> QED
      BY <3>1, <1>1
  <2>7. /\ Len(SubSeq(row.students, Start(i) + 1, Start(i + 1))) =
             IF Start(i) + 1 <= Start(i + 1) THEN Start(i + 1) - (Start(i) + 1) + 1 ELSE 0
        /\ \A k \in 1..(Start(i + 1) - (Start(i) + 1) + 1) :
             SubSeq(row.students, Start(i) + 1, Start(i + 1))[k] =
               row.students[Start(i) + 1 + k - 1]
    <3> HIDE DEF Start, size, rest, n, N
    <3> QED
      BY <2>5, <2>6, SubSeqProperties
  <2>8. /\ Len(secs[i].students) = Start(i + 1) - Start(i)
        /\ \A k \in 1..Len(secs[i].students) :
             secs[i].students[k] = row.students[Start(i) + k]
    <3>1. Len(secs[i].students) = Start(i + 1) - Start(i)
      <4> HIDE DEF Start, size, rest, n, N, secs
      <4> QED
        BY <2>2, <2>4, <2>5, <2>7
    <3>2. ASSUME NEW k \in 1..Len(secs[i].students)
          PROVE  secs[i].students[k] = row.students[Start(i) + k]
      <4> HIDE DEF Start, size, rest, n, N, secs
      <4>a. k \in 1..(Start(i + 1) - Start(i))
        BY <3>1
      <4>1. k \in 1..(Start(i + 1) - (Start(i) + 1) + 1) /\ Start(i) + 1 + k - 1 = Start(i) + k
        BY <4>a, <2>2, <2>5
      <4> QED
        BY <4>1, <2>4, <2>7
    <3> QED
      BY <3>1, <3>2
  <2>9. secs[i].teacher = pool[((i - 1) % Len(pool)) + 1]
    OBVIOUS
  <2>10. ((i - 1) % Len(pool)) + 1 \in DOMAIN pool
    <3>1. Len(pool) \in Nat \ {0} /\ DOMAIN pool = 1..Len(pool)
      BY PoolIsValid, RowsAssumption
    <3>2. i - 1 \in Nat
      BY <2>1
    <3>3. (i - 1) % Len(pool) \in Nat /\ (i - 1) % Len(pool) < Len(pool)
      <4> HIDE DEF pool
      <4> QED
        BY <3>1, <3>2, Division
    <3> HIDE DEF pool
    <3> QED
      BY <3>1, <3>3
  <2>11. \A k \in DOMAIN pool : pool[k] # NoFaculty
    BY PoolIsValid, RowsAssumption
  <2> HIDE DEF pool, secs, Start, n
  <2> QED
    BY <2>8, <2>9, <2>10, <2>11
<1>6. DOMAIN secs = 1..n
  OBVIOUS
<1> HIDE DEF secs, size, rest, n
<1> QED
  BY <1>2, <1>3, <1>4, <1>5, <1>6, Zenon DEF Split, n, size, rest

(* So is a smaller one, into a single section.                             *)
LEMMA SmallIsSplit ==
  ASSUME NEW row \in OfferingRows, row.primary # NoFaculty,
         Len(row.students) <= SectionLimit
  PROVE  Split(row, SectionsOf(row), 1, Len(row.students), 0)
<1> DEFINE N == Len(row.students)
           secs == <<[teacher |-> row.primary, students |-> row.students]>>
<1>1. DOMAIN row.students = 1..N /\ N \in Nat
  <2>1. row.students \in Seq({row.students[j] : j \in DOMAIN row.students})
    BY RowsAssumption DEF IsSequence
  <2> QED
    BY <2>1, LenProperties
<1>2. SectionsOf(row) = secs
  BY Zenon DEF SectionsOf
<1>3. DOMAIN secs = 1..1 /\ secs[1].students = row.students /\ secs[1].teacher = row.primary
  OBVIOUS
<1>4. Begin(N, 0, 1) = 0 /\ Begin(N, 0, 2) = N
  BY <1>1 DEF Begin
<1>5. 1 \in DOMAIN FacultyPool(row) /\ FacultyPool(row)[1] = row.primary
  BY PoolIsValid, RowsAssumption
<1> HIDE DEF secs
<1>6. \A i \in 1..1 :
        /\ Len(secs[i].students) = Begin(N, 0, i + 1) - Begin(N, 0, i)
        /\ \A k \in 1..Len(secs[i].students) :
             secs[i].students[k] = row.students[Begin(N, 0, i) + k]
        /\ secs[i].teacher # NoFaculty
        /\ \E k \in DOMAIN FacultyPool(row) : FacultyPool(row)[k] = secs[i].teacher
  <2> HIDE DEF N
  <2> QED
    BY <1>1, <1>3, <1>4, <1>5 DEF N
<1> QED
  BY <1>1, <1>2, <1>3, <1>6, SectionLimitAssumption DEF Split

(* The break, if there is one, lies between its two ends.                  *)
LEMMA LunchFacts ==
  ASSUME NEW c \in TimeConfigs
  PROVE  /\ LunchLength(c) \in Nat
         /\ \A t \in Nat : InLunch(c, t) =>
              /\ c.lunchStart <= t /\ t < c.lunchEnd
              /\ LunchLength(c) = c.lunchEnd - c.lunchStart
<1> DEFINE length == c.lunchEnd - c.lunchStart
<1>1. c.lunchStart \in Nat /\ c.lunchEnd \in Nat
  BY DEF TimeConfigs
<1>2. /\ LunchLength(c) = 0 \/ (c.lunchEnd > c.lunchStart /\ LunchLength(c) = length)
      /\ c.lunch /\ c.lunchEnd > c.lunchStart => LunchLength(c) = length
  BY Zenon DEF LunchLength
<1>3. ASSUME NEW t \in Nat, InLunch(c, t)
      PROVE  c.lunch /\ c.lunchStart <= t /\ t < c.lunchEnd
  BY <1>3, Zenon DEF InLunch
<1>4. ASSUME NEW t \in Nat, c.lunchStart <= t, t < c.lunchEnd
      PROVE  c.lunchEnd > c.lunchStart
  BY <1>1, <1>4
<1>5. LunchLength(c) \in Nat
  <2>1. LunchLength(c) = 0 \/ (c.lunchEnd > c.lunchStart /\ LunchLength(c) = length)
    BY <1>2, Zenon
  <2> QED
    BY <2>1, <1>1
<1> HIDE DEF length
<1>6. \A t \in Nat : InLunch(c, t) =>
              /\ c.lunchStart <= t /\ t < c.lunchEnd
              /\ LunchLength(c) = length
  BY <1>2, <1>3, <1>4, Zenon
<1> QED
  BY <1>5, <1>6, Zenon DEF length

(* The ceiling is at least one, and fits into the day if one slot does.    *)
LEMMA PeriodsFit ==
  ASSUME NEW c \in TimeConfigs, c.duration > 0
  PROVE  /\ Periods(c) \in Nat /\ Periods(c) <= c.wanted
         /\ Effective(c) \in Int
         /\ Effective(c) >= c.duration => Periods(c) * c.duration <= Effective(c)
<1> DEFINE d == c.duration
           e == Effective(c)
           fits == e \div d
<1>1. /\ d \in Nat /\ d > 0 /\ c.wanted \in Nat /\ e \in Int
  <2>1. c.duration \in Nat /\ c.wanted \in Nat /\ c.start \in Nat /\ c.end \in Nat
    BY DEF TimeConfigs
  <2> QED
    BY <2>1, LunchFacts DEF Effective
<1>2. fits \in Int
  <2> HIDE DEF d, e
  <2> QED
    BY <1>1
<1>3. Periods(c) = IF c.wanted < (IF fits < 1 THEN 1 ELSE fits) THEN c.wanted
                   ELSE IF fits < 1 THEN 1 ELSE fits
  BY DEF Periods
<1>4. Periods(c) \in Nat /\ Periods(c) <= c.wanted
  <2> HIDE DEF d, e, fits
  <2> QED
    BY <1>1, <1>2, <1>3
<1>5. ASSUME e >= d  PROVE Periods(c) * d <= e
  <2>1. e \in Nat
    <3> HIDE DEF d, e
    <3> QED
      BY <1>1, <1>5
  <2>2. e = d * fits + (e % d) /\ e % d \in Nat /\ e % d < d /\ fits \in Nat
    <3> HIDE DEF d, e
    <3> QED
      BY <2>1, <1>1, Division
  <2>3. fits >= 1
    <3>1. fits = 0 => d * fits = 0
      BY <1>1
    <3> HIDE DEF d, e, fits
    <3> QED
      BY <2>1, <2>2, <3>1, <1>1, <1>5
  <2>4. Periods(c) <= fits
    <3> HIDE DEF d, e, fits
    <3> QED
      BY <2>2, <2>3, <1>1, <1>3
  <2>5. Periods(c) * d <= fits * d
    <3> HIDE DEF d, e, fits
    <3> QED
      BY <2>2, <2>4, <1>1, <1>4, ProductGrows
  <2> HIDE DEF d, e, fits
  <2> QED
    BY <2>2, <2>5, <1>1, <1>4
<1> QED
  BY <1>1, <1>4, <1>5

(* The day after k passes of the loop.                                     *)
PassesTo(c, m, f) ==
  f = [k \in 0..m |-> IF k = 0 THEN [now |-> c.start, slots |-> <<>>]
                      ELSE DayStep(c, f[k - 1])]

(* Some function has the days of all the passes.                           *)
LEMMA PassesExist ==
  ASSUME NEW c, NEW m \in Nat
  PROVE  \E f : PassesTo(c, m, f)
<1> DEFINE without == {n \in Nat : ~ \E f : PassesTo(c, n, f)}
<1>1. SUFFICES without = {}
  OBVIOUS
<1>2. SUFFICES ASSUME without # {}  PROVE FALSE
  OBVIOUS
<1>3. \E n \in without : \A k \in without : n <= k
  <2>1. without \subseteq Nat
    OBVIOUS
  <2> HIDE DEF without
  <2> QED
    BY <2>1, <1>2, LeastOf
<1>4. PICK n \in without : \A k \in without : n <= k
  BY <1>3
<1>5. n \in Nat /\ ~ \E f : PassesTo(c, n, f)
  BY <1>4
<1> DEFINE first == [now |-> c.start, slots |-> <<>>]
<1>6. CASE n = 0
  <2> DEFINE f == [k \in 0..n |-> first]
  <2>1. \A k \in 0..n : k = 0
    BY <1>6
  <2>2. f = [k \in 0..n |-> IF k = 0 THEN first ELSE DayStep(c, f[k - 1])]
    BY <2>1
  <2> QED
    BY <2>2, <1>5, Zenon DEF PassesTo
<1>7. CASE n # 0
  <2>1. n - 1 \in Nat /\ ~ (n <= n - 1)
    BY <1>5, <1>7
  <2>2. n - 1 \notin without
    <3> HIDE DEF without
    <3> QED
      BY <2>1, <1>4
  <2>3. PICK g : PassesTo(c, n - 1, g)
    BY <2>1, <2>2
  <2> DEFINE f == [k \in 0..n |-> IF k = n THEN DayStep(c, g[n - 1]) ELSE g[k]]
  <2>4. \A k \in 0..(n - 1) : g[k] = IF k = 0 THEN first ELSE DayStep(c, g[k - 1])
    BY <2>3, Zenon DEF PassesTo
  <2>5. ASSUME NEW k \in 0..n
        PROVE  f[k] = IF k = 0 THEN first ELSE DayStep(c, f[k - 1])
    <3>1. CASE k = n
      <4>1. n - 1 \in 0..n /\ n - 1 # n
        BY <2>1
      <4>2. f[n - 1] = g[n - 1] /\ f[k] = DayStep(c, g[n - 1])
        BY <4>1, <3>1
      <4> HIDE DEF f
      <4> QED
        BY <4>2, <3>1, <1>7
    <3>2. CASE k # n
      <4>1. k \in 0..(n - 1)
        BY <3>2, <1>5
      <4>2. f[k] = g[k]
        BY <3>2
      <4>3. CASE k = 0
        <5> HIDE DEF f
        <5> QED
          BY <4>1, <4>2, <4>3, <2>4
      <4>4. CASE k # 0
        <5>1. k - 1 \in 0..n /\ k - 1 # n
          BY <4>4, <3>2, <1>5
        <5>2. f[k - 1] = g[k - 1]
          BY <5>1
        <5> HIDE DEF f
        <5> QED
          BY <4>1, <4>2, <4>4, <5>2, <2>4
      <4> QED
        BY <4>3, <4>4
    <3> QED
      BY <3>1, <3>2
  <2>6. DOMAIN f = 0..n /\ f = [k \in DOMAIN f |-> f[k]]
    OBVIOUS
  <2>7. PassesTo(c, n, f)
    <3> HIDE DEF f
    <3>1. [k \in DOMAIN f |-> f[k]] =
            [k \in 0..n |-> IF k = 0 THEN first ELSE DayStep(c, f[k - 1])]
      BY <2>5, <2>6, Zenon
    <3> QED
      BY <3>1, <2>6, Zenon DEF PassesTo
  <2> HIDE DEF f
  <2> QED
    BY <2>7, <1>5, Zenon
<1> QED
  BY <1>6, <1>7

SlotTimes == [from : Nat, to : Nat]

(* How far k passes have come, where one slot fits into the day: no slot   *)
(* is missing, or every pass made a slot, but for one that left the break  *)
(* behind.                                                                 *)
Progress(c, k, day) ==
  \/ Len(day.slots) >= Periods(c)
  \/ /\ k <= Len(day.slots)
     /\ day.now = c.start + Len(day.slots) * c.duration
  \/ /\ k <= Len(day.slots) + 1
     /\ day.now >= c.lunchEnd
     /\ day.now <= c.start + Len(day.slots) * c.duration + LunchLength(c)

(* The slots made so far follow each other, up to now, none of them begins *)
(* in the break.                                                           *)
DayInOrder(c, day) ==
  /\ day = [now |-> day.now, slots |-> day.slots]
  /\ day.now \in Nat
  /\ day.slots \in Seq(SlotTimes)
  /\ Len(day.slots) <= Periods(c)
  /\ \A i \in 1..Len(day.slots) :
       day.slots[i].to <= day.now /\ ~ InLunch(c, day.slots[i].from)
  /\ \A i, j \in 1..Len(day.slots) : i < j => day.slots[i].to <= day.slots[j].from

(* Where one slot fits into the day, no slot is late.                      *)
DayOnTime(c, k, day) ==
  Effective(c) >= c.duration =>
    /\ Progress(c, k, day)
    /\ \A i \in 1..Len(day.slots) : day.slots[i].to <= c.end

(* A day with a slot missing has room for it before its end.               *)
LEMMA RoomForASlot ==
  ASSUME NEW c \in TimeConfigs, c.duration > 0, Effective(c) >= c.duration,
         NEW k \in Nat, NEW day, DayInOrder(c, day), Progress(c, k, day),
         Len(day.slots) < Periods(c)
  PROVE  day.now + c.duration <= c.end
<1> DEFINE n == Len(day.slots)
           d == c.duration
           p == Periods(c)
           lunch == LunchLength(c)
<1>1. n \in Nat /\ day.now \in Nat
  BY DEF DayInOrder
<1>2. d \in Nat /\ c.start \in Nat /\ c.end \in Nat /\ d > 0
  BY DEF TimeConfigs
<1>3. lunch \in Nat
  BY LunchFacts
<1>4. p \in Nat /\ p * d <= Effective(c)
  BY PeriodsFit
<1>5. Effective(c) = c.end - c.start - lunch
  BY DEF Effective
<1>6. (n + 1) * d <= p * d /\ (n + 1) * d = n * d + d /\ n * d \in Nat /\ p * d \in Nat
  <2>1. n + 1 \in Nat /\ n + 1 <= p
    BY <1>1, <1>4
  <2>2. (n + 1) * d <= p * d /\ p * d \in Nat
    <3> HIDE DEF n, d, p
    <3> QED
      BY <2>1, <1>2, <1>4, ProductGrows
  <2>3. (n + 1) * d = n * d + d /\ n * d \in Nat
    <3> HIDE DEF n, d
    <3> QED
      BY <1>1, <1>2
  <2> QED
    BY <2>2, <2>3
<1>7. day.now <= c.start + n * d + lunch
  <2>1. n < p
    OBVIOUS
  <2>2. ~ (n >= p)
    <3> HIDE DEF n, p
    <3> QED
      BY <2>1, <1>1, <1>4
  <2>3. \/ day.now = c.start + n * d
        \/ day.now <= c.start + n * d + lunch
    BY <2>2, Zenon DEF Progress
  <2> HIDE DEF n, d, p, lunch
  <2> QED
    BY <2>3, <1>1, <1>2, <1>3, <1>6
<1> HIDE DEF n, p, lunch, d
<1> DEFINE q == n * d
           all == p * d
<1>8. q \in Nat /\ all \in Nat /\ q + d <= all /\ all <= c.end - c.start - lunch
      /\ day.now <= c.start + q + lunch
  <2>1. q \in Nat /\ all \in Nat /\ (n + 1) * d = q + d /\ (n + 1) * d <= all
    BY <1>6
  <2>2. q + d <= all
    BY <2>1, Zenon
  <2>3. all <= c.end - c.start - lunch
    BY <1>4, <1>5, Zenon
  <2>4. day.now <= c.start + q + lunch
    BY <1>7
  <2> QED
    BY <2>1, <2>2, <2>3, <2>4
<1>9. day.now + d <= c.end
  <2> HIDE DEF q, all
  <2> QED
    BY <1>1, <1>2, <1>3, <1>8
<1> QED
  BY <1>9 DEF d

(* A pass that makes a slot.                                               *)
LEMMA SlotKeepsDay ==
  ASSUME NEW c \in TimeConfigs, c.duration > 0, NEW k \in Nat, NEW day,
         DayInOrder(c, day), DayOnTime(c, k, day),
         Len(day.slots) < Periods(c), ~ InLunch(c, day.now),
         NEW after,
         after = [now |-> day.now + c.duration,
                  slots |-> Append(day.slots,
                              [from |-> day.now, to |-> day.now + c.duration])]
  PROVE  DayInOrder(c, after) /\ DayOnTime(c, k + 1, after)
<1> DEFINE n == Len(day.slots)
           d == c.duration
           slot == [from |-> day.now, to |-> day.now + d]
           slots == Append(day.slots, slot)
<1>1. /\ n \in Nat /\ day.now \in Nat /\ day.slots \in Seq(SlotTimes)
  BY DEF DayInOrder
<1>2. d \in Nat /\ c.start \in Nat /\ c.end \in Nat /\ d > 0 /\ c.lunchEnd \in Nat
  BY DEF TimeConfigs
<1>3. slot \in SlotTimes /\ slot.from = day.now /\ slot.to = day.now + d
  BY <1>1, <1>2 DEF SlotTimes
<1>4. /\ slots \in Seq(SlotTimes) /\ Len(slots) = n + 1 /\ slots[n + 1] = slot
      /\ \A i \in 1..n : slots[i] = day.slots[i]
  <2> HIDE DEF slot
  <2> QED
    BY <1>1, <1>3
<1>5. after = [now |-> day.now + d, slots |-> slots] /\ after.now = day.now + d
      /\ after.slots = slots
  OBVIOUS
<1>6. \A i \in 1..n : day.slots[i].to \in Nat /\ day.slots[i].from \in Nat
  <2>1. \A i \in 1..n : day.slots[i] \in SlotTimes
    BY <1>1
  <2> QED
    BY <2>1 DEF SlotTimes
<1> HIDE DEF slot, slots, d
<1>7. DayInOrder(c, after)
  <2>1. n + 1 <= Periods(c)
    <3>1. Periods(c) \in Nat
      BY PeriodsFit
    <3> QED
      BY <3>1, <1>1
  <2>2. \A i \in 1..n : day.slots[i].to <= day.now /\ ~ InLunch(c, day.slots[i].from)
    BY DEF DayInOrder
  <2>3. \A i, j \in 1..n : i < j => day.slots[i].to <= day.slots[j].from
    BY DEF DayInOrder
  <2> HIDE DEF n
  <2>4. ASSUME NEW i \in 1..(n + 1)
        PROVE  slots[i].to <= day.now + d /\ ~ InLunch(c, slots[i].from)
    <3>1. CASE i = n + 1
      BY <3>1, <1>1, <1>2, <1>3, <1>4
    <3>2. CASE i \in 1..n
      BY <3>2, <2>2, <1>1, <1>2, <1>4, <1>6
    <3> QED
      BY <3>1, <3>2, <1>1
  <2>5. ASSUME NEW i \in 1..(n + 1), NEW j \in 1..(n + 1), i < j
        PROVE  slots[i].to <= slots[j].from
    <3>1. i \in 1..n
      BY <2>5, <1>1
    <3>2. CASE j = n + 1
      BY <3>1, <3>2, <2>2, <1>3, <1>4
    <3>3. CASE j \in 1..n
      BY <2>5, <3>1, <3>3, <2>3, <1>4
    <3> QED
      BY <3>2, <3>3, <1>1
  <2>6. day.now + d \in Nat
    BY <1>1, <1>2
  <2> HIDE DEF slots
  <2> QED
    BY <1>4, <1>5, <2>1, <2>4, <2>5, <2>6 DEF DayInOrder
<1>8. DayOnTime(c, k + 1, after)
  <2> SUFFICES ASSUME Effective(c) >= d
               PROVE  /\ Progress(c, k + 1, after)
                      /\ \A i \in 1..Len(after.slots) : after.slots[i].to <= c.end
    BY Zenon DEF DayOnTime, d
  <2>1. Progress(c, k, day) /\ \A i \in 1..n : day.slots[i].to <= c.end
    BY Zenon DEF DayOnTime, d
  <2>2. day.now + d <= c.end
    BY <2>1, RoomForASlot DEF d
  <2>3. LunchLength(c) \in Nat /\ Periods(c) \in Nat
    BY LunchFacts, PeriodsFit
  <2>4. \/ /\ k <= n
           /\ day.now = c.start + n * d
        \/ /\ k <= n + 1
           /\ day.now >= c.lunchEnd
           /\ day.now <= c.start + n * d + LunchLength(c)
    <3>1. ~ (n >= Periods(c))
      BY <1>1, <2>3
    <3> QED
      BY <2>1, <3>1, Zenon DEF Progress, d
  <2> HIDE DEF n
  <2>5. (n + 1) * d = n * d + d /\ n * d \in Nat
    BY <1>1, <1>2
  <2>6. \/ /\ k + 1 <= n + 1
           /\ day.now + d = c.start + (n + 1) * d
        \/ /\ k + 1 <= (n + 1) + 1
           /\ day.now + d >= c.lunchEnd
           /\ day.now + d <= c.start + (n + 1) * d + LunchLength(c)
    BY <1>1, <1>2, <2>3, <2>4, <2>5
  <2>7. Progress(c, k + 1, after)
    BY <2>6, <1>4, <1>5, Zenon DEF Progress, d
  <2>8. \A i \in 1..(n + 1) : slots[i].to <= c.end
    BY <2>1, <2>2, <1>1, <1>3, <1>4
  <2> QED
    BY <2>7, <2>8, <1>4, <1>5
<1> QED
  BY <1>7, <1>8

(* A pass that jumps over the break.                                       *)
LEMMA JumpKeepsDay ==
  ASSUME NEW c \in TimeConfigs, c.duration > 0, NEW k \in Nat, NEW day,
         DayInOrder(c, day), DayOnTime(c, k, day), InLunch(c, day.now),
         NEW after, after = [now |-> c.lunchEnd, slots |-> day.slots]
  PROVE  DayInOrder(c, after) /\ DayOnTime(c, k + 1, after)
<1> DEFINE n == Len(day.slots)
<1>1. /\ n \in Nat /\ day.now \in Nat /\ day.slots \in Seq(SlotTimes)
  BY DEF DayInOrder
<1>2. c.duration \in Nat /\ c.start \in Nat /\ c.lunchEnd \in Nat /\ c.lunchStart \in Nat
  BY DEF TimeConfigs
<1>3. /\ c.lunchStart <= day.now /\ day.now < c.lunchEnd
      /\ LunchLength(c) = c.lunchEnd - c.lunchStart /\ LunchLength(c) \in Nat
  BY <1>1, LunchFacts
<1>4. after.now = c.lunchEnd /\ after.slots = day.slots
      /\ after = [now |-> after.now, slots |-> after.slots]
  OBVIOUS
<1>5. \A i \in 1..n : day.slots[i].to \in Nat
  <2>1. \A i \in 1..n : day.slots[i] \in SlotTimes
    BY <1>1
  <2> QED
    BY <2>1 DEF SlotTimes
<1>6. DayInOrder(c, after)
  <2>1. \A i \in 1..n : day.slots[i].to <= c.lunchEnd
    <3>1. \A i \in 1..n : day.slots[i].to <= day.now
      BY DEF DayInOrder
    <3> HIDE DEF n
    <3> QED
      BY <3>1, <1>1, <1>2, <1>3, <1>5
  <2> QED
    BY <2>1, <1>2, <1>4, Zenon DEF DayInOrder
<1>7. DayOnTime(c, k + 1, after)
  <2> SUFFICES ASSUME Effective(c) >= c.duration
               PROVE  /\ Progress(c, k + 1, after)
                      /\ \A i \in 1..Len(after.slots) : after.slots[i].to <= c.end
    BY Zenon DEF DayOnTime
  <2>1. Progress(c, k, day) /\ \A i \in 1..n : day.slots[i].to <= c.end
    BY Zenon DEF DayOnTime
  <2>2. \/ n >= Periods(c)
        \/ k <= n /\ day.now = c.start + n * c.duration
    <3>1. ~ (day.now >= c.lunchEnd)
      BY <1>1, <1>2, <1>3
    <3> QED
      BY <2>1, <3>1, Zenon DEF Progress
  <2>3. \/ n >= Periods(c)
        \/ /\ k + 1 <= n + 1
           /\ c.lunchEnd >= c.lunchEnd
           /\ c.lunchEnd <= c.start + n * c.duration + LunchLength(c)
    <3>1. n * c.duration \in Nat
      BY <1>1, <1>2
    <3> HIDE DEF n
    <3> QED
      BY <2>2, <3>1, <1>1, <1>2, <1>3
  <2>4. Progress(c, k + 1, after)
    BY <2>3, <1>4, Zenon DEF Progress
  <2> QED
    BY <2>1, <2>4, <1>4
<1> QED
  BY <1>6, <1>7

(* Every pass of the loop.                                                 *)
LEMMA PassKeepsDay ==
  ASSUME NEW c \in TimeConfigs, c.duration > 0, NEW k \in Nat, NEW day,
         DayInOrder(c, day), DayOnTime(c, k, day)
  PROVE  DayInOrder(c, DayStep(c, day)) /\ DayOnTime(c, k + 1, DayStep(c, day))
<1>1. /\ Len(day.slots) \in Nat /\ day.now \in Nat /\ Periods(c) \in Nat
      /\ c.end \in Nat /\ c.duration \in Nat
      /\ day = [now |-> day.now, slots |-> day.slots]
  <2>1. Len(day.slots) \in Nat /\ day.now \in Nat
        /\ day = [now |-> day.now, slots |-> day.slots]
    BY DEF DayInOrder
  <2>2. c.end \in Nat /\ c.duration \in Nat
    BY DEF TimeConfigs
  <2> QED
    BY <2>1, <2>2, PeriodsFit
<1>2. CASE Len(day.slots) >= Periods(c) \/ day.now >= c.end
  <2>a. ~ (Len(day.slots) < Periods(c) /\ day.now < c.end /\ InLunch(c, day.now))
    <3>1. ~ (Len(day.slots) < Periods(c) /\ day.now < c.end)
      BY <1>1, <1>2
    <3> QED
      BY <3>1
  <2>1. DayStep(c, day) = day
    BY <1>2, <2>a, Zenon DEF DayStep
  <2>2. DayOnTime(c, k + 1, day)
    <3> SUFFICES ASSUME Effective(c) >= c.duration
                 PROVE  /\ Progress(c, k + 1, day)
                        /\ \A i \in 1..Len(day.slots) : day.slots[i].to <= c.end
      BY Zenon DEF DayOnTime
    <3>1. Progress(c, k, day) /\ \A i \in 1..Len(day.slots) : day.slots[i].to <= c.end
      BY Zenon DEF DayOnTime
    <3>2. Len(day.slots) >= Periods(c)
      <4>1. Len(day.slots) < Periods(c) => day.now + c.duration <= c.end
        BY <3>1, RoomForASlot
      <4> QED
        BY <4>1, <1>1, <1>2
    <3> QED
      BY <3>1, <3>2, Zenon DEF Progress
  <2> QED
    BY <2>1, <2>2
<1>3. CASE ~ (Len(day.slots) >= Periods(c) \/ day.now >= c.end) /\ InLunch(c, day.now)
  <2>1. Len(day.slots) < Periods(c) /\ day.now < c.end
    BY <1>1, <1>3
  <2>2. DayStep(c, day) = [day EXCEPT !.now = c.lunchEnd]
    BY <1>3, <2>1 DEF DayStep
  <2>3. DayStep(c, day) = [now |-> c.lunchEnd, slots |-> day.slots]
    BY <2>2, <1>1
  <2> QED
    BY <2>3, <1>3, JumpKeepsDay
<1>4. CASE ~ (Len(day.slots) >= Periods(c) \/ day.now >= c.end) /\ ~ InLunch(c, day.now)
  <2>1. Len(day.slots) < Periods(c)
    BY <1>1, <1>4
  <2>2. DayStep(c, day) =
          [now |-> day.now + c.duration,
           slots |-> Append(day.slots, [from |-> day.now, to |-> day.now + c.duration])]
    BY <1>4 DEF DayStep
  <2> QED
    BY <2>1, <2>2, <1>4, SlotKeepsDay, Zenon
<1> QED
  BY <1>2, <1>3, <1>4

(* The day before the first pass.                                          *)
LEMMA DayBegins ==
  ASSUME NEW c \in TimeConfigs, c.duration > 0
  PROVE  LET day == [now |-> c.start, slots |-> <<>>]
         IN DayInOrder(c, day) /\ DayOnTime(c, 0, day)
<1> DEFINE day == [now |-> c.start, slots |-> <<>>]
<1>1. day.now = c.start /\ day.slots = <<>> /\ Len(day.slots) = 0
      /\ day = [now |-> day.now, slots |-> day.slots]
  OBVIOUS
<1>2. c.start \in Nat /\ c.duration \in Nat /\ Periods(c) \in Nat /\ <<>> \in Seq(SlotTimes)
  <2>1. c.start \in Nat /\ c.duration \in Nat
    BY DEF TimeConfigs
  <2> QED
    BY <2>1, PeriodsFit
<1>3. 0 <= Periods(c) /\ \A i : i \notin 1..0
  BY <1>2
<1>4. c.start = c.start + 0 * c.duration /\ 0 <= 0
  BY <1>2
<1> HIDE DEF day
<1>5. DayInOrder(c, day)
  BY <1>1, <1>2, <1>3, Zenon DEF DayInOrder
<1>6. DayOnTime(c, 0, day)
  <2>1. Progress(c, 0, day)
    BY <1>1, <1>4, Zenon DEF Progress
  <2> QED
    BY <2>1, <1>1, <1>3, Zenon DEF DayOnTime
<1> QED
  BY <1>5, <1>6, Zenon DEF day

(* The day after every pass.                                               *)
LEMMA DayAfterPasses ==
  ASSUME NEW c \in TimeConfigs, c.duration > 0, NEW m \in Nat, NEW f, PassesTo(c, m, f)
  PROVE  \A k \in 0..m : DayInOrder(c, f[k]) /\ DayOnTime(c, k, f[k])
<1> DEFINE wrong == {k \in 0..m : ~ (DayInOrder(c, f[k]) /\ DayOnTime(c, k, f[k]))}
<1>1. SUFFICES ASSUME wrong # {}  PROVE FALSE
  OBVIOUS
<1>2. \E k \in wrong : \A i \in wrong : k <= i
  <2>1. wrong \subseteq Nat
    OBVIOUS
  <2> HIDE DEF wrong
  <2> QED
    BY <2>1, <1>1, LeastOf
<1>3. PICK k \in wrong : \A i \in wrong : k <= i
  BY <1>2
<1>4. k \in 0..m /\ ~ (DayInOrder(c, f[k]) /\ DayOnTime(c, k, f[k]))
  BY <1>3
<1>5. \A i \in 0..m : f[i] = IF i = 0 THEN [now |-> c.start, slots |-> <<>>]
                             ELSE DayStep(c, f[i - 1])
  BY Zenon DEF PassesTo
<1>6. CASE k = 0
  <2>1. f[k] = [now |-> c.start, slots |-> <<>>]
    BY <1>4, <1>5, <1>6
  <2> QED
    BY <2>1, <1>4, <1>6, DayBegins, Zenon
<1>7. CASE k # 0
  <2>1. k - 1 \in Nat /\ k - 1 \in 0..m /\ ~ (k <= k - 1) /\ (k - 1) + 1 = k
    BY <1>4, <1>7
  <2>2. k - 1 \notin wrong
    <3> HIDE DEF wrong
    <3> QED
      BY <2>1, <1>3
  <2>3. DayInOrder(c, f[k - 1]) /\ DayOnTime(c, k - 1, f[k - 1])
    BY <2>1, <2>2
  <2>4. f[k] = DayStep(c, f[k - 1])
    BY <1>4, <1>5, <1>7
  <2>5. DayInOrder(c, DayStep(c, f[k - 1])) /\ DayOnTime(c, (k - 1) + 1, DayStep(c, f[k - 1]))
    BY <2>1, <2>3, PassKeepsDay, Zenon
  <2> QED
    BY <2>1, <2>4, <2>5, <1>4
<1> QED
  BY <1>6, <1>7

(* The day that is taught: in order, and complete where a slot fits.       *)
LEMMA DayIsComplete ==
  ASSUME NEW c \in TimeConfigs, c.duration > 0
  PROVE  LET day == DaySlots(c) IN
         /\ day \in Seq(SlotTimes)
         /\ \A i \in 1..Len(day) : ~ InLunch(c, day[i].from)
         /\ \A i, j \in 1..Len(day) : i < j => day[i].to <= day[j].from
         /\ Effective(c) >= c.duration =>
              Len(day) = Periods(c) /\ \A i \in 1..Len(day) : day[i].to <= c.end
<1> DEFINE m == c.wanted + 1
           f == DayPasses(c)
<1>1. m \in Nat /\ m \in 0..m /\ c.wanted \in Nat
  BY DEF TimeConfigs
<1>2. PassesTo(c, m, f)
  <2>1. \E g : PassesTo(c, m, g)
    BY <1>1, PassesExist, Zenon
  <2>2. PassesTo(c, m, CHOOSE g : PassesTo(c, m, g))
    BY <2>1, Zenon
  <2>3. f = CHOOSE g : PassesTo(c, m, g)
    BY Zenon DEF DayPasses, PassesTo
  <2> HIDE DEF f
  <2> QED
    BY <2>2, <2>3
<1> DEFINE last == f[m]
<1> HIDE DEF f, m
<1>3. DayInOrder(c, last) /\ DayOnTime(c, m, last)
  BY <1>1, <1>2, DayAfterPasses
<1>4. DaySlots(c) = last.slots
  BY Zenon DEF DaySlots, f, m
<1> HIDE DEF last
<1>5. Len(last.slots) \in Nat /\ Len(last.slots) <= Periods(c) /\ last.slots \in Seq(SlotTimes)
  BY <1>3 DEF DayInOrder
<1>6. ASSUME Effective(c) >= c.duration
      PROVE  Len(last.slots) = Periods(c) /\ \A i \in 1..Len(last.slots) : last.slots[i].to <= c.end
  <2>1. Progress(c, m, last) /\ \A i \in 1..Len(last.slots) : last.slots[i].to <= c.end
    BY <1>3, <1>6, Zenon DEF DayOnTime
  <2>2. \/ Len(last.slots) >= Periods(c)
        \/ m <= Len(last.slots) \/ m <= Len(last.slots) + 1
    BY <2>1, Zenon DEF Progress
  <2>3. m = c.wanted + 1 /\ Periods(c) \in Nat /\ Periods(c) <= c.wanted
    BY PeriodsFit DEF m
  <2> QED
    BY <2>1, <2>2, <2>3, <1>1, <1>5
<1>7. /\ \A i \in 1..Len(last.slots) : ~ InLunch(c, last.slots[i].from)
      /\ \A i, j \in 1..Len(last.slots) : i < j => last.slots[i].to <= last.slots[j].from
  BY <1>3, Zenon DEF DayInOrder
<1> QED
  BY <1>4, <1>5, <1>6, <1>7, Zenon

(* The grid: the slots of a day in order, whatever the day, and all of the *)
(* day's periods where one slot fits.                                      *)
LEMMA GridIsSound ==
  ASSUME NEW c \in TimeConfigs, c.duration > 0
  PROVE  LET slots == TimeGrid(c) IN
         /\ \A i, j \in DOMAIN slots :
              i < j /\ slots[i].day = slots[j].day => slots[i].to <= slots[j].from
         /\ \A i \in DOMAIN slots : ~ InLunch(c, slots[i].from)
         /\ Effective(c) >= c.duration =>
              /\ Len(slots) = WorkingDays(c) * Periods(c)
              /\ \A i \in DOMAIN slots : slots[i].to <= c.end
<1> DEFINE day == DaySlots(c)
           n == Len(day)
           total == WorkingDays(c) * n
           place(id) == ((id - 1) % n) + 1
           slots == TimeGrid(c)
<1>1. /\ day \in Seq(SlotTimes) /\ n \in Nat
      /\ \A i \in 1..n : ~ InLunch(c, day[i].from)
      /\ \A i, j \in 1..n : i < j => day[i].to <= day[j].from
      /\ Effective(c) >= c.duration =>
           n = Periods(c) /\ \A i \in 1..n : day[i].to <= c.end
  <2>1. day \in Seq(SlotTimes)
    BY DayIsComplete, Zenon
  <2>2. n \in Nat
    BY <2>1, LenProperties
  <2> QED
    BY <2>1, <2>2, DayIsComplete, Zenon
<1>a. n \in Nat
  BY <1>1
<1>2. WorkingDays(c) \in Nat
  BY DEF TimeConfigs, WorkingDays
<1>3. total \in Nat
  <2> HIDE DEF n
  <2> QED
    BY <1>1, <1>2
<1>4. slots = [id \in 1..total |->
                 [day |-> (id - 1) \div n, period |-> (id - 1) % n,
                  from |-> day[place(id)].from, to |-> day[place(id)].to]]
  BY Zenon DEF TimeGrid
<1>5. /\ DOMAIN slots = 1..total
      /\ \A id \in 1..total :
           slots[id].day = (id - 1) \div n /\ slots[id].from = day[place(id)].from
           /\ slots[id].to = day[place(id)].to
  <2> HIDE DEF day, slots, place, n, total
  <2> QED
    BY <1>4
<1>6. ASSUME NEW id \in 1..total
      PROVE  /\ id - 1 \in Nat /\ n > 0 /\ place(id) \in 1..n
             /\ id - 1 = n * ((id - 1) \div n) + (place(id) - 1)
  <2>1. n # 0
    <3>1. n = 0 => total = 0
      BY <1>2
    <3> HIDE DEF n, total
    <3> QED
      BY <3>1
  <2>2. id - 1 \in Nat /\ n > 0
    <3> HIDE DEF n, total
    <3> QED
      BY <2>1, <1>1, <1>3
  <2>3. /\ id - 1 = n * ((id - 1) \div n) + ((id - 1) % n)
        /\ (id - 1) % n \in Nat /\ (id - 1) % n < n
    <3> HIDE DEF n, total
    <3> QED
      BY <2>2, <1>1, Division
  <2>4. place(id) \in 1..n /\ place(id) - 1 = (id - 1) % n
    <3> DEFINE r == (id - 1) % n
    <3>1. r \in Nat /\ r < n /\ place(id) = r + 1
      BY <2>3
    <3> HIDE DEF n, total, place, r
    <3>2. place(id) \in 1..n /\ place(id) - 1 = r
      BY <3>1, <1>a
    <3> QED
      BY <3>2 DEF r
  <2> QED
    BY <2>2, <2>3, <2>4
<1> HIDE DEF day, slots, place, n, total
<1>7. ASSUME NEW i \in 1..total, NEW j \in 1..total, i < j, slots[i].day = slots[j].day
      PROVE  slots[i].to <= slots[j].from
  <2>1. (i - 1) \div n = (j - 1) \div n
    BY <1>5, <1>7
  <2> DEFINE base == n * ((i - 1) \div n)
  <2>2. i - 1 = base + (place(i) - 1) /\ place(i) \in 1..n
    BY <1>6
  <2>3. j - 1 = base + (place(j) - 1) /\ place(j) \in 1..n
    <3>1. j - 1 = n * ((j - 1) \div n) + (place(j) - 1) /\ place(j) \in 1..n
      BY <1>6
    <3> QED
      BY <3>1, <2>1, Zenon
  <2>4. base = i - place(i) /\ base = j - place(j)
    <3>1. base \in Int
      <4>1. i - 1 \in Nat /\ n > 0
        BY <1>6
      <4>2. (i - 1) \div n \in Nat
        BY <4>1, <1>1, Division
      <4> QED
        BY <4>2, <1>1
    <3>2. i \in Int /\ j \in Int /\ place(i) \in Int /\ place(j) \in Int
      BY <2>2, <2>3, <1>a, <1>3
    <3> HIDE DEF base
    <3> QED
      BY <3>1, <3>2, <2>2, <2>3
  <2>5. place(i) < place(j)
    <3> HIDE DEF base
    <3> QED
      BY <2>2, <2>3, <2>4, <1>1, <1>3, <1>7
  <2> QED
    BY <2>2, <2>3, <2>5, <1>1, <1>5
<1>8. ASSUME NEW id \in 1..total  PROVE ~ InLunch(c, slots[id].from)
  BY <1>1, <1>5, <1>6
<1>9. ASSUME Effective(c) >= c.duration
      PROVE  /\ Len(slots) = WorkingDays(c) * Periods(c)
             /\ \A id \in 1..total : slots[id].to <= c.end
  <2>1. Len(slots) = total
    BY <1>3, <1>4
  <2>2. total = WorkingDays(c) * Periods(c)
    BY <1>1, <1>9, Zenon DEF total
  <2>3. \A id \in 1..total : slots[id].to <= c.end
    BY <1>1, <1>5, <1>6, <1>9
  <2> QED
    BY <2>1, <2>2, <2>3
<1> QED
  BY <1>5, <1>7, <1>8, <1>9, Zenon DEF slots

(* Whatever is left of the times, a ceiling is a number.                   *)
LEMMA CeilingIsNat ==
  ASSUME NEW c \in TimeConfigs, NEW d \in Nat, d > 0
  PROVE  MaxSlots(c, d) \in Nat
<1> DEFINE at(time) == IF time \in c.seconds THEN 0 ELSE c[time]
           lunch == IF c.lunch /\ at("lunchEnd") > at("lunchStart")
                      THEN at("lunchEnd") - at("lunchStart") ELSE 0
           fits == (at("end") - at("start") - lunch) \div d
<1>1. /\ at("start") \in Nat /\ at("end") \in Nat
      /\ at("lunchStart") \in Nat /\ at("lunchEnd") \in Nat
  BY DEF TimeConfigs
<1>2. lunch \in Int
  <2> HIDE DEF at
  <2> QED
    BY <1>1
<1>3. fits \in Int
  <2> HIDE DEF at, lunch
  <2> QED
    BY <1>1, <1>2
<1>4. MaxSlots(c, d) = IF at("end") <= at("start") \/ fits < 1 THEN 1 ELSE fits
  BY Zenon DEF MaxSlots
<1> HIDE DEF at, lunch, fits
<1> QED
  BY <1>3, <1>4

(* With every time written HH:MM Django reads what the page reads.         *)
LEMMA LayersAgree ==
  ASSUME NEW c \in TimeConfigs, NEW d \in Nat, d > 0, c.seconds = {}
  PROVE  MaxSlots(c, d) = PageMaxSlots(c, d)
<1> DEFINE at(time) == IF time \in c.seconds THEN 0 ELSE c[time]
           lunch == IF c.lunch /\ at("lunchEnd") > at("lunchStart")
                      THEN at("lunchEnd") - at("lunchStart") ELSE 0
           fits == (at("end") - at("start") - lunch) \div d
<1>1. /\ at("start") = c.start /\ at("end") = c.end
      /\ at("lunchStart") = c.lunchStart /\ at("lunchEnd") = c.lunchEnd
  OBVIOUS
<1>2. MaxSlots(c, d) = IF at("end") <= at("start") \/ fits < 1 THEN 1 ELSE fits
  BY Zenon DEF MaxSlots
<1> HIDE DEF at
<1>3. lunch = LunchLength(c)
  BY <1>1, Zenon DEF LunchLength
<1> HIDE DEF lunch
<1>4. fits = Effective(c) \div d
  BY <1>1, <1>3, Zenon DEF Effective
<1> HIDE DEF fits
<1> QED
  BY <1>1, <1>2, <1>4, Zenon DEF PageMaxSlots

(* What becomes of a form: its slots get the default length, its periods a *)
(* ceiling, and the rest stays.                                            *)
LEMMA FormFacts ==
  ASSUME NEW c \in DayConfigs
  PROVE  LET d == DefaultConfig.duration
             most == MaxSlots(c, d)
             form == FromForm(c)
         IN  /\ c \in TimeConfigs /\ d \in Nat /\ d > 0 /\ c.wanted \in Nat
             /\ form \in TimeConfigs /\ form.duration = d
             /\ form.wanted = IF c.wanted < most THEN c.wanted ELSE most
             /\ Effective(form) = Effective(c)
             /\ WorkingDays(form) = WorkingDays(c)
<1> DEFINE d == DefaultConfig.duration
           most == MaxSlots(c, d)
           form == FromForm(c)
<1>1. c \in TimeConfigs /\ d \in Nat /\ d > 0 /\ c.wanted \in Nat
  BY ConfigsAssumption DEF TimeConfigs
<1>2. c = [days |-> c.days, wanted |-> c.wanted, start |-> c.start, end |-> c.end,
           duration |-> c.duration, lunch |-> c.lunch, lunchStart |-> c.lunchStart,
           lunchEnd |-> c.lunchEnd, seconds |-> c.seconds]
  BY <1>1 DEF TimeConfigs
<1>3. form = [c EXCEPT !.duration = d,
                       !.wanted = IF c.wanted < most THEN c.wanted ELSE most]
  BY Zenon DEF FromForm
<1>4. form = [days |-> c.days,
              wanted |-> IF c.wanted < most THEN c.wanted ELSE most,
              start |-> c.start, end |-> c.end, duration |-> d, lunch |-> c.lunch,
              lunchStart |-> c.lunchStart, lunchEnd |-> c.lunchEnd,
              seconds |-> c.seconds]
  <2> HIDE DEF form, most, d
  <2> QED
    BY <1>2, <1>3
<1>5. most \in Nat
  BY <1>1, CeilingIsNat, Zenon
<1> HIDE DEF form, most, d
<1>6. /\ form.duration = d
      /\ form.wanted = (IF c.wanted < most THEN c.wanted ELSE most)
      /\ form.start = c.start /\ form.end = c.end /\ form.lunch = c.lunch
      /\ form.lunchStart = c.lunchStart /\ form.lunchEnd = c.lunchEnd
      /\ form.days = c.days
  BY <1>4
<1>7. Effective(form) = Effective(c)
  <2>1. LunchLength(form) = LunchLength(c)
    BY <1>6, Zenon DEF LunchLength
  <2> QED
    BY <2>1, <1>6, Zenon DEF Effective
<1>8. WorkingDays(form) = WorkingDays(c)
  BY <1>6, Zenon DEF WorkingDays
<1>9. form \in TimeConfigs
  <2>1. (IF c.wanted < most THEN c.wanted ELSE most) \in Nat
    BY <1>1, <1>5
  <2> QED
    BY <1>1, <1>4, <2>1 DEF TimeConfigs
<1> QED
  BY <1>1, <1>6, <1>7, <1>8, <1>9, Zenon DEF form, most, d

(* The grid of a form with times HH:MM has the periods the page showed.    *)
LEMMA FormIsKept ==
  ASSUME NEW c \in DayConfigs, c.seconds = {}, Effective(c) >= DefaultConfig.duration
  PROVE  LET most == PageMaxSlots(c, DefaultConfig.duration)
         IN  /\ Len(TimeGrid(FromForm(c))) =
                   WorkingDays(c) * (IF c.wanted < most THEN c.wanted ELSE most)
             /\ Periods(FromForm(c)) = FromForm(c).wanted
<1> DEFINE d == DefaultConfig.duration
           fits == Effective(c) \div d
           most == PageMaxSlots(c, d)
           form == FromForm(c)
<1>1. /\ c \in TimeConfigs /\ d \in Nat /\ d > 0 /\ c.wanted \in Nat
      /\ form \in TimeConfigs /\ form.duration = d
      /\ Effective(form) = Effective(c) /\ WorkingDays(form) = WorkingDays(c)
  BY FormFacts, Zenon
<1>2. form.wanted = IF c.wanted < most THEN c.wanted ELSE most
  BY <1>1, FormFacts, LayersAgree, Zenon
<1>3. fits \in Int
  <2>1. Effective(c) \in Int
    <3>1. c.start \in Nat /\ c.end \in Nat
      BY <1>1 DEF TimeConfigs
    <3> QED
      BY <3>1, <1>1, LunchFacts DEF Effective
  <2> HIDE DEF d
  <2> QED
    BY <2>1, <1>1
<1>4. most = (IF c.end <= c.start \/ fits < 1 THEN 1 ELSE fits)
  BY Zenon DEF PageMaxSlots
<1>5. Periods(form) = IF form.wanted < (IF fits < 1 THEN 1 ELSE fits) THEN form.wanted
                      ELSE IF fits < 1 THEN 1 ELSE fits
  BY <1>1, Zenon DEF Periods
<1>6. Len(TimeGrid(form)) = WorkingDays(form) * Periods(form)
  <2>1. form.duration > 0 /\ Effective(form) >= form.duration
    BY <1>1, Zenon
  <2> QED
    BY <1>1, <2>1, GridIsSound, Zenon
<1> HIDE DEF form, most, fits, d
<1>7. Periods(form) = form.wanted
  BY <1>1, <1>2, <1>3, <1>4, <1>5
<1> QED
  BY <1>1, <1>2, <1>6, <1>7, Zenon DEF form, most, d

(* What has been fetched, and from which inputs.                           *)
DataInvariant ==
  /\ jd = [status |-> jd.status, pending |-> jd.pending, failed |-> jd.failed,
           rows |-> jd.rows, sections |-> jd.sections, config |-> jd.config,
           slots |-> jd.slots]
  /\ \/ jd.rows = <<>>
     \/ \E row \in OfferingRows : jd.rows = <<row>> /\ jd.sections = SectionsOf(row)
  /\ \/ jd.config = <<>> /\ jd.slots = <<>>
     \/ \E c \in ResolvedConfigs :
          /\ jd.config = <<c>>
          /\ jd.slots = IF c.duration = 0 THEN <<>> ELSE TimeGrid(c)

(* The fetches keep it: each of them writes its own part of the data.      *)
LEMMA DataStays == DataSpec => []DataInvariant
<1>1. DataInit => DataInvariant
  BY DEF DataInit, DataInvariant
<1>2. DataInvariant /\ [DataNext]_jd => DataInvariant'
  <2> SUFFICES ASSUME DataInvariant, [DataNext]_jd  PROVE DataInvariant'
    OBVIOUS
  <2>1. CASE FetchCourses
    BY <2>1 DEF FetchCourses, DataInvariant
  <2>2. CASE FetchTimeSlots
    BY <2>2 DEF FetchTimeSlots, DataInvariant
  <2>3. ASSUME NEW f, Fetched(f)  PROVE DataInvariant'
    BY <2>3 DEF Fetched, DataInvariant
  <2>4. CASE FetchFails
    BY <2>4 DEF FetchFails, DataInvariant
  <2>5. CASE DataLoaded
    BY <2>5 DEF DataLoaded, DataInvariant
  <2>6. CASE UNCHANGED jd
    BY <2>6 DEF DataInvariant
  <2> QED
    BY <2>1, <2>2, <2>3, <2>4, <2>5, <2>6
    DEF DataNext, FetchFaculty, FetchRooms, FetchStudents, FetchEnrollments
<1> QED
  BY <1>1, <1>2, PTL DEF DataSpec

(* A configuration of the form, of the database or by default is one.      *)
LEMMA ConfigsResolve == ResolvedConfigs \subseteq TimeConfigs
<1>1. ASSUME NEW c \in DayConfigs  PROVE FromForm(c) \in TimeConfigs
  BY FormFacts, Zenon
<1> QED
  BY <1>1, ConfigsAssumption DEF ResolvedConfigs

(* What the run states of a row and its sections.                          *)
LEMMA SectionsAreSound ==
  ASSUME NEW row \in OfferingRows, row.primary # NoFaculty
  PROVE  LET sections == SectionsOf(row) IN
         /\ \A k \in DOMAIN row.students :
              Cardinality(Copies(sections, row.students[k])) = 1
         /\ \A i, j \in DOMAIN sections :
              /\ Len(sections[i].students) <= SectionLimit
              /\ Len(sections[i].students) - Len(sections[j].students) <= 1
         /\ \A i \in DOMAIN sections :
              /\ sections[i].teacher # NoFaculty
              /\ \E k \in DOMAIN FacultyPool(row) :
                   FacultyPool(row)[k] = sections[i].teacher
<1> DEFINE sections == SectionsOf(row)
<1>1. \E n, size, rest : Split(row, sections, n, size, rest)
  <2>1. Len(row.students) \in Nat
    <3>1. row.students \in Seq({row.students[j] : j \in DOMAIN row.students})
      BY RowsAssumption DEF IsSequence
    <3> QED
      BY <3>1, LenProperties
  <2>2. Len(row.students) <= SectionLimit \/ Len(row.students) > SectionLimit
    BY <2>1, SectionLimitAssumption
  <2>3. CASE Len(row.students) <= SectionLimit
    BY <2>3, SmallIsSplit, Zenon
  <2>4. CASE Len(row.students) > SectionLimit
    BY <2>4, LargeIsSplit, Zenon
  <2> QED
    BY <2>2, <2>3, <2>4
<1> HIDE DEF sections
<1>2. PICK n, size, rest : Split(row, sections, n, size, rest)
  BY <1>1
<1>3. \A k \in DOMAIN row.students : Cardinality(Copies(sections, row.students[k])) = 1
  BY <1>2, OneCopyOfEach, Zenon
<1>4. DOMAIN sections = 1..n /\ size \in Nat
  BY <1>2 DEF Split
<1>5. ASSUME NEW i \in 1..n
      PROVE  /\ Len(sections[i].students) = size + (IF i - 1 < rest THEN 1 ELSE 0)
             /\ Len(sections[i].students) <= SectionLimit
  BY <1>2, SizeOfSection
<1>6. \A i, j \in 1..n :
        /\ Len(sections[i].students) <= SectionLimit
        /\ Len(sections[i].students) - Len(sections[j].students) <= 1
  BY <1>4, <1>5
<1>7. \A i \in 1..n :
        /\ sections[i].teacher # NoFaculty
        /\ \E k \in DOMAIN FacultyPool(row) : FacultyPool(row)[k] = sections[i].teacher
  BY <1>2, Zenon DEF Split
<1> QED
  BY <1>3, <1>4, <1>6, <1>7, Zenon DEF sections

(* The data every job is solved with is sound: each student of a split     *)
(* offering is in one section, none over the limit, each with a valid      *)
(* teacher; the slots of a day never overlap or begin in the break, and    *)
(* all its periods are there where one fits.                               *)
THEOREM JobDataStaysSound == DataSpec => []JobDataSound
<1>1. DataInvariant => SectionsSound
  <2> SUFFICES ASSUME DataInvariant  PROVE SectionsSound
    OBVIOUS
  <2>1. CASE jd.rows = <<>>
    BY <2>1 DEF SectionsSound
  <2>2. CASE \E row \in OfferingRows : jd.rows = <<row>> /\ jd.sections = SectionsOf(row)
    <3>1. PICK row \in OfferingRows : jd.rows = <<row>> /\ jd.sections = SectionsOf(row)
      BY <2>2
    <3>2. DOMAIN jd.rows = {1} /\ jd.rows[1] = row
      BY <3>1
    <3>3. ASSUME row.primary # NoFaculty
          PROVE /\ \A k \in DOMAIN row.students :
                     Cardinality(Copies(jd.sections, row.students[k])) = 1
                /\ \A i, j \in DOMAIN jd.sections :
                     /\ Len(jd.sections[i].students) <= SectionLimit
                     /\ Len(jd.sections[i].students) - Len(jd.sections[j].students) <= 1
                /\ \A i \in DOMAIN jd.sections :
                     /\ jd.sections[i].teacher # NoFaculty
                     /\ \E k \in DOMAIN FacultyPool(row) :
                          FacultyPool(row)[k] = jd.sections[i].teacher
      BY <3>1, <3>3, SectionsAreSound, Zenon
    <3>4. ASSUME NEW r \in DOMAIN jd.rows, jd.rows[r].primary # NoFaculty
          PROVE /\ \A k \in DOMAIN jd.rows[r].students :
                     Cardinality(Copies(jd.sections, jd.rows[r].students[k])) = 1
                /\ \A i, j \in DOMAIN jd.sections :
                     /\ Len(jd.sections[i].students) <= SectionLimit
                     /\ Len(jd.sections[i].students) - Len(jd.sections[j].students) <= 1
                /\ \A i \in DOMAIN jd.sections :
                     /\ jd.sections[i].teacher # NoFaculty
                     /\ \E k \in DOMAIN FacultyPool(jd.rows[r]) :
                          FacultyPool(jd.rows[r])[k] = jd.sections[i].teacher
      <4>1. jd.rows[r] = row
        BY <3>2, <3>4, Zenon
      <4> QED
        BY <4>1, <3>3, <3>4, Zenon
    <3> QED
      BY <3>4, Zenon DEF SectionsSound, Copies
  <2> QED
    BY <2>1, <2>2 DEF DataInvariant
<1>2. DataInvariant => GridSound
  <2> SUFFICES ASSUME DataInvariant  PROVE GridSound
    OBVIOUS
  <2>1. CASE jd.config = <<>>
    BY <2>1 DEF GridSound
  <2>2. CASE \E c \in ResolvedConfigs :
               /\ jd.config = <<c>>
               /\ jd.slots = IF c.duration = 0 THEN <<>> ELSE TimeGrid(c)
    <3>1. PICK c \in ResolvedConfigs :
               /\ jd.config = <<c>>
               /\ jd.slots = IF c.duration = 0 THEN <<>> ELSE TimeGrid(c)
      BY <2>2
    <3>2. DOMAIN jd.config = {1} /\ jd.config[1] = c
      BY <3>1
    <3>3. c \in TimeConfigs /\ c.duration \in Nat
      BY ConfigsResolve DEF TimeConfigs
    <3>4. /\ \A i, j \in DOMAIN jd.slots :
               i < j /\ jd.slots[i].day = jd.slots[j].day => jd.slots[i].to <= jd.slots[j].from
          /\ \A i \in DOMAIN jd.slots : ~InLunch(c, jd.slots[i].from)
          /\ c.duration > 0 /\ Effective(c) >= c.duration =>
               /\ Len(jd.slots) = WorkingDays(c) * Periods(c)
               /\ \A i \in DOMAIN jd.slots : jd.slots[i].to <= c.end
      <4>1. CASE c.duration = 0
        <5>1. DOMAIN jd.slots = {} /\ ~ (c.duration > 0)
          BY <3>1, <4>1
        <5> QED
          BY <5>1, Zenon
      <4>2. CASE c.duration # 0
        <5>1. c.duration > 0 /\ jd.slots = TimeGrid(c)
          BY <3>1, <3>3, <4>2
        <5> QED
          BY <5>1, <3>3, GridIsSound, Zenon
      <4> QED
        BY <4>1, <4>2
    <3> QED
      BY <3>2, <3>4, Zenon DEF GridSound
  <2> QED
    BY <2>1, <2>2 DEF DataInvariant
<1>3. DataInvariant => FormsKept
  <2> SUFFICES ASSUME DataInvariant, NEW c \in DayConfigs, c.seconds = {},
                      NEW k \in DOMAIN jd.config, jd.config[k] = FromForm(c),
                      Effective(c) >= DefaultConfig.duration
               PROVE  LET most == PageMaxSlots(c, DefaultConfig.duration)
                      IN /\ Len(jd.slots) =
                               WorkingDays(c) * (IF c.wanted < most THEN c.wanted ELSE most)
                         /\ Periods(FromForm(c)) = FromForm(c).wanted
    BY Zenon DEF FormsKept, FormKept
  <2>1. jd.config # <<>>
    OBVIOUS
  <2>2. PICK f \in ResolvedConfigs :
               /\ jd.config = <<f>>
               /\ jd.slots = IF f.duration = 0 THEN <<>> ELSE TimeGrid(f)
    BY <2>1 DEF DataInvariant
  <2>3. f = FromForm(c)
    BY <2>2
  <2>4. f.duration # 0
    <3>1. FromForm(c).duration = DefaultConfig.duration
          /\ DefaultConfig.duration \in Nat /\ DefaultConfig.duration > 0
      BY FormFacts, Zenon
    <3>2. f.duration \in Nat /\ f.duration > 0
      BY <2>3, <3>1, Zenon
    <3> QED
      BY <3>2
  <2>5. jd.slots = TimeGrid(FromForm(c))
    BY <2>2, <2>3, <2>4, Zenon
  <2> QED
    BY <2>5, FormIsKept, Zenon
<1>4. DataInvariant => JobDataSound
  BY <1>1, <1>2, <1>3 DEF JobDataSound
<1> QED
  BY <1>4, DataStays, PTL
=============================================================================
