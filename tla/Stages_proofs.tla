--------------------------- MODULE Stages_proofs ---------------------------
(***************************************************************************)
(* The stages a generation passes through before and after its solvers,    *)
(* for any sizes of their inputs: the clusters of the courses              *)
(* (ClusteringSound), the overlap graph of the offerings                   *)
(* (OverlapGraphSound), the choice of a class's rooms (RoomDomainSound),   *)
(* the learned table (QTableBounded) and the report of a variant's         *)
(* conflicts (FacultyClashesReported).  Each part has an inductive         *)
(* invariant saying what the stage has stored and from which inputs; what  *)
(* the stored answers mean is then a fact about the model's operators.     *)
(***************************************************************************)
EXTENDS Clustering, ConflictGraph, RoomDomain, QLearning, VariantReports,
        FiniteSetTheorems, NaturalsInduction, WellFoundedInduction, TLAPS

-----------------------------------------------------------------------------
(* The clusters of the courses.                                            *)

LEMMA Quotient ==
  ASSUME NEW r \in Nat, NEW q \in Nat, NEW size \in Nat, size > 0
  PROVE  /\ r \div size \in Nat /\ r \div size <= r
         /\ q * size \in Nat /\ (r \div size) * size <= r
         /\ r \div size = q <=> q * size <= r /\ r < q * size + size
<1> DEFINE d == r \div size
           m == r % size
<1>1. d \in Nat /\ m \in Nat /\ r = d * size + m /\ m < size
  OBVIOUS
<1>2. q * size \in Nat /\ d * size \in Nat
  BY <1>1
<1>3. d < q => d * size + size <= q * size
  <2>1. ASSUME NEW a \in Nat, NEW b \in Nat, a <= b  PROVE a * size <= b * size
    BY <2>1
  <2>2. d < q => (d + 1) * size <= q * size
    BY <2>1, <1>1
  <2> QED
    BY <2>2, <1>1
<1>4. q < d => q * size + size <= d * size
  <2>1. ASSUME NEW a \in Nat, NEW b \in Nat, a <= b  PROVE a * size <= b * size
    BY <2>1
  <2>2. q < d => (q + 1) * size <= d * size
    BY <2>1, <1>1
  <2> QED
    BY <2>2, <1>1
<1>5. d <= d * size
  BY <1>1
<1> HIDE DEF d, m
<1>6. /\ d \in Nat /\ d <= r /\ q * size \in Nat /\ d * size <= r
      /\ d = q <=> q * size <= r /\ r < q * size + size
  BY <1>1, <1>2, <1>3, <1>4, <1>5
<1> QED
  BY <1>6 DEF d

(* A list of courses and the place each has in it.                         *)
CourseList(f, list, n) ==
  n \in Nat /\ list \subseteq 1..n /\ \A c \in list : f[c] \in Nat

LEMMA OrderOfList ==
  ASSUME NEW f, NEW list, NEW n, CourseList(f, list, n)
  PROVE  /\ \A b, c \in list : b # c => ComesBefore(f, b, c) \/ ComesBefore(f, c, b)
         /\ \A b \in list : ~ ComesBefore(f, b, b)
         /\ \A a, b, c \in list :
              ComesBefore(f, a, b) /\ ComesBefore(f, b, c) => ComesBefore(f, a, c)
<1>1. \A c \in list : c \in Nat /\ f[c] \in Nat
  BY DEF CourseList
<1> QED
  BY <1>1 DEF ComesBefore

(* The places are those from 0 to the length, each taken once.             *)
LEMMA PlacesOfList ==
  ASSUME NEW f, NEW list, NEW n, CourseList(f, list, n)
  PROVE  /\ IsFiniteSet(list) /\ Cardinality(list) \in Nat
         /\ [c \in list |-> IndexIn(f, list, c)]
              \in Bijection(list, 0..(Cardinality(list) - 1))
<1> DEFINE before(c) == {b \in list : ComesBefore(f, b, c)}
           N == Cardinality(list)
           places == 0..(N - 1)
           g == [c \in list |-> IndexIn(f, list, c)]
<1>1. IsFiniteSet(list) /\ N \in Nat
  <2>1. IsFiniteSet(1..n)
    BY FS_Interval DEF CourseList
  <2>2. IsFiniteSet(list)
    BY <2>1, FS_Subset DEF CourseList
  <2> QED
    BY <2>2, FS_CardinalityType
<1>2. ASSUME NEW c \in list
      PROVE  /\ IsFiniteSet(before(c)) /\ IndexIn(f, list, c) = Cardinality(before(c))
             /\ Cardinality(before(c)) \in Nat /\ Cardinality(before(c)) < N
  <2>1. before(c) \subseteq list \ {c}
    BY OrderOfList
  <2>2. IsFiniteSet(list \ {c}) /\ Cardinality(list \ {c}) = N - 1
    BY <1>1, FS_RemoveElement
  <2>3. IsFiniteSet(before(c)) /\ Cardinality(before(c)) <= N - 1
    BY <2>1, <2>2, FS_Subset
  <2>4. Cardinality(before(c)) \in Nat
    BY <2>3, FS_CardinalityType
  <2> HIDE DEF N
  <2> QED
    BY <2>3, <2>4, <1>1 DEF IndexIn
<1>3. ASSUME NEW b \in list, NEW c \in list, ComesBefore(f, b, c)
      PROVE  IndexIn(f, list, b) < IndexIn(f, list, c)
  <2>1. before(b) \union {b} \subseteq before(c)
    BY <1>3, OrderOfList
  <2>2. b \notin before(b)
    BY OrderOfList
  <2>3. Cardinality(before(b) \union {b}) = Cardinality(before(b)) + 1
    BY <1>2, <2>2, FS_AddElement
  <2>4. Cardinality(before(b) \union {b}) <= Cardinality(before(c))
    BY <1>2, <2>1, FS_Subset
  <2> HIDE DEF before
  <2> QED
    BY <1>2, <2>3, <2>4
<1>4. g \in Injection(list, places)
  <2>1. \A c \in list : IndexIn(f, list, c) \in places
    <3> HIDE DEF N, before
    <3> QED
      BY <1>1, <1>2
  <2>2. \A b, c \in list : IndexIn(f, list, b) = IndexIn(f, list, c) => b = c
    <3> SUFFICES ASSUME NEW b \in list, NEW c \in list, b # c
                 PROVE  IndexIn(f, list, b) # IndexIn(f, list, c)
      OBVIOUS
    <3>1. /\ IndexIn(f, list, b) \in Nat /\ IndexIn(f, list, c) \in Nat
          /\ \/ IndexIn(f, list, b) < IndexIn(f, list, c)
             \/ IndexIn(f, list, c) < IndexIn(f, list, b)
      <4> HIDE DEF before
      <4> QED
        BY <1>2, <1>3, OrderOfList
    <3> QED
      BY <3>1
  <2> HIDE DEF places
  <2> QED
    BY <2>1, <2>2 DEF Injection, IsInjective
<1>5. IsFiniteSet(places) /\ Cardinality(places) = N
  <2>1. N - 1 \in Int
    BY <1>1
  <2>2. IsFiniteSet(places) /\ Cardinality(places) = IF 0 > N - 1 THEN 0 ELSE (N - 1) - 0 + 1
    BY <2>1, FS_Interval
  <2> HIDE DEF N, places
  <2> QED
    BY <2>2, <1>1
<1>6. g \in Surjection(list, places)
  <2> HIDE DEF g, places
  <2> QED
    BY <1>4, <1>5, FS_Injection
<1> QED
  BY <1>1, <1>4, <1>6 DEF Bijection

(* How many courses a piece has.                                           *)
LEMMA SizeOfPiece ==
  ASSUME NEW f, NEW list, NEW n, CourseList(f, list, n),
         NEW size \in Nat, size > 0, NEW q \in Nat,
         q * size < Cardinality(list)
  PROVE  LET piece == {c \in list : IndexIn(f, list, c) \div size = q}
         IN  /\ Cardinality(piece) \in 1..size
             /\ q * size + size <= Cardinality(list) => Cardinality(piece) = size
<1> DEFINE N == Cardinality(list)
           piece == {c \in list : IndexIn(f, list, c) \div size = q}
           last == IF q * size + size <= N THEN q * size + size - 1 ELSE N - 1
           g == [c \in list |-> IndexIn(f, list, c)]
           h == [c \in piece |-> IndexIn(f, list, c)]
           T == (q * size)..last
<1>1. /\ IsFiniteSet(list) /\ N \in Nat /\ g \in Bijection(list, 0..(N - 1))
  BY PlacesOfList
<1>2. /\ \A c \in list : IndexIn(f, list, c) \in 0..(N - 1)
      /\ \A b, c \in list : IndexIn(f, list, b) = IndexIn(f, list, c) => b = c
      /\ \A r \in 0..(N - 1) : \E c \in list : IndexIn(f, list, c) = r
  <2> DEFINE places == 0..(N - 1)
  <2>1. g \in Bijection(list, places)
    BY <1>1
  <2> HIDE DEF places
  <2>2. /\ \A c \in list : g[c] \in places
        /\ \A b, c \in list : g[b] = g[c] => b = c
        /\ \A r \in places : \E c \in list : g[c] = r
    <3> HIDE DEF g
    <3> QED
      BY <2>1 DEF Bijection, Injection, Surjection, IsInjective
  <2> QED
    BY <2>2 DEF places
<1>3. q * size \in Nat
  BY Quotient
<1>4. \A r \in 0..(N - 1) : r \div size = q <=> r \in T
  <2> SUFFICES ASSUME NEW r \in 0..(N - 1)  PROVE r \div size = q <=> r \in T
    OBVIOUS
  <2>1. r \in Nat /\ r <= N - 1
    BY <1>1
  <2>2. r \div size = q <=> q * size <= r /\ r < q * size + size
    BY <2>1, Quotient
  <2> DEFINE qs == q * size
             d == r \div size
  <2> HIDE DEF N, qs, d
  <2>3. d = q <=> qs <= r /\ r < qs + size
    BY <2>2 DEF qs, d
  <2>4. qs \in Nat
    BY <1>3 DEF qs
  <2>5. d = q <=> r \in qs..(IF qs + size <= N THEN qs + size - 1 ELSE N - 1)
    BY <1>1, <2>1, <2>3, <2>4
  <2> QED
    BY <2>5 DEF d, qs
<1>5. last \in Int /\ T \subseteq 0..(N - 1)
  <2> DEFINE qs == q * size
  <2> HIDE DEF N, qs
  <2>1. qs \in Nat
    BY <1>3 DEF qs
  <2>2. /\ (IF qs + size <= N THEN qs + size - 1 ELSE N - 1) \in Int
        /\ qs..(IF qs + size <= N THEN qs + size - 1 ELSE N - 1) \subseteq 0..(N - 1)
    BY <1>1, <2>1
  <2> QED
    BY <2>2 DEF qs
<1>6. h \in Bijection(piece, T)
  <2> HIDE DEF T, N
  <2>1. \A c \in piece : c \in list /\ IndexIn(f, list, c) \in T
    BY <1>2, <1>4
  <2>2. \A r \in T : \E c \in piece : IndexIn(f, list, c) = r
    BY <1>2, <1>4, <1>5
  <2> HIDE DEF piece
  <2> QED
    BY <1>2, <2>1, <2>2 DEF Bijection, Injection, Surjection, IsInjective
<1>7. IsFiniteSet(piece)
  BY <1>1, FS_Subset
<1>8. Cardinality(T) = Cardinality(piece)
  <2> HIDE DEF h, T, piece
  <2>1. ExistsBijection(piece, T)
    BY <1>6 DEF ExistsBijection
  <2> QED
    BY <1>7, <2>1, FS_Bijection
<1>9. Cardinality(T) = IF q * size > last THEN 0 ELSE last - q * size + 1
  <2> HIDE DEF last
  <2> QED
    BY <1>3, <1>5, FS_Interval
<1>10. /\ Cardinality(T) \in 1..size
       /\ q * size + size <= N => Cardinality(T) = size
  <2> DEFINE qs == q * size
             card == Cardinality(T)
  <2>1. card = IF qs > last THEN 0 ELSE last - qs + 1
    BY <1>9
  <2>2. last = IF qs + size <= N THEN qs + size - 1 ELSE N - 1
    OBVIOUS
  <2>3. qs \in Nat /\ qs < N
    BY <1>3
  <2> HIDE DEF qs, N, card, last
  <2>4. card \in 1..size /\ (qs + size <= N => card = size)
    BY <1>1, <2>1, <2>2, <2>3
  <2> QED
    BY <2>4 DEF qs, card
<1> QED
  BY <1>8, <1>10

(* Every course of the list is in exactly one of the clusters, and these   *)
(* hold nothing else.                                                      *)
Covers(clusters, list) ==
  /\ \A a \in clusters : a.courses \subseteq list
  /\ \A c \in list : \E a \in clusters :
       c \in a.courses /\ \A b \in clusters : c \in b.courses => b = a

WithinSize(clusters, size) == \A a \in clusters : Cardinality(a.courses) \in 1..size

LEMMA PiecesCover ==
  ASSUME NEW f, NEW list, NEW n, CourseList(f, list, n),
         NEW size \in Nat, size > 0, NEW k
  PROVE  /\ Covers(CutIntoPieces(f, list, size, k), list)
         /\ WithinSize(CutIntoPieces(f, list, size, k), size)
         /\ \A a \in CutIntoPieces(f, list, size, k) :
              /\ a.piece * size + size \in Nat
              /\ a.piece * size + size <= Cardinality(list)
                   => Cardinality(a.courses) = size
<1> DEFINE cut == CutIntoPieces(f, list, size, k)
           part(q) == {c \in list : IndexIn(f, list, c) \div size = q}
           cluster(q) == [of |-> k, piece |-> q, courses |-> part(q)]
           qs == Pieces(Cardinality(list), size)
<1>1. cut = {cluster(q) : q \in qs}
  BY DEF CutIntoPieces
<1>2. /\ Cardinality(list) \in Nat
      /\ \A c \in list : IndexIn(f, list, c) \in 0..(Cardinality(list) - 1)
  <2> DEFINE places == 0..(Cardinality(list) - 1)
             g == [c \in list |-> IndexIn(f, list, c)]
  <2>1. Cardinality(list) \in Nat /\ g \in Bijection(list, places)
    BY PlacesOfList
  <2> HIDE DEF places
  <2>2. \A c \in list : g[c] \in places
    <3> HIDE DEF g
    <3> QED
      BY <2>1 DEF Bijection, Injection
  <2> QED
    BY <2>1, <2>2 DEF places
<1>3. \A q \in qs : q \in Nat /\ q * size < Cardinality(list)
  BY <1>2 DEF Pieces
<1>4. ASSUME NEW c \in list  PROVE IndexIn(f, list, c) \div size \in qs
  <2> DEFINE i == IndexIn(f, list, c)
             d == i \div size
             N == Cardinality(list)
  <2>1. i \in Nat /\ i < N /\ N \in Nat
    BY <1>2
  <2>2. d \in Nat /\ d <= i /\ d * size \in Nat /\ d * size <= i
    <3> HIDE DEF i
    <3> QED
      BY <2>1, Quotient
  <2>3. d \in 0..N /\ d * size < N
    <3> DEFINE ds == d * size
    <3> HIDE DEF d, i, N, ds
    <3>1. ds \in Nat /\ ds <= i
      BY <2>2 DEF ds
    <3>2. d \in 0..N /\ ds < N
      BY <2>1, <2>2, <3>1
    <3> QED
      BY <3>2 DEF ds
  <2> QED
    BY <2>3 DEF Pieces
<1>5. Covers(cut, list)
  <2>1. ASSUME NEW a \in cut  PROVE a.courses \subseteq list
    BY <1>1
  <2>2. ASSUME NEW c \in list
        PROVE  \E a \in cut : c \in a.courses /\ \A b \in cut : c \in b.courses => b = a
    <3> DEFINE d == IndexIn(f, list, c) \div size
    <3>1. cluster(d) \in cut
      BY <1>1, <1>4
    <3>2. c \in cluster(d).courses
      OBVIOUS
    <3>3. ASSUME NEW b \in cut, c \in b.courses  PROVE b = cluster(d)
      <4>1. PICK q \in qs : b = cluster(q)
        BY <1>1
      <4>2. c \in part(q)
        BY <3>3, <4>1
      <4>3. q = d
        BY <4>2
      <4> QED
        BY <4>1, <4>3
    <3> HIDE DEF cluster, cut
    <3> QED
      BY <3>1, <3>2, <3>3
  <2> HIDE DEF cut
  <2> QED
    BY <2>1, <2>2 DEF Covers
<1>6. ASSUME NEW a \in cut
      PROVE  /\ Cardinality(a.courses) \in 1..size
             /\ a.piece * size + size \in Nat
             /\ a.piece * size + size <= Cardinality(list) => Cardinality(a.courses) = size
  <2>1. PICK q \in qs : a = cluster(q)
    BY <1>1
  <2>2. a.piece = q /\ a.courses = part(q)
    BY <2>1
  <2>3. /\ Cardinality(part(q)) \in 1..size
        /\ q * size + size <= Cardinality(list) => Cardinality(part(q)) = size
    BY <1>3, SizeOfPiece
  <2>4. q * size + size \in Nat
    BY <1>3
  <2> HIDE DEF part, cut
  <2> QED
    BY <2>2, <2>3, <2>4
<1> HIDE DEF cut
<1>7. /\ Covers(cut, list) /\ WithinSize(cut, size)
      /\ \A a \in cut : /\ a.piece * size + size \in Nat
                        /\ a.piece * size + size <= Cardinality(list)
                             => Cardinality(a.courses) = size
  BY <1>5, <1>6 DEF WithinSize
<1> QED
  BY <1>7 DEF cut

(* Two parts that share no course cover what both cover.                   *)
LEMMA CoversBoth ==
  ASSUME NEW A, NEW B, NEW S, NEW T, Covers(A, S), Covers(B, T), S \intersect T = {}
  PROVE  Covers(A \union B, S \union T)
<1>1. \A a \in A \union B : a.courses \subseteq S \union T
  BY DEF Covers
<1>2. ASSUME NEW c \in S
      PROVE  \E a \in A \union B :
               c \in a.courses /\ \A b \in A \union B : c \in b.courses => b = a
  <2>1. PICK a \in A : c \in a.courses /\ \A b \in A : c \in b.courses => b = a
    BY DEF Covers
  <2>2. \A b \in B : c \notin b.courses
    BY DEF Covers
  <2> QED
    BY <2>1, <2>2
<1>3. ASSUME NEW c \in T
      PROVE  \E a \in A \union B :
               c \in a.courses /\ \A b \in A \union B : c \in b.courses => b = a
  <2>1. PICK a \in B : c \in a.courses /\ \A b \in B : c \in b.courses => b = a
    BY DEF Covers
  <2>2. \A b \in A : c \notin b.courses
    BY DEF Covers
  <2> QED
    BY <2>1, <2>2
<1>4. \A c \in S \union T : \E a \in A \union B :
        c \in a.courses /\ \A b \in A \union B : c \in b.courses => b = a
  BY <1>2, <1>3
<1> QED
  BY <1>1, <1>4, Zenon DEF Covers

SizeConstants ==
  /\ MaxGraphWorkers \in Nat /\ MaxGraphWorkers > 0
  /\ TargetSize \in Nat /\ TargetSize > 0 /\ MinSize \in Nat /\ MinSize > 0
  /\ MergeSize \in Nat /\ MergeSize > 0 /\ ChunkSize \in Nat /\ ChunkSize > 0
  /\ MaxSize \in Nat /\ MaxSize > 0
  /\ MinSize <= ChunkSize /\ ChunkSize <= MaxSize /\ MergeSize <= MaxSize
  /\ MinSize <= MaxSize /\ TargetSize <= MaxSize

LEMMA SizesArePositive == SizeConstants
  BY SizesAssumption DEF SizeConstants

(* The communities of n courses.                                           *)
CommunitiesOf(f, n) == n \in Nat /\ f \in [1..n -> Nat \ {0}]

LEMMA CommunityIsList ==
  ASSUME NEW f, NEW n, CommunitiesOf(f, n), NEW list, list \subseteq 1..n
  PROVE  CourseList(f, list, n)
  BY DEF CommunitiesOf, CourseList

(* No piece of a large community is dropped: one that is too small can     *)
(* only be the last.                                                       *)
LEMMA SplitDropsNothing ==
  ASSUME NEW f, NEW n, CommunitiesOf(f, n), NEW k
  PROVE  SplitLarge(f, k) = CutIntoPieces(f, Community(f, k), ChunkSize, k)
<1> DEFINE list == Community(f, k)
           cut == CutIntoPieces(f, list, ChunkSize, k)
<1>1. list \subseteq 1..n
  BY DEF Community, CommunitiesOf
<1>2. CourseList(f, list, n)
  BY <1>1, CommunityIsList
<1>3. Cardinality(list) \in Nat
  BY <1>2, PlacesOfList
<1>4. ChunkSize \in Nat /\ ChunkSize > 0 /\ MinSize \in Nat /\ MinSize <= ChunkSize
  BY SizesArePositive DEF SizeConstants
<1>5. \A a \in cut :
        /\ a.piece * ChunkSize + ChunkSize \in Nat
        /\ a.piece * ChunkSize + ChunkSize <= Cardinality(list)
             => Cardinality(a.courses) = ChunkSize
  <2> HIDE DEF list
  <2> QED
    BY <1>2, <1>4, PiecesCover
<1>6. ASSUME NEW a \in cut
      PROVE  \/ Cardinality(a.courses) >= MinSize
             \/ a.piece * ChunkSize + ChunkSize >= Cardinality(list)
  <2> DEFINE ends == a.piece * ChunkSize + ChunkSize
             total == Cardinality(list)
             card == Cardinality(a.courses)
  <2>1. ends \in Nat /\ (ends <= total => card = ChunkSize)
    BY <1>5
  <2> HIDE DEF ends, total, card, cut
  <2>2. total \in Nat
    BY <1>3 DEF total
  <2>3. card >= MinSize \/ ends >= total
    BY <1>4, <2>1, <2>2
  <2> QED
    BY <2>3 DEF ends, total, card
<1> QED
  BY <1>6 DEF SplitLarge

LEMMA WiderSize ==
  ASSUME NEW A, NEW s \in Nat, NEW t \in Nat, s <= t, WithinSize(A, s)
  PROVE  WithinSize(A, t)
  BY DEF WithinSize

CoursesIn(f, K) == {c \in DOMAIN f : f[c] \in K}

(* Splitting the large communities.                                        *)
LEMMA LargeOnesCovered ==
  ASSUME NEW f, NEW n, CommunitiesOf(f, n)
  PROVE  LET large == UNION {SplitLarge(f, k) : k \in LargeOnes(f)}
         IN  Covers(large, CoursesIn(f, LargeOnes(f))) /\ WithinSize(large, MaxSize)
<1> DEFINE large == UNION {SplitLarge(f, k) : k \in LargeOnes(f)}
<1>1. ASSUME NEW k
      PROVE  Covers(SplitLarge(f, k), Community(f, k)) /\ WithinSize(SplitLarge(f, k), MaxSize)
  <2> DEFINE list == Community(f, k)
  <2>1. list \subseteq 1..n
    BY DEF Community, CommunitiesOf
  <2>2. CourseList(f, list, n)
    BY <2>1, CommunityIsList
  <2>3. ChunkSize \in Nat /\ ChunkSize > 0 /\ MaxSize \in Nat /\ ChunkSize <= MaxSize
    BY SizesArePositive DEF SizeConstants
  <2> HIDE DEF list
  <2>4. /\ Covers(CutIntoPieces(f, list, ChunkSize, k), list)
        /\ WithinSize(CutIntoPieces(f, list, ChunkSize, k), ChunkSize)
    BY <2>2, <2>3, PiecesCover
  <2>5. WithinSize(CutIntoPieces(f, list, ChunkSize, k), MaxSize)
    BY <2>3, <2>4, WiderSize
  <2> QED
    BY <2>4, <2>5, SplitDropsNothing DEF list
<1>2. \A a \in large : \E k \in LargeOnes(f) : a \in SplitLarge(f, k)
  OBVIOUS
<1>3. \A k \in LargeOnes(f) : \A a \in SplitLarge(f, k) : a \in large
  OBVIOUS
<1> HIDE DEF large
<1>4. WithinSize(large, MaxSize)
  BY <1>1, <1>2 DEF WithinSize
<1>5. \A a \in large : a.courses \subseteq CoursesIn(f, LargeOnes(f))
  BY <1>1, <1>2 DEF Covers, CoursesIn, Community
<1>6. ASSUME NEW c \in CoursesIn(f, LargeOnes(f))
      PROVE  \E a \in large : c \in a.courses /\ \A b \in large : c \in b.courses => b = a
  <2>1. f[c] \in LargeOnes(f) /\ c \in Community(f, f[c])
    BY DEF CoursesIn, Community
  <2>2. PICK a \in SplitLarge(f, f[c]) :
          c \in a.courses /\ \A b \in SplitLarge(f, f[c]) : c \in b.courses => b = a
    BY <1>1, <2>1 DEF Covers
  <2>3. ASSUME NEW b \in large, c \in b.courses  PROVE b = a
    <3>1. PICK k \in LargeOnes(f) : b \in SplitLarge(f, k)
      BY <1>2
    <3>2. c \in Community(f, k)
      BY <1>1, <2>3, <3>1 DEF Covers
    <3>3. k = f[c]
      BY <3>2 DEF Community
    <3> QED
      BY <2>2, <2>3, <3>1, <3>3
  <2> QED
    BY <1>3, <2>1, <2>2, <2>3
<1>7. Covers(large, CoursesIn(f, LargeOnes(f)))
  BY <1>5, <1>6 DEF Covers
<1> QED
  BY <1>4, <1>7 DEF large

(* Keeping those of a fitting size.                                        *)
LEMMA KeptOnesCovered ==
  ASSUME NEW f, NEW n, CommunitiesOf(f, n)
  PROVE  /\ Covers(KeptOnes(f),
                   CoursesIn(f, Communities(f) \ (LargeOnes(f) \union SmallOnes(f))))
         /\ WithinSize(KeptOnes(f), MaxSize)
<1> DEFINE K == Communities(f) \ (LargeOnes(f) \union SmallOnes(f))
           whole(k) == [of |-> k, piece |-> 0, courses |-> Community(f, k)]
<1>1. KeptOnes(f) = {whole(k) : k \in K}
  BY DEF KeptOnes
<1>2. ASSUME NEW k \in K  PROVE Cardinality(Community(f, k)) \in 1..MaxSize
  <2> DEFINE list == Community(f, k)
             card == Cardinality(list)
  <2>1. list \subseteq 1..n
    BY DEF Community, CommunitiesOf
  <2>2. CourseList(f, list, n)
    BY <2>1, CommunityIsList
  <2>3. card \in Nat
    <3> HIDE DEF list
    <3> QED
      BY <2>2, PlacesOfList
  <2>4. ~ (card > MaxSize) /\ ~ (card < MinSize)
    BY DEF LargeOnes, SmallOnes
  <2>5. MinSize \in Nat /\ MinSize > 0 /\ MaxSize \in Nat
    BY SizesArePositive DEF SizeConstants
  <2> HIDE DEF card
  <2>6. card \in 1..MaxSize
    BY <2>3, <2>4, <2>5
  <2> QED
    BY <2>6 DEF card
<1>3. WithinSize(KeptOnes(f), MaxSize)
  BY <1>1, <1>2 DEF WithinSize
<1>4. \A a \in KeptOnes(f) : a.courses \subseteq CoursesIn(f, K)
  BY <1>1 DEF CoursesIn, Community
<1>5. ASSUME NEW c \in CoursesIn(f, K)
      PROVE  \E a \in KeptOnes(f) :
               c \in a.courses /\ \A b \in KeptOnes(f) : c \in b.courses => b = a
  <2>1. f[c] \in K /\ c \in Community(f, f[c])
    BY DEF CoursesIn, Community
  <2>2. whole(f[c]) \in KeptOnes(f) /\ c \in whole(f[c]).courses
    <3>1. whole(f[c]) \in {whole(k) : k \in K}
      <4> HIDE DEF K
      <4> QED
        BY <2>1
    <3> QED
      BY <1>1, <2>1, <3>1
  <2>3. ASSUME NEW b \in KeptOnes(f), c \in b.courses  PROVE b = whole(f[c])
    <3>1. PICK k \in K : b = whole(k)
      BY <1>1
    <3>2. c \in Community(f, k)
      BY <2>3, <3>1
    <3>3. k = f[c]
      BY <3>2 DEF Community
    <3> QED
      BY <3>1, <3>3
  <2> HIDE DEF whole
  <2> QED
    BY <2>2, <2>3
<1> HIDE DEF K
<1>6. Covers(KeptOnes(f), CoursesIn(f, K))
  BY <1>4, <1>5 DEF Covers
<1> QED
  BY <1>3, <1>6 DEF K

(* Merging the small ones; together the three parts are all courses.       *)
LEMMA OptimizedCover ==
  ASSUME NEW f, NEW n, CommunitiesOf(f, n)
  PROVE  Covers(OptimizeClusterSizes(f), 1..n) /\ WithinSize(OptimizeClusterSizes(f), MaxSize)
<1> DEFINE large == UNION {SplitLarge(f, k) : k \in LargeOnes(f)}
           kept == KeptOnes(f)
           merged == CutIntoPieces(f, SmallCourses(f), MergeSize, 0)
           K == Communities(f) \ (LargeOnes(f) \union SmallOnes(f))
           inLarge == CoursesIn(f, LargeOnes(f))
           inKept == CoursesIn(f, K)
<1>1. OptimizeClusterSizes(f) = (large \union kept) \union merged
  BY DEF OptimizeClusterSizes
<1>2. SmallCourses(f) \subseteq 1..n
  BY DEF SmallCourses, CommunitiesOf
<1>3. Covers(merged, SmallCourses(f)) /\ WithinSize(merged, MaxSize)
  <2>1. CourseList(f, SmallCourses(f), n)
    BY <1>2, CommunityIsList
  <2>2. MergeSize \in Nat /\ MergeSize > 0 /\ MaxSize \in Nat /\ MergeSize <= MaxSize
    BY SizesArePositive DEF SizeConstants
  <2>3. Covers(merged, SmallCourses(f)) /\ WithinSize(merged, MergeSize)
    BY <2>1, <2>2, PiecesCover
  <2> HIDE DEF merged
  <2> QED
    BY <2>2, <2>3, WiderSize
<1>4. Covers(large, inLarge) /\ WithinSize(large, MaxSize)
  BY LargeOnesCovered
<1>5. Covers(kept, inKept) /\ WithinSize(kept, MaxSize)
  BY KeptOnesCovered
<1>6. /\ inLarge \intersect inKept = {}
      /\ (inLarge \union inKept) \intersect SmallCourses(f) = {}
      /\ (inLarge \union inKept) \union SmallCourses(f) = 1..n
  <2>1. DOMAIN f = 1..n
    BY DEF CommunitiesOf
  <2>2. LargeOnes(f) \intersect SmallOnes(f) = {}
    <3> SUFFICES ASSUME NEW k \in LargeOnes(f), k \in SmallOnes(f)  PROVE FALSE
      OBVIOUS
    <3> DEFINE list == Community(f, k)
               card == Cardinality(list)
    <3>1. card > MaxSize /\ card < MinSize
      BY DEF LargeOnes, SmallOnes
    <3>2. list \subseteq 1..n
      BY DEF Community, CommunitiesOf
    <3>3. CourseList(f, list, n)
      BY <3>2, CommunityIsList
    <3>4. card \in Nat
      <4> HIDE DEF list
      <4> QED
        BY <3>3, PlacesOfList
    <3> HIDE DEF card
    <3> QED
      BY <3>1, <3>4, SizesArePositive DEF SizeConstants
  <2>3. \A c \in DOMAIN f : f[c] \in Communities(f)
    BY DEF Communities
  <2>4. /\ \A c \in 1..n : c \in inLarge <=> f[c] \in LargeOnes(f)
        /\ \A c \in 1..n : c \in inKept <=> f[c] \notin LargeOnes(f) /\ f[c] \notin SmallOnes(f)
        /\ \A c \in 1..n : c \in SmallCourses(f) <=> f[c] \in SmallOnes(f)
    BY <2>1, <2>3 DEF CoursesIn, SmallCourses
  <2>5. inLarge \subseteq 1..n /\ inKept \subseteq 1..n
    BY <2>1 DEF CoursesIn
  <2> HIDE DEF inLarge, inKept
  <2> QED
    BY <1>2, <2>2, <2>4, <2>5
<1> HIDE DEF large, kept, merged, inLarge, inKept
<1>7. Covers(large \union kept, inLarge \union inKept)
  BY <1>4, <1>5, <1>6, CoversBoth
<1>8. Covers((large \union kept) \union merged, (inLarge \union inKept) \union SmallCourses(f))
  BY <1>3, <1>6, <1>7, CoversBoth
<1>9. WithinSize((large \union kept) \union merged, MaxSize)
  BY <1>3, <1>4, <1>5 DEF WithinSize
<1> QED
  BY <1>1, <1>6, <1>8, <1>9

(* The callers' own cut of the whole list.                                 *)
LEMMA FallbackCovers ==
  ASSUME NEW n \in Nat
  PROVE  LET cut == CutIntoPieces([c \in 1..n |-> 1], 1..n, TargetSize, 1)
         IN  Covers(cut, 1..n) /\ WithinSize(cut, MaxSize)
<1> DEFINE f == [c \in 1..n |-> 1]
           list == 1..n
<1>1. CourseList(f, list, n)
  BY DEF CourseList
<1>2. TargetSize \in Nat /\ TargetSize > 0 /\ MaxSize \in Nat /\ TargetSize <= MaxSize
  BY SizesArePositive DEF SizeConstants
<1> HIDE DEF f, list
<1>3. /\ Covers(CutIntoPieces(f, list, TargetSize, 1), list)
      /\ WithinSize(CutIntoPieces(f, list, TargetSize, 1), TargetSize)
  BY <1>1, <1>2, PiecesCover
<1>4. WithinSize(CutIntoPieces(f, list, TargetSize, 1), MaxSize)
  BY <1>2, <1>3, WiderSize
<1> QED
  BY <1>3, <1>4 DEF f, list

(* Two courses weigh the same seen from either.                            *)
LEMMA SignificantBothWays ==
  ASSUME NEW in \in ClusterInputs, NEW t, NEW c \in 1..in.count, NEW d \in 1..in.count
  PROVE  Significant(in, t, c, d) <=> Significant(in, t, d, c)
<1> DEFINE C == in.students[c]
           D == in.students[d]
<1>1. Cardinality(C) \in Nat /\ Cardinality(D) \in Nat
  BY ClusterInputsAssumption, FS_CardinalityType
<1>2. Smaller(Cardinality(C), Cardinality(D)) = Smaller(Cardinality(D), Cardinality(C))
  BY <1>1 DEF Smaller
<1>3. C \intersect D = D \intersect C
  OBVIOUS
<1>4. in.teacher[c] = in.teacher[d] <=> in.teacher[d] = in.teacher[c]
  OBVIOUS
<1>5. in.features[c] \intersect in.features[d] = in.features[d] \intersect in.features[c]
  OBVIOUS
<1> DEFINE shared(x, y) == Cardinality(in.students[x] \intersect in.students[y])
           smaller(x, y) == Smaller(Cardinality(in.students[x]),
                                    Cardinality(in.students[y]))
           heavy(a, b) == a > 0 /\ 1000 * a + (IF 2 * a > b THEN 500 * b ELSE 0) > t * b
<1>6. ASSUME NEW x, NEW y
      PROVE  Significant(in, t, x, y) <=>
               \/ in.teacher[x] = in.teacher[y]
               \/ in.features[x] \intersect in.features[y] # {}
               \/ heavy(shared(x, y), smaller(x, y))
  BY Zenon DEF Significant
<1>7. shared(c, d) = shared(d, c) /\ smaller(c, d) = smaller(d, c)
  BY <1>2, <1>3
<1> HIDE DEF shared, smaller, heavy
<1> QED
  BY <1>4, <1>5, <1>6, <1>7, Zenon

(* The chunks of the threads reach every course.                           *)
LEMMA ChunksReachAll ==
  ASSUME NEW n \in Nat, NEW w \in 1..MaxGraphWorkers, NEW c \in 1..n
  PROVE  \E chunk \in GraphChunks(n, w) : c \in chunk
<1> DEFINE size == Larger(1, n \div w)
           d == (c - 1) \div size
           ds == d * size
<1>1. w \in Nat /\ w > 0
  BY SizesArePositive DEF SizeConstants
<1>2. size \in Nat /\ size > 0
  <2>1. n \div w \in Nat
    BY <1>1, Quotient
  <2> QED
    BY <2>1 DEF Larger
<1> HIDE DEF size
<1>3. c - 1 \in Nat
  OBVIOUS
<1>4. d \in Nat /\ d <= c - 1 /\ ds \in Nat /\ ds <= c - 1 /\ c - 1 < ds + size
  <2>1. d \in Nat /\ d <= c - 1 /\ ds <= c - 1
    BY <1>2, <1>3, Quotient
  <2>2. ds \in Nat /\ c - 1 < ds + size
    <3> HIDE DEF d
    <3> USE <2>1
    <3>1. d = (c - 1) \div size
      BY DEF d
    <3> QED
      BY <1>2, <1>3, <3>1, Quotient
  <2> QED
    BY <2>1, <2>2
<1>5. d \in Pieces(n, size)
  <2>1. d \in 0..n /\ ds < n
    <3> HIDE DEF d, ds
    <3> QED
      BY <1>4
  <2> QED
    BY <2>1 DEF Pieces
<1>6. c \in (ds + 1)..Smaller(ds + size, n)
  <2> HIDE DEF d, ds
  <2> QED
    BY <1>2, <1>4 DEF Smaller
<1>7. (ds + 1)..Smaller(ds + size, n) \in GraphChunks(n, w)
  BY <1>5 DEF GraphChunks, size
<1> QED
  BY <1>6, <1>7

LEMMA ChunksHoldCourses ==
  ASSUME NEW n \in Nat, NEW w \in 1..MaxGraphWorkers, NEW chunk \in GraphChunks(n, w)
  PROVE  chunk \subseteq 1..n
<1> DEFINE size == Larger(1, n \div w)
<1>1. w \in Nat /\ w > 0
  BY SizesArePositive DEF SizeConstants
<1>2. size \in Nat /\ size > 0
  <2>1. n \div w \in Nat
    BY <1>1, Quotient
  <2> QED
    BY <2>1 DEF Larger
<1>3. PICK q \in Pieces(n, size) : chunk = (q * size + 1)..Smaller(q * size + size, n)
  BY DEF GraphChunks
<1> HIDE DEF size
<1> DEFINE qs == q * size
<1>4. qs \in Nat
  BY <1>2, <1>3 DEF Pieces
<1>5. chunk = (qs + 1)..Smaller(qs + size, n)
  BY <1>3
<1> HIDE DEF qs
<1> QED
  BY <1>2, <1>4, <1>5 DEF Smaller

AllEdges(in, t) ==
  {{p[1], p[2]} : p \in
     {p \in (1..in.count) \X (1..in.count) :
        p[1] # p[2] /\ Significant(in, t, p[1], p[2])}}

(* However the threads divide the courses, they find all edges.            *)
LEMMA GraphHasAllEdges ==
  ASSUME NEW in \in ClusterInputs, NEW t, NEW w \in 1..MaxGraphWorkers
  PROVE  ConstraintGraph(in, t, w) = AllEdges(in, t)
<1> DEFINE n == in.count
<1>1. n \in Nat
  BY ClusterInputsAssumption
<1>2. ASSUME NEW e \in ConstraintGraph(in, t, w)  PROVE e \in AllEdges(in, t)
  <2>1. PICK chunk \in GraphChunks(n, w) : e \in EdgesOfChunk(in, t, chunk)
    BY DEF ConstraintGraph
  <2>2. PICK p \in {p \in chunk \X (1..n) : p[1] < p[2] /\ Significant(in, t, p[1], p[2])} :
          e = {p[1], p[2]}
    BY <2>1 DEF EdgesOfChunk
  <2>3. chunk \subseteq 1..n
    BY <1>1, <2>1, ChunksHoldCourses
  <2>4. p \in (1..n) \X (1..n) /\ p[1] < p[2] /\ Significant(in, t, p[1], p[2])
    BY <2>2, <2>3
  <2>5. p[1] # p[2]
    BY <1>1, <2>4
  <2> QED
    BY <2>2, <2>4, <2>5, Zenon DEF AllEdges
<1>3. ASSUME NEW c \in 1..n, NEW d \in 1..n, c < d, Significant(in, t, c, d)
      PROVE  {c, d} \in ConstraintGraph(in, t, w)
  <2>1. PICK chunk \in GraphChunks(n, w) : c \in chunk
    BY <1>1, ChunksReachAll
  <2>2. {c, d} \in EdgesOfChunk(in, t, chunk)
    <3>1. <<c, d>> \in chunk \X (1..n) /\ <<c, d>>[1] = c /\ <<c, d>>[2] = d
      BY <2>1
    <3> QED
      BY <1>3, <3>1, Zenon DEF EdgesOfChunk
  <2> QED
    BY <2>1, <2>2, Zenon DEF ConstraintGraph
<1>4. ASSUME NEW e \in AllEdges(in, t)  PROVE e \in ConstraintGraph(in, t, w)
  <2>1. PICK p \in {p \in (1..n) \X (1..n) :
                      p[1] # p[2] /\ Significant(in, t, p[1], p[2])} : e = {p[1], p[2]}
    BY DEF AllEdges
  <2>2. p[1] \in 1..n /\ p[2] \in 1..n /\ Significant(in, t, p[1], p[2])
    BY <2>1
  <2>3. Significant(in, t, p[2], p[1])
    BY <2>2, SignificantBothWays
  <2>4. p[1] < p[2] \/ p[2] < p[1]
    BY <1>1, <2>1, <2>2
  <2>5. e = {p[2], p[1]}
    BY <2>1
  <2> HIDE DEF n
  <2> QED
    BY <1>3, <2>1, <2>2, <2>3, <2>4, <2>5
<1> QED
  BY <1>2, <1>4

(* The inductive invariant: what the clusterer keeps and from what.        *)
ClustersBuilt ==
  /\ cl = [pc |-> cl.pc, in |-> cl.in, threshold |-> cl.threshold, graph |-> cl.graph,
           community |-> cl.community, clusters |-> cl.clusters]
  /\ cl.pc # "load" => cl.in \in ClusterInputs
  /\ cl.pc \in {"louvain", "sizes"} => cl.graph = AllEdges(cl.in, cl.threshold)
  /\ cl.pc = "sizes" => CommunitiesOf(cl.community, cl.in.count)
  /\ cl.pc = "done" => /\ Covers(cl.clusters, 1..cl.in.count)
                       /\ WithinSize(cl.clusters, MaxSize)

LEMMA PartitionsAreCommunities ==
  ASSUME NEW n \in Nat, NEW f \in Partitions(n)
  PROVE  CommunitiesOf(f, n)
  BY DEF Partitions, CommunitiesOf

LEMMA FallbackIsCommunities ==
  ASSUME NEW n \in Nat
  PROVE  CommunitiesOf(SequentialFallback(n), n)
<1>1. ASSUME NEW c \in 1..n
      PROVE  ((c - 1) \div TargetSize) * TargetSize + 1 \in Nat \ {0}
  <2>1. c - 1 \in Nat /\ TargetSize \in Nat /\ TargetSize > 0
    BY SizesArePositive DEF SizeConstants
  <2> DEFINE d == (c - 1) \div TargetSize
             dt == d * TargetSize
  <2>2. d \in Nat
    BY <2>1, Quotient
  <2>3. dt \in Nat
    <3> HIDE DEF d
    <3> QED
      BY <2>1, <2>2
  <2> HIDE DEF dt
  <2>4. dt + 1 \in Nat \ {0}
    BY <2>3
  <2> QED
    BY <2>4 DEF dt
<1> QED
  BY <1>1 DEF SequentialFallback, CommunitiesOf

LEMMA ClustersStayBuilt == ClusterSpec => []ClustersBuilt
<1>1. ClusterInit => ClustersBuilt
  BY DEF ClusterInit, ClustersBuilt
<1>2. ClustersBuilt /\ [ClusterNext]_cl => ClustersBuilt'
  <2> SUFFICES ASSUME ClustersBuilt, [ClusterNext]_cl  PROVE ClustersBuilt'
    OBVIOUS
  <2>0. cl.pc # "load" => cl.in \in ClusterInputs /\ cl.in.count \in Nat
    BY ClusterInputsAssumption DEF ClustersBuilt
  <2>1. CASE ClusterLoad
    <3>1. PICK in \in ClusterInputs, t \in EdgeThresholds :
            cl' = [cl EXCEPT !.pc = "graph", !.in = in, !.threshold = t]
      BY <2>1 DEF ClusterLoad
    <3>2. cl' = [pc |-> "graph", in |-> in, threshold |-> t, graph |-> cl.graph,
                 community |-> cl.community, clusters |-> cl.clusters]
      BY <3>1 DEF ClustersBuilt
    <3> QED
      BY <3>2 DEF ClustersBuilt
  <2>2. CASE BuildConstraintGraph
    <3>1. PICK w \in 1..MaxGraphWorkers :
            cl' = [cl EXCEPT !.pc = "louvain",
                             !.graph = ConstraintGraph(cl.in, cl.threshold, w)]
      BY <2>2 DEF BuildConstraintGraph
    <3>2. cl.in \in ClusterInputs
      BY <2>0, <2>2 DEF BuildConstraintGraph
    <3>3. ConstraintGraph(cl.in, cl.threshold, w) = AllEdges(cl.in, cl.threshold)
      BY <3>2, GraphHasAllEdges
    <3>4. cl' = [pc |-> "louvain", in |-> cl.in, threshold |-> cl.threshold,
                 graph |-> AllEdges(cl.in, cl.threshold),
                 community |-> cl.community, clusters |-> cl.clusters]
      BY <3>1, <3>3 DEF ClustersBuilt
    <3> QED
      BY <3>2, <3>4 DEF ClustersBuilt
  <2>3. CASE RunLouvain
    <3>1. PICK f \in Partitions(cl.in.count) :
            cl' = [cl EXCEPT !.pc = "sizes", !.community = f]
      BY <2>3 DEF RunLouvain
    <3>2. cl.pc = "louvain" /\ cl.in \in ClusterInputs /\ cl.in.count \in Nat
      BY <2>0, <2>3 DEF RunLouvain
    <3>3. CommunitiesOf(f, cl.in.count)
      BY <3>2, PartitionsAreCommunities
    <3>4. cl' = [pc |-> "sizes", in |-> cl.in, threshold |-> cl.threshold,
                 graph |-> cl.graph, community |-> f, clusters |-> cl.clusters]
      BY <3>1 DEF ClustersBuilt
    <3> QED
      BY <3>2, <3>3, <3>4 DEF ClustersBuilt
  <2>4. CASE LouvainFails
    <3> DEFINE f == SequentialFallback(cl.in.count)
    <3>1. cl.pc = "louvain" /\ cl.in \in ClusterInputs /\ cl.in.count \in Nat
      BY <2>0, <2>4 DEF LouvainFails
    <3>2. CommunitiesOf(f, cl.in.count)
      BY <3>1, FallbackIsCommunities
    <3> HIDE DEF f
    <3>3. cl' = [pc |-> "sizes", in |-> cl.in, threshold |-> cl.threshold,
                 graph |-> cl.graph, community |-> f, clusters |-> cl.clusters]
      BY <2>4 DEF ClustersBuilt, LouvainFails, f
    <3> QED
      BY <3>1, <3>2, <3>3 DEF ClustersBuilt
  <2>5. CASE OptimizeSizes
    <3> DEFINE clusters == OptimizeClusterSizes(cl.community)
    <3>1. cl.pc = "sizes" /\ cl.in \in ClusterInputs /\ CommunitiesOf(cl.community, cl.in.count)
      BY <2>0, <2>5 DEF OptimizeSizes, ClustersBuilt
    <3>2. Covers(clusters, 1..cl.in.count) /\ WithinSize(clusters, MaxSize)
      BY <3>1, OptimizedCover
    <3> HIDE DEF clusters
    <3>3. cl' = [pc |-> "done", in |-> cl.in, threshold |-> cl.threshold,
                 graph |-> cl.graph, community |-> cl.community, clusters |-> clusters]
      BY <2>5 DEF ClustersBuilt, OptimizeSizes, clusters
    <3> QED
      BY <3>1, <3>2, <3>3 DEF ClustersBuilt
  <2>6. CASE ClusteringFails
    <3> DEFINE clusters == CutIntoPieces([c \in 1..cl.in.count |-> 1], 1..cl.in.count,
                                         TargetSize, 1)
    <3>1. cl.in \in ClusterInputs /\ cl.in.count \in Nat
      BY <2>0, <2>6 DEF ClusteringFails
    <3>2. Covers(clusters, 1..cl.in.count) /\ WithinSize(clusters, MaxSize)
      BY <3>1, FallbackCovers
    <3> HIDE DEF clusters
    <3>3. cl' = [pc |-> "done", in |-> cl.in, threshold |-> cl.threshold,
                 graph |-> cl.graph, community |-> cl.community, clusters |-> clusters]
      BY <2>6 DEF ClustersBuilt, ClusteringFails, clusters
    <3> QED
      BY <3>1, <3>2, <3>3 DEF ClustersBuilt
  <2>7. CASE UNCHANGED cl
    BY <2>7 DEF ClustersBuilt
  <2> QED
    BY <2>1, <2>2, <2>3, <2>4, <2>5, <2>6, <2>7 DEF ClusterNext
<1> QED
  BY <1>1, <1>2, PTL DEF ClusterSpec

(* Clustering hands the solver every course, once, in clusters of a size   *)
(* it is made for, found on the whole constraint graph: for any courses,   *)
(* communities, number of threads and limits that fit each other.          *)
THEOREM ClustersAreSound == ClusterSpec => []ClusteringSound
<1>1. ClustersBuilt => ClusteringSound
  <2>1. ClustersBuilt => GraphComplete
    BY Zenon DEF ClustersBuilt, GraphComplete, AllEdges
  <2>2. ClustersBuilt => EveryCourseClusteredOnce
    BY Zenon DEF ClustersBuilt, EveryCourseClusteredOnce, Covers
  <2>3. ClustersBuilt => ClusterSizesBounded
    BY Zenon DEF ClustersBuilt, ClusterSizesBounded, WithinSize
  <2> QED
    BY <2>1, <2>2, <2>3 DEF ClusteringSound
<1> QED
  BY <1>1, ClustersStayBuilt, PTL

-----------------------------------------------------------------------------
(* The graph of overlapping offerings.                                     *)

GraphBuilt ==
  /\ cg = [pc |-> cg.pc, list |-> cg.list, staff |-> cg.staff, graph |-> cg.graph,
           scope |-> cg.scope, constraints |-> cg.constraints]
  /\ cg.pc # "load" => /\ cg.list \in [1..EnrollmentRows -> Enrollment]
                       /\ cg.staff \in StaffLists
  /\ cg.pc \in {"inject", "done"} =>
       cg.graph = StudentPairs(cg.list) \union TeacherPairs(cg.staff)
  /\ cg.pc = "done" => cg.constraints = NoOverlapConstraints(cg.graph, cg.scope)

NamedByRows(rows, f, a, b) == \E r, q \in rows : f[r] = a /\ f[q] = b
NamedTwice(rows, f, a) == \E r, q \in rows : r # q /\ f[r] = a /\ f[q] = a

(* The pairs of two different offerings are those of two rows.             *)
LEMMA PairsOfTwo ==
  ASSUME NEW rows, NEW f, NEW a, NEW b, a # b
  PROVE  {a, b} \in PairsOf(rows, f) <=> NamedByRows(rows, f, a, b)
<1>1. ASSUME {a, b} \in PairsOf(rows, f)
      PROVE  \E r, q \in rows : f[r] = a /\ f[q] = b
  <2>1. PICK p \in {pair \in rows \X rows : pair[1] # pair[2]} : {a, b} = {f[p[1]], f[p[2]]}
    BY <1>1 DEF PairsOf
  <2>2. p[1] \in rows /\ p[2] \in rows
    BY <2>1
  <2>3. \/ f[p[1]] = a /\ f[p[2]] = b
        \/ f[p[2]] = a /\ f[p[1]] = b
    BY <2>1
  <2> QED
    BY <2>2, <2>3
<1>2. ASSUME NEW r \in rows, NEW q \in rows, f[r] = a, f[q] = b
      PROVE  {a, b} \in PairsOf(rows, f)
  <2>1. <<r, q>> \in {pair \in rows \X rows : pair[1] # pair[2]}
    BY <1>2
  <2> QED
    BY <1>2, <2>1 DEF PairsOf
<1> QED
  BY <1>1, <1>2 DEF NamedByRows

(* A pair of one offering with itself is that of two rows that name it.    *)
LEMMA PairsOfOne ==
  ASSUME NEW rows, NEW f, NEW a, {a} \in PairsOf(rows, f)
  PROVE  NamedTwice(rows, f, a)
<1>1. PICK p \in {pair \in rows \X rows : pair[1] # pair[2]} : {a} = {f[p[1]], f[p[2]]}
  BY DEF PairsOf
<1>2. p[1] \in rows /\ p[2] \in rows /\ p[1] # p[2] /\ f[p[1]] = a /\ f[p[2]] = a
  BY <1>1
<1> QED
  BY <1>2 DEF NamedTwice

(* The graph and its constraints are those of the rows once it is built.   *)
LEMMA GraphStaysBuilt == GraphSpec => []GraphBuilt
<1>1. GraphInit => GraphBuilt
  BY DEF GraphInit, GraphBuilt
<1>2. GraphBuilt /\ [GraphNext]_cg => GraphBuilt'
  <2> SUFFICES ASSUME GraphBuilt, [GraphNext]_cg
               PROVE  GraphBuilt'
    OBVIOUS
  <2>1. CASE GraphLoad
    BY <2>1 DEF GraphLoad, GraphBuilt
  <2>2. CASE BuildGraph
    BY <2>2 DEF BuildGraph, GraphBuilt
  <2>3. CASE Inject
    BY <2>3 DEF Inject, GraphBuilt
  <2>4. CASE UNCHANGED cg
    BY <2>4 DEF GraphBuilt
  <2> QED
    BY <2>1, <2>2, <2>3, <2>4 DEF GraphNext
<1> QED
  BY <1>1, <1>2, PTL DEF GraphSpec

(* Two offerings are a pair of students' rows when one student is in both. *)
LEMMA StudentPairsExact ==
  ASSUME GraphBuilt, cg.pc # "load", NEW a, NEW b, a # b
  PROVE  {a, b} \in StudentPairs(cg.list) <=>
           \E x \in Pupil : AttendsNow(x, a) /\ AttendsNow(x, b)
<1> DEFINE Rows(x) == {r \in DOMAIN cg.list : cg.list[r].pupil = x
                                                /\ cg.list[r].status = "ENROLLED"}
           f == [r \in DOMAIN cg.list |-> cg.list[r].offering]
<1>1. cg.list \in [1..EnrollmentRows -> Enrollment]
  BY DEF GraphBuilt
<1>2. {a, b} \in StudentPairs(cg.list) <=>
        \E x \in Pupil : \E r, q \in Rows(x) : f[r] = a /\ f[q] = b
  <2>1. {a, b} \in StudentPairs(cg.list) <=> \E x \in Pupil : {a, b} \in PairsOf(Rows(x), f)
    BY DEF StudentPairs
  <2>2. ASSUME NEW x \in Pupil
        PROVE  {a, b} \in PairsOf(Rows(x), f) <=> NamedByRows(Rows(x), f, a, b)
    <3> HIDE DEF Rows, f
    <3> QED
      BY PairsOfTwo
  <2> HIDE DEF Rows, f
  <2> QED
    BY <2>1, <2>2 DEF NamedByRows
<1>3. ASSUME NEW x \in Pupil, NEW o
      PROVE  (\E r \in Rows(x) : f[r] = o) <=> AttendsNow(x, o)
  <2>1. \A r \in DOMAIN cg.list :
          cg.list[r] = [pupil |-> cg.list[r].pupil, offering |-> cg.list[r].offering,
                        status |-> cg.list[r].status]
    BY <1>1 DEF Enrollment
  <2>2. ASSUME NEW r \in Rows(x), f[r] = o
        PROVE  AttendsNow(x, o)
    BY <2>1, <2>2 DEF AttendsNow
  <2>3. ASSUME NEW r \in DOMAIN cg.list,
               cg.list[r] = [pupil |-> x, offering |-> o, status |-> "ENROLLED"]
        PROVE  r \in Rows(x) /\ f[r] = o
    BY <2>3
  <2> QED
    BY <2>2, <2>3 DEF AttendsNow
<1> HIDE DEF Rows, f
<1> QED
  BY <1>2, <1>3

(* Two offerings are a pair of teachers when one teaches both.             *)
LEMMA TeacherPairsExact ==
  ASSUME NEW staff, NEW a \in Offering, NEW b \in Offering, a # b
  PROVE  {a, b} \in TeacherPairs(staff) <=>
           Staff \cap AllFaculty(staff[a]) \cap AllFaculty(staff[b]) # {}
<1> DEFINE Rows(x) == {o \in Offering : x \in AllFaculty(staff[o])}
           f == [o \in Offering |-> o]
<1>1. {a, b} \in TeacherPairs(staff) <=> \E x \in Staff : {a, b} \in PairsOf(Rows(x), f)
  BY DEF TeacherPairs
<1>2. {a, b} \in TeacherPairs(staff) <=>
        \E x \in Staff : \E o, p \in Rows(x) : f[o] = a /\ f[p] = b
  <2>1. ASSUME NEW x \in Staff
        PROVE  {a, b} \in PairsOf(Rows(x), f) <=> NamedByRows(Rows(x), f, a, b)
    <3> HIDE DEF Rows, f
    <3> QED
      BY PairsOfTwo
  <2> HIDE DEF Rows, f
  <2> QED
    BY <1>1, <2>1 DEF NamedByRows
<1>3. ASSUME NEW x
      PROVE  (\E o, p \in Rows(x) : f[o] = a /\ f[p] = b) <=>
               x \in AllFaculty(staff[a]) /\ x \in AllFaculty(staff[b])
  OBVIOUS
<1> HIDE DEF Rows, f
<1> QED
  BY <1>2, <1>3

(* A constraint is a pair of the graph.                                    *)
LEMMA PairsOfMembers ==
  ASSUME NEW graph, NEW scope, NEW p \in NoOverlapConstraints(graph, scope)
  PROVE  p \in graph
  BY DEF NoOverlapConstraints

(* A self-pair comes from a duplicate enrolment row.                       *)
LEMMA SelfPairsAreDuplicates ==
  ASSUME GraphBuilt, cg.pc # "load", NEW a \in Offering,
         {a} \in StudentPairs(cg.list) \union TeacherPairs(cg.staff)
  PROVE  \E r, q \in DOMAIN cg.list : r # q /\ cg.list[r] = cg.list[q]
                                         /\ cg.list[r].offering = a
<1> DEFINE Rows(x) == {r \in DOMAIN cg.list : cg.list[r].pupil = x
                                                /\ cg.list[r].status = "ENROLLED"}
           f == [r \in DOMAIN cg.list |-> cg.list[r].offering]
           Taught(x) == {o \in Offering : x \in AllFaculty(cg.staff[o])}
           g == [o \in Offering |-> o]
<1>1. ASSUME NEW x \in Staff, {a} \in PairsOf(Taught(x), g)
      PROVE  FALSE
  <2>1. NamedTwice(Taught(x), g, a)
    <3> HIDE DEF Taught, g
    <3> QED
      BY <1>1, PairsOfOne
  <2> QED
    BY <2>1 DEF NamedTwice
<1>2. PICK x \in Pupil : {a} \in PairsOf(Rows(x), f)
  BY <1>1 DEF StudentPairs, TeacherPairs
<1>3. PICK r \in Rows(x), q \in Rows(x) : r # q /\ f[r] = a /\ f[q] = a
  <2>1. NamedTwice(Rows(x), f, a)
    <3> HIDE DEF Rows, f
    <3> QED
      BY <1>2, PairsOfOne
  <2> QED
    BY <2>1 DEF NamedTwice
<1>4. cg.list[r] \in Enrollment /\ cg.list[q] \in Enrollment
  BY <1>3 DEF GraphBuilt
<1>5. /\ cg.list[r].pupil = cg.list[q].pupil /\ cg.list[r].status = cg.list[q].status
      /\ cg.list[r].offering = a /\ cg.list[q].offering = a
  BY <1>3
<1>6. cg.list[r] = cg.list[q]
  BY <1>4, <1>5 DEF Enrollment
<1> QED
  BY <1>3, <1>5, <1>6

(* Two different offerings are a pair of the graph exactly when a student  *)
(* enrolled in both or a teacher of both, and an offering is a pair with   *)
(* itself only through a duplicate enrolment row.                          *)
THEOREM OverlapExact == GraphSpec => []OverlapGraphSound
<1>1. GraphBuilt => OverlapGraphSound
  <2> SUFFICES ASSUME GraphBuilt
               PROVE  OverlapGraphSound
    OBVIOUS
  <2>1. ASSUME cg.pc = "inject", NEW a \in Offering, NEW b \in Offering, a # b
        PROVE  MustNotOverlap(cg.graph, a, b) <=>
                 \/ \E x \in Pupil : AttendsNow(x, a) /\ AttendsNow(x, b)
                 \/ AllFaculty(cg.staff[a]) \cap AllFaculty(cg.staff[b]) # {}
    <3>1. MustNotOverlap(cg.graph, a, b) <=>
            {a, b} \in StudentPairs(cg.list) \/ {a, b} \in TeacherPairs(cg.staff)
      BY <2>1 DEF MustNotOverlap, GraphBuilt
    <3>2. {a, b} \in StudentPairs(cg.list) <=>
            \E x \in Pupil : AttendsNow(x, a) /\ AttendsNow(x, b)
      BY <2>1, StudentPairsExact
    <3>3. {a, b} \in TeacherPairs(cg.staff) <=>
            Staff \cap AllFaculty(cg.staff[a]) \cap AllFaculty(cg.staff[b]) # {}
      BY <2>1, TeacherPairsExact
    <3>4. AllFaculty(cg.staff[a]) \subseteq Staff
      BY <2>1, StaffListsAssumption DEF GraphBuilt
    <3> QED
      BY <3>1, <3>2, <3>3, <3>4
  <2>2. ASSUME cg.pc = "done", NEW a \in Offering, {a} \in cg.constraints
        PROVE  \E r, q \in DOMAIN cg.list : r # q /\ cg.list[r] = cg.list[q]
                                               /\ cg.list[r].offering = a
    <3>1. {a} \in StudentPairs(cg.list) \union TeacherPairs(cg.staff)
      BY <2>2, PairsOfMembers DEF GraphBuilt
    <3> QED
      BY <2>2, <3>1, SelfPairsAreDuplicates
  <2> QED
    BY <2>1, <2>2 DEF OverlapGraphSound, OverlapIffShared, SelfPairsFromDuplicates
<1> QED
  BY <1>1, GraphStaysBuilt, PTL

-----------------------------------------------------------------------------
(* The rooms of a class.                                                   *)

(* A catalogue and a class.                                                *)
Catalogue(rooms, n) ==
  /\ \E k \in Nat : DOMAIN rooms = 1..k
  /\ \A i \in DOMAIN rooms : rooms[i].capacity \in Nat
  /\ n \in Nat

RoomsOffered ==
  /\ rd = [pc |-> rd.pc, rooms |-> rd.rooms, size |-> rd.size, features |-> rd.features,
           offered |-> rd.offered]
  /\ rd.pc # "load" => Catalogue(rd.rooms, rd.size)
  /\ rd.pc = "done" => rd.offered = CandidateRooms(rd.rooms, rd.size, rd.features)

(* What is offered is what the choice makes of the rooms and the class.    *)
LEMMA RoomsStayOffered == RoomSpec => []RoomsOffered
<1>1. RoomInit => RoomsOffered
  BY DEF RoomInit, RoomsOffered
<1>2. RoomsOffered /\ [RoomNext]_rd => RoomsOffered'
  <2> SUFFICES ASSUME RoomsOffered, [RoomNext]_rd
               PROVE  RoomsOffered'
    OBVIOUS
  <2>1. CASE RoomLoad
    <3>1. PICK k \in 0..MaxRoomList : \E rooms \in [1..k -> RoomKinds], n \in ClassSizes,
                                        f \in NeededFeatures :
            rd' = [rd EXCEPT !.pc = "choose", !.rooms = rooms,
                             !.size = Expected(n), !.features = f]
      BY <2>1 DEF RoomLoad
    <3>2. PICK rooms \in [1..k -> RoomKinds], n \in ClassSizes, f \in NeededFeatures :
            rd' = [rd EXCEPT !.pc = "choose", !.rooms = rooms,
                             !.size = Expected(n), !.features = f]
      BY <3>1
    <3>3. Catalogue(rooms, Expected(n))
      BY RoomInputsAssumption DEF Catalogue, Expected
    <3> QED
      BY <3>2, <3>3 DEF RoomsOffered
  <2>2. CASE RoomChoose
    BY <2>2 DEF RoomChoose, RoomsOffered
  <2>3. CASE UNCHANGED rd
    BY <2>3 DEF RoomsOffered
  <2> QED
    BY <2>1, <2>2, <2>3 DEF RoomNext
<1> QED
  BY <1>1, <1>2, PTL DEF RoomSpec

(* Numbers of which there are some have a least one.                       *)
LEMMA LeastOf ==
  ASSUME NEW S, S \subseteq Nat, S # {}
  PROVE  \E m \in S : \A k \in S : m <= k
<1>1. PICK m \in S : \A k \in S : <<k, m>> \notin OpToRel(<, Nat)
  BY WFMin, NatLessThanWellFounded, Zenon
<1>2. \A k \in S : ~ (k < m)
  BY <1>1, Zenon DEF OpToRel
<1> QED
  BY <1>2

(* There are finitely many places in the catalogue.                        *)
LEMMA FinitePlaces ==
  ASSUME NEW rooms, NEW n, Catalogue(rooms, n), NEW places, places \subseteq DOMAIN rooms
  PROVE  IsFiniteSet(places) /\ Cardinality(places) \in Nat
<1>1. PICK k \in Nat : DOMAIN rooms = 1..k
  BY DEF Catalogue
<1>2. IsFiniteSet(1..k)
  BY FS_Interval
<1> QED
  BY <1>1, <1>2, FS_Subset, FS_CardinalityType

(* A place that no better one precedes makes the cut.                      *)
LEMMA FirstMakesTheCut ==
  ASSUME NEW S, S = {}
  PROVE  Cardinality(S) < MaxRoomsPerCourse
BY FS_EmptySet, RoomBoundsAssumption

(* Of some rooms there is one that no other fits better than.              *)
LEMMA BestFitOf ==
  ASSUME NEW rooms, NEW n, Catalogue(rooms, n),
         NEW places, places \subseteq DOMAIN rooms, places # {}
  PROVE  \E j \in places : \A i \in places : ~ FitsBetter(rooms, n, i, j)
<1> DEFINE Off(i) == Distance(rooms[i], n)
           offs == {Off(i) : i \in places}
<1>1. places \subseteq Nat
  BY DEF Catalogue
<1>2. \A i \in places : Off(i) \in Nat
  BY DEF Catalogue, Distance
<1> HIDE DEF Off
<1>3. offs \subseteq Nat /\ offs # {}
  BY <1>2
<1>4. PICK d \in offs : \A e \in offs : d <= e
  BY <1>3, LeastOf
<1> DEFINE nearest == {i \in places : Off(i) = d}
<1>5. nearest \subseteq Nat /\ nearest # {}
  BY <1>1
<1>6. PICK j \in nearest : \A i \in nearest : j <= i
  BY <1>5, LeastOf
<1>7. ASSUME NEW i \in places
      PROVE  ~ FitsBetter(rooms, n, i, j)
  <2>1. Off(j) = d /\ Off(i) \in offs /\ j \in places
    BY <1>6
  <2>2. d <= Off(i) /\ Off(i) \in Nat /\ Off(j) \in Nat /\ i \in Nat /\ j \in Nat
    BY <1>1, <1>2, <1>4, <2>1
  <2>3. Off(i) = Off(j) => j <= i
    BY <1>6, <2>1
  <2>4. ~ (Off(i) < Off(j)) /\ ~ (Off(i) = Off(j) /\ i < j)
    BY <2>1, <2>2, <2>3
  <2> QED
    BY <2>2, <2>4 DEF FitsBetter, Off
<1>8. j \in places
  BY <1>6
<1> QED
  BY <1>7, <1>8

(* A cut of some rooms leaves some.                                        *)
LEMMA CutLeavesSome ==
  ASSUME NEW rooms, NEW n, Catalogue(rooms, n),
         NEW places, places \subseteq DOMAIN rooms, places # {}
  PROVE  FirstInOrder(places) # {} /\ FirstByFit(rooms, n, places) # {}
<1>1. places \subseteq Nat
  BY DEF Catalogue
<1>2. FirstInOrder(places) # {}
  <2>1. PICK j \in places : \A i \in places : j <= i
    BY <1>1, LeastOf
  <2>2. {i \in places : i < j} = {}
    BY <1>1, <2>1
  <2>3. Cardinality({i \in places : i < j}) < MaxRoomsPerCourse
    BY <2>2, FirstMakesTheCut
  <2> QED
    BY <2>3 DEF FirstInOrder
<1>3. FirstByFit(rooms, n, places) # {}
  <2>1. PICK j \in places : \A i \in places : ~ FitsBetter(rooms, n, i, j)
    BY BestFitOf
  <2>2. {i \in places : FitsBetter(rooms, n, i, j)} = {}
    BY <2>1
  <2>3. Cardinality({i \in places : FitsBetter(rooms, n, i, j)}) < MaxRoomsPerCourse
    BY <2>2, FirstMakesTheCut
  <2> QED
    BY <2>3 DEF FirstByFit
<1> QED
  BY <1>2, <1>3

(* Fewer than the cut are before one that has them all before it.          *)
LEMMA FewerAhead ==
  ASSUME NEW rooms, NEW n, Catalogue(rooms, n), NEW larger, larger \subseteq DOMAIN rooms,
         Cardinality(larger) < MaxRoomsPerCourse, NEW ahead, ahead \subseteq larger
  PROVE  Cardinality(ahead) < MaxRoomsPerCourse
<1>1. IsFiniteSet(larger) /\ Cardinality(larger) \in Nat
  BY FinitePlaces
<1>2. Cardinality(ahead) \in Nat /\ Cardinality(ahead) <= Cardinality(larger)
  BY <1>1, FS_Subset, FS_CardinalityType
<1> QED
  BY <1>1, <1>2, RoomBoundsAssumption

(* A room that a cut in the order of the catalogue leaves out: the cut is  *)
(* full, of rooms listed before it.                                        *)
LEMMA LeftOutInOrder ==
  ASSUME NEW rooms, NEW n, Catalogue(rooms, n),
         NEW places, places \subseteq DOMAIN rooms,
         NEW i \in places, i \notin FirstInOrder(places)
  PROVE  /\ Cardinality(FirstInOrder(places)) >= MaxRoomsPerCourse
         /\ \A j \in FirstInOrder(places) : j < i
<1> DEFINE kept == FirstInOrder(places)
           Ahead(j) == {k \in places : k < j}
<1>1. places \subseteq Nat
  BY DEF Catalogue
<1>2. kept \subseteq places /\ (\A j \in places : j \in kept <=> Cardinality(Ahead(j)) < MaxRoomsPerCourse)
  BY DEF FirstInOrder
<1>3. i \notin kept
  OBVIOUS
<1>4. \A j \in places : Ahead(j) \subseteq DOMAIN rooms
  OBVIOUS
<1> HIDE DEF kept
<1>5. ASSUME Cardinality(kept) < MaxRoomsPerCourse
      PROVE  FALSE
  <2>1. places \ kept \subseteq Nat /\ places \ kept # {}
    BY <1>1, <1>3
  <2>2. PICK m \in places \ kept : \A k \in places \ kept : m <= k
    BY <2>1, LeastOf
  <2>3. Ahead(m) \subseteq kept
    BY <1>1, <2>2
  <2>4. Cardinality(Ahead(m)) < MaxRoomsPerCourse
    <3> HIDE DEF Ahead
    <3> QED
      BY <1>2, <1>5, <2>3, FewerAhead
  <2> QED
    BY <1>2, <2>2, <2>4
<1>6. ASSUME NEW j \in kept, ~ (j < i)
      PROVE  FALSE
  <2>1. Ahead(i) \subseteq Ahead(j)
    BY <1>1, <1>2, <1>6
  <2>2. Cardinality(Ahead(i)) < MaxRoomsPerCourse
    <3> HIDE DEF Ahead
    <3> QED
      BY <1>2, <1>4, <1>6, <2>1, FewerAhead
  <2> QED
    BY <1>2, <1>3, <2>2
<1>7. Cardinality(kept) >= MaxRoomsPerCourse
  <2>1. Cardinality(kept) \in Nat
    BY <1>2, FinitePlaces
  <2> QED
    BY <1>5, <2>1, RoomBoundsAssumption
<1> QED
  BY <1>6, <1>7 DEF kept

(* The order of fit is a strict order, of which any two places partake.    *)
LEMMA FitOrder ==
  ASSUME NEW rooms, NEW n, Catalogue(rooms, n),
         NEW i \in DOMAIN rooms, NEW j \in DOMAIN rooms, NEW k \in DOMAIN rooms
  PROVE  /\ FitsBetter(rooms, n, i, j) \/ FitsBetter(rooms, n, j, i) \/ i = j
         /\ FitsBetter(rooms, n, k, i) /\ FitsBetter(rooms, n, i, j)
              => FitsBetter(rooms, n, k, j)
<1> DEFINE Off(p) == Distance(rooms[p], n)
<1>1. Off(i) \in Nat /\ Off(j) \in Nat /\ Off(k) \in Nat
  BY DEF Catalogue, Distance
<1>2. i \in Nat /\ j \in Nat /\ k \in Nat
  BY DEF Catalogue
<1>3. \A p, q : FitsBetter(rooms, n, p, q) <=> Off(p) < Off(q) \/ (Off(p) = Off(q) /\ p < q)
  BY DEF FitsBetter
<1> HIDE DEF Off
<1> QED
  BY <1>1, <1>2, <1>3

(* A room that a cut by fit leaves out: the cut is full, of rooms that fit *)
(* better or as well.                                                      *)
LEMMA LeftOutByFit ==
  ASSUME NEW rooms, NEW n, Catalogue(rooms, n),
         NEW places, places \subseteq DOMAIN rooms,
         NEW i \in places, i \notin FirstByFit(rooms, n, places)
  PROVE  /\ Cardinality(FirstByFit(rooms, n, places)) >= MaxRoomsPerCourse
         /\ \A j \in FirstByFit(rooms, n, places) : FitsBetter(rooms, n, j, i)
<1> DEFINE kept == FirstByFit(rooms, n, places)
           Ahead(j) == {k \in places : FitsBetter(rooms, n, k, j)}
<1>1. kept \subseteq places /\ (\A j \in places : j \in kept <=> Cardinality(Ahead(j)) < MaxRoomsPerCourse)
  BY DEF FirstByFit
<1>2. i \notin kept
  OBVIOUS
<1>3. \A j \in places : Ahead(j) \subseteq DOMAIN rooms
  OBVIOUS
<1> HIDE DEF kept
<1>4. ASSUME Cardinality(kept) < MaxRoomsPerCourse
      PROVE  FALSE
  <2>1. places \ kept \subseteq DOMAIN rooms /\ places \ kept # {}
    BY <1>2
  <2>2. PICK m \in places \ kept : \A k \in places \ kept : ~ FitsBetter(rooms, n, k, m)
    BY <2>1, BestFitOf
  <2>3. Ahead(m) \subseteq kept
    BY <2>2
  <2>4. Cardinality(Ahead(m)) < MaxRoomsPerCourse
    <3> HIDE DEF Ahead
    <3> QED
      BY <1>1, <1>4, <2>3, FewerAhead
  <2> QED
    BY <1>1, <2>2, <2>4
<1>5. ASSUME NEW j \in kept, ~ FitsBetter(rooms, n, j, i)
      PROVE  FALSE
  <2>1. i # j /\ j \in places
    BY <1>1, <1>2, <1>5
  <2>2. FitsBetter(rooms, n, i, j)
    BY <1>5, <2>1, FitOrder
  <2>3. Ahead(i) \subseteq Ahead(j)
    BY <2>1, <2>2, FitOrder
  <2>4. Cardinality(Ahead(i)) < MaxRoomsPerCourse
    <3> HIDE DEF Ahead
    <3> QED
      BY <1>1, <1>3, <1>5, <2>3, FewerAhead
  <2> QED
    BY <1>1, <1>2, <2>4
<1>6. Cardinality(kept) >= MaxRoomsPerCourse
  <2>1. Cardinality(kept) \in Nat
    BY <1>1, FinitePlaces
  <2> QED
    BY <1>4, <2>1, RoomBoundsAssumption
<1> QED
  BY <1>5, <1>6 DEF kept

(* A stage that is taken for the number of its rooms has rooms.            *)
LEMMA FewIsSome ==
  ASSUME NEW S, Cardinality(S) >= FewRooms
  PROVE  S # {}
BY FS_EmptySet, RoomBoundsAssumption

(* A class is offered a room if there is one at all.                       *)
LEMMA RoomWhenAny ==
  ASSUME NEW rooms, NEW n, NEW features, Catalogue(rooms, n), DOMAIN rooms # {}
  PROVE  CandidateRooms(rooms, n, features) # {}
<1>1. FirstByFit(rooms, n, DOMAIN rooms) # {}
  BY CutLeavesSome
<1> QED
  BY <1>1, FewIsSome DEF CandidateRooms

(* A room that is ideal is offered, or the cut is full of rooms ahead of   *)
(* it.                                                                     *)
LEMMA IdealLeftOut ==
  ASSUME NEW rooms, NEW n, NEW features, Catalogue(rooms, n),
         NEW i \in DOMAIN rooms, Ideal(rooms[i], n, features),
         NEW offered, offered = CandidateRooms(rooms, n, features), i \notin offered
  PROVE  /\ Cardinality(offered) >= MaxRoomsPerCourse
         /\ (\A j \in offered : FitsBetter(rooms, n, j, i)) \/ (\A j \in offered : j < i)
<1> DEFINE ideals == {k \in DOMAIN rooms : Ideal(rooms[k], n, features)}
           typed  == {k \in DOMAIN rooms : FitsType(rooms[k], n)}
           sized  == {k \in DOMAIN rooms : FitsSize(rooms[k], n)}
<1>1. i \in ideals /\ i \in typed /\ i \in sized
  BY DEF Catalogue, Ideal, FitsType, FitsSize
<1>2. /\ IdealRooms(rooms, n, features) = FirstByFit(rooms, n, ideals)
      /\ TypedRooms(rooms, n) = FirstInOrder(typed)
      /\ SizedRooms(rooms, n) = FirstInOrder(sized)
  BY DEF IdealRooms, TypedRooms, SizedRooms
<1>3. ideals \subseteq DOMAIN rooms /\ typed \subseteq DOMAIN rooms /\ sized \subseteq DOMAIN rooms
  OBVIOUS
<1> HIDE DEF ideals, typed, sized
<1>4. CASE offered = FirstByFit(rooms, n, ideals)
  BY <1>1, <1>3, <1>4, LeftOutByFit
<1>5. CASE offered = FirstInOrder(typed)
  BY <1>1, <1>3, <1>5, LeftOutInOrder
<1>6. CASE offered = FirstInOrder(sized)
  BY <1>1, <1>3, <1>6, LeftOutInOrder
<1>7. FirstInOrder(sized) # {}
  BY <1>1, <1>3, CutLeavesSome
<1> QED
  BY <1>2, <1>4, <1>5, <1>6, <1>7 DEF CandidateRooms

(* For any catalogue, class and features: a course has a room to go to     *)
(* when there is one, and an ideal room is left out only by a full cut.    *)
THEOREM RoomsNeverRunOut == RoomSpec => []RoomDomainSound
<1>1. RoomsOffered => RoomDomainSound
  <2> SUFFICES ASSUME RoomsOffered
               PROVE  RoomDomainSound
    OBVIOUS
  <2>1. SomeRoomOffered
    BY RoomWhenAny DEF SomeRoomOffered, RoomsOffered
  <2>2. IdealRoomsKept
    BY IdealLeftOut DEF IdealRoomsKept, RoomsOffered
  <2> QED
    BY <2>1, <2>2 DEF RoomDomainSound
<1> QED
  BY <1>1, RoomsStayOffered, PTL

-----------------------------------------------------------------------------
(* The learned table.                                                      *)

Bounded(table) == IsFiniteSet(DOMAIN table) /\ Cardinality(DOMAIN table) <= MaxTable

TablesBounded ==
  /\ ql = [table |-> ql.table, counts |-> ql.counts, frozen |-> ql.frozen,
           saved |-> ql.saved]
  /\ Bounded(ql.table)
  /\ \A s \in DOMAIN ql.saved : Bounded(ql.saved[s])

(* A lesson in a table that is not full.                                   *)
LEMMA RoomForOneMore ==
  ASSUME NEW f, NEW k, NEW v, Bounded(f),
         k \in DOMAIN f \/ Cardinality(DOMAIN f) < MaxTable
  PROVE  Bounded(Put2(f, k, v))
<1>1. DOMAIN Put2(f, k, v) = DOMAIN f \cup {k}
  BY DEF Put2
<1>2. Cardinality(DOMAIN f) \in Nat
  BY FS_CardinalityType DEF Bounded
<1>3. IsFiniteSet(DOMAIN f \cup {k})
      /\ Cardinality(DOMAIN f \cup {k}) =
           IF k \in DOMAIN f THEN Cardinality(DOMAIN f) ELSE Cardinality(DOMAIN f) + 1
  BY FS_AddElement DEF Bounded
<1> QED
  BY <1>1, <1>2, <1>3, MaxTableAssumption DEF Bounded

(* The eviction of a key of the table makes room.                          *)
LEMMA EvictionMakesRoom ==
  ASSUME NEW f, NEW old \in DOMAIN f, Bounded(f)
  PROVE  Bounded(Without(f, old)) /\ Cardinality(DOMAIN Without(f, old)) < MaxTable
<1>1. DOMAIN Without(f, old) = DOMAIN f \ {old}
  BY DEF Without
<1>2. Cardinality(DOMAIN f) \in Nat
  BY FS_CardinalityType DEF Bounded
<1>3. IsFiniteSet(DOMAIN f \ {old})
      /\ Cardinality(DOMAIN f \ {old}) = Cardinality(DOMAIN f) - 1
  BY FS_RemoveElement DEF Bounded
<1> QED
  BY <1>1, <1>2, <1>3, MaxTableAssumption DEF Bounded

(* Learning keeps the tables within the limit.                             *)
LEMMA LessonKeepsBounds ==
  ASSUME TablesBounded, NEW k \in QKey, UpdateQValue(k)
  PROVE  TablesBounded'
<1> DEFINE counts == Accessed(ql.counts, k)
<1>1. CASE /\ ~ Full(k)
           /\ ql' = [ql EXCEPT !.table = Put2(ql.table, k, Lesson(k)),
                               !.counts = Put2(counts, k, 0)]
  <2>1. Cardinality(DOMAIN ql.table) \in Nat
    BY FS_CardinalityType DEF TablesBounded, Bounded
  <2>2. k \in DOMAIN ql.table \/ Cardinality(DOMAIN ql.table) < MaxTable
    BY <1>1, <2>1, MaxTableAssumption DEF Full
  <2>3. Bounded(Put2(ql.table, k, Lesson(k)))
    BY <2>2, RoomForOneMore DEF TablesBounded
  <2> QED
    BY <1>1, <2>3 DEF TablesBounded
<1>2. ASSUME NEW old \in DOMAIN ql.table,
             ql' = [ql EXCEPT !.table = Put2(Without(ql.table, old), k, Lesson(k)),
                              !.counts = Put2(Without(counts, old), k, 0)]
      PROVE  TablesBounded'
  <2>1. Bounded(Put2(Without(ql.table, old), k, Lesson(k)))
    BY RoomForOneMore, EvictionMakesRoom DEF TablesBounded
  <2> QED
    BY <1>2, <2>1 DEF TablesBounded
<1>3. CASE ql' = [ql EXCEPT !.counts = counts]
  BY <1>3 DEF TablesBounded
<1> QED
  BY <1>1, <1>2, <1>3 DEF UpdateQValue

(* Saving and loading policies does as well.                               *)
LEMMA PolicyKeepsBounds ==
  ASSUME TablesBounded, NEW s \in Semester, SavePolicy(s) \/ LoadPolicy(s)
  PROVE  TablesBounded'
<1>1. CASE SavePolicy(s)
  <2>1. \A t \in DOMAIN Put2(ql.saved, s, ql.table) :
          Bounded(Put2(ql.saved, s, ql.table)[t])
    BY DEF Put2, TablesBounded
  <2> QED
    BY <1>1, <2>1 DEF SavePolicy, TablesBounded
<1>2. CASE LoadPolicy(s)
  <2>1. Bounded(ql.saved[s])
    BY <1>2 DEF LoadPolicy, TablesBounded
  <2> QED
    BY <1>2, <2>1 DEF LoadPolicy, LoadedTable, TablesBounded
<1> QED
  BY <1>1, <1>2

(* The table never outgrows its limit, nor does a saved one.               *)
THEOREM QTableStaysBounded == QSpec => []QTableBounded
<1>1. QInit => TablesBounded
  <2>1. Bounded(<<>>) /\ DOMAIN <<>> = {}
    <3>1. DOMAIN <<>> = {}
      OBVIOUS
    <3> QED
      BY <3>1, FS_EmptySet, MaxTableAssumption DEF Bounded
  <2> QED
    BY <2>1 DEF QInit, TablesBounded
<1>2. TablesBounded /\ [QNext]_ql => TablesBounded'
  <2> SUFFICES ASSUME TablesBounded, [QNext]_ql
               PROVE  TablesBounded'
    OBVIOUS
  <2>1. CASE ChooseBestSwap
    BY <2>1 DEF ChooseBestSwap, TablesBounded
  <2>2. CASE FreezePolicy \/ UnfreezePolicy
    BY <2>2 DEF FreezePolicy, UnfreezePolicy, TablesBounded
  <2>3. CASE UNCHANGED ql
    BY <2>3 DEF TablesBounded
  <2> QED
    BY <2>1, <2>2, <2>3, LessonKeepsBounds, PolicyKeepsBounds DEF QNext
<1>3. TablesBounded => QTableBounded
  BY DEF TablesBounded, Bounded, QTableBounded
<1> QED
  BY <1>1, <1>2, <1>3, PTL DEF QSpec

-----------------------------------------------------------------------------
(* The reports of the variants.                                            *)

EntryLists == UNION {[1..n -> StoredEntries] : n \in 0..MaxEntries}

(* A report is a list of the conflicts of the variant and a summary.       *)
ReportOf(entries, page) ==
  /\ page.found \in Listed(DetectConflicts(entries))
  /\ page.summary = DetectConflicts(entries)

(* What is shown is the report of the variant.                             *)
PagesExact ==
  /\ vr = [variant |-> vr.variant, shown |-> vr.shown]
  /\ vr.variant \in EntryLists
  /\ vr.shown.page = "conflicts" => ReportOf(vr.variant, vr.shown)

(* Every report shown is exact.                                            *)
LEMMA PagesStayExact == ReportsSpec => []PagesExact
<1>1. ReportsInit => PagesExact
  <2> SUFFICES ASSUME ReportsInit
               PROVE  PagesExact
    OBVIOUS
  <2>1. PICK entries \in EntryLists :
          vr = [variant |-> entries, shown |-> NothingShown]
    BY DEF ReportsInit, EntryLists
  <2> QED
    BY <2>1 DEF PagesExact, NothingShown
<1>2. PagesExact /\ [ReportsNext]_vr => PagesExact'
  <2> SUFFICES ASSUME PagesExact, [ReportsNext]_vr
               PROVE  PagesExact'
    OBVIOUS
  <2>1. CASE Detect
    <3> DEFINE conflicts == DetectConflicts(vr.variant)
    <3>1. PICK found \in Listed(conflicts) :
            vr' = [vr EXCEPT !.shown = [page |-> "conflicts", found |-> found,
                                        summary |-> conflicts]]
      BY <2>1, Zenon DEF Detect
    <3>2. PICK page : page = [page |-> "conflicts", found |-> found,
                              summary |-> conflicts]
      OBVIOUS
    <3>3. page.found = found /\ page.summary = conflicts
      BY <3>2
    <3>4. vr' = [vr EXCEPT !.shown = page]
      BY <3>1, <3>2, Zenon
    <3>5. vr' = [variant |-> vr.variant, shown |-> page]
      BY <3>4 DEF PagesExact
    <3>6. vr'.variant = vr.variant /\ vr'.shown = page
      BY <3>5
    <3>7. ReportOf(vr.variant, page)
      BY <3>3, Zenon DEF ReportOf
    <3>8. vr'.variant \in EntryLists
      BY <3>6 DEF PagesExact
    <3>9. vr' = [variant |-> vr'.variant, shown |-> vr'.shown]
      BY <3>5, <3>6
    <3>10. ReportOf(vr'.variant, vr'.shown)
      BY <3>6, <3>7, Zenon
    <3> QED
      BY <3>8, <3>9, <3>10, Zenon DEF PagesExact
  <2>2. CASE UNCHANGED vr
    BY <2>2 DEF PagesExact
  <2> QED
    BY <2>1, <2>2 DEF ReportsNext
<1> QED
  BY <1>1, <1>2, PTL DEF ReportsSpec

(* Two places of a list are two entries.                                   *)
LEMMA TwoEntries ==
  ASSUME NEW entries \in EntryLists, NEW S, S \subseteq DOMAIN entries,
         NEW i \in S, NEW j \in S, i # j
  PROVE  Cardinality(S) > 1
<1>1. PICK n \in Nat : DOMAIN entries = 1..n
  BY ReportsAssumption DEF EntryLists
<1>2. IsFiniteSet(1..n)
  BY FS_Interval
<1>3. IsFiniteSet(S)
  BY <1>1, <1>2, FS_Subset
<1>4. IsFiniteSet({i, j}) /\ Cardinality({i, j}) = 2
  <2>1. IsFiniteSet({i}) /\ Cardinality({i}) = 1
    BY FS_Singleton
  <2>2. {i, j} = {i} \cup {j}
    OBVIOUS
  <2> QED
    BY <2>1, <2>2, FS_AddElement
<1>5. {i, j} \subseteq S
  OBVIOUS
<1>6. Cardinality({i, j}) <= Cardinality(S)
  BY <1>3, <1>5, FS_Subset
<1>7. Cardinality(S) \in Nat
  BY <1>3, FS_CardinalityType
<1> QED
  BY <1>4, <1>6, <1>7

(* The report of a variant holds the classes of a faculty at one time.     *)
LEMMA ClashesFound ==
  ASSUME NEW entries \in EntryLists, NEW i \in DOMAIN entries, NEW j \in DOMAIN entries,
         i # j, SameTime(entries[i], entries[j]),
         Get(entries[i], "faculty_name") # Missing,
         Get(entries[i], "faculty_name") = Get(entries[j], "faculty_name")
  PROVE  \E c \in DetectConflicts(entries) : c.kind = "faculty" /\ {i, j} \subseteq c.members
<1> DEFINE SameAs(k) == {l \in DOMAIN entries :
                      /\ Get(entries[l], "day") = Get(entries[k], "day")
                      /\ Get(entries[l], "time_slot") = Get(entries[k], "time_slot")
                      /\ Get(entries[l], "faculty_name") = Get(entries[k], "faculty_name")}
<1>1. entries[i] \in StoredEntries /\ entries[j] \in StoredEntries
  BY DEF EntryLists
<1>2. /\ Get(entries[j], "day") = Get(entries[i], "day")
      /\ Get(entries[j], "time_slot") = Get(entries[i], "time_slot")
  BY <1>1, StoredAssumption DEF Get, SameTime
<1>3. i \in SameAs(i) /\ j \in SameAs(i) /\ SameAs(i) \subseteq DOMAIN entries
  BY <1>2
<1> HIDE DEF SameAs
<1>4. Cardinality(SameAs(i)) > 1
  BY <1>3, TwoEntries
<1>5. [kind |-> "faculty", members |-> SameAs(i)]
        \in Groups(entries, "faculty", "faculty_name")
  BY <1>4 DEF Groups, SameAs
<1> QED
  BY <1>3, <1>5 DEF DetectConflicts

(* A variant has finitely many groups of entries.                          *)
LEMMA GroupsFinite ==
  ASSUME NEW entries \in EntryLists, NEW kind, NEW key
  PROVE  IsFiniteSet(Groups(entries, kind, key))
<1> DEFINE SameAs(i) == {j \in DOMAIN entries :
                           /\ Get(entries[j], "day") = Get(entries[i], "day")
                           /\ Get(entries[j], "time_slot") = Get(entries[i], "time_slot")
                           /\ Get(entries[j], key) = Get(entries[i], key)}
           group(i) == [kind |-> kind, members |-> SameAs(i)]
           some == {k \in DOMAIN entries :
                      Get(entries[k], key) # Missing /\ Cardinality(SameAs(k)) > 1}
           f == [i \in some |-> group(i)]
<1>1. Groups(entries, kind, key) = {group(i) : i \in some}
  BY DEF Groups
<1>2. some \subseteq DOMAIN entries
  OBVIOUS
<1>3. PICK n \in Nat : DOMAIN entries = 1..n
  BY ReportsAssumption DEF EntryLists
<1>4. IsFiniteSet(some)
  <2>1. IsFiniteSet(1..n)
    BY FS_Interval
  <2> HIDE DEF some
  <2> QED
    BY <1>2, <1>3, <2>1, FS_Subset
<1> HIDE DEF some, group
<1>5. f \in Surjection(some, {group(i) : i \in some})
  BY Zenon DEF Surjection
<1> HIDE DEF f
<1> QED
  BY <1>1, <1>4, <1>5, FS_Surjection

(* A list that lacks a conflict is full.                                   *)
LEMMA ShorterListIsFull ==
  ASSUME NEW entries \in EntryLists, NEW page, ReportOf(entries, page),
         NEW c \in DetectConflicts(entries), c \notin page.found
  PROVE  Cardinality(page.found) = ReportLimit
<1> DEFINE conflicts == DetectConflicts(entries)
<1>1. IsFiniteSet(conflicts)
  BY GroupsFinite, FS_Union DEF DetectConflicts
<1>2. /\ page.found \subseteq conflicts
      /\ Cardinality(page.found) = IF Cardinality(conflicts) < ReportLimit
                                   THEN Cardinality(conflicts) ELSE ReportLimit
  BY DEF ReportOf, Listed
<1>3. c \in conflicts
  OBVIOUS
<1> HIDE DEF conflicts
<1>4. /\ IsFiniteSet(conflicts \ {c}) /\ Cardinality(conflicts) \in Nat
      /\ Cardinality(conflicts \ {c}) = Cardinality(conflicts) - 1
  BY <1>1, <1>3, FS_RemoveElement, FS_CardinalityType
<1>5. page.found \subseteq conflicts \ {c}
  BY <1>2
<1>6. IsFiniteSet(page.found) /\ Cardinality(page.found) <= Cardinality(conflicts \ {c})
  BY <1>4, <1>5, FS_Subset
<1>7. Cardinality(page.found) \in Nat
  BY <1>6, FS_CardinalityType
<1> QED
  BY <1>2, <1>4, <1>6, <1>7

(* For any variant and limit: the summary has every clash of a faculty,    *)
(* and so has the list unless it is full.                                  *)
THEOREM ReportsTellTheTruth == ReportsSpec => []FacultyClashesReported
<1>1. PagesExact => FacultyClashesReported
  <2> SUFFICES ASSUME PagesExact, vr.shown.page = "conflicts",
                      NEW i \in DOMAIN vr.variant, NEW j \in DOMAIN vr.variant,
                      i # j, SameTime(vr.variant[i], vr.variant[j]),
                      Get(vr.variant[i], "faculty_name") # Missing,
                      Get(vr.variant[i], "faculty_name") = Get(vr.variant[j], "faculty_name")
               PROVE  Reported(i, j)
    BY DEF FacultyClashesReported
  <2>1. vr.variant \in EntryLists /\ ReportOf(vr.variant, vr.shown)
    BY DEF PagesExact
  <2>2. PICK c \in DetectConflicts(vr.variant) :
          c.kind = "faculty" /\ {i, j} \subseteq c.members
    BY <2>1, ClashesFound
  <2>3. c \notin vr.shown.found => Cardinality(vr.shown.found) = ReportLimit
    BY <2>1, ShorterListIsFull, Zenon
  <2>4. c \in vr.shown.summary
    BY <2>1, <2>2, Zenon DEF ReportOf
  <2> QED
    BY <2>2, <2>3, <2>4, Zenon DEF Reported
<1> QED
  BY <1>1, PagesStayExact, PTL

=============================================================================
