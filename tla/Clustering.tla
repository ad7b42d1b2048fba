----------------------------- MODULE Clustering -----------------------------
(***************************************************************************)
(* Stage 1 of the saga (engine/stage1_clustering.py): the courses become a *)
(* weighted graph, Louvain communities of that graph, and clusters of a    *)
(* size CP-SAT can solve.  Several threads compute the edges, a chunk of   *)
(* the course list each.  Louvain itself is a library: any partition of    *)
(* the courses into communities may come back, or it may raise.            *)
(*                                                                         *)
(* Abstracted: a course is its place in the list of courses (ids name the  *)
(* offering and the section, so no two are equal); the weight of an edge   *)
(* is only compared with the threshold, so an edge is present or absent;   *)
(* the number of a cluster in final_clusters is replaced by the community  *)
(* it was made of and the piece of it.                                     *)
(***************************************************************************)
EXTENDS Integers, FiniteSets

CONSTANTS
  ClusterInputs,    \* the course lists a job may have: records of count
                    \* (how many), students, teacher and features (of each)
  EdgeThresholds,   \* EDGE_THRESHOLD in tenths: 1, 3, 5 or 10 by free memory
  MaxGraphWorkers,  \* threads that compute edges
  TargetSize,       \* target_cluster_size, and the saga's fallback chunk
  MinSize, MergeSize, ChunkSize, MaxSize    \* 5, 10, 12 and 15 in the code

ASSUME SizesAssumption ==
  /\ {MaxGraphWorkers, TargetSize, MinSize, MergeSize, ChunkSize, MaxSize}
       \subseteq Nat \ {0}
  /\ MinSize <= MergeSize /\ MergeSize <= ChunkSize /\ ChunkSize <= MaxSize
  /\ TargetSize <= MaxSize

ASSUME ClusterInputsAssumption ==
  \A in \in ClusterInputs :
    in.count \in Nat /\ \A c \in 1..in.count : IsFiniteSet(in.students[c])

VARIABLE cl    \* the clusterer: control, input, graph, communities, clusters

ClusterNoInput == [count |-> 0]

-----------------------------------------------------------------------------
Smaller(a, b) == IF a < b THEN a ELSE b
Larger(a, b) == IF a > b THEN a ELSE b

(* The pieces of a list of n that range(0, n, size) starts, from 0 on.     *)
Pieces(n, size) == {q \in 0..n : q * size < n}

(* _compute_constraint_weight(c, d) > EDGE_THRESHOLD: 100 times the share  *)
(* of the smaller class the two courses have in common, 50 more when that  *)
(* is over a half, 50 for the same teacher (None is the same as None), 10  *)
(* for a common required feature.                                          *)
Significant(in, threshold, c, d) ==
  LET shared  == Cardinality(in.students[c] \cap in.students[d])
      smaller == Smaller(Cardinality(in.students[c]),
                         Cardinality(in.students[d]))
  IN \/ in.teacher[c] = in.teacher[d]
     \/ in.features[c] \cap in.features[d] # {}
     \/ /\ shared > 0
        /\ 1000 * shared + (IF 2 * shared > smaller THEN 500 * smaller ELSE 0)
             > threshold * smaller

(* Mutant: a thread only compares the courses of its own chunk.            *)
EdgesOfChunkAlone(in, threshold, chunk) ==
  {{p[1], p[2]} : p \in
     {p \in chunk \X chunk : p[1] < p[2] /\ Significant(in, threshold, p[1], p[2])}}

(* _compute_edges_for_chunk: the courses of the chunk with all later ones. *)
EdgesOfChunk(in, threshold, chunk) ==
  {{p[1], p[2]} : p \in
     {p \in chunk \X (1..in.count) :
        p[1] < p[2] /\ Significant(in, threshold, p[1], p[2])}}

(* The index ranges _build_constraint_graph hands to its threads.          *)
GraphChunks(n, workers) ==
  LET size == Larger(1, n \div workers)
  IN {(q * size + 1)..Smaller(q * size + size, n) : q \in Pieces(n, size)}

ConstraintGraph(in, threshold, workers) ==
  UNION {EdgesOfChunk(in, threshold, chunk) :
           chunk \in GraphChunks(in.count, workers)}

(* A partition gives each course its community, which is named by its      *)
(* first course: raw_clusters lists the communities in that order.         *)
Partitions(n) ==
  {f \in [1..n -> 1..n] : \A c \in 1..n : f[c] <= c /\ f[f[c]] = f[c]}

(* _sequential_fallback: nodes in insertion order, TargetSize at a time.   *)
SequentialFallback(n) ==
  [c \in 1..n |-> ((c - 1) \div TargetSize) * TargetSize + 1]

Community(f, k) == {c \in DOMAIN f : f[c] = k}

(* The lists of cluster_courses and small_clusters: community after        *)
(* community, and in one the courses in the order of their nodes.          *)
ComesBefore(f, b, c) == f[b] < f[c] \/ (f[b] = f[c] /\ b < c)
IndexIn(f, list, c) == Cardinality({b \in list : ComesBefore(f, b, c)})

(* A list cut from its start into pieces of that size, the last one        *)
(* possibly shorter, as clusters of community k.                           *)
CutIntoPieces(f, list, size, k) ==
  {[of |-> k, piece |-> q, courses |-> {c \in list : IndexIn(f, list, c) \div size = q}] :
     q \in Pieces(Cardinality(list), size)}

(* Mutant: short last pieces are dropped.                                  *)
SplitLargeDroppingTail(f, k) ==
  {c \in CutIntoPieces(f, Community(f, k), ChunkSize, k) :
     Cardinality(c.courses) >= MinSize}

(* A community over MaxSize is cut; a piece that is neither large enough   *)
(* nor the last one would be dropped.                                      *)
SplitLarge(f, k) ==
  {c \in CutIntoPieces(f, Community(f, k), ChunkSize, k) :
     \/ Cardinality(c.courses) >= MinSize
     \/ c.piece * ChunkSize + ChunkSize >= Cardinality(Community(f, k))}

Communities(f) == {f[c] : c \in DOMAIN f}
LargeOnes(f) == {k \in Communities(f) : Cardinality(Community(f, k)) > MaxSize}
SmallOnes(f) == {k \in Communities(f) : Cardinality(Community(f, k)) < MinSize}
SmallCourses(f) == {c \in DOMAIN f : f[c] \in SmallOnes(f)}
KeptOnes(f) ==
  {[of |-> k, piece |-> 0, courses |-> Community(f, k)] :
     k \in Communities(f) \ (LargeOnes(f) \union SmallOnes(f))}

(* Mutant: the small communities become one cluster.                       *)
OptimizeClusterSizesInOnePool(f) ==
  (UNION {SplitLarge(f, k) : k \in LargeOnes(f)}) \union KeptOnes(f)
    \union {[of |-> 0, piece |-> 0, courses |-> s] : s \in {SmallCourses(f)} \ {{}}}

(* _optimize_cluster_sizes: the large communities are cut, the small ones  *)
(* put into one list and cut.                                              *)
OptimizeClusterSizes(f) ==
  (UNION {SplitLarge(f, k) : k \in LargeOnes(f)}) \union KeptOnes(f)
    \union CutIntoPieces(f, SmallCourses(f), MergeSize, 0)

-----------------------------------------------------------------------------
ClusterInit ==
  cl = [pc |-> "load", in |-> ClusterNoInput, threshold |-> 0, graph |-> {},
        community |-> <<>>, clusters |-> {}]

(* cluster_courses is called with the loaded courses; the constructor      *)
(* reads the free memory once.                                             *)
ClusterLoad ==
  /\ cl.pc = "load"
  /\ \E in \in ClusterInputs, t \in EdgeThresholds :
       cl' = [cl EXCEPT !.pc = "graph", !.in = in, !.threshold = t]

BuildConstraintGraph ==
  /\ cl.pc = "graph"
  /\ \E w \in 1..MaxGraphWorkers :
       cl' = [cl EXCEPT !.pc = "louvain",
                        !.graph = ConstraintGraph(cl.in, cl.threshold, w)]

(* The library returns some partition.                                     *)
RunLouvain ==
  /\ cl.pc = "louvain"
  /\ \E f \in Partitions(cl.in.count) :
       cl' = [cl EXCEPT !.pc = "sizes", !.community = f]

(* It is missing or raises.                                                *)
LouvainFails ==
  /\ cl.pc = "louvain"
  /\ cl' = [cl EXCEPT !.pc = "sizes", !.community = SequentialFallback(cl.in.count)]

OptimizeSizes ==
  /\ cl.pc = "sizes"
  /\ cl' = [cl EXCEPT !.pc = "done", !.clusters = OptimizeClusterSizes(cl.community)]

(* Anything in cluster_courses raises (no memory for the graph, say): the  *)
(* callers cut the course list themselves.                                 *)
ClusteringFails ==
  /\ cl.pc \in {"graph", "louvain", "sizes"}
  /\ cl' = [cl EXCEPT !.pc = "done",
              !.clusters = CutIntoPieces([c \in 1..cl.in.count |-> 1],
                                         1..cl.in.count, TargetSize, 1)]

ClusterNext == \/ ClusterLoad \/ BuildConstraintGraph \/ RunLouvain
               \/ LouvainFails \/ OptimizeSizes \/ ClusteringFails

ClusterSpec == ClusterInit /\ [][ClusterNext]_cl

-----------------------------------------------------------------------------
(* The graph handed to Louvain has exactly the significant pairs, however  *)
(* the course list was divided among the threads.                          *)
GraphComplete ==
  cl.pc \in {"louvain", "sizes"} =>
    cl.graph = {{p[1], p[2]} : p \in
                  {p \in (1..cl.in.count) \X (1..cl.in.count) :
                     p[1] # p[2] /\ Significant(cl.in, cl.threshold, p[1], p[2])}}

(* Whatever communities come back, and whatever fails, every course ends   *)
(* in exactly one cluster: none is dropped by the splitting of large and   *)
(* the merging of small communities, none is solved twice.                 *)
EveryCourseClusteredOnce ==
  cl.pc = "done" =>
    /\ \A a \in cl.clusters : a.courses \subseteq 1..cl.in.count
    /\ \A c \in 1..cl.in.count : \E a \in cl.clusters :
         c \in a.courses /\ \A b \in cl.clusters : c \in b.courses => b = a

(* No cluster is empty or larger than what the solver is sized for.        *)
ClusterSizesBounded ==
  cl.pc = "done" => \A a \in cl.clusters : Cardinality(a.courses) \in 1..MaxSize

(* What a solver is handed: all courses, once, in clusters it is sized for, *)
(* found on the whole constraint graph.                                     *)
ClusteringSound == GraphComplete /\ EveryCourseClusteredOnce /\ ClusterSizesBounded
=============================================================================
