--------------------------- MODULE ConflictGraph ---------------------------
(***************************************************************************)
(* The graph of offerings that must not share a time slot                  *)
(* (core/services/graph_builder.py, models/offering_conflict_graph.py,     *)
(* models/dtos.py) and the CP-SAT constraints made from it                 *)
(* (engine/cpsat/conflict_constraints.py): a library of the solver that    *)
(* the saga does not call at this commit.                                  *)
(***************************************************************************)
EXTENDS Integers, FiniteSets

CONSTANTS
  Offering, Pupil, Staff,
  EnrollmentRows,     \* number of rows of the enrolment list
  StaffLists,         \* teachers of each offering: functions to records of
                      \* primary (a member of Staff or NoStaff) and co (a set)
  NoStaff

VARIABLE cg    \* control, the two lists, the pairs, the model's constraints

Enrollment == [pupil : Pupil, offering : Offering, status : {"ENROLLED", "DROPPED"}]

-----------------------------------------------------------------------------
(* Mutant: combinations with repetition.                                   *)
PairsOfWithRepetition(rows, offeringOf) ==
  {{offeringOf[p[1]], offeringOf[p[2]]} : p \in rows \X rows}

(* combinations(sorted(list), 2) of one resource's list, in which several  *)
(* rows may name the same offering; _canonical makes the pair unordered.   *)
PairsOf(rows, offeringOf) ==
  {{offeringOf[p[1]], offeringOf[p[2]]} : p \in {pair \in rows \X rows : pair[1] # pair[2]}}

(* Mutant: dropped rows count too.                                         *)
StudentPairsOfAnyStatus(list) ==
  UNION {PairsOf({r \in DOMAIN list : list[r].pupil = x},
                 [r \in DOMAIN list |-> list[r].offering]) : x \in Pupil}

(* build_student_conflict_pairs.                                           *)
StudentPairs(list) ==
  UNION {PairsOf({r \in DOMAIN list : list[r].pupil = x
                                        /\ list[r].status = "ENROLLED"},
                 [r \in DOMAIN list |-> list[r].offering]) : x \in Pupil}

AllFaculty(staff) == ({staff.primary} \union staff.co) \ {NoStaff}

ASSUME StaffListsAssumption ==
  \A staff \in StaffLists : \A o \in Offering : AllFaculty(staff[o]) \subseteq Staff

(* Mutant: co-teachers are forgotten.                                      *)
TeacherPairsOfPrimaries(staff) ==
  UNION {PairsOf({o \in Offering : staff[o].primary = x}, [o \in Offering |-> o]) :
           x \in Staff}

(* build_teacher_conflict_pairs; all_faculty_ids lists a teacher once.     *)
TeacherPairs(staff) ==
  UNION {PairsOf({o \in Offering : x \in AllFaculty(staff[o])},
                 [o \in Offering |-> o]) : x \in Staff}

MustNotOverlap(graph, a, b) == {a, b} \in graph

(* add_no_overlap_constraints for the offerings of one model.              *)
NoOverlapConstraints(graph, scope) == {p \in graph : p \subseteq scope}

-----------------------------------------------------------------------------
GraphInit == cg = [pc |-> "load", list |-> <<>>, staff |-> <<>>, graph |-> {},
                   scope |-> {}, constraints |-> {}]

GraphLoad ==
  /\ cg.pc = "load"
  /\ \E list \in [1..EnrollmentRows -> Enrollment], staff \in StaffLists :
       cg' = [cg EXCEPT !.pc = "build", !.list = list, !.staff = staff]

(* build_graph: once per job.                                              *)
BuildGraph ==
  /\ cg.pc = "build"
  /\ cg' = [cg EXCEPT !.pc = "inject",
                      !.graph = StudentPairs(cg.list) \union TeacherPairs(cg.staff)]

(* The constraints of one model.                                           *)
Inject ==
  /\ cg.pc = "inject"
  /\ \E scope \in SUBSET Offering :
       cg' = [cg EXCEPT !.pc = "done", !.scope = scope,
                        !.constraints = NoOverlapConstraints(cg.graph, scope)]

GraphNext == GraphLoad \/ BuildGraph \/ Inject
GraphSpec == GraphInit /\ [][GraphNext]_cg

-----------------------------------------------------------------------------
AttendsNow(x, o) ==
  \E r \in DOMAIN cg.list : cg.list[r] = [pupil |-> x, offering |-> o,
                                          status |-> "ENROLLED"]

(* must_not_overlap "returns True iff A and B share at least one           *)
(* resource": an enrolled student or a teacher, primary or not.            *)
OverlapIffShared ==
  cg.pc = "inject" =>
    \A a, b \in Offering : a # b =>
      (MustNotOverlap(cg.graph, a, b) <=>
         \/ \E x \in Pupil : AttendsNow(x, a) /\ AttendsNow(x, b)
         \/ AllFaculty(cg.staff[a]) \cap AllFaculty(cg.staff[b]) # {})

(* A pair of an offering with itself would make the model infeasible       *)
(* (slot # slot): it only arises from a duplicate enrolment row.           *)
SelfPairsFromDuplicates ==
  cg.pc = "done" =>
    \A a \in Offering : {a} \in cg.constraints =>
      \E r, q \in DOMAIN cg.list : r # q /\ cg.list[r] = cg.list[q]
                                     /\ cg.list[r].offering = a

(* The graph and the constraints drawn from it are what the models need.   *)
OverlapGraphSound == OverlapIffShared /\ SelfPairsFromDuplicates
=============================================================================
