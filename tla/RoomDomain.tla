----------------------------- MODULE RoomDomain -----------------------------
(***************************************************************************)
(* Which rooms a course may be given (engine/cpsat/solver.py,              *)
(* _precompute_valid_domains): four stages, each asking less of a room     *)
(* than the one before it, cut at a maximum so that the CP-SAT model stays *)
(* small.  The domain of a session is every time slot with each of them.   *)
(***************************************************************************)
EXTENDS Integers, FiniteSets

CONSTANTS
  RoomKinds,         \* rooms an organisation may have: capacity, type, features
  MaxRoomList,       \* rooms in the catalogue
  ClassSizes,        \* enrolled students
  NeededFeatures,    \* sets of features a course may require
  FewRooms,          \* 3: under this many the next stage is tried
  MaxRoomsPerCourse  \* 30

ASSUME RoomBoundsAssumption ==
  FewRooms \in Nat \ {0} /\ MaxRoomsPerCourse \in Nat /\ FewRooms <= MaxRoomsPerCourse
ASSUME RoomInputsAssumption ==
  /\ ClassSizes \subseteq Nat /\ MaxRoomList \in Nat
  /\ \A room \in RoomKinds : room.capacity \in Nat

VARIABLE rd    \* control, the catalogue of rooms, the course, the candidates

-----------------------------------------------------------------------------
(* A class nobody is enrolled in counts as 30.                             *)
Expected(enrolled) == IF enrolled = 0 THEN 30 ELSE enrolled

Distance(room, n) == IF room.capacity > n THEN room.capacity - n ELSE n - room.capacity

(* A choice of rooms is a set of places in the catalogue.  Python's sort   *)
(* is stable: rooms of equal distance keep their order.                    *)
FitsBetter(rooms, n, i, j) ==
  \/ Distance(rooms[i], n) < Distance(rooms[j], n)
  \/ Distance(rooms[i], n) = Distance(rooms[j], n) /\ i < j

FirstByFit(rooms, n, places) ==
  {j \in places : Cardinality({i \in places : FitsBetter(rooms, n, i, j)}) < MaxRoomsPerCourse}
FirstInOrder(places) ==
  {j \in places : Cardinality({i \in places : i < j}) < MaxRoomsPerCourse}

Ideal(room, n, features) ==
  /\ 10 * room.capacity >= 5 * n /\ room.capacity <= 6 * n
  /\ room.type = "CLASSROOM"
  /\ features \subseteq room.features
FitsType(room, n) == 10 * room.capacity >= 5 * n /\ room.type = "CLASSROOM"
FitsSize(room, n) == 10 * room.capacity >= 4 * n

IdealRooms(rooms, n, features) ==
  FirstByFit(rooms, n, {i \in DOMAIN rooms : Ideal(rooms[i], n, features)})
TypedRooms(rooms, n) == FirstInOrder({i \in DOMAIN rooms : FitsType(rooms[i], n)})
SizedRooms(rooms, n) == FirstInOrder({i \in DOMAIN rooms : FitsSize(rooms[i], n)})

(* Mutant: the third stage also serves when it finds nothing.              *)
CandidateRoomsWithoutLastResort(rooms, n, features) ==
  IF Cardinality(IdealRooms(rooms, n, features)) >= FewRooms
  THEN IdealRooms(rooms, n, features)
  ELSE IF Cardinality(TypedRooms(rooms, n)) >= FewRooms THEN TypedRooms(rooms, n)
  ELSE SizedRooms(rooms, n)

(* Mutant: the second stage looks at what the first one left over.         *)
CandidateRoomsFromRest(rooms, n, features) ==
  LET rest == TypedRooms(rooms, n) \ IdealRooms(rooms, n, features)
  IN IF Cardinality(IdealRooms(rooms, n, features)) >= FewRooms
     THEN IdealRooms(rooms, n, features)
     ELSE IF Cardinality(rest) >= FewRooms THEN rest
     ELSE IF SizedRooms(rooms, n) # {} THEN SizedRooms(rooms, n)
     ELSE FirstByFit(rooms, n, DOMAIN rooms)

(* candidate_rooms after the four stages.                                  *)
CandidateRooms(rooms, n, features) ==
  IF Cardinality(IdealRooms(rooms, n, features)) >= FewRooms
  THEN IdealRooms(rooms, n, features)
  ELSE IF Cardinality(TypedRooms(rooms, n)) >= FewRooms THEN TypedRooms(rooms, n)
  ELSE IF SizedRooms(rooms, n) # {} THEN SizedRooms(rooms, n)
  ELSE FirstByFit(rooms, n, DOMAIN rooms)

-----------------------------------------------------------------------------
RoomInit == rd = [pc |-> "load", rooms |-> <<>>, size |-> 0, features |-> {},
                  offered |-> {}]

RoomLoad ==
  /\ rd.pc = "load"
  /\ \E k \in 0..MaxRoomList : \E rooms \in [1..k -> RoomKinds],
        n \in ClassSizes, f \in NeededFeatures :
       rd' = [rd EXCEPT !.pc = "choose", !.rooms = rooms,
                        !.size = Expected(n), !.features = f]

RoomChoose ==
  /\ rd.pc = "choose"
  /\ rd' = [rd EXCEPT !.pc = "done",
                      !.offered = CandidateRooms(rd.rooms, rd.size, rd.features)]

RoomNext == RoomLoad \/ RoomChoose
RoomSpec == RoomInit /\ [][RoomNext]_rd

-----------------------------------------------------------------------------
(* A course always has a room to go to when there is a room at all: the    *)
(* stages relax far enough whatever the capacities, types and features.    *)
SomeRoomOffered ==
  rd.pc = "done" /\ DOMAIN rd.rooms # {} => rd.offered # {}

(* What becomes of a room that is ideal for the course: it is offered,     *)
(* or the cut is full, of rooms that fit at least as well or, in a stage   *)
(* that cuts in the order of the catalogue, of rooms listed before it.  No *)
(* stage that relaxes a condition loses it otherwise.                      *)
IdealRoomsKept ==
  rd.pc = "done" =>
    \A i \in DOMAIN rd.rooms :
      Ideal(rd.rooms[i], rd.size, rd.features) /\ i \notin rd.offered =>
        /\ Cardinality(rd.offered) >= MaxRoomsPerCourse
        /\ \/ \A j \in rd.offered : FitsBetter(rd.rooms, rd.size, j, i)
           \/ \A j \in rd.offered : j < i

(* The filters of a course's rooms are neither too narrow nor too wide.    *)
RoomDomainSound == SomeRoomOffered /\ IdealRoomsKept
=============================================================================
