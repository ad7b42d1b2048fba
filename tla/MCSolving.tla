----------------------------- MODULE MCSolving -----------------------------
(***************************************************************************)
(* The stages a generation job runs through, and the services they rest    *)
(* on, checked in one run.  A stage hands its result to the next by value  *)
(* and shares no variable with it, so each is checked by itself: `part`    *)
(* says which, and the variables of the others keep their first values.    *)
(***************************************************************************)
EXTENDS JobData, DbPool, Clustering, RoomDomain, ConflictGraph, MCPartitionedSolve,
        QLearning, Optimise, VariantReports, TLC

VARIABLE part

Part == {"data", "pool", "clusters", "rooms", "overlap", "solve", "qtable", "search",
         "reports"}

Init ==
  /\ part \in Part
  /\ DataInit /\ DbInit /\ ClusterInit /\ RoomInit /\ GraphInit /\ SolveInit
  /\ QInit /\ GaInit /\ ReportsInit
  /\ part # "pool" => db.server = "asleep"
  /\ part # "reports" => vr.variant = <<>>

Next ==
  \/ part = "data" /\ DataNext
     /\ UNCHANGED <<part, db, cl, rd, cg, psVars, ql, ga, vr>>
  \/ part = "pool" /\ DbNext
     /\ UNCHANGED <<part, jd, cl, rd, cg, psVars, ql, ga, vr>>
  \/ part = "clusters" /\ ClusterNext
     /\ UNCHANGED <<part, jd, db, rd, cg, psVars, ql, ga, vr>>
  \/ part = "rooms" /\ RoomNext
     /\ UNCHANGED <<part, jd, db, cl, cg, psVars, ql, ga, vr>>
  \/ part = "overlap" /\ GraphNext
     /\ UNCHANGED <<part, jd, db, cl, rd, psVars, ql, ga, vr>>
  \/ part = "solve" /\ SolveNext
     /\ UNCHANGED <<part, jd, db, cl, rd, cg, ql, ga, vr>>
  \/ part = "qtable" /\ QNext
     /\ UNCHANGED <<part, jd, db, cl, rd, cg, psVars, ga, vr>>
  \/ part = "search" /\ GaNext
     /\ UNCHANGED <<part, jd, db, cl, rd, cg, psVars, ql, vr>>
  \/ part = "reports" /\ ReportsNext
     /\ UNCHANGED <<part, jd, db, cl, rd, cg, psVars, ql, ga>>

Spec == Init /\ [][Next]_<<part, jd, db, cl, rd, cg, psVars, ql, ga, vr>>

-----------------------------------------------------------------------------
(* JobData: offerings with an empty, a full and an overfull class, with    *)
(* and without a primary teacher; days shorter and longer than the form    *)
(* asks for, breaks at every place, more than seven working days, and      *)
(* times written with seconds.                                             *)
MCOfferingRows ==
  {[students |-> [i \in 1..n |-> i], primary |-> p, co |-> c] :
     <<n, p, c>> \in {<<3, "p", <<>>>>, <<8, "p", <<>>>>, <<7, "p", <<NoFaculty, "q">>>>,
                      <<7, NoFaculty, <<"q">>>>, <<0, "p", <<>>>>}}

MCDayConfigs ==
  [days : {2}, wanted : {1, 4}, start : {2}, end : {4, 8, 9}, duration : {0, 3},
   lunch : BOOLEAN, lunchStart : {4, 5}, lunchEnd : {4, 6, 7}, seconds : {{}}]
    \union
  [days : {2, 8}, wanted : {4}, start : {2}, end : {9}, duration : {3}, lunch : {TRUE},
   lunchStart : {4}, lunchEnd : {6},
   seconds : {{}, {"lunchEnd"}, {"start", "end", "lunchStart", "lunchEnd"}}]

MCDefaultConfig ==
  [days |-> 2, wanted |-> 3, start |-> 2, end |-> 9, duration |-> 2, lunch |-> TRUE,
   lunchStart |-> 4, lunchEnd |-> 5, seconds |-> {}]

(* Clustering: seven courses, heavy edges between the even and between the *)
(* odd ones but for one, light edges elsewhere, and a feature two need.    *)
MCClusterInputs ==
  {[count    |-> 7,
    students |-> [i \in 1..7 |-> IF i % 2 = 0 THEN {"s1", "s2"}
                                 ELSE IF i = 3 THEN {"s3", "s4"} ELSE {"s2", "s3", "s4"}],
    teacher  |-> [i \in 1..7 |-> i],
    features |-> [i \in 1..7 |-> IF i \in {3, 4} THEN {"lab"} ELSE {}]]}

(* RoomDomain: too small, too large, fitting, without the feature, of the  *)
(* wrong type.                                                             *)
MCRoomKinds ==
  {[capacity |-> c, type |-> t, features |-> f] :
     <<c, t, f>> \in {<<10, "CLASSROOM", {}>>, <<30, "CLASSROOM", {"tv"}>>,
                      <<30, "CLASSROOM", {}>>, <<200, "CLASSROOM", {"tv"}>>,
                      <<30, "LAB", {"tv"}>>}}

(* ConflictGraph: a primary teacher who is another offering's co-teacher,  *)
(* an offering without one, two with the same.                             *)
MCStaffLists ==
  {[o \in Offering |-> [primary |-> IF o = "o2" THEN NoStaff ELSE "p",
                        co |-> IF o = "o1" THEN {} ELSE {"q"}]],
   [o \in Offering |-> [primary |-> IF o = "o2" THEN "q" ELSE "p",
                        co |-> IF o = "o3" THEN {"q"} ELSE {"p"}]],
   [o \in Offering |-> [primary |-> IF o = "o3" THEN "q" ELSE "p", co |-> {}]]}

(* Optimise: two courses of one teacher that share a student, a room too   *)
(* small for one of them, an empty answer and one with a sentinel.         *)
MCGaCourse ==
  {[id |-> "a", duration |-> 1, teacher |-> "t", students |-> {"u"}],
   [id |-> "b", duration |-> 1, teacher |-> "t", students |-> {"u", "v"}]}
MCGaSlot == {[id |-> "s0", period |-> 0], [id |-> "s1", period |-> 3]}
MCGaRoom == {[id |-> "small", capacity |-> 2], [id |-> "large", capacity |-> 9]}
MCGaInitial ==
  {<<>>, (<<"a", 0>> :> <<"s0", "large">>) @@ (<<"b", 0>> :> <<"x", "large">>)}
MCGaWeights == <<[faculty |-> 55, room |-> 20, spread |-> 15, student |-> 10],
                 [faculty |-> 20, room |-> 55, spread |-> 15, student |-> 10]>>

(* VariantReports: classes of a course at two times and in two rooms, of   *)
(* two teachers, one of them persisted without the teacher's name.         *)
Class(start, room, teacher) ==
  [day |-> 1, start_time |-> start, course_code |-> "c1", room_code |-> room,
   faculty_name |-> teacher]
MCStoredEntries ==
  {Class("9", "r1", "f1"), Class("10", "r2", "f1"), Class("9", "r2", "f2"),
   [day |-> 1, start_time |-> "9", course_code |-> "c1", room_code |-> "r1"]}
=============================================================================
