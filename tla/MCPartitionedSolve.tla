------------------------- MODULE MCPartitionedSolve -------------------------
EXTENDS PartitionedSolve

(* PartitionedSolve: three courses of one, two and no departments, with    *)
(* teachers and students in common or not, with a fixed slot, a course     *)
(* marked cross-departmental, one slot for everything, and no slot at all. *)
Each(a, b, c) == [x \in Course |-> CASE x = "A" -> a [] x = "B" -> b [] OTHER -> c]

MCCatalogue(duration, dept, cross, teacher, students, fixed, slots, rooms, first) ==
  [courses |-> Course, dept |-> dept, crossType |-> cross, teacher |-> teacher,
   students |-> students, duration |-> duration, fixed |-> fixed, slots |-> slots,
   rooms |-> rooms, first |-> <<first, "r1">>]

NotCross == Each(FALSE, FALSE, FALSE)
NotFixed == Each(None, None, None)

MCCatalogues == {
  MCCatalogue(Each(1, 2, 1), Each("cs", "cs", "ph"), NotCross, Each("t1", "t2", "t1"),
              Each({"u"}, {}, {"u"}), Each("s1", None, None), {"s1", "s2"},
              Each({"r1"}, {"r1"}, {"r1"}), "s1"),
  MCCatalogue(Each(1, 1, 2), Each("cs", "ph", None), NotCross, Each("t1", None, "t2"),
              Each({"u"}, {"u"}, {"u"}), NotFixed, {"s1", "s2"},
              Each({"r1"}, {"r2"}, {"r1", "r2"}), "s1"),
  MCCatalogue(Each(2, 1, 1), Each("cs", "cs", "cs"), Each(FALSE, FALSE, TRUE),
              Each("t1", "t1", "t2"), Each({}, {"u"}, {"u"}), NotFixed, {"s1"},
              Each({"r1"}, {"r2"}, {"r1"}), "s1"),
  MCCatalogue(Each(1, 1, 1), Each("cs", "cs", "cs"), Each(FALSE, FALSE, TRUE),
              Each(None, "t1", "t2"), Each({}, {"u"}, {"u"}), NotFixed, {},
              Each({"r1"}, {"r2"}, {"r1"}), Unscheduled),
  MCCatalogue(Each(2, 1, 1), Each("cs", "ph", "ph"), NotCross, Each("t1", None, "t2"),
              Each({}, {}, {"u"}), NotFixed, {"s1", "s2"},
              Each({"r1"}, {"r1"}, {"r2"}), "s1")}
=============================================================================
