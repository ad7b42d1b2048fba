--------------------------- MODULE VariantReports ---------------------------
(***************************************************************************)
(* The report a reviewer gets of the conflicts of a variant (django        *)
(* academics/services/conflict_service.py and views/conflict_views.py).    *)
(*                                                                         *)
(* An entry is the record the saga persists: its fields are the keys it    *)
(* has (_build_variant_payload, fastapi saga.py).  A key an entry lacks is *)
(* read as Missing, the None or "" of get.                                 *)
(***************************************************************************)
EXTENDS Naturals, Sequences, FiniteSets

CONSTANTS
  StoredEntries,   \* the entries a variant may hold
  MaxEntries,      \* bound of the model: entries of a variant
  ReportLimit      \* conflicts a report lists: 100

ASSUME ReportsAssumption == {MaxEntries, ReportLimit} \subseteq Nat

(* The saga persists a day and a start time of every entry, and never a    *)
(* time_slot.                                                              *)
ASSUME StoredAssumption ==
  \A e \in StoredEntries : {"day", "start_time"} \subseteq DOMAIN e /\ "time_slot" \notin DOMAIN e

VARIABLE vr    \* the variant, and the report shown last

Missing == "missing"
Get(entry, key) == IF key \in DOMAIN entry THEN entry[key] ELSE Missing

NothingShown == [page |-> "none"]

ReportsInit ==
  \E entries \in UNION {[1..n -> StoredEntries] : n \in 0..MaxEntries} :
    vr = [variant |-> entries, shown |-> NothingShown]

-----------------------------------------------------------------------------
(* detect_conflicts: the entries of a day and time slot that have the same *)
(* faculty_name, or the same room_number.                                  *)
Groups(entries, kind, key) ==
  LET SameAs(i) == {j \in DOMAIN entries :
                      /\ Get(entries[j], "day") = Get(entries[i], "day")
                      /\ Get(entries[j], "time_slot") = Get(entries[i], "time_slot")
                      /\ Get(entries[j], key) = Get(entries[i], key)}
  IN {[kind |-> kind, members |-> SameAs(i)] :
        i \in {k \in DOMAIN entries :
                 Get(entries[k], key) # Missing /\ Cardinality(SameAs(k)) > 1}}

(* Mutant: the report of a variant has no place for faculties.             *)
DetectRoomConflictsOnly(entries) == Groups(entries, "room", "room_number")

DetectConflicts(entries) ==
  Groups(entries, "faculty", "faculty_name") \union Groups(entries, "room", "room_number")

(* The lists a report may show: which conflicts come first depends on the  *)
(* order of the entries, and is left open.                                 *)
Listed(conflicts) ==
  {found \in SUBSET conflicts :
     Cardinality(found) = IF Cardinality(conflicts) < ReportLimit
                          THEN Cardinality(conflicts) ELSE ReportLimit}

(* Mutant: the summary is made of the list after it was cut.               *)
DetectListedOnly ==
  \E found \in Listed(DetectConflicts(vr.variant)) :
    vr' = [vr EXCEPT !.shown = [page |-> "conflicts", found |-> found,
                                summary |-> found]]

(* GET conflicts/detect: a list that is cut, and the summary that          *)
(* categorize_conflicts makes of them all, by their types.                 *)
Detect ==
  LET conflicts == DetectConflicts(vr.variant)
  IN \E found \in Listed(conflicts) :
       vr' = [vr EXCEPT !.shown = [page |-> "conflicts", found |-> found,
                                   summary |-> conflicts]]

ReportsNext == Detect
ReportsSpec == ReportsInit /\ [][ReportsNext]_vr

-----------------------------------------------------------------------------
(* Two entries of a timetable that are at the same time.                   *)
SameTime(e, f) == e.day = f.day /\ e.start_time = f.start_time

(* The summary has the two under a conflict of their faculty, and the list *)
(* has it as well unless it is full.                                       *)
Reported(i, j) ==
  \E c \in vr.shown.summary :
    /\ c.kind = "faculty" /\ {i, j} \subseteq c.members
    /\ c \in vr.shown.found \/ Cardinality(vr.shown.found) = ReportLimit

(* Two classes of one faculty at one time are in the conflict report, and  *)
(* a list shorter than its limit misses none of them.  (The report may     *)
(* hold more: entries have no time_slot, so it groups all classes of a     *)
(* faculty on one day.  And it never holds a conflict of rooms: entries    *)
(* have no room_number.)                                                   *)
FacultyClashesReported ==
  vr.shown.page = "conflicts" =>
    \A i, j \in DOMAIN vr.variant :
      /\ i # j /\ SameTime(vr.variant[i], vr.variant[j])
      /\ Get(vr.variant[i], "faculty_name") # Missing
      /\ Get(vr.variant[i], "faculty_name") = Get(vr.variant[j], "faculty_name")
      => Reported(i, j)
=============================================================================
