------------------------------ MODULE JobData ------------------------------
(***************************************************************************)
(* The data a job is solved with (saga.py _load_data and the fetch_*       *)
(* methods of utils/django_client.py): six fetches that run in parallel,   *)
(* the sections a large offering is split into, and the grid of time slots *)
(* that is made from the configured day.                                   *)
(*                                                                         *)
(* Abstracted: rows other than course offerings carry no data; times are   *)
(* counted in any common unit; the caches are in DataCache, the            *)
(* connections in DbPool.                                                  *)
(***************************************************************************)
EXTENDS Integers, Sequences, FiniteSets

CONSTANTS
  OfferingRows,     \* rows: records of students (a sequence), primary and co
  DayConfigs,       \* time configurations: records of days, wanted, start,
                    \* end, duration, lunch, lunchStart, lunchEnd, and of
                    \* seconds, the times that are written HH:MM:SS
  DefaultConfig,    \* _DEFAULT_TIME_CONFIG
  SectionLimit,     \* 60 students
  NoFaculty         \* NULL, empty or the zero UUID

ASSUME SectionLimitAssumption == SectionLimit \in Nat \ {0}

IsSequence(s) == s \in Seq({s[k] : k \in DOMAIN s})

(* "ARRAY_AGG(DISTINCT student_id)": a row names no student twice.         *)
ASSUME RowsAssumption ==
  \A row \in OfferingRows :
    /\ IsSequence(row.students) /\ IsSequence(row.co)
    /\ \A i, j \in DOMAIN row.students : row.students[i] = row.students[j] => i = j

(* Times of a day, and counts that are not negative; the default slot has  *)
(* 60 minutes.                                                             *)
TimeConfigs ==
  [days : Nat, wanted : Nat, start : Nat, end : Nat, duration : Nat, lunch : BOOLEAN,
   lunchStart : Nat, lunchEnd : Nat,
   seconds : SUBSET {"start", "end", "lunchStart", "lunchEnd"}]

ASSUME ConfigsAssumption ==
  DayConfigs \subseteq TimeConfigs /\ DefaultConfig \in TimeConfigs
  /\ DefaultConfig.duration > 0

VARIABLE jd    \* the job's status and what each fetch returned

Fetches == {"courses", "faculty", "rooms", "time_slots", "students", "enrollments"}
(* Their exceptions are caught and become an empty result.                 *)
Forgiving == {"courses", "time_slots", "enrollments"}

-----------------------------------------------------------------------------
(* The co-teachers with a valid identifier, and the k-th of them.          *)
ValidCo(row) == {i \in DOMAIN row.co : row.co[i] # NoFaculty}
NthCo(row, k) ==
  row.co[CHOOSE i \in ValidCo(row) : Cardinality({j \in ValidCo(row) : j <= i}) = k]

FacultyPool(row) ==
  <<row.primary>> \o [k \in 1..Cardinality(ValidCo(row)) |-> NthCo(row, k)]

(* Mutant: no more sections than teachers.                                 *)
SectionCountByFaculty(row) ==
  LET needed == (Len(row.students) + SectionLimit - 1) \div SectionLimit
      pool == Len(FacultyPool(row))
  IN IF needed > pool THEN pool ELSE needed

SectionCount(row) == (Len(row.students) + SectionLimit - 1) \div SectionLimit

(* How many students the sections before the i-th hold: even sizes, the    *)
(* first ones taking the remainder.                                        *)
Before(row, i) ==
  LET size == Len(row.students) \div SectionCount(row)
      rest == Len(row.students) % SectionCount(row)
  IN (i - 1) * size + (IF i - 1 < rest THEN i - 1 ELSE rest)

(* An offering over the limit becomes sections taught by the pool in turn; *)
(* a smaller one stays a course of its primary teacher.                    *)
ParallelSections(row) ==
  LET pool == FacultyPool(row)
  IN [i \in 1..SectionCount(row) |->
        [teacher  |-> pool[((i - 1) % Len(pool)) + 1],
         students |-> SubSeq(row.students, Before(row, i) + 1, Before(row, i + 1))]]

SectionsOf(row) ==
  CASE row.primary = NoFaculty -> <<>>
    [] row.primary # NoFaculty /\ Len(row.students) <= SectionLimit ->
         <<[teacher |-> row.primary, students |-> row.students]>>
    [] OTHER -> ParallelSections(row)

-----------------------------------------------------------------------------
LunchLength(c) ==
  IF c.lunch /\ c.lunchEnd > c.lunchStart THEN c.lunchEnd - c.lunchStart ELSE 0
Effective(c) == c.end - c.start - LunchLength(c)

(* Mutant: the lunch break is not taken off the window.                    *)
PeriodsWithoutLunch(c) ==
  LET fits == (c.end - c.start) \div c.duration
      most == IF fits < 1 THEN 1 ELSE fits
  IN IF c.wanted < most THEN c.wanted ELSE most

(* slots_per_day after the clamp.                                          *)
Periods(c) ==
  LET fits == Effective(c) \div c.duration
      most == IF fits < 1 THEN 1 ELSE fits
  IN IF c.wanted < most THEN c.wanted ELSE most

(* computeMaxSlots: the ceiling the form page shows.                       *)
PageMaxSlots(c, duration) ==
  LET fits == Effective(c) \div duration
  IN IF c.end <= c.start \/ fits < 1 THEN 1 ELSE fits

(* _max_slots: Django's ceiling.  Its to_minutes makes 0 of every time that *)
(* is not HH:MM; the page and FastAPI's parse_time read HH:MM:SS as well.   *)
MaxSlots(c, duration) ==
  LET at(time) == IF time \in c.seconds THEN 0 ELSE c[time]
      lunch == IF c.lunch /\ at("lunchEnd") > at("lunchStart")
                 THEN at("lunchEnd") - at("lunchStart") ELSE 0
      fits == (at("end") - at("start") - lunch) \div duration
  IN IF at("end") <= at("start") \/ fits < 1 THEN 1 ELSE fits

(* A configuration of the form is clamped and gets the default length of a *)
(* slot; one of the database goes as it is.                                *)
FromForm(c) ==
  LET most == MaxSlots(c, DefaultConfig.duration)
  IN [c EXCEPT !.duration = DefaultConfig.duration,
               !.wanted = IF @ < most THEN @ ELSE most]

ResolvedConfigs ==
  {FromForm(c) : c \in DayConfigs} \union DayConfigs \union {DefaultConfig}

InLunch(c, t) == c.lunch /\ c.lunchStart <= t /\ t < c.lunchEnd

(* One pass of the while loop: stop, jump over lunch, or make a slot.      *)
DayStep(c, day) ==
  CASE Len(day.slots) >= Periods(c) \/ day.now >= c.end -> day
    [] Len(day.slots) < Periods(c) /\ day.now < c.end /\ InLunch(c, day.now) ->
         [day EXCEPT !.now = c.lunchEnd]
    [] OTHER ->
         [now |-> day.now + c.duration,
          slots |-> Append(day.slots, [from |-> day.now, to |-> day.now + c.duration])]

(* The day after each pass, as many as the loop can make.                  *)
DayPasses(c) ==
  LET pass[k \in 0..(c.wanted + 1)] ==
        IF k = 0 THEN [now |-> c.start, slots |-> <<>>] ELSE DayStep(c, pass[k - 1])
  IN pass

DaySlots(c) == DayPasses(c)[c.wanted + 1].slots

(* The names of the days are cut to the working days, and there are seven. *)
WorkingDays(c) == IF c.days < 7 THEN c.days ELSE 7

(* fetch_time_slots: the same day for every working day, numbered through; *)
(* a failure (a duration of zero, say) is caught.                          *)
TimeGrid(c) ==
  LET day == DaySlots(c)
  IN [id \in 1..(WorkingDays(c) * Len(day)) |->
        [day |-> (id - 1) \div Len(day), period |-> (id - 1) % Len(day),
         from |-> day[((id - 1) % Len(day)) + 1].from,
         to   |-> day[((id - 1) % Len(day)) + 1].to]]

-----------------------------------------------------------------------------
DataInit ==
  jd = [status |-> "loading", pending |-> Fetches, failed |-> {}, rows |-> <<>>,
        sections |-> <<>>, config |-> <<>>, slots |-> <<>>]

FetchCourses ==
  /\ jd.status = "loading" /\ "courses" \in jd.pending
  /\ \E row \in OfferingRows :
       jd' = [jd EXCEPT !.pending = @ \ {"courses"}, !.rows = <<row>>,
                        !.sections = SectionsOf(row)]

FetchTimeSlots ==
  /\ jd.status = "loading" /\ "time_slots" \in jd.pending
  /\ \E c \in ResolvedConfigs :
       jd' = [jd EXCEPT !.pending = @ \ {"time_slots"}, !.config = <<c>>,
                        !.slots = IF c.duration = 0 THEN <<>> ELSE TimeGrid(c)]

(* The other four read rows that no later step of the model looks at: what *)
(* matters here is that gather waits for them, or for their exception.     *)
Fetched(f) == /\ jd.status = "loading" /\ f \in jd.pending
              /\ jd' = [jd EXCEPT !.pending = @ \ {f}]

FetchFaculty     == Fetched("faculty")
FetchRooms       == Fetched("rooms")
FetchStudents    == Fetched("students")
FetchEnrollments == Fetched("enrollments")

(* gather raises the first exception that a fetch does not catch.          *)
FetchFails ==
  /\ jd.status = "loading"
  /\ \E f \in jd.pending :
       jd' = [jd EXCEPT !.pending = @ \ {f}, !.failed = @ \union {f},
                        !.status = IF f \in Forgiving THEN @ ELSE "error"]

DataLoaded ==
  /\ jd.status = "loading" /\ jd.pending = {}
  /\ jd' = [jd EXCEPT !.status = "loaded"]

DataNext == \/ FetchCourses \/ FetchTimeSlots \/ FetchFaculty \/ FetchRooms
            \/ FetchStudents \/ FetchEnrollments \/ FetchFails \/ DataLoaded

DataSpec == DataInit /\ [][DataNext]_jd

-----------------------------------------------------------------------------
(* "MUST be enough to keep each section <= 60 students": the sections of   *)
(* an offering hold each of its students exactly once, none is over the    *)
(* limit, their sizes differ by one at most, and a valid teacher of the    *)
(* offering takes each.                                                    *)
SectionsSound ==
  \A r \in DOMAIN jd.rows : jd.rows[r].primary # NoFaculty =>
    LET row == jd.rows[r]
        size(i) == Len(jd.sections[i].students)
        copies(x) == {p \in (DOMAIN jd.sections) \X (1..SectionLimit) :
                        p[2] <= size(p[1]) /\ jd.sections[p[1]].students[p[2]] = x}
    IN /\ \A k \in DOMAIN row.students : Cardinality(copies(row.students[k])) = 1
       /\ \A i, j \in DOMAIN jd.sections : size(i) <= SectionLimit /\ size(i) - size(j) <= 1
       /\ \A i \in DOMAIN jd.sections :
            /\ jd.sections[i].teacher # NoFaculty
            /\ \E k \in DOMAIN FacultyPool(row) : FacultyPool(row)[k] = jd.sections[i].teacher

(* The clamp leaves no day that cannot be taught: whatever the break and   *)
(* however slots fall around it, no two slots of a day overlap, none       *)
(* starts in the break, and unless less than one slot is left of the       *)
(* window, the day has all its periods and ends inside the window.         *)
GridSound ==
  \A k \in DOMAIN jd.config : LET c == jd.config[k] IN
    /\ \A i, j \in DOMAIN jd.slots :
         i < j /\ jd.slots[i].day = jd.slots[j].day => jd.slots[i].to <= jd.slots[j].from
    /\ \A i \in DOMAIN jd.slots : ~InLunch(c, jd.slots[i].from)
    /\ c.duration > 0 /\ Effective(c) >= c.duration =>
         /\ Len(jd.slots) = WorkingDays(c) * Periods(c)
         /\ \A i \in DOMAIN jd.slots : jd.slots[i].to <= c.end

(* A day made of form c has the periods the form page showed for it, when  *)
(* at least one fits: Django's ceiling has not cut it further, and FastAPI *)
(* has not had to clamp it again.                                          *)
FormKept(c) ==
  \A k \in DOMAIN jd.config :
    LET most == PageMaxSlots(c, DefaultConfig.duration)
    IN jd.config[k] = FromForm(c) /\ Effective(c) >= DefaultConfig.duration =>
         /\ Len(jd.slots) = WorkingDays(c) * (IF c.wanted < most THEN c.wanted ELSE most)
         /\ Periods(FromForm(c)) = FromForm(c).wanted

(* The form page, Django and the grid agree on the periods of a day as long *)
(* as the form's times are written HH:MM (computeMaxSlots, _max_slots and   *)
(* the pre-flight clamp of fetch_time_slots).                               *)
FormsKept == \A c \in DayConfigs : c.seconds = {} => FormKept(c)

(* The data a job is solved with is sound.                                 *)
JobDataSound == SectionsSound /\ GridSound /\ FormsKept
=============================================================================
