----------------------------- MODULE ListCache -----------------------------
(***************************************************************************)
(* A cached list of the admin pages (django core/cache_service.py,         *)
(* academics/mixins.py SmartCachedViewSet) and the requests that change    *)
(* its rows.  The key of an entry holds the version counter of its model,  *)
(* so an increment makes every older entry unreachable.  The list of       *)
(* timetable configurations (timetable_config_views.py) has one key that   *)
(* holds no version: it is entry 0 here.                                   *)
(*                                                                         *)
(* Rows are the set of changes they reflect.  A change is one request and  *)
(* one transaction (ATOMIC_REQUESTS), so both its increments, the signal's *)
(* and the view's, come before the commit.  Every Redis command is a step. *)
(* One page of one organisation's list is modelled; the delete_pattern of  *)
(* invalidate_model_cache names the key prefix a second time, matches no   *)
(* key and is left out.                                                    *)
(***************************************************************************)
EXTENDS Naturals

CONSTANTS
  Request,      \* requests for the list
  Change,       \* requests that create, update or delete a row
  MaxVersion,   \* bound of the model: the counter goes no higher
  ListKinds,    \* a subset of BOOLEAN: has the key of the list a version?
  RedisFails    \* may a Redis command fail (IGNORE_EXCEPTIONS: silently)?

ASSUME ListCacheAssumption ==
  MaxVersion \in Nat /\ MaxVersion >= 2 /\ ListKinds \subseteq BOOLEAN
  /\ RedisFails \in BOOLEAN

VARIABLES
  versioned,   \* is it a list whose key has a version?
  rows,        \* the changes committed
  counter,     \* the version counter, 0 when there is no such key
  entry,       \* the cached list under each version
  reader,      \* the requests for the list
  writer,      \* how far each change is
  base,        \* history: the changes committed when a version was made
  steady       \* history: the counter has only moved up

lcVars == <<versioned, rows, counter, entry, reader, writer, base, steady>>

Version == 0..MaxVersion
Empty   == [there |-> FALSE, rows |-> {}]

ListInit ==
  /\ versioned \in ListKinds
  /\ rows = {} /\ counter \in {0, 1} /\ steady = TRUE
  /\ entry  = [v \in Version |-> Empty]
  /\ base   = [v \in Version |-> {}]
  /\ reader = [r \in Request |-> [pc |-> "new", v |-> 0, rows |-> {}]]
  /\ writer = [c \in Change |-> "new"]

-----------------------------------------------------------------------------
(* SmartCachedViewSet.list and retrieve: get_model_version, ...            *)
Goes(r, pc) == reader' = [reader EXCEPT ![r].pc = pc]

ReadCounter(r) ==
  LET Begins(pc, v) == reader' = [reader EXCEPT ![r] = [pc |-> pc, v |-> v, rows |-> {}]]
  IN /\ reader[r].pc = "new"
     /\ \/ ~versioned /\ Begins("get", 0)
        \/ versioned /\ counter > 0 /\ Begins("get", counter)
        \/ versioned /\ counter = 0 /\ Begins("add", 0)
        \/ versioned /\ RedisFails /\ Begins("get", 1)
     /\ UNCHANGED <<versioned, rows, counter, entry, writer, base, steady>>

(* ... which makes the counter when there is none and reads it again, ...  *)
AddCounter(r) ==
  /\ reader[r].pc = "add"
  /\ counter' = IF counter = 0 THEN 1 ELSE counter
  /\ Goes(r, "again")
  /\ UNCHANGED <<versioned, rows, entry, writer, base, steady>>

ReadAgain(r) ==
  /\ reader[r].pc = "again"
  /\ reader' = [reader EXCEPT ![r] = [@ EXCEPT !.pc = "get",
                                  !.v = IF counter = 0 THEN 1 ELSE counter]]
  /\ UNCHANGED <<versioned, rows, counter, entry, writer, base, steady>>

(* ... the entry under that version, ...                                   *)
GetEntry(r) ==
  LET found == entry[reader[r].v]
  IN /\ reader[r].pc = "get"
     /\ \/ /\ found.there
           /\ reader' = [reader EXCEPT ![r] = [@ EXCEPT !.pc = "done", !.rows = found.rows]]
        \/ ~found.there /\ Goes(r, "query")
        \/ RedisFails /\ Goes(r, "query")
     /\ UNCHANGED <<versioned, rows, counter, entry, writer, base, steady>>

(* ... or the rows, stored under the version read at the start.            *)
QueryRowsOfList(r) ==
  /\ reader[r].pc = "query"
  /\ reader' = [reader EXCEPT ![r] = [@ EXCEPT !.pc = "store", !.rows = rows]]
  /\ UNCHANGED <<versioned, rows, counter, entry, writer, base, steady>>

(* Mutant: the version is read again, when the rows are stored.            *)
StoreEntryUnderNewest(r) ==
  /\ reader[r].pc = "store"
  /\ Goes(r, "done")
  /\ entry' = [entry EXCEPT ![IF versioned THEN counter ELSE 0] =
                 [there |-> TRUE, rows |-> reader[r].rows]]
  /\ UNCHANGED <<versioned, rows, counter, writer, base, steady>>

StoreEntry(r) ==
  /\ reader[r].pc = "store"
  /\ Goes(r, "done")
  /\ \/ entry' = [entry EXCEPT ![reader[r].v] = [there |-> TRUE, rows |-> reader[r].rows]]
     \/ RedisFails /\ entry' = entry
  /\ UNCHANGED <<versioned, rows, counter, writer, base, steady>>

-----------------------------------------------------------------------------
(* A change saves its rows, one after another, inside its transaction.     *)
(* Every save of a registered model increments the counter; the timetable  *)
(* configurations are not registered, and their version is in no key.      *)
Save(c) ==
  /\ writer[c] \in {"new", "signalled"}
  /\ writer' = [writer EXCEPT ![c] = IF versioned THEN "saved" ELSE "signalled"]
  /\ UNCHANGED <<versioned, rows, counter, entry, reader, base, steady>>

(* bump_model_version: one INCR ...                                        *)
Bump(c, from, missing, to) ==
  /\ writer[c] = from /\ counter < MaxVersion
  /\ \/ /\ counter > 0
        /\ counter' = counter + 1
        /\ base' = [base EXCEPT ![counter + 1] = rows]
        /\ writer' = [writer EXCEPT ![c] = to]
     \/ /\ counter = 0
        /\ writer' = [writer EXCEPT ![c] = missing]
        /\ UNCHANGED <<counter, base>>
     \/ /\ RedisFails
        /\ writer' = [writer EXCEPT ![c] = to]
        /\ UNCHANGED <<counter, base>>
  /\ UNCHANGED <<versioned, rows, entry, reader, steady>>

(* ... and when there is no counter, in a second command, SET 2.           *)
SetTwo(c, from, to) ==
  /\ writer[c] = from
  /\ counter' = 2
  /\ base' = [base EXCEPT ![2] = rows]
  /\ steady' = (steady /\ counter < 2)
  /\ writer' = [writer EXCEPT ![c] = to]
  /\ UNCHANGED <<versioned, rows, entry, reader>>

(* The handler of post_save, post_delete and m2m_changed.                  *)
AutoInvalidate(c) ==
  Bump(c, "saved", "signalSets", "signalled") \/ SetTwo(c, "signalSets", "signalled")

(* The view's own invalidation, when the response is a success.            *)
ViewInvalidates(c) ==
  \/ versioned /\ (Bump(c, "signalled", "viewSets", "bumped") \/ SetTwo(c, "viewSets", "bumped"))
  \/ /\ ~versioned /\ writer[c] = "signalled"
     /\ writer' = [writer EXCEPT ![c] = "bumped"]
     /\ UNCHANGED <<versioned, rows, counter, entry, reader, base, steady>>

(* The request ends and with it its transaction.                           *)
CommitChange(c) ==
  /\ writer[c] = "bumped"
  /\ rows' = rows \union {c}
  /\ writer' = [writer EXCEPT ![c] = "committed"]
  /\ UNCHANGED <<versioned, counter, entry, reader, base, steady>>

RollBack(c) ==
  /\ writer[c] \in {"signalled", "bumped"}
  /\ writer' = [writer EXCEPT ![c] = "rolledBack"]
  /\ UNCHANGED <<versioned, rows, counter, entry, reader, base, steady>>

-----------------------------------------------------------------------------
ExpireEntry(v) ==
  /\ entry[v].there
  /\ entry' = [entry EXCEPT ![v] = Empty]
  /\ UNCHANGED <<versioned, rows, counter, reader, writer, base, steady>>

(* The counter lives 30 days after an increment, or is evicted.            *)
ExpireCounter ==
  /\ RedisFails /\ counter > 0
  /\ counter' = 0 /\ steady' = FALSE
  /\ UNCHANGED <<versioned, rows, entry, reader, writer, base>>

(* The warm-up after a start fills keys that hold no version.              *)
WarmUp ==
  /\ versioned /\ ~entry[0].there
  /\ entry' = [entry EXCEPT ![0] = [there |-> TRUE, rows |-> rows]]
  /\ UNCHANGED <<versioned, rows, counter, reader, writer, base, steady>>

ListNext ==
  \/ \E r \in Request : \/ ReadCounter(r) \/ AddCounter(r) \/ ReadAgain(r) \/ GetEntry(r)
                        \/ QueryRowsOfList(r) \/ StoreEntry(r)
  \/ \E c \in Change : \/ Save(c) \/ AutoInvalidate(c) \/ ViewInvalidates(c)
                       \/ CommitChange(c) \/ RollBack(c)
  \/ \E v \in Version : ExpireEntry(v)
  \/ ExpireCounter \/ WarmUp

ListSpec == ListInit /\ [][ListNext]_lcVars

-----------------------------------------------------------------------------
ReaderState ==
  [pc : {"new", "add", "again", "get", "query", "store", "done"},
   v : Version, rows : SUBSET Change]

WriterState == {"new", "saved", "signalSets", "signalled", "viewSets", "bumped",
                "committed", "rolledBack"}

ListTypeOK ==
  /\ versioned \in BOOLEAN /\ steady \in BOOLEAN
  /\ rows \in SUBSET Change
  /\ counter \in Version
  /\ entry \in [Version -> [there : BOOLEAN, rows : SUBSET Change]]
  /\ base \in [Version -> SUBSET Change]
  /\ reader \in [Request -> ReaderState]
  /\ writer \in [Change -> WriterState]

(* What the versions do promise: a list cached under a version holds every *)
(* change committed before that version was made, whatever requests were   *)
(* under way, unless the counter was lost or set back: the SET 2 of a      *)
(* change that found no counter can undo the increments of another.        *)
ListIncludesEarlierChanges ==
  steady => \A v \in Version : entry[v].there => base[v] \subseteq entry[v].rows

=============================================================================
