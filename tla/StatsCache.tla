----------------------------- MODULE StatsCache -----------------------------
(***************************************************************************)
(* The dashboard's counts (django academics/views/dashboard_views.py       *)
(* dashboard_stats): a dictionary in each process (L1), Redis (L2) and the *)
(* database behind them, each copy kept for the same time.                 *)
(*                                                                         *)
(* A copy is its age, the time since the counts were queried, and the time *)
(* it has left.  A request is one step: it takes no time against minutes.  *)
(***************************************************************************)
EXTENDS Naturals

CONSTANTS
  Process,   \* worker processes
  StatsTtl   \* _L1_TTL, and the time to live of the key in Redis

ASSUME StatsAssumption == StatsTtl \in Nat \ {0}

VARIABLE sc

NoCopy == [there |-> FALSE, age |-> 0, left |-> 0]
Zeros  == [there |-> FALSE, age |-> 0]

StatsInit ==
  sc = [l1 |-> [p \in Process |-> NoCopy], l2 |-> NoCopy, shown |-> Zeros]

-----------------------------------------------------------------------------
Fresh(copy) == copy.there /\ copy.left > 0
Older(copy) == IF Fresh(copy) THEN [copy EXCEPT !.age = @ + 1, !.left = @ - 1] ELSE copy
Copy(age)   == [there |-> TRUE, age |-> age, left |-> StatsTtl]
Show(age)   == [there |-> TRUE, age |-> age]

(* Redis drops an expired key; L1 keeps it until it is looked up.          *)
StatsTick ==
  sc' = [l1 |-> [p \in Process |-> Older(sc.l1[p])],
         l2 |-> IF Older(sc.l2).left = 0 THEN NoCopy ELSE Older(sc.l2),
         shown |-> Zeros]

AnswerFromL1(p) ==
  /\ Fresh(sc.l1[p])
  /\ sc' = [sc EXCEPT !.shown = Show(sc.l1[p].age)]

(* Mutant: a hit in Redis is written back to Redis as well.                *)
AnswerFromL2Renewing(p) ==
  /\ ~Fresh(sc.l1[p]) /\ sc.l2.there
  /\ sc' = [sc EXCEPT !.shown = Show(sc.l2.age), !.l1[p] = Copy(sc.l2.age),
                      !.l2 = Copy(sc.l2.age)]

(* A hit in Redis warms L1, for the whole time again.                      *)
AnswerFromL2(p) ==
  /\ ~Fresh(sc.l1[p]) /\ sc.l2.there
  /\ sc' = [sc EXCEPT !.shown = Show(sc.l2.age), !.l1[p] = Copy(sc.l2.age)]

(* A miss, or Redis cannot be reached; it may refuse the new copy as well. *)
AnswerFromDatabase(p) ==
  /\ ~Fresh(sc.l1[p])
  /\ \E l2 \in {Copy(0), sc.l2} :
       sc' = [sc EXCEPT !.shown = Show(0), !.l1[p] = Copy(0), !.l2 = l2]

(* The database fails: the copy in L1 that the answer falls back on was    *)
(* removed when it was looked up, so the counts shown are zeros.           *)
AnswerZeros(p) ==
  /\ ~Fresh(sc.l1[p])
  /\ sc' = [sc EXCEPT !.shown = Zeros, !.l1[p] = NoCopy]

StatsNext ==
  \/ StatsTick
  \/ \E p \in Process : \/ AnswerFromL1(p) \/ AnswerFromL2(p)
                        \/ AnswerFromDatabase(p) \/ AnswerZeros(p)

StatsSpec == StatsInit /\ [][StatsNext]_sc

-----------------------------------------------------------------------------
(* Counts that are shown were queried less than two times to live ago: a   *)
(* copy handed from Redis to a process starts a second time to live, and   *)
(* no chain of processes and outages makes it a third.  ("TTL = 5 min at   *)
(* every layer" is not 5 minutes of age.)                                  *)
StatsAgeBounded == sc.shown.there => sc.shown.age < 2 * StatsTtl
=============================================================================
