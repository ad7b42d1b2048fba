----------------------------- MODULE QLearning -----------------------------
(***************************************************************************)
(* The tabular Q-learner of stage 3 (engine/rl/qlearning.py): a bounded    *)
(* table with an access count per key, learning that can be frozen, and    *)
(* one saved policy per semester.  The saga only constructs it frozen and  *)
(* loads a policy; choosing and learning are for offline training.         *)
(*                                                                         *)
(* Abstracted: a key is a (state, action) pair, the value of an entry is   *)
(* how often it was learned; epsilon and the audit log are left out.       *)
(***************************************************************************)
EXTENDS Integers, FiniteSets

CONSTANTS
  QKey,           \* (state, action) pairs
  Semester,
  MaxTable,       \* MAX_Q_TABLE_SIZE
  MaxCount        \* bound of the model: accesses counted and lessons learned

ASSUME MaxTableAssumption == MaxTable \in Nat \ {0} /\ MaxCount \in Nat

VARIABLE ql    \* table, counts, frozen, saved policies

-----------------------------------------------------------------------------
Put2(f, k, v) == [x \in DOMAIN f \union {k} |-> IF x = k THEN v ELSE f[x]]
Without(f, k) == [x \in DOMAIN f \ {k} |-> f[x]]

(* _get_q_value counts the access of a key, in the table or not.           *)
Accessed(counts, k) ==
  Put2(counts, k, IF k \in DOMAIN counts THEN counts[k] + 1 ELSE 1)

LeastUsed(counts) ==
  {k \in DOMAIN counts : \A x \in DOMAIN counts : counts[k] <= counts[x]}

QInit == ql = [table |-> <<>>, counts |-> <<>>, frozen |-> FALSE,
               saved |-> <<>>]

(* choose_best_swap exploits: it reads the value of each candidate.        *)
ChooseBestSwap ==
  \E ks \in SUBSET QKey :
    /\ ks # {}
    /\ \A k \in ks : k \in DOMAIN ql.counts => ql.counts[k] < MaxCount
    /\ ql' = [ql EXCEPT !.counts =
         [x \in DOMAIN ql.counts \union ks |->
            IF x \in ks THEN Accessed(ql.counts, x)[x] ELSE ql.counts[x]]]

(* Mutant: one entry too many.                                             *)
FullOverLimit(k) == Cardinality(DOMAIN ql.table) > MaxTable /\ k \notin DOMAIN ql.table

Full(k) == Cardinality(DOMAIN ql.table) >= MaxTable /\ k \notin DOMAIN ql.table

Lesson(k) == IF k \in DOMAIN ql.table THEN ql.table[k] + 1 ELSE 1

(* update_q_value: reads the entry, then _set_q_value stores the new one,  *)
(* in a full table at the cost of the least accessed key.  That key may be *)
(* one that was only read: del raises KeyError and nothing is learned.     *)
UpdateQValue(k) ==
  LET counts == Accessed(ql.counts, k)
  IN /\ ~ ql.frozen
     /\ Lesson(k) <= MaxCount /\ counts[k] <= MaxCount
     /\ \/ /\ ~ Full(k)
           /\ ql' = [ql EXCEPT !.table = Put2(ql.table, k, Lesson(k)),
                               !.counts = Put2(counts, k, 0)]
        \/ /\ Full(k)
           /\ \E old \in LeastUsed(counts) :
                IF old \in DOMAIN ql.table
                THEN ql' = [ql EXCEPT !.table = Put2(Without(ql.table, old), k, Lesson(k)),
                                      !.counts = Put2(Without(counts, old), k, 0)]
                ELSE ql' = [ql EXCEPT !.counts = counts]

FreezePolicy == ~ ql.frozen /\ ql' = [ql EXCEPT !.frozen = TRUE]
UnfreezePolicy == ql.frozen /\ ql' = [ql EXCEPT !.frozen = FALSE]

SavePolicy(s) == ql' = [ql EXCEPT !.saved = Put2(ql.saved, s, ql.table)]

(* Mutant: the policy is loaded over what is there.                        *)
LoadedTableMerged(s) ==
  [k \in DOMAIN ql.saved[s] \union DOMAIN ql.table |->
     IF k \in DOMAIN ql.saved[s] THEN ql.saved[s][k] ELSE ql.table[k]]

LoadedTable(s) == ql.saved[s]

(* load_policy and rollback_to_semester; without a file nothing changes.   *)
LoadPolicy(s) ==
  /\ s \in DOMAIN ql.saved
  /\ \E freeze \in BOOLEAN :
       ql' = [ql EXCEPT !.table = LoadedTable(s), !.counts = <<>>,
                        !.frozen = ql.frozen \/ freeze]

QNext ==
  \/ ChooseBestSwap
  \/ \E k \in QKey : UpdateQValue(k)
  \/ FreezePolicy \/ UnfreezePolicy
  \/ \E s \in Semester : SavePolicy(s) \/ LoadPolicy(s)

QSpec == QInit /\ [][QNext]_ql

-----------------------------------------------------------------------------
(* The table never outgrows its limit, by learning, by an eviction that    *)
(* fails or by loading and rolling back policies in any order.             *)
QTableBounded ==
  /\ Cardinality(DOMAIN ql.table) <= MaxTable
  /\ \A s \in DOMAIN ql.saved : Cardinality(DOMAIN ql.saved[s]) <= MaxTable
=============================================================================
