----------------------------- MODULE MCServing -----------------------------
(***************************************************************************)
(* The caches between the database and those who read it, the progress     *)
(* stream and the rate limiter, checked in one run.  They have no variable *)
(* in common, so each is checked by itself: `part` says which, and the     *)
(* variables of the others keep their first values.  In these first values *)
(* no action is enabled that some fairness condition is about, so that the *)
(* fairness of one part asks nothing of the behaviours of another.         *)
(***************************************************************************)
EXTENDS DataCache, ProgressStream, ListCache, Dogpile, StatsCache, ReviewCache, RateLimit

VARIABLE part

Part == {"data cache", "stream", "lists", "lock", "stats", "review", "limiter"}

Init ==
  /\ part \in Part
  /\ CacheInit /\ StreamInit /\ ListInit /\ DogpileInit /\ StatsInit /\ ReviewInit
  /\ RateInit
  /\ part # "data cache" => dc.versioned
  /\ part # "lists" => versioned /\ counter = 0

Next ==
  \/ part = "data cache" /\ CacheNext
     /\ UNCHANGED <<part, ps, lcVars, dgVars, sc, rv, rl>>
  \/ part = "stream" /\ StreamNext
     /\ UNCHANGED <<part, dc, lcVars, dgVars, sc, rv, rl>>
  \/ part = "lists" /\ ListNext
     /\ UNCHANGED <<part, dc, ps, dgVars, sc, rv, rl>>
  \/ part = "lock" /\ DogpileNext
     /\ UNCHANGED <<part, dc, ps, lcVars, sc, rv, rl>>
  \/ part = "stats" /\ StatsNext
     /\ UNCHANGED <<part, dc, ps, lcVars, dgVars, rv, rl>>
  \/ part = "review" /\ ReviewNext
     /\ UNCHANGED <<part, dc, ps, lcVars, dgVars, sc, rl>>
  \/ part = "limiter" /\ RateNext
     /\ UNCHANGED <<part, dc, ps, lcVars, dgVars, sc, rv>>

Spec ==
  /\ Init /\ [][Next]_<<part, dc, ps, lcVars, dgVars, sc, rv, rl>>
  /\ CacheFairness /\ StreamFairness /\ ReviewFairness
=============================================================================
