---------------------------- MODULE RunContract ----------------------------
(***************************************************************************)
(* What a caller of POST /api/generate_variants may rely on, with Redis,   *)
(* the database and the six stages left out: a run is submitted, works,    *)
(* passes at most two milestones (a feasible schedule, a saved schedule)   *)
(* and ends with exactly one verdict, which the milestones it passed must  *)
(* justify.  GenerationSaga implements this specification.                 *)
(***************************************************************************)

CONSTANT Run            \* deliveries of the request to FastAPI

VARIABLES
  phase,                \* phase[r]     : where the run is
  milestone,            \* milestone[r] : the furthest milestone it passed
  verdict               \* verdict[r]   : how it ended

vars == <<phase, milestone, verdict>>

Milestone == {"none", "feasible", "saved"}
Verdict   == {"success", "partial_success", "cancelled", "failed",
              "timeout", "shutdown", "killed"}

(* The verdicts a run may end with, given the milestone it passed.  A      *)
(* cancelled run never passed the CP-SAT stage, a partial success did; an  *)
(* overrun or a shutdown can only interrupt the two stages that suspend.   *)
Justified(m) ==
  CASE m = "none"     -> {"cancelled", "failed", "timeout", "shutdown", "killed"}
    [] m = "feasible" -> {"partial_success", "failed", "killed"}
    [] m = "saved"    -> {"success", "partial_success", "killed"}

Init ==
  /\ phase = [r \in Run |-> "idle"]
  /\ milestone = [r \in Run |-> "none"]
  /\ verdict = [r \in Run |-> "none"]

Submit(r) ==
  /\ phase[r] = "idle"
  /\ phase' = [phase EXCEPT ![r] = "waiting"]
  /\ UNCHANGED <<milestone, verdict>>

Start(r) ==
  /\ phase[r] = "waiting"
  /\ phase' = [phase EXCEPT ![r] = "working"]
  /\ UNCHANGED <<milestone, verdict>>

Reach(r, from, to) ==
  /\ phase[r] = "working" /\ milestone[r] = from
  /\ milestone' = [milestone EXCEPT ![r] = to]
  /\ UNCHANGED <<phase, verdict>>

End(r) ==
  /\ phase[r] \in {"waiting", "working"}
  /\ phase' = [phase EXCEPT ![r] = "ended"]
  /\ \E v \in Justified(milestone[r]) : verdict' = [verdict EXCEPT ![r] = v]
  /\ UNCHANGED milestone

Next == \E r \in Run : \/ Submit(r)
                       \/ Start(r)
                       \/ Reach(r, "none", "feasible")
                       \/ Reach(r, "feasible", "saved")
                       \/ End(r)

Spec == Init /\ [][Next]_vars
============================================================================
