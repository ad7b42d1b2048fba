-------------------------- MODULE MCGenerationJob --------------------------
(* GenerationJob on small instances: the .cfg files give its constants.    *)
EXTENDS GenerationJob, TLC

(* Runs are interchangeable; used by the run that checks no liveness.      *)
RunSymmetry == Permutations(Run)
============================================================================
