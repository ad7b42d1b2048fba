------------------------- MODULE MCGenerationSaga -------------------------
(* GenerationSaga on small instances: the .cfg files give its constants.   *)
EXTENDS GenerationSaga
============================================================================
