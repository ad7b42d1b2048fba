--------------------------- MODULE GenerationSaga ---------------------------
(***************************************************************************)
(* The FastAPI side of one generation job (core/patterns/saga.py,          *)
(* core/cancellation.py, core/services/generation_service.py,              *)
(* utils/progress_tracker.py): every delivery of POST /generate_variants   *)
(* with the job's id starts a run of the saga; the runs share the job's    *)
(* Redis keys and its row of generation_jobs, and a client may ask for the *)
(* job's cancellation at any time.  Uvicorn has several worker processes,  *)
(* so two runs, and a run and the cancel endpoint, interleave at every     *)
(* call to Redis or to the database.                                       *)
(*                                                                         *)
(* Abstracted: the timetable itself (a row holds the job's configuration   *)
(* or a generated timetable), percentages and ETA, and the inside of the   *)
(* solvers.  The job's keys outlive a run (one hour or more); GenerationJob *)
(* lets the progress key expire after it.  Consecutive Redis calls of one   *)
(* run that only touch keys no other step tells apart are one action.       *)
(***************************************************************************)
EXTENDS Naturals

CONSTANTS
  Run,          \* deliveries of the generation request
  Infra,        \* the infrastructure that may fail: "redis", "db", "broker"
  MaxFaults     \* how many failures of Infra a behaviour may contain

ASSUME InfraAssumption == Infra \subseteq {"redis", "db", "broker"}
ASSUME MaxFaultsAssumption == MaxFaults \in Nat

VARIABLES
  row,          \* the job's row in generation_jobs
  store,        \* Redis: reachable or not, and the job's keys
  callbacks,    \* callbacks[s]: published fastapi_callback_task(job, s) messages
  faults,       \* infrastructure failures and missed rows so far
  pc,           \* pc[r]: what run r executes next
  stageDone,    \* stageDone[r]: saga.stage_completed
  deferred,     \* deferred[r]: AtomicSection._deferred_cancellation
  held,         \* held[r]: saga.job_data holds a CP-SAT solution
  answer,       \* answer[r]: the schedule in what execute() returns
  outcome,      \* outcome[r]: how the run ended, or is about to end
  asked         \* history: the runs a cancellation was requested for in time

runVars == <<pc, stageDone, deferred, held, answer, outcome>>
vars == <<row, store, callbacks, faults, pc, stageDone, deferred, held,
          answer, outcome, asked>>

-----------------------------------------------------------------------------
Status == {"running", "cancelling", "completed", "failed", "cancelled",
           "approved", "rejected"}
Final == {"completed", "failed", "cancelled"}
Progress == Final \union {"absent", "running"}
Key == {"cancel", "start_time", "state"}            \* <key>:job:<job_id>

(* row.saved is history: the runs whose completing UPDATE changed the row.   *)
(* store.result is what result:job:<job_id> holds.                          *)
Row == [committed : BOOLEAN, status : Status, data : {"config", "timetable"},
        saved : SUBSET Run]
Store == [up : BOOLEAN, progress : Progress, keys : SUBSET Key,
          result : {"none", "scores"}]

Suspending == {"data_load", "cpsat"}     \* the stages that really await
Stage == Suspending \union {"clustering", "ga", "rl"}
Following == [data_load |-> "clustering", clustering |-> "cpsat",
              cpsat |-> "ga", ga |-> "rl", rl |-> "persist"]

Persisting == {"persist_result", "persist_db", "persist_exit"}
Control == {"unposted", "queued", "persist", "mark_completed",
            "mark_cancelled", "mark_failed", "compensate", "handle_error",
            "handle_timeout", "handle_shutdown", "cleanup", "done"}
             \union Stage \union Persisting

Outcome == {"none", "success", "partial_success", "cancelled", "failed",
            "timeout", "shutdown", "killed"}

TypeOK ==
  /\ row \in Row /\ store \in Store
  /\ callbacks \in [Final -> Nat] /\ faults \in Nat
  /\ pc \in [Run -> Control]
  /\ stageDone \in [Run -> SUBSET (Stage \union {"persistence"})]
  /\ deferred \in [Run -> BOOLEAN] /\ held \in [Run -> BOOLEAN]
  /\ answer \in [Run -> {"none", "empty", "basic", "optimized"}]
  /\ outcome \in [Run -> Outcome]
  /\ asked \subseteq Run

(* create_generation_job has inserted the row and set status 'running'; the *)
(* HTTP request's transaction (ATOMIC_REQUESTS) may not have committed yet. *)
Init ==
  /\ row = [committed |-> FALSE, status |-> "running", data |-> "config",
            saved |-> {}]
  /\ store = [up |-> TRUE, progress |-> "absent", keys |-> {}, result |-> "none"]
  /\ callbacks = [s \in Final |-> 0] /\ faults = 0
  /\ pc = [r \in Run |-> "unposted"]
  /\ stageDone = [r \in Run |-> {}]
  /\ deferred = [r \in Run |-> FALSE]
  /\ held = [r \in Run |-> FALSE]
  /\ answer = [r \in Run |-> "none"]
  /\ outcome = [r \in Run |-> "none"]
  /\ asked = {}

-----------------------------------------------------------------------------
(* Redis calls.  A write to an unreachable Redis is swallowed by its caller *)
(* unless the action says otherwise.                                        *)
Progressing(s, p) == IF s.up THEN [s EXCEPT !.progress = p] ELSE s
Deleting(s, ks)   == IF s.up THEN [s EXCEPT !.keys = @ \ ks] ELSE s
Acknowledged(s)   == [s EXCEPT !.keys = @ \union {"state"}]

(* CancellationToken.is_cancelled: an unreachable Redis reads as "no".      *)
is_cancelled(s) == s.up /\ "cancel" \in s.keys

MayFail(what) == what \in Infra /\ faults < MaxFaults

(* UPDATE generation_jobs SET status = status WHERE id = job, guarded by    *)
(* "status NOT IN (kept)".  The statement may raise, which every caller but *)
(* the log ignores, and touches no row while the insert is uncommitted.     *)
UpdateStatus(status, kept) ==
  \/ /\ row.committed
     /\ row' = IF row.status \in kept THEN row ELSE [row EXCEPT !.status = status]
     /\ UNCHANGED faults
  \/ /\ ~row.committed \/ MayFail("db")
     /\ faults' = faults + 1
     /\ UNCHANGED row

Goto(r, l) == pc' = [pc EXCEPT ![r] = l]

(* Mutant: the usable solution is dated from the wrong stage.               *)
StopsAtSafePointByClustering(r, done) ==
  /\ outcome' = [outcome EXCEPT ![r] =
                   IF "clustering" \in done THEN "partial_success" ELSE "cancelled"]
  /\ Goto(r, "mark_cancelled")

(* CancellationError reaches execute(): the run answers PARTIAL_SUCCESS if  *)
(* the CP-SAT stage is done and CANCELLED otherwise (saga.py:427).          *)
StopsAtSafePoint(r, done) ==
  /\ outcome' = [outcome EXCEPT ![r] =
                   IF "cpsat" \in done THEN "partial_success" ELSE "cancelled"]
  /\ Goto(r, "mark_cancelled")

-----------------------------------------------------------------------------
(* The generation request reaches FastAPI: nothing checks whether the job   *)
(* is already being generated.                                              *)
Accept(r) ==
  /\ pc[r] = "unposted"
  /\ Goto(r, "queued")
  /\ UNCHANGED <<row, store, callbacks, faults, stageDone, deferred, held,
                 answer, outcome, asked>>

(* generate_timetable up to the entry check of the first safe point.  The   *)
(* start-time write is the one Redis write of this path that is not caught. *)
Begin(r) ==
  /\ pc[r] = "queued"
  /\ IF store.up
       THEN LET s == [store EXCEPT !.keys = @ \union {"start_time"},
                                   !.progress = "running"]
            IN  IF is_cancelled(s)
                  THEN store' = Acknowledged(s) /\ StopsAtSafePoint(r, {})
                  ELSE store' = s /\ Goto(r, "data_load") /\ UNCHANGED outcome
       ELSE /\ outcome' = [outcome EXCEPT ![r] = "failed"]
            /\ Goto(r, "handle_error")
            /\ UNCHANGED store
  /\ UNCHANGED <<row, callbacks, faults, stageDone, deferred, held, answer, asked>>

(* Mutant: the safe point of a stage has no exit check.                     *)
LeaveStageUnchecked(r) ==
  /\ pc[r] \in Stage
  /\ stageDone' = [stageDone EXCEPT ![r] = @ \union {pc[r]}]
  /\ store' = Progressing(store, "running")
  /\ Goto(r, Following[pc[r]])
  /\ UNCHANGED <<row, callbacks, faults, deferred, held, answer, outcome, asked>>

(* A stage returns: stage_completed and the tracker are written, then the   *)
(* exit check of its safe point and the entry check of the next one read    *)
(* the same flag.  Only the legacy CP-SAT solver keeps its solution in      *)
(* job_data; the partitioned one does not.                                  *)
LeaveStage(r) ==
  /\ pc[r] \in Stage
  /\ stageDone' = [stageDone EXCEPT ![r] = @ \union {pc[r]}]
  /\ \E legacy \in BOOLEAN :
       held' = [held EXCEPT ![r] = @ \/ (pc[r] = "cpsat" /\ legacy)]
  /\ LET s == Progressing(store, "running")
     IN  IF is_cancelled(s)
           THEN store' = Acknowledged(s) /\ StopsAtSafePoint(r, stageDone'[r])
           ELSE store' = s /\ Goto(r, Following[pc[r]]) /\ UNCHANGED outcome
  /\ UNCHANGED <<row, callbacks, faults, deferred, answer, asked>>

(* The checks between departments, clusters and GA generations, and the     *)
(* progress written between them.                                           *)
CheckInside(r) ==
  /\ pc[r] \in {"cpsat", "ga"}
  /\ IF is_cancelled(store)
       THEN store' = Acknowledged(store) /\ StopsAtSafePoint(r, stageDone[r])
       ELSE store' = Progressing(store, "running") /\ UNCHANGED <<pc, outcome>>
  /\ UNCHANGED <<row, callbacks, faults, stageDone, deferred, held, answer, asked>>

(* Only loading and solving let an exception out; the other stages catch.   *)
StageRaises(r) ==
  /\ pc[r] \in Suspending
  /\ outcome' = [outcome EXCEPT ![r] = "failed"]
  /\ Goto(r, "mark_failed")
  /\ UNCHANGED <<row, store, callbacks, faults, stageDone, deferred, held,
                 answer, asked>>

-----------------------------------------------------------------------------
(* AtomicSection.__enter__: a cancellation seen here is deferred.           *)
EnterPersist(r) ==
  /\ pc[r] = "persist"
  /\ deferred' = [deferred EXCEPT ![r] = is_cancelled(store)]
  /\ Goto(r, "persist_result")
  /\ UNCHANGED <<row, store, callbacks, faults, stageDone, held, answer,
                 outcome, asked>>

(* More than 5% of the entries are malformed: nothing is written.           *)
PersistAborts(r) ==
  /\ pc[r] = "persist_result"
  /\ outcome' = [outcome EXCEPT ![r] = "failed"]
  /\ Goto(r, "mark_failed")
  /\ UNCHANGED <<row, store, callbacks, faults, stageDone, deferred, held,
                 answer, asked>>

(* Mutant: the scores are left to the row alone.                            *)
StoreResultInRowOnly(r) ==
  /\ pc[r] = "persist_result"
  /\ Goto(r, "persist_db")
  /\ UNCHANGED <<row, store, callbacks, faults, stageDone, deferred, held,
                 answer, outcome, asked>>

(* Redis gets the variants' scores and metrics, stripped of every entry; a  *)
(* failure of the call is only logged.                                      *)
StoreResult(r) ==
  /\ pc[r] = "persist_result"
  /\ store' = IF store.up THEN [store EXCEPT !.result = "scores"] ELSE store
  /\ Goto(r, "persist_db")
  /\ UNCHANGED <<row, callbacks, faults, stageDone, deferred, held, answer,
                 outcome, asked>>

(* The UPDATE that completes the job carries no status guard.  If it raises *)
(* or finds no row the saga goes on: the callback task is to heal the row.  *)
WriteRow(r) ==
  /\ pc[r] = "persist_db"
  /\ \/ /\ row.committed
        /\ row' = [row EXCEPT !.status = "completed", !.data = "timetable",
                             !.saved = @ \union {r}]
        /\ UNCHANGED faults
     \/ /\ ~row.committed \/ MayFail("db")
        /\ faults' = faults + 1
        /\ UNCHANGED row
  /\ Goto(r, "persist_exit")
  /\ UNCHANGED <<store, callbacks, stageDone, deferred, held, answer,
                 outcome, asked>>

(* _enqueue_cache_warm_task, then AtomicSection.__exit__: only a            *)
(* cancellation already seen on entry is looked at again.                   *)
LeavePersist(r) ==
  /\ pc[r] = "persist_exit"
  /\ \/ /\ callbacks' = [callbacks EXCEPT !["completed"] = @ + 1]
        /\ UNCHANGED faults
     \/ MayFail("broker") /\ faults' = faults + 1 /\ UNCHANGED callbacks
  /\ stageDone' = [stageDone EXCEPT ![r] = @ \union {"persistence"}]
  /\ IF deferred[r] /\ is_cancelled(store)
       THEN store' = Acknowledged(store) /\ StopsAtSafePoint(r, stageDone'[r])
       ELSE Goto(r, "mark_completed") /\ UNCHANGED <<store, outcome>>
  /\ UNCHANGED <<row, deferred, held, answer, asked>>

(* Mutant: the outcome is named after the progress status.                  *)
MarkCompletedAsStatus(r) ==
  /\ pc[r] = "mark_completed"
  /\ store' = Deleting(Progressing(store, "completed"), {"cancel"})
  /\ outcome' = [outcome EXCEPT ![r] = "completed"]
  /\ answer' = [answer EXCEPT ![r] = "optimized"]
  /\ Goto(r, "cleanup")
  /\ UNCHANGED <<row, callbacks, faults, stageDone, deferred, held, asked>>

MarkCompleted(r) ==
  /\ pc[r] = "mark_completed"
  /\ store' = Deleting(Progressing(store, "completed"), {"cancel"})
  /\ outcome' = [outcome EXCEPT ![r] = "success"]
  /\ answer' = [answer EXCEPT ![r] = "optimized"]
  /\ Goto(r, "cleanup")
  /\ UNCHANGED <<row, callbacks, faults, stageDone, deferred, held, asked>>

-----------------------------------------------------------------------------
(* ProgressTracker.mark_cancelled and mark_failed, both before _compensate. *)
MarkStopped(r, from, p) ==
  /\ pc[r] = from
  /\ store' = Progressing(store, p)
  /\ Goto(r, "compensate")
  /\ UNCHANGED <<row, callbacks, faults, stageDone, deferred, held, answer,
                 outcome, asked>>

(* Mutant: every compensation writes 'failed', as it did once.              *)
CompensateAsFailed(r) ==
  /\ pc[r] = "compensate"
  /\ store' = Deleting(store, Key)
  /\ UpdateStatus("failed", {"completed", "approved"})
  /\ Goto(r, IF outcome[r] = "failed" THEN "handle_error" ELSE "cleanup")
  /\ UNCHANGED <<callbacks, stageDone, deferred, held, answer, outcome, asked>>

(* _compensate: keys, then the row, then job_data.clear(); after it a       *)
(* partial success returns job_data.get('cpsat_solution', {}) and a failure *)
(* is raised again, into _handle_error.                                     *)
Compensate(r) ==
  /\ pc[r] = "compensate"
  /\ store' = Deleting(store, Key)
  /\ UpdateStatus(IF outcome[r] = "failed" THEN "failed" ELSE "cancelled",
                  {"completed", "approved"})
  /\ held' = [held EXCEPT ![r] = FALSE]
  /\ answer' = [answer EXCEPT ![r] = IF outcome[r] # "partial_success" THEN @
                                     ELSE IF held'[r] THEN "basic" ELSE "empty"]
  /\ Goto(r, IF outcome[r] = "failed" THEN "handle_error" ELSE "cleanup")
  /\ UNCHANGED <<callbacks, stageDone, deferred, outcome, asked>>

(* The handlers of generate_timetable start with a Redis delete that is not *)
(* caught: with Redis unreachable they do nothing else.                     *)
Handler(r, from, deleted, p, kept) ==
  /\ pc[r] = from
  /\ IF store.up
       THEN /\ store' = Deleting(Progressing(store, p), deleted)
            /\ UpdateStatus("failed", kept)
       ELSE UNCHANGED <<store, row, faults>>
  /\ Goto(r, "cleanup")
  /\ UNCHANGED <<callbacks, stageDone, deferred, held, answer, outcome, asked>>

HandleError(r) ==
  Handler(r, "handle_error", {"cancel", "start_time"}, store.progress,
          {"completed", "cancelled", "approved"})

(* Mutant: a timeout only spares cancelled jobs.                            *)
HandleTimeoutOverCompleted(r) ==
  Handler(r, "handle_timeout", {"cancel", "start_time"}, "failed", {"cancelled"})

HandleTimeout(r) ==
  Handler(r, "handle_timeout", {"cancel", "start_time"}, "failed",
          {"completed", "approved", "cancelled"})

(* Mutant: a shutdown writes no terminal progress.                          *)
HandleShutdownSilently(r) ==
  /\ pc[r] = "handle_shutdown"
  /\ store' = Deleting(store, Key)
  /\ Goto(r, "cleanup")
  /\ UNCHANGED <<row, callbacks, faults, stageDone, deferred, held, answer,
                 outcome, asked>>

(* _handle_cancellation (the process is shutting down) leaves the row alone.*)
HandleShutdown(r) ==
  /\ pc[r] = "handle_shutdown"
  /\ store' = Deleting(Progressing(store, "cancelled"), Key)
  /\ Goto(r, "cleanup")
  /\ UNCHANGED <<row, callbacks, faults, stageDone, deferred, held, answer,
                 outcome, asked>>

(* Mutant: only the cancellation flag is deleted, as it was once.           *)
CleanupFlagOnly(r) ==
  /\ pc[r] = "cleanup"
  /\ store' = Deleting(store, {"cancel"})
  /\ Goto(r, "done")
  /\ UNCHANGED <<row, callbacks, faults, stageDone, deferred, held, answer,
                 outcome, asked>>

Cleanup(r) ==
  /\ pc[r] = "cleanup"
  /\ store' = Deleting(store, Key)
  /\ Goto(r, "done")
  /\ UNCHANGED <<row, callbacks, faults, stageDone, deferred, held, answer,
                 outcome, asked>>

-----------------------------------------------------------------------------
(* wait_for's 60 minutes, or the cancellation of the asyncio task, can only *)
(* interrupt a stage that suspends.                                         *)
Interrupted(r, as, handler) ==
  /\ pc[r] \in Suspending
  /\ outcome' = [outcome EXCEPT ![r] = as]
  /\ Goto(r, handler)
  /\ UNCHANGED <<row, store, callbacks, faults, stageDone, deferred, held,
                 answer, asked>>

(* SIGKILL or out of memory: nothing of the run is executed any more.       *)
Kill(r) ==
  /\ pc[r] \notin {"unposted", "done"}
  /\ outcome' = [outcome EXCEPT ![r] = "killed"]
  /\ Goto(r, "done")
  /\ UNCHANGED <<row, store, callbacks, faults, stageDone, deferred, held,
                 answer, asked>>

(* request_cancellation, from either cancel endpoint of FastAPI.            *)
RequestCancel ==
  /\ store.up
  /\ store' = [store EXCEPT !.keys = @ \union {"cancel"}]
  /\ asked' = asked \union {r \in Run : pc[r] \in Stage \union {"queued"}}
  /\ UNCHANGED <<row, callbacks, faults, runVars>>

CommitRow ==
  /\ ~row.committed
  /\ row' = [row EXCEPT !.committed = TRUE]
  /\ UNCHANGED <<store, callbacks, faults, runVars, asked>>

RedisDown ==
  /\ store.up /\ MayFail("redis")
  /\ store' = [store EXCEPT !.up = FALSE]
  /\ faults' = faults + 1
  /\ UNCHANGED <<row, callbacks, runVars, asked>>

RedisBack ==
  /\ ~store.up
  /\ store' = [store EXCEPT !.up = TRUE]
  /\ UNCHANGED <<row, callbacks, faults, runVars, asked>>

-----------------------------------------------------------------------------
(* The steps a run takes by itself once it is accepted; CheckInside is not  *)
(* among them because it may leave the run where it is.                     *)
Advance(r) ==
  \/ Begin(r) \/ LeaveStage(r)
  \/ EnterPersist(r) \/ StoreResult(r) \/ WriteRow(r) \/ LeavePersist(r)
  \/ MarkCompleted(r)
  \/ MarkStopped(r, "mark_cancelled", "cancelled")
  \/ MarkStopped(r, "mark_failed", "failed")
  \/ Compensate(r) \/ HandleError(r) \/ HandleTimeout(r) \/ HandleShutdown(r)
  \/ Cleanup(r)

RunStep(r) ==
  \/ Accept(r) \/ Advance(r) \/ CheckInside(r)
  \/ StageRaises(r) \/ PersistAborts(r)
  \/ Interrupted(r, "timeout", "handle_timeout")
  \/ Interrupted(r, "shutdown", "handle_shutdown")
  \/ Kill(r)

Environment == RequestCancel \/ CommitRow \/ RedisDown \/ RedisBack

Next == (\E r \in Run : RunStep(r)) \/ Environment

Spec == Init /\ [][Next]_vars

(* The event loop resumes every task that can go on, so an accepted run     *)
(* takes its next step; nothing is owed by whoever posts, cancels or kills. *)
FairSpec == Spec /\ \A r \in Run : WF_vars(Advance(r))

-----------------------------------------------------------------------------
Alone(r) == \A q \in Run \ {r} : pc[q] = "unposted"
AnyKilled == \E r \in Run : outcome[r] = "killed"
Quiet == \A r \in Run : pc[r] \in {"unposted", "done"}

(* What a run that reports success leaves behind.  If its UPDATE took       *)
(* effect, the row is completed and holds the timetable, whatever the job's *)
(* other runs, timeouts and cancellations did since.  Otherwise something   *)
(* failed, and if nothing else did the variants' scores at least are in     *)
(* Redis (_persist_results goes on after the failure of either write).      *)
SavedUnlessWriteFails ==
  \A r \in Run : outcome[r] = "success" =>
    IF r \in row.saved
      THEN row.status = "completed" /\ row.data = "timetable"
      ELSE faults > 0 /\ (faults = 1 => store.result = "scores")

(* No handler of any run (compensation, timeout, error fallback) takes back *)
(* a completed job, nor its timetable: a duplicate run that fails, times    *)
(* out or is cancelled late leaves the finished job alone.                  *)
CompletedIsNeverTakenBack ==
  [][/\ row.status = "completed" => row'.status = "completed"
     /\ row.data = "timetable" => row'.data = "timetable"]_vars

(* After a single run over a healthy infrastructure the row (polled) and    *)
(* the progress key (streamed) show the same terminal status, unless the    *)
(* process went away or a cancellation was deferred over the save.          *)
AgreeWhenQuiet ==
  \A r \in Run :
    /\ pc[r] = "done" /\ Alone(r) /\ faults = 0
    /\ outcome[r] \notin {"killed", "shutdown"} /\ ~deferred[r]
    => row.status = store.progress

(* A cancellation requested before the last safe point is honoured: the run *)
(* never enters the persistence section, unless Redis failed or the end of  *)
(* another run of the job swept the flag away (check_or_raise, SafePoint).  *)
CancelHonoured ==
  \A r \in asked :
    faults = 0 /\ (\A q \in Run \ {r} : outcome[q] = "none")
    => /\ pc[r] \notin Persisting \union {"persist", "mark_completed"}
       /\ "persistence" \notin stageDone[r]

(* When no run is under way, none was killed and Redis never failed, the    *)
(* job's control keys are gone, apart from a cancellation that came later:  *)
(* what _cleanup's docstring says it was changed for.                       *)
EphemeralKeysCleared ==
  Quiet /\ ~AnyKilled /\ faults = 0 => store.keys \subseteq {"cancel"}

(* The event stream of an accepted job ends: the progress key finally stays *)
(* in a terminal status unless a run was killed or the infrastructure       *)
(* failed (mark_*, _handle_timeout, _handle_cancellation).                  *)
ProgressSettles ==
  <>[](/\ \E r \in Run : pc[r] # "unposted"
       /\ ~AnyKilled /\ faults = 0
       => Quiet /\ store.progress \in Final)

(* The saga implements the contract of a run: its verdict appears when the  *)
(* run is done and is justified by the milestones stage_completed records.  *)
phaseBar ==
  [r \in Run |-> CASE pc[r] = "unposted" -> "idle"
                   [] pc[r] = "queued"   -> "waiting"
                   [] pc[r] = "done"     -> "ended"
                   [] OTHER              -> "working"]
milestoneBar ==
  [r \in Run |-> IF "persistence" \in stageDone[r] THEN "saved"
                 ELSE IF "cpsat" \in stageDone[r] THEN "feasible" ELSE "none"]
verdictBar == [r \in Run |-> IF pc[r] = "done" THEN outcome[r] ELSE "none"]

Contract == INSTANCE RunContract WITH
              phase <- phaseBar, milestone <- milestoneBar, verdict <- verdictBar
ImplementsContract == Contract!Spec

(* What the docstring of _compensate says of the runs that go through it:   *)
(* the database and the progress key agree on the exit reason.  The code    *)
(* disagrees when the cancellation was deferred over the save.              *)
CompensatedStatusesAgree ==
  \A r \in Run :
    /\ pc[r] = "done" /\ Alone(r) /\ faults = 0
    /\ outcome[r] \in {"partial_success", "cancelled", "failed"}
    => row.status = store.progress

(* What execute() says of a cancellation after the CP-SAT stage: it answers *)
(* with the CP-SAT solution.  _compensate has emptied job_data by then.     *)
PartialSuccessKeepsSolution ==
  \A r \in Run : pc[r] = "done" /\ outcome[r] = "partial_success"
                 => answer[r] = "basic"
=============================================================================
