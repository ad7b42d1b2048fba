---------------------------- MODULE GenerationJob ----------------------------
(***************************************************************************)
(* The whole life of one generation job: the Django request that creates   *)
(* it, the thread and the Celery task that hand it to FastAPI, the saga    *)
(* (GenerationSaga), the callback task, the self-healing workflow view and *)
(* the cancel, reject and approve endpoints.  They share the job's row.    *)
(* Django loads a model instance, works, and later saves it: job.save()    *)
(* writes every column of the instance back, save(update_fields=...) only  *)
(* the ones it names.  An actor that saves the whole instance therefore    *)
(* carries the copy of timetable_data it loaded.                           *)
(***************************************************************************)
EXTENDS GenerationSaga

CONSTANT MaxRetries     \* max_retries of generate_timetable_task

ASSUME MaxRetriesAssumption == MaxRetries \in Nat

VARIABLES
  thread,       \* the job-queue thread started by enqueue_job_background
  task,         \* task[i]: attempt i of generate_timetable_task
  callback,     \* the Celery worker executing fastapi_callback_task
  heal,         \* the workflow view: what it found in Redis for a live row
  cancel,       \* the request POST generation-jobs/<id>/cancel
  reject        \* the request POST generation-jobs/<id>/approve, "reject"

sagaVars == vars
djangoVars == <<thread, task, callback, heal, cancel, reject>>
jobVars == <<sagaVars, djangoVars>>

Terminal == Final \union {"approved", "rejected"}
Data == {"config", "timetable"}

(* The hardware check of the task retries once more than the task itself.   *)
Attempt == 0..(MaxRetries + 1)

JobTypeOK ==
  /\ TypeOK
  /\ thread \in {"started", "fallback", "refused", "done"}
  /\ task \in [Attempt -> [pc : {"none", "queued", "loaded", "save_running",
                                 "save_failed", "done"}, data : Data]]
  /\ callback \in [status : Final \union {"none"}, data : Data]
  /\ heal \in Final \union {"idle", "live"}
  /\ cancel \in [pc : {"idle", "loaded", "notified", "done"}, data : Data]
  /\ reject \in [pc : {"idle", "loaded", "done"}, data : Data]

JobInit ==
  /\ Init
  /\ thread = "started"
  /\ task = [i \in Attempt |-> [pc |-> "none", data |-> "config"]]
  /\ callback = [status |-> "none", data |-> "config"]
  /\ heal = "idle"
  /\ cancel = [pc |-> "idle", data |-> "config"]
  /\ reject = [pc |-> "idle", data |-> "config"]

SaveAll(status, data) == row' = [row EXCEPT !.status = status, !.data = data]
SaveStatus(status) == row' = [row EXCEPT !.status = status]

-----------------------------------------------------------------------------
(* The queueing thread.  It runs before the request's transaction commits.  *)

Publish ==                                       \* apply_async returns
  /\ thread = "started" /\ thread' = "done"
  /\ task' = [task EXCEPT ![0].pc = "queued"]
  /\ UNCHANGED <<sagaVars, callback, heal, cancel, reject>>

PublishFails ==                \* apply_async raises: nothing was published
  /\ thread = "started" /\ thread' = "fallback"
  /\ UNCHANGED <<sagaVars, task, callback, heal, cancel, reject>>

(* The direct call is accepted only when the semester is numeric; "odd" and *)
(* "even" are refused with 422, and every failure is only logged.           *)
FallbackAccepted ==
  /\ thread = "fallback" /\ thread' = "done"
  /\ \E r \in Run : Accept(r)
  /\ UNCHANGED <<task, callback, heal, cancel, reject>>

FallbackRefused ==
  /\ thread = "fallback" /\ thread' = "refused"
  /\ UNCHANGED <<sagaVars, task, callback, heal, cancel, reject>>

-----------------------------------------------------------------------------
(* generate_timetable_task.  The broker message is acknowledged when the    *)
(* task starts; a row that is not committed yet is DoesNotExist, and the    *)
(* task ends.                                                               *)
TaskAt(i, from, to) == task[i].pc = from /\ task' = [task EXCEPT ![i].pc = to]

TaskStart(i) ==
  /\ task[i].pc = "queued"
  /\ task' = [task EXCEPT ![i] = IF row.committed
                                   THEN [pc |-> "loaded", data |-> row.data]
                                   ELSE [@ EXCEPT !.pc = "done"]]
  /\ UNCHANGED <<sagaVars, thread, callback, heal, cancel, reject>>

(* Mutant: a lost answer is retried.                                        *)
TaskPostAcceptedRetried(i) ==
  /\ task[i].pc = "loaded"
  /\ task' = [j \in Attempt |->
                IF j = i THEN [task[i] EXCEPT !.pc = "save_running"]
                ELSE IF j = i + 1 THEN [task[j] EXCEPT !.pc = "queued"]
                ELSE task[j]]
  /\ \E r \in Run : Accept(r)
  /\ UNCHANGED <<thread, callback, heal, cancel, reject>>

(* FastAPI took the request: it answered 200, or its answer was lost in a   *)
(* timeout or a reset connection.                                           *)
TaskPostAccepted(i) ==
  /\ TaskAt(i, "loaded", "save_running")
  /\ \E r \in Run : Accept(r)
  /\ UNCHANGED <<thread, callback, heal, cancel, reject>>

(* FastAPI never saw the request; the task cannot tell and says 'running'.  *)
TaskPostLost(i) ==
  /\ TaskAt(i, "loaded", "save_running")
  /\ UNCHANGED <<sagaVars, thread, callback, heal, cancel, reject>>

(* 429/503, or too little memory: self.retry() publishes the next attempt   *)
(* and raises Retry, which the task's own "except Exception" catches.       *)
TaskRetries(i) ==
  /\ task[i].pc = "loaded"
  /\ \E limit \in {MaxRetries, MaxRetries + 1} :      \* overload, hardware
       task' = [j \in Attempt |->
                  IF j = i THEN [task[i] EXCEPT !.pc = "save_failed"]
                  ELSE IF j = i + 1 /\ i < limit THEN [task[j] EXCEPT !.pc = "queued"]
                  ELSE task[j]]
  /\ UNCHANGED <<sagaVars, thread, callback, heal, cancel, reject>>

TaskRefused(i) ==                                \* any other answer
  /\ TaskAt(i, "loaded", "save_failed")
  /\ UNCHANGED <<sagaVars, thread, callback, heal, cancel, reject>>

(* Mutant: the task writes 'queued', as it did once.                        *)
TaskSavesQueued(i) ==
  /\ TaskAt(i, "save_running", "done")
  /\ SaveStatus("queued")
  /\ UNCHANGED <<store, callbacks, faults, runVars, asked, thread, callback,
                 heal, cancel, reject>>

TaskSavesRunning(i) ==
  /\ TaskAt(i, "save_running", "done")
  /\ SaveStatus("running")
  /\ UNCHANGED <<store, callbacks, faults, runVars, asked, thread, callback,
                 heal, cancel, reject>>

TaskSavesFailed(i) ==
  /\ TaskAt(i, "save_failed", "done")
  /\ SaveAll("failed", task[i].data)
  /\ UNCHANGED <<store, callbacks, faults, runVars, asked, thread, callback,
                 heal, cancel, reject>>

-----------------------------------------------------------------------------
(* fastapi_callback_task: load, set the status, save the whole instance.    *)
CallbackLoad(s) ==
  /\ callbacks[s] > 0 /\ callback.status = "none"
  /\ callbacks' = [callbacks EXCEPT ![s] = @ - 1]
  /\ callback' = IF row.committed THEN [status |-> s, data |-> row.data]
                                  ELSE callback       \* DoesNotExist
  /\ UNCHANGED <<row, store, faults, runVars, asked, thread, task, heal,
                 cancel, reject>>

CallbackSave ==
  /\ callback.status # "none"
  /\ SaveAll(callback.status, callback.data)
  /\ callback' = [callback EXCEPT !.status = "none", !.data = "config"]
  /\ UNCHANGED <<store, callbacks, faults, runVars, asked, thread, task, heal,
                 cancel, reject>>

-----------------------------------------------------------------------------
(* WorkflowViewSet.retrieve: the row is read, then the progress key, and a  *)
(* live row takes over a final status found there.                          *)
HealLoad ==
  /\ heal = "idle"
  /\ row.committed /\ row.status \notin Terminal
  /\ heal' = "live"
  /\ UNCHANGED <<sagaVars, thread, task, callback, cancel, reject>>

(* Mutants: a final progress is taken for a success; only a success heals.  *)
HealCheckAsCompleted ==
  /\ heal = "live"
  /\ heal' = IF store.up /\ store.progress \in Final THEN "completed" ELSE "idle"
  /\ UNCHANGED <<sagaVars, thread, task, callback, cancel, reject>>

HealCheckCompletedOnly ==
  /\ heal = "live"
  /\ heal' = IF store.up /\ store.progress = "completed" THEN "completed" ELSE "idle"
  /\ UNCHANGED <<sagaVars, thread, task, callback, cancel, reject>>

HealCheck ==
  /\ heal = "live"
  /\ heal' = IF store.up /\ store.progress \in Final THEN store.progress ELSE "idle"
  /\ UNCHANGED <<sagaVars, thread, task, callback, cancel, reject>>

HealSave ==
  /\ heal \in Final /\ heal' = "idle"
  /\ SaveStatus(heal)
  /\ \/ /\ callbacks' = [callbacks EXCEPT ![heal] = @ + 1]
        /\ UNCHANGED faults
     \/ MayFail("broker") /\ faults' = faults + 1 /\ UNCHANGED callbacks
  /\ UNCHANGED <<store, runVars, asked, thread, task, callback, cancel, reject>>

-----------------------------------------------------------------------------
(* cancel_generation: guarded by the loaded status; the flag it sets itself *)
(* lives under Django's cache prefix, where FastAPI does not look, so only  *)
(* the POST reaches the saga, and its failure is only logged.               *)
CancelLoad ==
  /\ cancel.pc = "idle"
  /\ row.committed /\ row.status \notin {"completed", "cancelled"}
  /\ cancel' = [pc |-> "loaded", data |-> row.data]
  /\ UNCHANGED <<sagaVars, thread, task, callback, heal, reject>>

CancelNotify ==
  /\ cancel.pc = "loaded" /\ cancel' = [cancel EXCEPT !.pc = "notified"]
  /\ RequestCancel \/ UNCHANGED sagaVars
  /\ UNCHANGED <<thread, task, callback, heal, reject>>

CancelSave ==
  /\ cancel.pc = "notified" /\ cancel' = [pc |-> "done", data |-> "config"]
  /\ SaveAll("cancelling", cancel.data)
  /\ UNCHANGED <<store, callbacks, faults, runVars, asked, thread, task,
                 callback, heal, reject>>

(* GenerationJobViewSet.approve with action "reject"; its other branch      *)
(* raises before it saves (Timetable has no status field).                  *)
RejectLoad ==
  /\ reject.pc = "idle"
  /\ row.committed /\ row.status = "completed"
  /\ reject' = [pc |-> "loaded", data |-> row.data]
  /\ UNCHANGED <<sagaVars, thread, task, callback, heal, cancel>>

RejectSave ==
  /\ reject.pc = "loaded" /\ reject' = [pc |-> "done", data |-> "config"]
  /\ SaveAll("rejected", reject.data)
  /\ UNCHANGED <<store, callbacks, faults, runVars, asked, thread, task,
                 callback, heal, cancel>>

(* TimetableWorkflowViewSet.approve and reject: no status is looked at.     *)
Decide(decision) ==
  /\ row.committed
  /\ SaveStatus(decision)
  /\ UNCHANGED <<store, callbacks, faults, runVars, asked, thread, task,
                 callback, heal, cancel, reject>>

-----------------------------------------------------------------------------
(* Every write of the tracker gives the progress key two hours, so it is    *)
(* gone two hours after the last run's last write.  Requests and tasks that *)
(* have begun last seconds and are over by then.                            *)
MidWork ==
  \/ \E i \in Attempt : task[i].pc \in {"loaded", "save_running", "save_failed"}
  \/ callback.status # "none" \/ heal # "idle"
  \/ cancel.pc \in {"loaded", "notified"} \/ reject.pc = "loaded"

ProgressExpires ==
  /\ Quiet /\ ~MidWork
  /\ store.progress # "absent"
  /\ store' = [store EXCEPT !.progress = "absent"]
  /\ UNCHANGED <<row, callbacks, faults, runVars, asked, djangoVars>>

-----------------------------------------------------------------------------
TaskStep(i) ==
  \/ TaskStart(i) \/ TaskPostAccepted(i) \/ TaskPostLost(i)
  \/ TaskRetries(i) \/ TaskRefused(i)
  \/ TaskSavesRunning(i) \/ TaskSavesFailed(i)

ThreadStep == Publish \/ PublishFails \/ FallbackAccepted \/ FallbackRefused

SagaStep ==
  /\ \/ \E r \in Run : /\ pc[r] # "unposted"
                       /\ RunStep(r)
     \/ CommitRow \/ RedisDown \/ RedisBack
  /\ UNCHANGED djangoVars

JobNext ==
  \/ SagaStep \/ ThreadStep
  \/ \E i \in Attempt : TaskStep(i)
  \/ \E s \in Final : CallbackLoad(s)
  \/ CallbackSave
  \/ HealLoad \/ HealCheck \/ HealSave
  \/ CancelLoad \/ CancelNotify \/ CancelSave
  \/ RejectLoad \/ RejectSave
  \/ \E d \in {"approved", "rejected"} : Decide(d)
  \/ ProgressExpires

JobSpec == JobInit /\ [][JobNext]_jobVars

(* What is running goes on: the thread, the Celery workers, the requests    *)
(* that have begun, the saga's runs and the commit of the first request;    *)
(* and somebody keeps opening the job's workflow page while it is live, at  *)
(* the latest within the two hours its progress key outlives the run.       *)
JobFairness ==
  /\ \A r \in Run : WF_jobVars(Advance(r) /\ UNCHANGED djangoVars)
  /\ WF_jobVars(CommitRow /\ UNCHANGED djangoVars)
  /\ WF_jobVars(ThreadStep)
  /\ \A i \in Attempt : WF_jobVars(TaskStep(i))
  /\ \A s \in Final : WF_jobVars(CallbackLoad(s))
  /\ WF_jobVars(CallbackSave)
  /\ WF_jobVars(HealLoad) /\ WF_jobVars(HealCheck) /\ WF_jobVars(HealSave)
  /\ WF_jobVars(CancelNotify) /\ WF_jobVars(CancelSave) /\ WF_jobVars(RejectSave)

SeenInTime == store.progress # "absent" /\ row.status \notin Terminal
              => store'.progress # "absent"

JobFairSpec == JobInit /\ [][JobNext /\ SeenInTime]_jobVars /\ JobFairness

-----------------------------------------------------------------------------
Produced == \E r \in Run : "rl" \in stageDone[r]

(* A row says 'completed' only if some run got its timetable through all    *)
(* stages: neither a callback, nor the self-healing view, nor a stale save  *)
(* completes a job whose generation was cancelled, failed or never started. *)
NoPhantomCompletion == row.status = "completed" => Produced

(* The request is handed to FastAPI at most once: retries and the direct    *)
(* call only follow a request that was not taken, and a lost answer is not  *)
(* retried (the Timeout and ConnectionError handlers of the task).          *)
NoDoubleRun ==
  \A q, r \in Run : pc[q] # "unposted" /\ pc[r] # "unposted" => q = r

(* Once the job's run has ended without a crash, its row finally stays in a *)
(* terminal status, whatever late saves ('running' by the Celery task,      *)
(* 'cancelling' by the cancel request) overwrote: the workflow view heals   *)
(* it from the progress key.  A cancellation sent after that key has        *)
(* expired is the one thing nobody heals.                                   *)
JobSettles ==
  <>[](/\ \E r \in Run : pc[r] = "done"
       /\ Quiet /\ ~AnyKilled /\ faults = 0
       => \/ row.status \in Terminal
          \/ row.status = "cancelling" /\ store.progress = "absent")

(* Both retrieve views cache a decided job for an hour as immutable: an     *)
(* approved timetable is only changed by a new decision.  The late saves of *)
(* the other actors do change it.                                           *)
ReviewDecisionStands ==
  [][row.status = "approved" /\ row.data = "timetable"
     => row'.status \in {"approved", "rejected"}]_jobVars

(* _warm_review_caches keeps variant data for one hour because it is      *)
(* immutable after generation.  A whole-instance save of an older copy puts *)
(* the configuration back over the generated timetable.                     *)
VariantDataImmutable ==
  [][row.data = "timetable" => row'.data = "timetable"]_jobVars

(* What the cancel request answers: the job will stop shortly.  It accepts  *)
(* a failed or decided job at any time, sets it to 'cancelling', and once   *)
(* the progress key has expired no run and no view takes it out of there.   *)
CancellingEnds ==
  (/\ row.status = "cancelling" /\ Quiet /\ ~AnyKilled
   /\ \E r \in Run : pc[r] = "done") ~> (row.status \in Terminal)

(* When the broker and FastAPI both refuse, the thread logs that a worker   *)
(* will pick the job up from Redis.  No code reads that entry.              *)
RefusedJobIsPickedUp ==
  (thread = "refused") ~> (\E r \in Run : pc[r] # "unposted")
=============================================================================
