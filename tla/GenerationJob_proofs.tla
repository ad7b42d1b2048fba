------------------------ MODULE GenerationJob_proofs ------------------------
(***************************************************************************)
(* Proofs about GenerationJob for any set of runs, any failures and any    *)
(* number of retries.  What is known of the saga's steps is taken from     *)
(* GenerationSaga_proofs: a step of the job is a step of the saga, or      *)
(* leaves the runs alone.                                                  *)
(***************************************************************************)
EXTENDS GenerationJob, GenerationSaga_proofs

USE DEF Final, Progress, Key, Suspending, Stage, Persisting

-----------------------------------------------------------------------------
(* A saga step of the job is a step of the saga; Django's actors stand still.*)
LEMMA SagaStepIsNext ==
  ASSUME SagaStep
  PROVE  [Next]_vars /\ UNCHANGED djangoVars
BY DEF SagaStep, Next, Environment

(* Accepting a request is a step of the saga, whoever posted it.            *)
LEMMA AcceptIsNext ==
  ASSUME NEW r \in Run, Accept(r)
  PROVE  [Next]_vars
BY DEF Next, RunStep

(* Every variable of the job keeps its type.                                *)
LEMMA JobTypeStep ==
  ASSUME JobTypeOK, [JobNext]_jobVars
  PROVE  JobTypeOK'
<1> USE DEF JobTypeOK, Data
<1>1. CASE SagaStep
  BY <1>1, SagaStepIsNext, TypeStep DEF djangoVars
<1>2. CASE Publish \/ PublishFails \/ FallbackRefused
  <2>1. TypeOK'
    BY <1>2 DEF Publish, PublishFails, FallbackRefused, sagaVars, vars, TypeOK
  <2> QED
    BY <1>2, <2>1, MaxRetriesAssumption
    DEF Publish, PublishFails, FallbackRefused, Attempt
<1>3. CASE FallbackAccepted
  BY <1>3, AcceptIsNext, TypeStep DEF FallbackAccepted
<1>4. ASSUME NEW i \in Attempt, TaskStep(i) PROVE JobTypeOK'
  <2>1. CASE TaskStart(i) \/ TaskPostLost(i) \/ TaskRetries(i) \/ TaskRefused(i)
    <3>1. TypeOK'
      BY <2>1 DEF TaskStart, TaskPostLost, TaskRetries, TaskRefused, sagaVars, vars,
                  TypeOK
    <3>2. row.data \in Data
      BY DEF TypeOK, Row
    <3> QED
      BY <2>1, <3>1, <3>2
      DEF TaskStart, TaskPostLost, TaskRetries, TaskRefused, TaskAt
  <2>2. CASE TaskPostAccepted(i)
    BY <2>2, AcceptIsNext, TypeStep DEF TaskPostAccepted, TaskAt
  <2>3. CASE TaskSavesRunning(i) \/ TaskSavesFailed(i)
    <3>1. row' \in Row
      <4>1. task[i].data \in Data
        OBVIOUS
      <4> QED
        BY <2>3, <4>1 DEF TaskSavesRunning, TaskSavesFailed, SaveStatus, SaveAll, TypeOK,
                          Row, Status
    <3> QED
      BY <2>3, <3>1 DEF TaskSavesRunning, TaskSavesFailed, TaskAt, TypeOK, runVars
  <2> QED
    BY <1>4, <2>1, <2>2, <2>3 DEF TaskStep
<1>5. ASSUME NEW s \in Final, CallbackLoad(s) PROVE JobTypeOK'
  BY <1>5 DEF CallbackLoad, TypeOK, runVars, Row
<1>6. CASE CallbackSave
  <2>1. row' \in Row
    BY <1>6 DEF CallbackSave, SaveAll, TypeOK, Row, Status
  <2> QED
    BY <1>6, <2>1 DEF CallbackSave, TypeOK, runVars
<1>7. CASE HealLoad \/ HealCheck
  BY <1>7 DEF HealLoad, HealCheck, sagaVars, vars, TypeOK
<1>8. CASE HealSave
  <2>1. row' \in Row
    BY <1>8 DEF HealSave, SaveStatus, TypeOK, Row, Status
  <2> QED
    BY <1>8, <2>1 DEF HealSave, MayFail, TypeOK, runVars
<1>9. CASE CancelLoad \/ RejectLoad
  BY <1>9 DEF CancelLoad, RejectLoad, sagaVars, vars, TypeOK, Row
<1>10. CASE CancelNotify
  <2>1. TypeOK'
    BY <1>10, TypeStep DEF CancelNotify, Next, Environment, sagaVars
  <2> QED
    BY <1>10, <2>1 DEF CancelNotify
<1>11. CASE CancelSave \/ RejectSave
  <2>1. row' \in Row
    BY <1>11 DEF CancelSave, RejectSave, SaveAll, TypeOK, Row, Status
  <2> QED
    BY <1>11, <2>1 DEF CancelSave, RejectSave, TypeOK, runVars
<1>12. ASSUME NEW d \in {"approved", "rejected"}, Decide(d) PROVE JobTypeOK'
  <2>1. row' \in Row
    BY <1>12 DEF Decide, SaveStatus, TypeOK, Row, Status
  <2> QED
    BY <1>12, <2>1 DEF Decide, TypeOK, runVars
<1>13. CASE UNCHANGED jobVars
  BY <1>13 DEF jobVars, sagaVars, djangoVars, vars, TypeOK
<1>14. CASE ProgressExpires
  <2>1. store' \in Store
    BY <1>14 DEF ProgressExpires, TypeOK, Store
  <2> QED
    BY <1>14, <2>1 DEF ProgressExpires, TypeOK, runVars, djangoVars
<1> QED
  BY <1>1, <1>2, <1>3, <1>4, <1>5, <1>6, <1>7, <1>8, <1>9, <1>10, <1>11,
     <1>12, <1>13, <1>14 DEF JobNext, ThreadStep

(* The job's row, messages and actors keep their types (see JobTypeOK).     *)
THEOREM JobTypeCorrect == JobSpec => []JobTypeOK
<1>1. JobInit => JobTypeOK
  <2>1. Init => TypeOK
    BY DEF Init, TypeOK, Control, Outcome, Row, Store, Status
  <2> QED
    BY <2>1 DEF JobInit, JobTypeOK, Data
<1> QED
  BY <1>1, JobTypeStep, PTL DEF JobSpec

-----------------------------------------------------------------------------
(* What the other actors do to the runs of the saga: accept one, ask for a  *)
(* cancellation, or nothing.  Of Redis they leave alone what the runs share *)
(* (time only takes the progress key away), and a publication of theirs     *)
(* that fails is counted.                                                   *)
LeftAlone ==
  /\ UNCHANGED <<pc, stageDone, outcome, asked>>
  /\ store'.up = store.up /\ store'.keys = store.keys
  /\ faults' \in {faults, faults + 1}

LEMMA OutsideSteps ==
  ASSUME JobTypeOK, [JobNext]_jobVars
  PROVE  [Next]_vars \/ LeftAlone
<1>1. ASSUME NEW i \in Attempt, TaskStep(i)
      PROVE  [Next]_vars \/ LeftAlone
  BY <1>1, AcceptIsNext
  DEF TaskStep, TaskStart, TaskPostAccepted, TaskPostLost, TaskRetries, TaskRefused,
      TaskSavesRunning, TaskSavesFailed, TaskAt, runVars, sagaVars, vars, LeftAlone
<1>2. CASE ThreadStep
  BY <1>2, AcceptIsNext
  DEF ThreadStep, Publish, PublishFails, FallbackAccepted, FallbackRefused, sagaVars, vars
<1>3. CASE CancelNotify
  BY <1>3 DEF CancelNotify, Next, Environment, sagaVars
<1>4. CASE \/ \E s \in Final : CallbackLoad(s)
           \/ CallbackSave \/ HealLoad \/ HealCheck \/ HealSave
           \/ CancelLoad \/ CancelSave \/ RejectLoad \/ RejectSave
           \/ \E d \in {"approved", "rejected"} : Decide(d)
           \/ UNCHANGED jobVars
  BY <1>4 DEF CallbackLoad, CallbackSave, HealLoad, HealCheck, HealSave, CancelLoad,
              CancelSave, RejectLoad, RejectSave, Decide, runVars, sagaVars, vars, jobVars,
              LeftAlone
<1>5. CASE ProgressExpires
  BY <1>5 DEF ProgressExpires, runVars, JobTypeOK, TypeOK, Store, LeftAlone
<1> QED
  BY <1>1, <1>2, <1>3, <1>4, <1>5, SagaStepIsNext DEF JobNext

(* The milestones and verdicts of the runs fit together in the whole job.   *)
THEOREM JobVerdictsSound == JobSpec => []SoundInv
<1>1. JobInit => SoundInv
  BY DEF JobInit, Init, SoundInv, TypeOK, Control, Outcome, Row, Store, Status,
         Sound, Normal, BeforeSolved, Solved
<1>2. SoundInv /\ JobTypeOK /\ [JobNext]_jobVars => SoundInv'
  <2> SUFFICES ASSUME SoundInv, JobTypeOK, [JobNext]_jobVars PROVE SoundInv'
    OBVIOUS
  <2>1. CASE [Next]_vars
    BY <2>1, SoundNext
  <2>2. CASE LeftAlone
    BY <2>2, JobTypeStep DEF JobTypeOK, SoundInv, Sound, LeftAlone
  <2> QED
    BY <2>1, <2>2, OutsideSteps
<1> QED
  BY <1>1, <1>2, JobTypeCorrect, PTL DEF JobSpec

(* Seen from RunContract nothing changes: whatever Django, Celery and the   *)
(* views do around the saga, a run begins when it is accepted, passes the   *)
(* milestones in order and ends with one verdict they justify.              *)
THEOREM JobRefinesContract == JobSpec => ImplementsContract
<1>1. JobInit => Contract!Init
  BY InitRefines DEF JobInit
<1>2. SoundInv /\ SoundInv' /\ JobTypeOK /\ [JobNext]_jobVars
        => [Contract!Next]_(Contract!vars)
  <2> SUFFICES ASSUME SoundInv, SoundInv', JobTypeOK, [JobNext]_jobVars
               PROVE  [Contract!Next]_(Contract!vars)
    OBVIOUS
  <2>1. CASE [Next]_vars
    BY <2>1, StepRefines
  <2>2. CASE LeftAlone
    BY <2>2 DEF LeftAlone, Contract!vars, phaseBar, milestoneBar, verdictBar
  <2> QED
    BY <2>1, <2>2, OutsideSteps
<1> QED
  BY <1>1, <1>2, JobTypeCorrect, JobVerdictsSound, PTL
  DEF JobSpec, ImplementsContract, Contract!Spec

(* An outage of Redis is a fault in the whole job, too.                     *)
LEMMA JobOutagesCounted == JobSpec => []RedisInv
<1>1. JobInit => RedisInv
  BY DEF JobInit, Init, RedisInv
<1>2. RedisInv /\ SoundInv /\ JobTypeOK /\ [JobNext]_jobVars => RedisInv'
  <2> SUFFICES ASSUME RedisInv, SoundInv, JobTypeOK, [JobNext]_jobVars PROVE RedisInv'
    OBVIOUS
  <2>1. CASE [Next]_vars
    BY <2>1, RedisStep
  <2>2. CASE LeftAlone
    BY <2>2 DEF LeftAlone, RedisInv, JobTypeOK, TypeOK
  <2> QED
    BY <2>1, <2>2, OutsideSteps
<1> QED
  BY <1>1, <1>2, JobTypeCorrect, JobVerdictsSound, PTL DEF JobSpec

(* A cancellation requested in time is honoured by the whole job: the late  *)
(* saves, callbacks and views change the row, and never the flag or a run.  *)
THEOREM JobHonoursCancellation == JobSpec => []CancelHonoured
<1>1. JobInit => AskedInv
  BY DEF JobInit, Init, AskedInv
<1>2. AskedInv /\ RedisInv /\ SoundInv /\ JobTypeOK /\ JobTypeOK' /\ [JobNext]_jobVars
        => AskedInv'
  <2> SUFFICES ASSUME AskedInv, RedisInv, SoundInv, JobTypeOK, JobTypeOK',
                      [JobNext]_jobVars
               PROVE  AskedInv'
    OBVIOUS
  <2>1. CASE [Next]_vars
    BY <2>1, AskedStep DEF JobTypeOK
  <2>2. CASE LeftAlone
    BY <2>2 DEF LeftAlone, AskedInv, JobTypeOK, TypeOK
  <2> QED
    BY <2>1, <2>2, OutsideSteps
<1> QED
  BY <1>1, <1>2, AskedMeansHonoured, JobTypeCorrect, JobVerdictsSound, JobOutagesCounted,
     PTL DEF JobSpec

(* When the runs of the whole job are over its control keys are gone.       *)
THEOREM JobKeysCleared == JobSpec => []EphemeralKeysCleared
<1>1. JobInit => KeysInv
  BY DEF JobInit, Init, KeysInv
<1>2. KeysInv /\ RedisInv /\ SoundInv /\ JobTypeOK /\ JobTypeOK' /\ [JobNext]_jobVars
        => KeysInv'
  <2> SUFFICES ASSUME KeysInv, RedisInv, SoundInv, JobTypeOK, JobTypeOK',
                      [JobNext]_jobVars
               PROVE  KeysInv'
    OBVIOUS
  <2>1. CASE [Next]_vars
    BY <2>1, KeysStep DEF JobTypeOK
  <2>2. CASE LeftAlone
    BY <2>2 DEF LeftAlone, KeysInv, AnyKilled, JobTypeOK, TypeOK
  <2> QED
    BY <2>1, <2>2, OutsideSteps
<1> QED
  BY <1>1, <1>2, KeysMeanCleared, JobTypeCorrect, JobVerdictsSound, JobOutagesCounted,
     PTL DEF JobSpec

-----------------------------------------------------------------------------
(* Who may still hand the request to FastAPI: the queueing thread, or one   *)
(* attempt of the task, and nobody once a run was posted.                   *)
Posted == \E r \in Run : pc[r] # "unposted"
Offering(i) == task[i].pc \in {"queued", "loaded"}

HandOverInv ==
  /\ NoDoubleRun
  /\ Posted \/ thread \in {"started", "fallback"} => \A i \in Attempt : ~Offering(i)
  /\ Posted => thread \notin {"started", "fallback"}
  /\ \A i, j \in Attempt : Offering(i) /\ Offering(j) => i = j

(* A run that is posted stays posted and steps of the saga post none.       *)
LEMMA SagaPostsNothing ==
  ASSUME SoundInv, SagaStep
  PROVE  \A q \in Run : pc'[q] = "unposted" <=> pc[q] = "unposted"
<1>1. CASE CommitRow \/ RedisDown \/ RedisBack
  BY <1>1, EnvironmentUntouched DEF Environment
<1>2. ASSUME NEW r \in Run, pc[r] # "unposted", RunStep(r), NEW q \in Run
      PROVE  pc'[q] = "unposted" <=> pc[q] = "unposted"
  <2>1. CASE q = r
    BY <1>2, <2>1, RunStepEffect DEF Working
  <2>2. CASE q # r
    BY <1>2, <2>2, OtherRunsUntouched DEF SoundInv
  <2> QED
    BY <2>1, <2>2
<1> QED
  BY <1>1, <1>2 DEF SagaStep

(* Accepting posts one run.                                                 *)
LEMMA AcceptPostsOne ==
  ASSUME TypeOK, ~Posted, \E r \in Run : Accept(r)
  PROVE  NoDoubleRun'
<1>1. PICK r \in Run : Accept(r)
  OBVIOUS
<1>2. \A q \in Run \ {r} : pc'[q] = "unposted"
  BY <1>1 DEF Accept, Goto, TypeOK, Posted
<1> QED
  BY <1>2 DEF NoDoubleRun

(* The request is handed to FastAPI at most once.                           *)
THEOREM HandedOverOnce == JobSpec => []NoDoubleRun
<1>1. JobInit => HandOverInv
  BY DEF JobInit, Init, HandOverInv, NoDoubleRun, Posted, Offering
<1>2. HandOverInv /\ SoundInv /\ JobTypeOK /\ [JobNext]_jobVars => HandOverInv'
  <2> SUFFICES ASSUME HandOverInv, SoundInv, JobTypeOK, [JobNext]_jobVars
               PROVE  HandOverInv'
    OBVIOUS
  <2> USE DEF HandOverInv
  <2>1. CASE SagaStep
    BY <2>1, SagaPostsNothing
    DEF SagaStep, djangoVars, NoDoubleRun, Posted, Offering
  <2>2. CASE Publish \/ PublishFails \/ FallbackRefused
    BY <2>2 DEF Publish, PublishFails, FallbackRefused, sagaVars, vars, NoDoubleRun,
                Posted, Offering, JobTypeOK
  <2>3. CASE FallbackAccepted
    BY <2>3, AcceptPostsOne DEF FallbackAccepted, Offering, JobTypeOK
  <2>4. ASSUME NEW i \in Attempt, TaskStep(i) PROVE HandOverInv'
    <3>1. CASE TaskPostAccepted(i)
      <4>1. ~Posted /\ thread \notin {"started", "fallback"}
        BY <3>1 DEF TaskPostAccepted, TaskAt, Offering
      <4>2. \A j \in Attempt : ~Offering(j)'
        BY <3>1 DEF TaskPostAccepted, TaskAt, Offering, JobTypeOK
      <4> QED
        BY <3>1, <4>1, <4>2, AcceptPostsOne DEF TaskPostAccepted, JobTypeOK
    <3>2. CASE TaskRetries(i)
      <4>1. ~Posted /\ thread \notin {"started", "fallback"}
        BY <3>2 DEF TaskRetries, Offering
      <4>2. \A j \in Attempt : Offering(j)' => j = i + 1
        BY <3>2 DEF TaskRetries, Offering, JobTypeOK
      <4> QED
        BY <3>2, <4>1, <4>2 DEF TaskRetries, sagaVars, vars, Posted, NoDoubleRun
    <3>3. CASE \/ TaskStart(i) \/ TaskPostLost(i) \/ TaskRefused(i)
               \/ TaskSavesRunning(i) \/ TaskSavesFailed(i)
      <4>1. UNCHANGED <<pc, thread>>
        BY <3>3 DEF TaskStart, TaskPostLost, TaskRefused, TaskSavesRunning,
                    TaskSavesFailed, TaskAt, sagaVars, vars, runVars
      <4>2. \A j \in Attempt : Offering(j)' => Offering(j)
        BY <3>3 DEF TaskStart, TaskPostLost, TaskRefused, TaskSavesRunning,
                    TaskSavesFailed, TaskAt, Offering, JobTypeOK
      <4> QED
        BY <4>1, <4>2 DEF NoDoubleRun, Posted
    <3> QED
      BY <2>4, <3>1, <3>2, <3>3 DEF TaskStep
  <2>5. CASE \/ \E s \in Final : CallbackLoad(s)
             \/ CallbackSave \/ HealLoad \/ HealCheck \/ HealSave
             \/ CancelLoad \/ CancelNotify \/ CancelSave \/ RejectLoad \/ RejectSave
             \/ \E d \in {"approved", "rejected"} : Decide(d)
             \/ ProgressExpires \/ UNCHANGED jobVars
    <3>1. UNCHANGED <<pc, thread, task>>
      BY <2>5 DEF CallbackLoad, CallbackSave, HealLoad, HealCheck, HealSave, CancelLoad,
                  CancelNotify, RequestCancel, CancelSave, RejectLoad, RejectSave, Decide,
                  ProgressExpires,
                  runVars, sagaVars, vars, djangoVars, jobVars
    <3> QED
      BY <3>1 DEF NoDoubleRun, Posted, Offering
  <2> QED
    BY <2>1, <2>2, <2>3, <2>4, <2>5 DEF JobNext, ThreadStep
<1>3. HandOverInv => NoDoubleRun
  BY DEF HandOverInv
<1> QED
  BY <1>1, <1>2, <1>3, JobTypeCorrect, JobVerdictsSound, PTL DEF JobSpec

-----------------------------------------------------------------------------
(* Everything from which an actor may conclude that the job is completed.   *)
SagaClaim == row.status = "completed" \/ store.progress = "completed"
             \/ callbacks["completed"] > 0
JobClaim == SagaClaim \/ callback.status = "completed" \/ heal = "completed"

Refined == {"persist", "mark_completed"} \union Persisting

PhantomInv ==
  /\ \A r \in Run : pc[r] \in Refined => "rl" \in stageDone[r]
  /\ JobClaim => Produced

(* Milestones are never taken back.                                         *)
LEMMA ProducedStays ==
  ASSUME SoundInv, [Next]_vars, NEW q \in Run, "rl" \in stageDone[q]
  PROVE  "rl" \in stageDone'[q]
<1>1. CASE Environment \/ UNCHANGED vars
  BY <1>1, EnvironmentUntouched
<1>2. ASSUME NEW r \in Run, RunStep(r) PROVE "rl" \in stageDone'[q]
  <2>1. CASE q = r
    BY <1>2, <2>1, RunStepEffect
  <2>2. CASE q # r
    BY <1>2, <2>2, OtherRunsUntouched DEF SoundInv
  <2> QED
    BY <2>1, <2>2
<1> QED
  BY <1>1, <1>2 DEF Next

(* A run gets to its save through all stages.                               *)
LEMMA RefinedStep ==
  ASSUME SoundInv, NEW r \in Run, RunStep(r), pc'[r] \in Refined, pc[r] \notin Refined
  PROVE  "rl" \in stageDone'[r]
<1> USE DEF Goto, StopsAtSafePoint, SoundInv, TypeOK, Refined
<1>1. CASE \/ Accept(r) \/ StageRaises(r) \/ PersistAborts(r) \/ Kill(r)
           \/ Interrupted(r, "timeout", "handle_timeout")
           \/ Interrupted(r, "shutdown", "handle_shutdown")
  BY <1>1 DEF Accept, StageRaises, PersistAborts, Kill, Interrupted
<1>2. CASE Begin(r) \/ CheckInside(r)
  BY <1>2 DEF Begin, CheckInside
<1>3. CASE LeaveStage(r)
  BY <1>3 DEF LeaveStage, Following
<1>4. CASE EnterPersist(r) \/ StoreResult(r) \/ WriteRow(r) \/ LeavePersist(r)
           \/ MarkCompleted(r)
  BY <1>4 DEF EnterPersist, StoreResult, WriteRow, LeavePersist, MarkCompleted
<1>5. CASE \/ MarkStopped(r, "mark_cancelled", "cancelled")
           \/ MarkStopped(r, "mark_failed", "failed")
           \/ Compensate(r) \/ HandleShutdown(r) \/ Cleanup(r)
           \/ HandleError(r) \/ HandleTimeout(r)
  BY <1>5 DEF MarkStopped, Compensate, HandleShutdown, Cleanup, HandleError,
              HandleTimeout, Handler
<1> QED
  BY <1>1, <1>2, <1>3, <1>4, <1>5 DEF RunStep, Advance

(* Only a run in its save makes the row, the progress key or a message say  *)
(* 'completed'.                                                             *)
LEMMA OnlySavingClaims ==
  ASSUME SoundInv, NEW r \in Run, RunStep(r), pc[r] \notin Refined, SagaClaim'
  PROVE  SagaClaim
<1> USE DEF Goto, StopsAtSafePoint, SoundInv, TypeOK, Refined, SagaClaim
<1>1. CASE \/ Accept(r) \/ StageRaises(r) \/ PersistAborts(r) \/ Kill(r)
           \/ EnterPersist(r) \/ StoreResult(r) \/ WriteRow(r) \/ LeavePersist(r)
           \/ MarkCompleted(r)
           \/ Interrupted(r, "timeout", "handle_timeout")
           \/ Interrupted(r, "shutdown", "handle_shutdown")
  BY <1>1 DEF Accept, StageRaises, PersistAborts, Kill, EnterPersist, StoreResult,
              WriteRow, LeavePersist, MarkCompleted, Interrupted
<1>2. CASE Begin(r)
  <2>1. UNCHANGED <<row, callbacks>>
    BY <1>2 DEF Begin
  <2>2. store'.progress \in {store.progress, "running"}
    BY <1>2 DEF Begin, Acknowledged, Store
  <2> QED
    BY <2>1, <2>2
<1>3. CASE LeaveStage(r) \/ CheckInside(r)
  <2>1. UNCHANGED <<row, callbacks>>
    BY <1>3 DEF LeaveStage, CheckInside
  <2>2. store'.progress \in {store.progress, "running"}
    BY <1>3 DEF LeaveStage, CheckInside, Acknowledged, Progressing, Store
  <2> QED
    BY <2>1, <2>2
<1>4. CASE \/ MarkStopped(r, "mark_cancelled", "cancelled")
           \/ MarkStopped(r, "mark_failed", "failed")
  BY <1>4 DEF MarkStopped, Progressing, Store
<1>5. CASE Compensate(r)
  <2>1. row'.status \in {row.status, "failed", "cancelled"}
    BY <1>5 DEF Compensate, UpdateStatus, Row
  <2>2. store'.progress = store.progress /\ callbacks' = callbacks
    BY <1>5 DEF Compensate, Deleting, Store
  <2> QED
    BY <2>1, <2>2
<1>6. CASE HandleError(r) \/ HandleTimeout(r)
  <2>1. row'.status \in {row.status, "failed"}
    BY <1>6 DEF HandleError, HandleTimeout, Handler, UpdateStatus, Row
  <2>2. store'.progress \in {store.progress, "failed"} /\ callbacks' = callbacks
    BY <1>6 DEF HandleError, HandleTimeout, Handler, Progressing, Deleting, Store
  <2> QED
    BY <2>1, <2>2
<1>7. CASE HandleShutdown(r) \/ Cleanup(r)
  BY <1>7 DEF HandleShutdown, Cleanup, Progressing, Deleting, Store
<1> QED
  BY <1>1, <1>2, <1>3, <1>4, <1>5, <1>6, <1>7 DEF RunStep, Advance

(* A step of the saga, from whichever actor, keeps the claims founded.      *)
LEMMA PhantomSaga ==
  ASSUME SoundInv, PhantomInv, [Next]_vars
  PROVE  /\ \A r \in Run : pc'[r] \in Refined => "rl" \in stageDone'[r]
         /\ SagaClaim' => Produced'
         /\ Produced => Produced'
<1>1. Produced => Produced'
  BY ProducedStays DEF Produced
<1>2. CASE Environment \/ UNCHANGED vars
  <2>1. SagaClaim' => SagaClaim
    BY <1>2 DEF Environment, RequestCancel, CommitRow, RedisDown, RedisBack, vars,
                SagaClaim, SoundInv, TypeOK, Store, Row
  <2> QED
    BY <1>1, <1>2, <2>1, EnvironmentUntouched DEF PhantomInv, JobClaim
<1>3. ASSUME NEW r \in Run, RunStep(r)
      PROVE  /\ \A q \in Run : pc'[q] \in Refined => "rl" \in stageDone'[q]
             /\ SagaClaim' => Produced'
  <2>1. ASSUME NEW q \in Run, pc'[q] \in Refined PROVE "rl" \in stageDone'[q]
    <3>1. CASE pc[q] \in Refined
      BY <3>1, ProducedStays DEF PhantomInv
    <3>2. CASE pc[q] \notin Refined
      <4>1. q = r
        BY <1>3, <2>1, <3>2, OtherRunsUntouched DEF SoundInv
      <4> QED
        BY <1>3, <2>1, <3>2, <4>1, RefinedStep
    <3> QED
      BY <3>1, <3>2
  <2>2. CASE pc[r] \in Refined
    BY <1>1, <2>1, <2>2 DEF PhantomInv, Produced
  <2>3. CASE pc[r] \notin Refined
    BY <1>1, <1>3, <2>1, <2>3, OnlySavingClaims DEF PhantomInv, JobClaim
  <2> QED
    BY <2>1, <2>2, <2>3
<1> QED
  BY <1>1, <1>2, <1>3 DEF Next

(* No actor completes a job whose timetable was never produced.             *)
THEOREM CompletionsAreReal == JobSpec => []NoPhantomCompletion
<1>1. JobInit => PhantomInv
  BY DEF JobInit, Init, PhantomInv, Refined, JobClaim, SagaClaim
<1>2. PhantomInv /\ SoundInv /\ JobTypeOK /\ [JobNext]_jobVars => PhantomInv'
  <2> SUFFICES ASSUME PhantomInv, SoundInv, JobTypeOK, [JobNext]_jobVars
               PROVE  PhantomInv'
    OBVIOUS
  <2>1. ASSUME [Next]_vars, UNCHANGED <<callback, heal>> PROVE PhantomInv'
    BY <2>1, PhantomSaga DEF PhantomInv, JobClaim
  <2>2. CASE SagaStep \/ CancelNotify \/ FallbackAccepted
             \/ \E i \in Attempt : TaskPostAccepted(i)
    <3>1. [Next]_vars /\ UNCHANGED <<callback, heal>>
      BY <2>2, SagaStepIsNext, AcceptIsNext
      DEF CancelNotify, FallbackAccepted, TaskPostAccepted, TaskAt, djangoVars, Next,
          Environment, sagaVars
    <3> QED
      BY <2>1, <3>1
  <2>3. ASSUME UNCHANGED <<pc, stageDone>>, JobClaim' => JobClaim PROVE PhantomInv'
    BY <2>3 DEF PhantomInv, Produced
  <2>4. ASSUME NEW i \in Attempt,
               \/ TaskStart(i) \/ TaskPostLost(i) \/ TaskRetries(i) \/ TaskRefused(i)
               \/ TaskSavesRunning(i) \/ TaskSavesFailed(i)
        PROVE  PhantomInv'
    BY <2>3, <2>4 DEF TaskStart, TaskPostLost, TaskRetries, TaskRefused,
       TaskSavesRunning, TaskSavesFailed, TaskAt, SaveStatus, SaveAll, sagaVars, vars,
       runVars, JobTypeOK, TypeOK, Row, JobClaim, SagaClaim
  <2>5. CASE Publish \/ PublishFails \/ FallbackRefused \/ HealLoad \/ CancelLoad
             \/ RejectLoad \/ UNCHANGED jobVars
    BY <2>3, <2>5 DEF Publish, PublishFails, FallbackRefused, HealLoad, CancelLoad,
       RejectLoad, sagaVars, vars, djangoVars, jobVars, JobClaim, SagaClaim
  <2>6. CASE CancelSave \/ RejectSave \/ \E d \in {"approved", "rejected"} : Decide(d)
    BY <2>3, <2>6 DEF CancelSave, RejectSave, Decide, SaveAll, SaveStatus, runVars,
       JobTypeOK, TypeOK, Row, JobClaim, SagaClaim
  <2>7. ASSUME NEW s \in Final, CallbackLoad(s) PROVE PhantomInv'
    BY <2>3, <2>7 DEF CallbackLoad, runVars, JobTypeOK, TypeOK, JobClaim, SagaClaim
  <2>8. CASE CallbackSave
    BY <2>3, <2>8 DEF CallbackSave, SaveAll, runVars, JobTypeOK, TypeOK, Row, JobClaim,
       SagaClaim
  <2>9. CASE HealCheck
    BY <2>3, <2>9 DEF HealCheck, sagaVars, vars, JobClaim, SagaClaim
  <2>10. CASE HealSave
    <3>1. row'.status = heal
      BY <2>10 DEF HealSave, SaveStatus, JobTypeOK, TypeOK, Row
    <3>2. callbacks'["completed"] > 0 => callbacks["completed"] > 0 \/ heal = "completed"
      BY <2>10 DEF HealSave, JobTypeOK, TypeOK
    <3>3. UNCHANGED <<pc, stageDone, store, callback>> /\ heal' = "idle"
      BY <2>10 DEF HealSave, runVars
    <3> QED
      BY <2>3, <3>1, <3>2, <3>3 DEF JobClaim, SagaClaim
  <2>11. CASE ProgressExpires
    <3>1. store'.progress # "completed"
      BY <2>11 DEF ProgressExpires, JobTypeOK, TypeOK, Store
    <3> QED
      BY <2>3, <2>11, <3>1 DEF ProgressExpires, runVars, djangoVars, JobClaim, SagaClaim
  <2> QED
    BY <2>2, <2>4, <2>5, <2>6, <2>7, <2>8, <2>9, <2>10, <2>11
    DEF JobNext, ThreadStep, TaskStep
<1>3. PhantomInv => NoPhantomCompletion
  BY DEF PhantomInv, JobClaim, SagaClaim, NoPhantomCompletion
<1> QED
  BY <1>1, <1>2, <1>3, JobTypeCorrect, JobVerdictsSound, PTL DEF JobSpec
=============================================================================
