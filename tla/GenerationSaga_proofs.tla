------------------------ MODULE GenerationSaga_proofs ------------------------
(***************************************************************************)
(* Proofs about GenerationSaga for any set of runs, any failing            *)
(* infrastructure and any number of failures.                              *)
(***************************************************************************)
EXTENDS GenerationSaga, TLAPS

USE DEF Final, Progress, Key, Suspending, Stage, Persisting

-----------------------------------------------------------------------------
(* The Redis helpers return a store and change only what they name.         *)
LEMMA StoreOperators ==
  ASSUME NEW s \in Store
  PROVE  /\ Acknowledged(s) \in Store
         /\ Acknowledged(s).up = s.up
         /\ Acknowledged(s).result = s.result
         /\ Acknowledged(s).progress = s.progress
         /\ Acknowledged(s).keys = s.keys \union {"state"}
         /\ \A p \in Progress : /\ Progressing(s, p) \in Store
                                /\ Progressing(s, p).up = s.up
                                /\ Progressing(s, p).result = s.result
                                /\ Progressing(s, p).keys = s.keys
         /\ \A ks : /\ Deleting(s, ks) \in Store
                    /\ Deleting(s, ks).up = s.up
                    /\ Deleting(s, ks).result = s.result
  BY DEF Store, Acknowledged, Progressing, Deleting

(* The write of a status followed by the deletion of keys, in one step.     *)
LEMMA MarkedStore ==
  ASSUME NEW s \in Store, NEW p \in Progress, NEW ks
  PROVE  /\ Deleting(Progressing(s, p), ks) \in Store
         /\ Deleting(Progressing(s, p), ks).up = s.up
         /\ Deleting(Progressing(s, p), ks).result = s.result
<1>1. /\ Progressing(s, p) \in Store
      /\ Progressing(s, p).up = s.up /\ Progressing(s, p).result = s.result
  BY StoreOperators
<1> QED
  BY <1>1, StoreOperators

(* The store Begin writes before its entry check.                           *)
LEMMA StartedStore ==
  ASSUME NEW s \in Store
  PROVE  LET t == [s EXCEPT !.keys = @ \union {"start_time"}, !.progress = "running"]
         IN  /\ t \in Store /\ t.up = s.up /\ t.result = s.result
             /\ t.keys = s.keys \union {"start_time"}
  BY DEF Store

(* A guarded UPDATE keeps the type of the row and of the fault counter, the *)
(* data, and every status it is told to keep; it never un-commits the row.  *)
LEMMA UpdateStatusEffect ==
  ASSUME row \in Row, faults \in Nat, NEW status \in Status, NEW kept,
         UpdateStatus(status, kept)
  PROVE  /\ row' \in Row /\ faults' \in Nat /\ faults' >= faults
         /\ row'.data = row.data /\ row'.saved = row.saved
         /\ row.status \in kept => row' = row
  BY DEF UpdateStatus, Row, MayFail

-----------------------------------------------------------------------------
(* Every step of the saga keeps the types.                                  *)
LEMMA TypeStep ==
  ASSUME TypeOK, [Next]_vars
  PROVE  TypeOK'
<1> USE DEF TypeOK, Control, Outcome
<1> USE DEF Goto
<1>1. ASSUME NEW r \in Run, Accept(r) PROVE TypeOK'
  BY <1>1 DEF Accept
<1>2. ASSUME NEW r \in Run, Begin(r) PROVE TypeOK'
  <2> DEFINE s == [store EXCEPT !.keys = @ \union {"start_time"},
                               !.progress = "running"]
  <2>1. s \in Store /\ Acknowledged(s) \in Store
    BY StartedStore, StoreOperators
  <2>2. store' \in {store, s, Acknowledged(s)}
    BY <1>2 DEF Begin
  <2>3. pc' \in [Run -> Control] /\ outcome' \in [Run -> Outcome]
    BY <1>2 DEF Begin, StopsAtSafePoint
  <2> QED
    BY <1>2, <2>1, <2>2, <2>3 DEF Begin
<1>3. ASSUME NEW r \in Run, LeaveStage(r) PROVE TypeOK'
  BY <1>3, StoreOperators DEF LeaveStage, StopsAtSafePoint, Following
<1>4. ASSUME NEW r \in Run, CheckInside(r) PROVE TypeOK'
  BY <1>4, StoreOperators DEF CheckInside, StopsAtSafePoint
<1>5. ASSUME NEW r \in Run, StageRaises(r) PROVE TypeOK'
  BY <1>5 DEF StageRaises
<1>6. ASSUME NEW r \in Run, EnterPersist(r) PROVE TypeOK'
  BY <1>6 DEF EnterPersist, is_cancelled, Store
<1>7. ASSUME NEW r \in Run, PersistAborts(r) PROVE TypeOK'
  BY <1>7 DEF PersistAborts
<1>8. ASSUME NEW r \in Run, StoreResult(r) PROVE TypeOK'
  BY <1>8 DEF StoreResult, Store
<1>9. ASSUME NEW r \in Run, WriteRow(r) PROVE TypeOK'
  <2>1. row' \in Row
    <3>1. CASE row' = [row EXCEPT !.status = "completed", !.data = "timetable",
                                 !.saved = @ \union {r}]
      BY <3>1 DEF Row, Status
    <3> QED
      BY <1>9, <3>1 DEF WriteRow
  <2>2. faults' \in Nat
    BY <1>9 DEF WriteRow
  <2> QED
    BY <1>9, <2>1, <2>2 DEF WriteRow
<1>10. ASSUME NEW r \in Run, LeavePersist(r) PROVE TypeOK'
  BY <1>10, StoreOperators DEF LeavePersist, StopsAtSafePoint
<1>11. ASSUME NEW r \in Run, MarkCompleted(r) PROVE TypeOK'
  BY <1>11, StoreOperators DEF MarkCompleted
<1>12. ASSUME NEW r \in Run, NEW from, NEW p \in Progress, MarkStopped(r, from, p)
       PROVE TypeOK'
  BY <1>12, StoreOperators DEF MarkStopped
<1>13. ASSUME NEW r \in Run, Compensate(r) PROVE TypeOK'
  BY <1>13, StoreOperators, UpdateStatusEffect DEF Compensate, Status
<1>14. ASSUME NEW r \in Run, NEW from, NEW deleted, NEW p \in Progress, NEW kept,
              Handler(r, from, deleted, p, kept)
       PROVE TypeOK'
  <2>1. store' \in Store
    <3>1. store \in Store
      OBVIOUS
    <3>2. Progressing(store, p) \in Store
      BY <3>1, StoreOperators
    <3>3. Deleting(Progressing(store, p), deleted) \in Store
      BY <3>2, StoreOperators
    <3> QED
      BY <1>14, <3>1, <3>3 DEF Handler
  <2>2. row' \in Row /\ faults' \in Nat
    BY <1>14, UpdateStatusEffect DEF Handler, Status
  <2> QED
    BY <1>14, <2>1, <2>2 DEF Handler
<1>15. ASSUME NEW r \in Run, HandleShutdown(r) PROVE TypeOK'
  BY <1>15, StoreOperators DEF HandleShutdown
<1>16. ASSUME NEW r \in Run, Cleanup(r) PROVE TypeOK'
  BY <1>16, StoreOperators DEF Cleanup
<1>17. ASSUME NEW r \in Run, NEW as \in Outcome, NEW handler \in Control,
              Interrupted(r, as, handler)
       PROVE TypeOK'
  BY <1>17 DEF Interrupted
<1>18. ASSUME NEW r \in Run, Kill(r) PROVE TypeOK'
  BY <1>18 DEF Kill
<1>19. CASE Environment
  <2>1. CASE RequestCancel
    BY <2>1 DEF RequestCancel, runVars, Store
  <2>2. CASE CommitRow
    BY <2>2 DEF CommitRow, runVars, Row
  <2>3. CASE RedisDown
    <3>1. store' \in Store
      BY <2>3 DEF RedisDown, Store
    <3> QED
      BY <2>3, <3>1 DEF RedisDown, runVars
  <2>4. CASE RedisBack
    BY <2>4 DEF RedisBack, runVars, Store
  <2> QED
    BY <1>19, <2>1, <2>2, <2>3, <2>4 DEF Environment
<1>20. CASE UNCHANGED vars
  BY <1>20 DEF vars
<1>21. ASSUME NEW r \in Run, RunStep(r) PROVE TypeOK'
  BY <1>21, <1>1, <1>2, <1>3, <1>4, <1>5, <1>6, <1>7, <1>8, <1>9, <1>10,
     <1>11, <1>12, <1>13, <1>14, <1>15, <1>16, <1>17, <1>18
  DEF RunStep, Advance, HandleError, HandleTimeout, Store
<1> QED
  BY <1>19, <1>20, <1>21 DEF Next

(* Every variable keeps its type (see TypeOK).                              *)
THEOREM TypeCorrect == Spec => []TypeOK
<1>1. Init => TypeOK
  BY DEF Init, TypeOK, Control, Outcome, Row, Store, Status
<1> QED
  BY <1>1, TypeStep, PTL DEF Spec

-----------------------------------------------------------------------------
(* A step of one run leaves the local state of every other run alone, and   *)
(* no step of the environment touches the local state of any run.           *)
LEMMA OtherRunsUntouched ==
  ASSUME TypeOK, NEW r \in Run, RunStep(r), NEW q \in Run \ {r}
  PROVE  pc'[q] = pc[q] /\ stageDone'[q] = stageDone[q] /\ outcome'[q] = outcome[q]
<1> USE DEF Goto, StopsAtSafePoint, TypeOK
<1>1. ASSUME NEW from, NEW p, MarkStopped(r, from, p)
      PROVE  pc'[q] = pc[q] /\ stageDone'[q] = stageDone[q] /\ outcome'[q] = outcome[q]
  BY <1>1 DEF MarkStopped
<1>2. ASSUME NEW from, NEW ks, NEW p, NEW kept, Handler(r, from, ks, p, kept)
      PROVE  pc'[q] = pc[q] /\ stageDone'[q] = stageDone[q] /\ outcome'[q] = outcome[q]
  BY <1>2 DEF Handler
<1>3. ASSUME NEW as, NEW handler, Interrupted(r, as, handler)
      PROVE  pc'[q] = pc[q] /\ stageDone'[q] = stageDone[q] /\ outcome'[q] = outcome[q]
  BY <1>3 DEF Interrupted
<1>4. CASE Accept(r) \/ StageRaises(r) \/ PersistAborts(r) \/ Kill(r)
  BY <1>4 DEF Accept, StageRaises, PersistAborts, Kill
<1>5. CASE Begin(r)
  BY <1>5 DEF Begin
<1>6. CASE LeaveStage(r)
  BY <1>6 DEF LeaveStage
<1>7. CASE CheckInside(r)
  BY <1>7 DEF CheckInside
<1>8. CASE EnterPersist(r) \/ StoreResult(r) \/ WriteRow(r) \/ MarkCompleted(r)
  BY <1>8 DEF EnterPersist, StoreResult, WriteRow, MarkCompleted
<1>9. CASE LeavePersist(r)
  BY <1>9 DEF LeavePersist
<1>10. CASE Compensate(r) \/ HandleShutdown(r) \/ Cleanup(r)
  BY <1>10 DEF Compensate, HandleShutdown, Cleanup
<1> QED
  BY <1>1, <1>2, <1>3, <1>4, <1>5, <1>6, <1>7, <1>8, <1>9, <1>10
  DEF RunStep, Advance, HandleError, HandleTimeout

(* No step of the environment touches the local state of a run.             *)
LEMMA EnvironmentUntouched ==
  ASSUME Environment \/ UNCHANGED vars
  PROVE  UNCHANGED <<pc, stageDone, outcome>>
BY DEF Environment, RequestCancel, CommitRow, RedisDown, RedisBack, runVars, vars

-----------------------------------------------------------------------------
(* The control points of a run that has not left its normal course.         *)
BeforeSolved == {"unposted", "queued", "data_load", "clustering", "cpsat"}
Solved == {"ga", "rl", "persist"} \union Persisting
Normal == BeforeSolved \union Solved \union {"mark_completed"}

(* How far a run is, what stage_completed says and what verdict it has fit  *)
(* together: this is what makes its verdict justified.                      *)
Sound(r) ==
  /\ "persistence" \in stageDone[r] => "cpsat" \in stageDone[r]
  /\ pc[r] \in BeforeSolved =>
       "cpsat" \notin stageDone[r] /\ "persistence" \notin stageDone[r]
  /\ pc[r] \in Solved =>
       "cpsat" \in stageDone[r] /\ "persistence" \notin stageDone[r]
  /\ pc[r] = "mark_completed" => "persistence" \in stageDone[r]
  /\ pc[r] \in Normal <=> outcome[r] = "none"
  /\ outcome[r] = "cancelled" => "cpsat" \notin stageDone[r]
  /\ outcome[r] = "partial_success" => "cpsat" \in stageDone[r]
  /\ outcome[r] = "success" => "persistence" \in stageDone[r]
  /\ outcome[r] = "failed" => "persistence" \notin stageDone[r]
  /\ outcome[r] \in {"timeout", "shutdown"} => "cpsat" \notin stageDone[r]
  /\ outcome[r] = "killed" => pc[r] = "done"

(* A run's own step keeps its milestones and its verdict in tune.           *)
LEMMA SoundStep ==
  ASSUME TypeOK, NEW r \in Run, Sound(r), RunStep(r)
  PROVE  Sound(r)'
<1> USE DEF Goto, StopsAtSafePoint, TypeOK, Sound, Normal, BeforeSolved, Solved
<1>1. CASE Accept(r)
  BY <1>1 DEF Accept
<1>2. CASE Begin(r)
  BY <1>2 DEF Begin
<1>3. CASE LeaveStage(r)
  BY <1>3 DEF LeaveStage, Following
<1>4. CASE CheckInside(r)
  BY <1>4 DEF CheckInside
<1>5. CASE StageRaises(r) \/ PersistAborts(r) \/ Kill(r)
  BY <1>5 DEF StageRaises, PersistAborts, Kill
<1>6. CASE EnterPersist(r) \/ StoreResult(r) \/ WriteRow(r)
  BY <1>6 DEF EnterPersist, StoreResult, WriteRow
<1>7. CASE LeavePersist(r)
  BY <1>7 DEF LeavePersist
<1>8. CASE MarkCompleted(r)
  BY <1>8 DEF MarkCompleted
<1>9. CASE \/ MarkStopped(r, "mark_cancelled", "cancelled")
           \/ MarkStopped(r, "mark_failed", "failed")
  BY <1>9 DEF MarkStopped
<1>10. CASE Compensate(r)
  BY <1>10 DEF Compensate
<1>11. CASE HandleError(r) \/ HandleTimeout(r)
  BY <1>11 DEF HandleError, HandleTimeout, Handler
<1>12. CASE HandleShutdown(r) \/ Cleanup(r)
  BY <1>12 DEF HandleShutdown, Cleanup
<1>13. CASE \/ Interrupted(r, "timeout", "handle_timeout")
            \/ Interrupted(r, "shutdown", "handle_shutdown")
  BY <1>13 DEF Interrupted
<1> QED
  BY <1>1, <1>2, <1>3, <1>4, <1>5, <1>6, <1>7, <1>8, <1>9, <1>10, <1>11,
     <1>12, <1>13 DEF RunStep, Advance

SoundInv == TypeOK /\ \A r \in Run : Sound(r)

(* So does every step of the saga, for every run.                           *)
LEMMA SoundNext ==
  ASSUME SoundInv, [Next]_vars
  PROVE  SoundInv'
<1>1. TypeOK'
  BY TypeStep DEF SoundInv
<1>2. ASSUME NEW q \in Run, Environment \/ UNCHANGED vars PROVE Sound(q)'
  BY <1>2, EnvironmentUntouched DEF SoundInv, Sound
<1>3. ASSUME NEW q \in Run, NEW r \in Run, RunStep(r) PROVE Sound(q)'
  <2>1. CASE r = q
    BY <1>3, <2>1, SoundStep DEF SoundInv
  <2>2. CASE r # q
    BY <1>3, <2>2, OtherRunsUntouched DEF SoundInv, Sound
  <2> QED
    BY <2>1, <2>2
<1> QED
  BY <1>1, <1>2, <1>3 DEF Next, SoundInv

(* Every run's control point, milestones and verdict fit together.          *)
THEOREM VerdictsSound == Spec => []SoundInv
<1>1. Init => \A r \in Run : Sound(r)
  BY DEF Init, Sound, Normal, BeforeSolved, Solved
<1> QED
  BY <1>1, SoundNext, TypeCorrect, PTL DEF Spec, SoundInv

-----------------------------------------------------------------------------
Working == Control \ {"unposted", "queued", "done"}

(* What a step of a run may do to its control point and its milestones.     *)
LEMMA RunStepEffect ==
  ASSUME SoundInv, NEW r \in Run, RunStep(r)
  PROVE
    \/ /\ pc[r] = "unposted" /\ pc'[r] = "queued"
       /\ stageDone'[r] = stageDone[r]
    \/ /\ pc[r] = "queued" /\ pc'[r] \in Working
       /\ stageDone'[r] = stageDone[r]
    \/ /\ pc[r] \in Working \union {"queued"} /\ pc'[r] = "done"
       /\ stageDone'[r] = stageDone[r]
    \/ /\ pc[r] \in Working /\ pc'[r] \in Working
       /\ \/ stageDone'[r] = stageDone[r]
          \/ pc[r] \in Stage /\ stageDone'[r] = stageDone[r] \union {pc[r]}
          \/ /\ pc[r] = "persist_exit"
             /\ stageDone'[r] = stageDone[r] \union {"persistence"}
<1> USE DEF Goto, StopsAtSafePoint, SoundInv, TypeOK, Working, Control
<1>1. CASE Accept(r) \/ StageRaises(r) \/ PersistAborts(r) \/ Kill(r)
  BY <1>1 DEF Accept, StageRaises, PersistAborts, Kill
<1>2. CASE Begin(r)
  BY <1>2 DEF Begin
<1>3. CASE LeaveStage(r)
  BY <1>3 DEF LeaveStage, Following
<1>4. CASE CheckInside(r)
  BY <1>4 DEF CheckInside
<1>5. CASE EnterPersist(r) \/ StoreResult(r) \/ WriteRow(r) \/ MarkCompleted(r)
  BY <1>5 DEF EnterPersist, StoreResult, WriteRow, MarkCompleted
<1>6. CASE LeavePersist(r)
  BY <1>6 DEF LeavePersist
<1>7. CASE \/ MarkStopped(r, "mark_cancelled", "cancelled")
           \/ MarkStopped(r, "mark_failed", "failed")
  BY <1>7 DEF MarkStopped
<1>8. CASE Compensate(r) \/ HandleShutdown(r) \/ Cleanup(r)
  BY <1>8 DEF Compensate, HandleShutdown, Cleanup
<1>9. CASE HandleError(r) \/ HandleTimeout(r)
  BY <1>9 DEF HandleError, HandleTimeout, Handler
<1>10. CASE \/ Interrupted(r, "timeout", "handle_timeout")
            \/ Interrupted(r, "shutdown", "handle_shutdown")
  BY <1>10 DEF Interrupted
<1> QED
  BY <1>1, <1>2, <1>3, <1>4, <1>5, <1>6, <1>7, <1>8, <1>9, <1>10
  DEF RunStep, Advance

(* A step of a run is a step of the contract, or one it does not see.       *)
LEMMA RunStepRefines ==
  ASSUME SoundInv, SoundInv', NEW r \in Run, RunStep(r)
  PROVE  [Contract!Next]_(Contract!vars)
<1> USE DEF phaseBar, milestoneBar, verdictBar
<1>1. \A q \in Run \ {r} : /\ pc'[q] = pc[q] /\ stageDone'[q] = stageDone[q]
                          /\ outcome'[q] = outcome[q]
  BY OtherRunsUntouched DEF SoundInv
<1>2. Sound(r) /\ Sound(r)' /\ outcome'[r] \in Outcome
  BY DEF SoundInv, TypeOK
<1>3. CASE /\ pc[r] = "unposted" /\ pc'[r] = "queued"
           /\ stageDone'[r] = stageDone[r]
  <2>1. Contract!Submit(r)
    BY <1>1, <1>3 DEF Contract!Submit
  <2> QED
    BY <2>1 DEF Contract!Next
<1>4. CASE /\ pc[r] = "queued" /\ pc'[r] \in Working
           /\ stageDone'[r] = stageDone[r]
  <2>1. Contract!Start(r)
    BY <1>1, <1>4 DEF Contract!Start, Working
  <2> QED
    BY <2>1 DEF Contract!Next
<1>5. CASE /\ pc[r] \in Working \union {"queued"} /\ pc'[r] = "done"
           /\ stageDone'[r] = stageDone[r]
  <2>1. outcome'[r] \in Contract!Justified(milestoneBar[r])
    BY <1>2, <1>5 DEF Contract!Justified, Sound, Normal, BeforeSolved, Solved, Outcome
  <2>2. Contract!End(r)
    <3>1. phaseBar[r] \in {"waiting", "working"}
      BY <1>5 DEF Working
    <3>2. phaseBar' = [phaseBar EXCEPT ![r] = "ended"]
      BY <1>1, <1>5
    <3>3. milestoneBar' = milestoneBar
      BY <1>1, <1>5
    <3>4. verdictBar' = [verdictBar EXCEPT ![r] = outcome'[r]]
      BY <1>1, <1>5
    <3> QED
      BY <2>1, <3>1, <3>2, <3>3, <3>4 DEF Contract!End
  <2> QED
    BY <2>2 DEF Contract!Next
<1>6. CASE /\ pc[r] \in Working /\ pc'[r] \in Working
           /\ stageDone'[r] = stageDone[r]
  BY <1>1, <1>6 DEF Contract!vars, Working
<1>7. CASE /\ pc[r] \in Stage /\ pc'[r] \in Working
           /\ stageDone'[r] = stageDone[r] \union {pc[r]}
  <2>1. CASE pc[r] = "cpsat"
    <3>1. Contract!Reach(r, "none", "feasible")
      BY <1>1, <1>2, <1>7, <2>1 DEF Contract!Reach, Sound, BeforeSolved, Working
    <3> QED
      BY <3>1 DEF Contract!Next
  <2>2. CASE pc[r] # "cpsat"
    BY <1>1, <1>7, <2>2 DEF Contract!vars, Working
  <2> QED
    BY <2>1, <2>2
<1>8. CASE /\ pc[r] = "persist_exit" /\ pc'[r] \in Working
           /\ stageDone'[r] = stageDone[r] \union {"persistence"}
  <2>1. Contract!Reach(r, "feasible", "saved")
    BY <1>1, <1>2, <1>8 DEF Contract!Reach, Sound, Solved, Working
  <2> QED
    BY <2>1 DEF Contract!Next
<1> QED
  BY <1>3, <1>4, <1>5, <1>6, <1>7, <1>8, RunStepEffect

(* The runs begin where the contract begins.                                *)
LEMMA InitRefines == Init => Contract!Init
  BY DEF Init, Contract!Init, phaseBar, milestoneBar, verdictBar

(* Every step is one of the contract or leaves its variables alone.         *)
LEMMA StepRefines ==
  ASSUME SoundInv, SoundInv', [Next]_vars
  PROVE  [Contract!Next]_(Contract!vars)
<1>1. CASE Environment \/ UNCHANGED vars
  BY <1>1, EnvironmentUntouched
  DEF Contract!vars, phaseBar, milestoneBar, verdictBar
<1>2. CASE \E r \in Run : RunStep(r)
  BY <1>2, RunStepRefines
<1> QED
  BY <1>1, <1>2 DEF Next

(* The saga refines RunContract: every run ends with exactly one verdict,   *)
(* and one that the milestones recorded in stage_completed justify.         *)
THEOREM SagaRefinesContract == Spec => ImplementsContract
BY InitRefines, StepRefines, VerdictsSound, PTL DEF Spec, ImplementsContract, Contract!Spec

-----------------------------------------------------------------------------
(* Begin only adds keys, and leaves the rest of the store to the progress.  *)
LEMMA BeginStore ==
  ASSUME TypeOK, NEW r \in Run, Begin(r)
  PROVE  /\ store'.up = store.up /\ store'.result = store.result
         /\ store.keys \subseteq store'.keys
<1> DEFINE s == [store EXCEPT !.keys = @ \union {"start_time"}, !.progress = "running"]
<1>1. /\ s \in Store /\ s.up = store.up /\ s.result = store.result
      /\ s.keys = store.keys \union {"start_time"}
  BY StartedStore DEF TypeOK
<1>2. /\ Acknowledged(s).up = store.up /\ Acknowledged(s).result = store.result
      /\ Acknowledged(s).keys = s.keys \union {"state"}
  BY <1>1, StoreOperators
<1>3. store' \in {store, s, Acknowledged(s)}
  BY DEF Begin
<1> QED
  BY <1>1, <1>2, <1>3

(* The completing UPDATE either saves the timetable or counts as a failure. *)
LEMMA WriteRowEffect ==
  ASSUME TypeOK, NEW r \in Run, WriteRow(r)
  PROVE  /\ store' = store
         /\ \/ /\ row'.status = "completed" /\ row'.data = "timetable"
               /\ row'.saved = row.saved \union {r} /\ faults' = faults
            \/ row' = row /\ faults' = faults + 1
BY DEF WriteRow, TypeOK, Row

(* What no step undoes: faults are only counted up, stored scores and a     *)
(* saved timetable stay, and so does the status of a completed job; a run   *)
(* counts as saved from a step that completes the row on.                   *)
Kept ==
  /\ faults' >= faults
  /\ store.result = "scores" => store'.result = "scores"
  /\ row.saved \subseteq row'.saved
  /\ \/ row'.saved = row.saved
     \/ row'.status = "completed" /\ row'.data = "timetable"
  /\ row.data = "timetable" => row'.data = "timetable"
  /\ row.status = "completed" => row'.status = "completed"

(* Every step keeps what Kept names: each UPDATE's guard does its part.     *)
LEMMA NothingLost ==
  ASSUME TypeOK, [Next]_vars
  PROVE  Kept
<1> USE DEF Kept, TypeOK
<1>1. ASSUME NEW r \in Run, RunStep(r) PROVE Kept
  <2>1. CASE \/ Accept(r) \/ StageRaises(r) \/ PersistAborts(r) \/ Kill(r)
             \/ EnterPersist(r)
             \/ Interrupted(r, "timeout", "handle_timeout")
             \/ Interrupted(r, "shutdown", "handle_shutdown")
    BY <2>1 DEF Accept, StageRaises, PersistAborts, Kill, EnterPersist, Interrupted
  <2>2. CASE Begin(r)
    BY <2>2, BeginStore DEF Begin
  <2>3. CASE LeaveStage(r) \/ CheckInside(r)
    BY <2>3, StoreOperators DEF LeaveStage, CheckInside
  <2>4. CASE StoreResult(r)
    BY <2>4 DEF StoreResult, Store
  <2>5. CASE WriteRow(r)
    BY <2>5, WriteRowEffect
  <2>6. CASE LeavePersist(r)
    BY <2>6, StoreOperators DEF LeavePersist
  <2>7. CASE MarkCompleted(r)
    BY <2>7, MarkedStore DEF MarkCompleted
  <2>8. CASE \/ MarkStopped(r, "mark_cancelled", "cancelled")
             \/ MarkStopped(r, "mark_failed", "failed")
    BY <2>8, StoreOperators DEF MarkStopped
  <2>9. CASE Compensate(r)
    <3>1. store'.result = store.result
      BY <2>9, StoreOperators DEF Compensate
    <3>2. /\ faults' >= faults /\ row'.data = row.data /\ row'.saved = row.saved
          /\ row.status = "completed" => row' = row
      BY <2>9, UpdateStatusEffect DEF Compensate, Status
    <3> QED
      BY <3>1, <3>2
  <2>10. ASSUME NEW from, NEW ks, NEW p \in Progress,
                NEW kept, "completed" \in kept, Handler(r, from, ks, p, kept)
         PROVE  Kept
    <3>1. store'.result = store.result
      BY <2>10, MarkedStore DEF Handler
    <3>2. /\ faults' >= faults /\ row'.data = row.data /\ row'.saved = row.saved
          /\ row.status = "completed" => row' = row
      BY <2>10, UpdateStatusEffect DEF Handler, Status
    <3> QED
      BY <3>1, <3>2
  <2>11. CASE HandleError(r) \/ HandleTimeout(r)
    <3>1. store.progress \in Progress
      BY DEF Store
    <3>2. CASE HandleError(r)
      BY <2>10, <3>1, <3>2 DEF HandleError
    <3>3. CASE HandleTimeout(r)
      BY <2>10, <3>3 DEF HandleTimeout
    <3> QED
      BY <2>11, <3>2, <3>3
  <2>12. CASE HandleShutdown(r) \/ Cleanup(r)
    BY <2>12, StoreOperators, MarkedStore DEF HandleShutdown, Cleanup
  <2> QED
    BY <1>1, <2>1, <2>2, <2>3, <2>4, <2>5, <2>6, <2>7, <2>8, <2>9, <2>11, <2>12
    DEF RunStep, Advance
<1>2. CASE Environment
  BY <1>2 DEF Environment, RequestCancel, CommitRow, RedisDown, RedisBack,
              Store, Row, runVars
<1>3. CASE UNCHANGED vars
  BY <1>3 DEF vars
<1> QED
  BY <1>1, <1>2, <1>3 DEF Next

(* A completed job is never taken back, nor its timetable lost, by any run. *)
THEOREM CompletedStays == Spec => CompletedIsNeverTakenBack
<1>1. TypeOK /\ [Next]_vars =>
        [/\ row.status = "completed" => row'.status = "completed"
         /\ row.data = "timetable" => row'.data = "timetable"]_vars
  BY NothingLost DEF Kept
<1> QED
  BY <1>1, TypeCorrect, PTL DEF Spec, CompletedIsNeverTakenBack

-----------------------------------------------------------------------------
(* What a run that is past its UPDATE leaves behind, and the row of a job   *)
(* that some run has saved.                                                 *)
Durable(r) == r \in row.saved \/ (faults > 0 /\ (faults = 1 => store.result = "scores"))
SavedRow == row.saved # {} => row.status = "completed" /\ row.data = "timetable"

(* Redis is only unreachable after a fault.                                 *)
RedisInv == ~store.up => faults > 0

(* Moreover a run about to write the row has stored its scores unless there *)
(* was a fault, and a run past the write has saved its timetable or lost it *)
(* to a counted failure.                                                    *)
SavingInv ==
  /\ RedisInv /\ SavedRow
  /\ \A r \in Run :
       /\ pc[r] = "persist_db" /\ faults = 0 => store.result = "scores"
       /\ pc[r] \in {"persist_exit", "mark_completed"} \/ outcome[r] = "success"
            => Durable(r)

(* What was saved stays saved, and what was lost was lost to a fault.       *)
LEMMA DurableStays ==
  ASSUME TypeOK, TypeOK', [Next]_vars, NEW r \in Run, Durable(r)
  PROVE  Durable(r)'
BY NothingLost DEF Durable, Kept, TypeOK

(* A row some run has saved stays completed.                                *)
LEMMA SavedRowStays ==
  ASSUME TypeOK, [Next]_vars, SavedRow
  PROVE  SavedRow'
BY NothingLost DEF SavedRow, Kept

(* Where a step may leave a run that has something to do with saving.       *)
LEMMA SavingStep ==
  ASSUME SoundInv, NEW r \in Run, RunStep(r)
  PROVE
    /\ store'.up = store.up
    /\ pc'[r] = "persist_db" => StoreResult(r)
    /\ pc'[r] = "persist_exit" => WriteRow(r)
    /\ pc'[r] = "mark_completed" => pc[r] = "persist_exit"
    /\ outcome'[r] = "success" =>
         pc[r] = "mark_completed" \/ outcome[r] = "success"
<1> USE DEF Goto, StopsAtSafePoint, SoundInv, TypeOK, Control
<1>1. CASE \/ Accept(r) \/ StageRaises(r) \/ PersistAborts(r) \/ Kill(r)
           \/ EnterPersist(r)
           \/ Interrupted(r, "timeout", "handle_timeout")
           \/ Interrupted(r, "shutdown", "handle_shutdown")
  BY <1>1 DEF Accept, StageRaises, PersistAborts, Kill, EnterPersist, Interrupted
<1>2. CASE Begin(r)
  BY <1>2, BeginStore DEF Begin
<1>3. CASE LeaveStage(r)
  BY <1>3, StoreOperators DEF LeaveStage, Following
<1>4. CASE CheckInside(r)
  BY <1>4, StoreOperators DEF CheckInside
<1>5. CASE StoreResult(r)
  BY <1>5 DEF StoreResult, Store
<1>6. CASE WriteRow(r)
  BY <1>6 DEF WriteRow
<1>7. CASE LeavePersist(r)
  BY <1>7, StoreOperators DEF LeavePersist
<1>8. CASE MarkCompleted(r)
  BY <1>8, MarkedStore DEF MarkCompleted
<1>9. CASE \/ MarkStopped(r, "mark_cancelled", "cancelled")
           \/ MarkStopped(r, "mark_failed", "failed")
  BY <1>9, StoreOperators DEF MarkStopped
<1>10. CASE Compensate(r)
  BY <1>10, StoreOperators DEF Compensate
<1>11. ASSUME NEW from, NEW ks, NEW p \in Progress, NEW kept,
              Handler(r, from, ks, p, kept)
       PROVE  store'.up = store.up /\ pc'[r] = "cleanup" /\ outcome' = outcome
  BY <1>11, MarkedStore DEF Handler
<1>12. CASE HandleError(r) \/ HandleTimeout(r)
  BY <1>11, <1>12 DEF HandleError, HandleTimeout, Store
<1>13. CASE HandleShutdown(r) \/ Cleanup(r)
  BY <1>13, StoreOperators, MarkedStore DEF HandleShutdown, Cleanup
<1> QED
  BY <1>1, <1>2, <1>3, <1>4, <1>5, <1>6, <1>7, <1>8, <1>9, <1>10, <1>12, <1>13
  DEF RunStep, Advance

(* Every outage is counted.                                                 *)
LEMMA RedisStep ==
  ASSUME RedisInv, SoundInv, [Next]_vars
  PROVE  RedisInv'
<1>1. Kept
  BY NothingLost DEF SoundInv
<1>2. CASE Environment \/ UNCHANGED vars
  BY <1>2 DEF Environment, RequestCancel, CommitRow, RedisDown, RedisBack, vars,
              SoundInv, TypeOK, Store, RedisInv
<1>3. ASSUME NEW r \in Run, RunStep(r) PROVE RedisInv'
  <2>1. faults \in Nat /\ faults' \in Nat
    BY <1>3, TypeStep DEF Next, SoundInv, TypeOK
  <2> QED
    BY <1>1, <1>3, <2>1, SavingStep DEF RedisInv, Kept
<1> QED
  BY <1>2, <1>3 DEF Next

(* It is an invariant of the saga.                                          *)
THEOREM SavingAlways == Spec => []SavingInv
<1>1. Init => SavingInv
  BY DEF Init, SavingInv, RedisInv, SavedRow
<1>2. SavingInv /\ SoundInv /\ TypeOK' /\ [Next]_vars => SavingInv'
  <2> SUFFICES ASSUME SavingInv, SoundInv, TypeOK', [Next]_vars PROVE SavingInv'
    OBVIOUS
  <2>1. TypeOK
    BY DEF SoundInv
  <2>2. /\ Kept /\ SavedRow'
        /\ \A q \in Run : Durable(q) => Durable(q)'
    BY <2>1, NothingLost, DurableStays, SavedRowStays DEF SavingInv
  <2>3. CASE Environment \/ UNCHANGED vars
    <3>1. RedisInv'
      BY RedisStep DEF SavingInv
    <3> QED
      BY <2>1, <2>2, <2>3, <3>1, EnvironmentUntouched DEF SavingInv, Kept, TypeOK
  <2>4. ASSUME NEW r \in Run, RunStep(r) PROVE SavingInv'
    <3>1. RedisInv'
      BY RedisStep DEF SavingInv
    <3>2. StoreResult(r) /\ faults' = 0 => store'.result = "scores"
      BY <2>1 DEF StoreResult, SavingInv, RedisInv, TypeOK, Store
    <3>3. WriteRow(r) => Durable(r)'
      <4> SUFFICES ASSUME WriteRow(r) PROVE Durable(r)'
        OBVIOUS
      <4>1. pc[r] = "persist_db"
        BY DEF WriteRow
      <4> QED
        BY <2>1, <4>1, WriteRowEffect DEF SavingInv, TypeOK, Durable
    <3>4. ASSUME NEW q \in Run
          PROVE  /\ pc'[q] = "persist_db" /\ faults' = 0 => store'.result = "scores"
                 /\ \/ pc'[q] \in {"persist_exit", "mark_completed"}
                    \/ outcome'[q] = "success"
                    => Durable(q)'
      <4>1. CASE q = r
        BY <2>2, <2>4, <3>2, <3>3, <4>1, SavingStep DEF SavingInv
      <4>2. CASE q # r
        BY <2>1, <2>2, <2>4, <4>2, OtherRunsUntouched DEF SavingInv, Kept, TypeOK
      <4> QED
        BY <4>1, <4>2
    <3> QED
      BY <2>2, <3>1, <3>4 DEF SavingInv
  <2> QED
    BY <2>3, <2>4 DEF Next
<1> QED
  BY <1>1, <1>2, TypeCorrect, VerdictsSound, PTL DEF Spec

(* A successful run's timetable stays in the completed row once its UPDATE  *)
(* took effect; otherwise a failure was counted, and only a second one      *)
(* keeps the scores out of Redis.                                           *)
THEOREM SuccessIsDurable == Spec => []SavedUnlessWriteFails
<1>1. SavingInv => SavedUnlessWriteFails
  BY DEF SavingInv, SavedRow, Durable, SavedUnlessWriteFails
<1> QED
  BY <1>1, SavingAlways, PTL

-----------------------------------------------------------------------------
(* A run that has left its normal course never returns to it, and only such *)
(* a run (or one that just succeeded) deletes the cancellation flag.        *)
LEMMA FlagStep ==
  ASSUME SoundInv, NEW r \in Run, RunStep(r)
  PROVE  /\ outcome[r] # "none" =>
              outcome'[r] # "none" /\ stageDone'[r] = stageDone[r]
         /\ outcome'[r] = "none" /\ "cancel" \in store.keys =>
              "cancel" \in store'.keys
<1> USE DEF Goto, StopsAtSafePoint, SoundInv, TypeOK, Sound, Normal, BeforeSolved, Solved
<1>1. CASE \/ Accept(r) \/ StageRaises(r) \/ PersistAborts(r) \/ Kill(r)
           \/ EnterPersist(r)
           \/ Interrupted(r, "timeout", "handle_timeout")
           \/ Interrupted(r, "shutdown", "handle_shutdown")
  BY <1>1 DEF Accept, StageRaises, PersistAborts, Kill, EnterPersist, Interrupted
<1>2. CASE Begin(r)
  BY <1>2, BeginStore DEF Begin
<1>3. CASE LeaveStage(r)
  BY <1>3, StoreOperators DEF LeaveStage
<1>4. CASE CheckInside(r)
  BY <1>4, StoreOperators DEF CheckInside
<1>5. CASE StoreResult(r)
  BY <1>5 DEF StoreResult, Store
<1>6. CASE WriteRow(r)
  BY <1>6 DEF WriteRow
<1>7. CASE LeavePersist(r)
  BY <1>7, StoreOperators DEF LeavePersist
<1>8. CASE MarkCompleted(r)
  BY <1>8 DEF MarkCompleted
<1>9. CASE \/ MarkStopped(r, "mark_cancelled", "cancelled")
           \/ MarkStopped(r, "mark_failed", "failed")
  BY <1>9, StoreOperators DEF MarkStopped
<1>10. CASE Compensate(r)
  BY <1>10 DEF Compensate
<1>11. CASE HandleError(r) \/ HandleTimeout(r)
  BY <1>11 DEF HandleError, HandleTimeout, Handler
<1>12. CASE HandleShutdown(r) \/ Cleanup(r)
  BY <1>12 DEF HandleShutdown, Cleanup
<1> QED
  BY <1>1, <1>2, <1>3, <1>4, <1>5, <1>6, <1>7, <1>8, <1>9, <1>10, <1>11, <1>12
  DEF RunStep, Advance

(* A run that can see the flag at one of its stages stops at its next step. *)
LEMMA FlagStops ==
  ASSUME SoundInv, NEW r \in Run, RunStep(r),
         store.up, "cancel" \in store.keys, pc[r] \in Stage \union {"queued"}
  PROVE  outcome'[r] # "none" /\ "persistence" \notin stageDone'[r]
<1> USE DEF Goto, StopsAtSafePoint, SoundInv, TypeOK, Sound, BeforeSolved, Solved
<1>1. CASE Begin(r)
  BY <1>1 DEF Begin, is_cancelled, Store
<1>2. CASE LeaveStage(r)
  BY <1>2, StoreOperators DEF LeaveStage, is_cancelled
<1>3. CASE CheckInside(r)
  BY <1>3 DEF CheckInside, is_cancelled
<1>4. CASE StageRaises(r) \/ Kill(r)
  BY <1>4 DEF StageRaises, Kill
<1>5. CASE \/ Interrupted(r, "timeout", "handle_timeout")
           \/ Interrupted(r, "shutdown", "handle_shutdown")
  BY <1>5 DEF Interrupted
<1> QED
  BY <1>1, <1>2, <1>3, <1>4, <1>5
  DEF RunStep, Advance, Accept, PersistAborts, EnterPersist, StoreResult,
      WriteRow, LeavePersist, MarkCompleted, MarkStopped, Compensate, HandleError,
      HandleTimeout, Handler, HandleShutdown, Cleanup

(* Until a run that was asked to stop does stop, the flag is still there,   *)
(* provided nobody else's end has deleted it.                               *)
AskedInv ==
  \A r \in asked :
    faults = 0 /\ (\A q \in Run \ {r} : outcome[q] = "none") =>
      /\ "persistence" \notin stageDone[r]
      /\ outcome[r] = "none" =>
           "cancel" \in store.keys /\ pc[r] \in Stage \union {"queued"}

(* Every step keeps it.                                                     *)
LEMMA AskedStep ==
  ASSUME AskedInv, RedisInv, SoundInv, TypeOK', [Next]_vars
  PROVE  AskedInv'
<1> SUFFICES ASSUME NEW r \in asked',
                    faults' = 0, \A q \in Run \ {r} : outcome'[q] = "none"
             PROVE  /\ "persistence" \notin stageDone'[r]
                    /\ outcome'[r] = "none" =>
                         /\ "cancel" \in store'.keys
                         /\ pc'[r] \in Stage \union {"queued"}
  BY DEF AskedInv
<1>1. r \in Run /\ faults = 0 /\ store.up
  BY NothingLost DEF TypeOK, SoundInv, Kept, RedisInv
<1>2. CASE RequestCancel
  <2>1. CASE r \in asked
    BY <1>1, <1>2, <2>1 DEF RequestCancel, runVars, AskedInv, SoundInv, TypeOK, Store
  <2>2. CASE r \notin asked
    BY <1>1, <1>2, <2>2
    DEF RequestCancel, runVars, SoundInv, TypeOK, Store, Sound, BeforeSolved, Solved
  <2> QED
    BY <2>1, <2>2
<1>3. CASE CommitRow \/ RedisDown \/ RedisBack \/ UNCHANGED vars
  BY <1>1, <1>3 DEF CommitRow, RedisDown, RedisBack, vars, runVars, AskedInv,
                    SoundInv, TypeOK, Store
<1>4. ASSUME NEW q \in Run, RunStep(q)
      PROVE  /\ "persistence" \notin stageDone'[r]
             /\ outcome'[r] = "none" => /\ "cancel" \in store'.keys
                                        /\ pc'[r] \in Stage \union {"queued"}
  <2>1. asked' = asked
    BY <1>4 DEF RunStep, Advance, Accept, Begin, LeaveStage, CheckInside, StageRaises,
                EnterPersist, PersistAborts, StoreResult, WriteRow, LeavePersist,
                MarkCompleted, MarkStopped, Compensate, HandleError, HandleTimeout,
                Handler, HandleShutdown, Cleanup, Interrupted, Kill
  <2>2. \A p \in Run \ {r} : outcome[p] = "none"
    BY <1>4, FlagStep, OtherRunsUntouched DEF SoundInv
  <2>3. CASE q = r
    BY <1>1, <1>4, <2>1, <2>2, <2>3, FlagStep, FlagStops DEF AskedInv
  <2>4. CASE q # r
    BY <1>1, <1>4, <2>1, <2>2, <2>4, FlagStep, OtherRunsUntouched
    DEF AskedInv, SoundInv
  <2> QED
    BY <2>3, <2>4
<1> QED
  BY <1>2, <1>3, <1>4 DEF Next, Environment

(* A run that was asked never saves.                                        *)
LEMMA AskedMeansHonoured ==
  ASSUME AskedInv, SoundInv
  PROVE  CancelHonoured
BY DEF AskedInv, SoundInv, TypeOK, Sound, Normal, BeforeSolved, Solved, CancelHonoured

(* A cancellation requested in time is honoured.                            *)
THEOREM CancellationHonoured == Spec => []CancelHonoured
<1>1. Init => AskedInv
  BY DEF Init, AskedInv
<1>2. SavingInv => RedisInv
  BY DEF SavingInv
<1> QED
  BY <1>1, <1>2, AskedStep, AskedMeansHonoured, SavingAlways, TypeCorrect, VerdictsSound,
     PTL DEF Spec

-----------------------------------------------------------------------------
(* A step that neither accepts, kills nor cleans up leaves a run working.   *)
LEMMA WorkingStep ==
  ASSUME SoundInv, NEW r \in Run, RunStep(r), ~Accept(r), ~Kill(r), ~Cleanup(r)
  PROVE  pc'[r] \in Working
<1> USE DEF Goto, StopsAtSafePoint, SoundInv, TypeOK, Working, Control
<1>1. CASE \/ StageRaises(r) \/ PersistAborts(r) \/ EnterPersist(r) \/ StoreResult(r)
           \/ WriteRow(r) \/ MarkCompleted(r)
           \/ Interrupted(r, "timeout", "handle_timeout")
           \/ Interrupted(r, "shutdown", "handle_shutdown")
  BY <1>1 DEF StageRaises, PersistAborts, EnterPersist, StoreResult, WriteRow,
              MarkCompleted, Interrupted
<1>2. CASE Begin(r)
  BY <1>2 DEF Begin
<1>3. CASE LeaveStage(r)
  BY <1>3 DEF LeaveStage, Following
<1>4. CASE CheckInside(r)
  BY <1>4 DEF CheckInside
<1>5. CASE LeavePersist(r)
  BY <1>5 DEF LeavePersist
<1>6. CASE \/ MarkStopped(r, "mark_cancelled", "cancelled")
           \/ MarkStopped(r, "mark_failed", "failed")
  BY <1>6 DEF MarkStopped
<1>7. CASE Compensate(r) \/ HandleShutdown(r)
  BY <1>7 DEF Compensate, HandleShutdown
<1>8. CASE HandleError(r) \/ HandleTimeout(r)
  BY <1>8 DEF HandleError, HandleTimeout, Handler
<1> QED
  BY <1>1, <1>2, <1>3, <1>4, <1>5, <1>6, <1>7, <1>8 DEF RunStep, Advance

(* A control key other than the flag is there only while some run works.    *)
KeysInv ==
  faults = 0 /\ ~AnyKilled /\ ~(store.keys \subseteq {"cancel"}) =>
    \E r \in Run : pc[r] \in Working

(* Every step keeps it.                                                     *)
LEMMA KeysStep ==
  ASSUME KeysInv, RedisInv, SoundInv, TypeOK', [Next]_vars
  PROVE  KeysInv'
<1> SUFFICES ASSUME faults' = 0, ~AnyKilled', ~(store'.keys \subseteq {"cancel"})
             PROVE  \E r \in Run : pc'[r] \in Working
  BY DEF KeysInv
<1>1. faults = 0 /\ store.up
  BY NothingLost DEF TypeOK, SoundInv, Kept, RedisInv
<1>2. CASE Environment \/ UNCHANGED vars
  <2>1. ~(store.keys \subseteq {"cancel"})
    BY <1>2 DEF Environment, RequestCancel, CommitRow, RedisDown, RedisBack, vars,
                SoundInv, TypeOK, Store
  <2> QED
    BY <1>1, <1>2, <2>1, EnvironmentUntouched DEF KeysInv, AnyKilled
<1>3. ASSUME NEW r \in Run, RunStep(r) PROVE \E q \in Run : pc'[q] \in Working
  <2>1. CASE Accept(r)
    BY <1>1, <2>1 DEF Accept, Goto, KeysInv, AnyKilled, SoundInv, TypeOK, Working
  <2>2. CASE Kill(r)
    BY <2>2 DEF Kill, AnyKilled, SoundInv, TypeOK
  <2>3. CASE Cleanup(r)
    BY <1>1, <2>3 DEF Cleanup, Deleting, SoundInv, TypeOK, Store
  <2>4. CASE ~Accept(r) /\ ~Kill(r) /\ ~Cleanup(r)
    <3>1. pc'[r] \in Working
      BY <1>3, <2>4, WorkingStep
    <3> QED
      BY <3>1
  <2> QED
    BY <2>1, <2>2, <2>3, <2>4
<1> QED
  BY <1>2, <1>3 DEF Next

(* Nobody works when the job is quiet.                                      *)
LEMMA KeysMeanCleared ==
  ASSUME KeysInv
  PROVE  EphemeralKeysCleared
BY DEF KeysInv, EphemeralKeysCleared, Quiet, Working

(* When the job is quiet its control keys are gone.                         *)
THEOREM KeysCleared == Spec => []EphemeralKeysCleared
<1>1. Init => KeysInv
  BY DEF Init, KeysInv
<1>2. SavingInv => RedisInv
  BY DEF SavingInv
<1> QED
  BY <1>1, <1>2, KeysStep, KeysMeanCleared, SavingAlways, TypeCorrect, VerdictsSound,
     PTL DEF Spec

-----------------------------------------------------------------------------
(* Where the row's status and the progress key stand while a run that is    *)
(* alone and met no fault goes from its stages through a handler to its end.*)
Untouched == BeforeSolved \union {"ga", "rl", "persist", "persist_result",
                                  "persist_db", "handle_timeout", "mark_failed"}

Telling(r) ==
  /\ pc[r] # "handle_shutdown"
  /\ pc[r] = "mark_cancelled" => outcome[r] \in {"cancelled", "partial_success"}
  /\ pc[r] = "mark_failed" => outcome[r] = "failed"
  /\ pc[r] \in Untouched => row.status = "running"
  /\ pc[r] \in {"persist_exit", "mark_completed"} => row.status = "completed"
  /\ pc[r] = "mark_cancelled" /\ ~deferred[r] => row.status = "running"
  /\ pc[r] = "compensate" /\ ~deferred[r] =>
       /\ row.status = "running"
       /\ store.progress = IF outcome[r] = "failed" THEN "failed" ELSE "cancelled"
  /\ pc[r] = "handle_error" /\ ~deferred[r] => row.status = "failed"
  /\ pc[r] \in {"handle_error", "cleanup", "done"} /\ ~deferred[r] =>
       row.status = store.progress

Undisturbed(r) ==
  Alone(r) /\ faults = 0 /\ outcome[r] \notin {"killed", "shutdown"}

AgreeInv == \A r \in Run : Undisturbed(r) => Telling(r)

(* A run's own step keeps the row and the progress key telling one story.   *)
LEMMA TellingStep ==
  ASSUME SoundInv, store.up, NEW r \in Run, RunStep(r), Telling(r),
         faults = 0, faults' = 0, outcome'[r] \notin {"killed", "shutdown"}
  PROVE  Telling(r)'
<1> USE DEF Goto, StopsAtSafePoint, SoundInv, TypeOK, Telling, Untouched,
            BeforeSolved
<1>1. CASE Accept(r) \/ StageRaises(r) \/ PersistAborts(r) \/ Kill(r)
  BY <1>1 DEF Accept, StageRaises, PersistAborts, Kill
<1>2. CASE Begin(r)
  BY <1>2 DEF Begin
<1>3. CASE LeaveStage(r)
  BY <1>3 DEF LeaveStage, Following
<1>4. CASE CheckInside(r)
  BY <1>4 DEF CheckInside
<1>5. CASE EnterPersist(r) \/ StoreResult(r)
  BY <1>5 DEF EnterPersist, StoreResult
<1>6. CASE WriteRow(r)
  <2>1. pc'[r] = "persist_exit"
    BY <1>6 DEF WriteRow
  <2>2. row'.status = "completed"
    BY <1>6, WriteRowEffect
  <2> QED
    BY <2>1, <2>2
<1>7. CASE LeavePersist(r)
  BY <1>7 DEF LeavePersist
<1>8. CASE MarkCompleted(r)
  BY <1>8 DEF MarkCompleted, Progressing, Deleting, Store
<1>9. CASE \/ MarkStopped(r, "mark_cancelled", "cancelled")
           \/ MarkStopped(r, "mark_failed", "failed")
  BY <1>9 DEF MarkStopped, Progressing, Store
<1>10. CASE Compensate(r)
  BY <1>10 DEF Compensate, UpdateStatus, Deleting, Store, Row
<1>11. CASE HandleError(r)
  <2>1. pc'[r] = "cleanup" /\ deferred'[r] = deferred[r]
    BY <1>11 DEF HandleError, Handler
  <2>2. store'.progress = store.progress
    BY <1>11 DEF HandleError, Handler, Progressing, Deleting, Store
  <2>3. row.status = "failed" => row'.status = row.status
    BY <1>11 DEF HandleError, Handler, UpdateStatus, Row
  <2> QED
    BY <2>1, <2>2, <2>3, <1>11 DEF HandleError, Handler
<1>12. CASE HandleTimeout(r)
  <2>1. pc'[r] = "cleanup" /\ deferred'[r] = deferred[r]
    BY <1>12 DEF HandleTimeout, Handler
  <2>2. store'.progress = "failed"
    BY <1>12 DEF HandleTimeout, Handler, Progressing, Deleting, Store
  <2>3. row'.status = "failed"
    BY <1>12 DEF HandleTimeout, Handler, UpdateStatus, Row
  <2> QED
    BY <2>1, <2>2, <2>3
<1>13. CASE HandleShutdown(r) \/ Cleanup(r)
  BY <1>13 DEF HandleShutdown, Cleanup, Deleting, Store
<1>14. CASE \/ Interrupted(r, "timeout", "handle_timeout")
            \/ Interrupted(r, "shutdown", "handle_shutdown")
  BY <1>14 DEF Interrupted
<1> QED
  BY <1>1, <1>2, <1>3, <1>4, <1>5, <1>6, <1>7, <1>8, <1>9, <1>10, <1>11,
     <1>12, <1>13, <1>14 DEF RunStep, Advance

(* A run that has its verdict keeps it, unless it is killed.                *)
LEMMA VerdictStays ==
  ASSUME SoundInv, NEW r \in Run, RunStep(r), outcome[r] # "none"
  PROVE  outcome'[r] \in {outcome[r], "killed"}
<1> USE DEF Goto, StopsAtSafePoint, SoundInv, TypeOK, Sound, Normal, BeforeSolved, Solved
<1>1. CASE \/ Accept(r) \/ Begin(r) \/ LeaveStage(r) \/ CheckInside(r)
           \/ StageRaises(r) \/ PersistAborts(r) \/ EnterPersist(r)
           \/ StoreResult(r) \/ WriteRow(r) \/ LeavePersist(r) \/ MarkCompleted(r)
           \/ Interrupted(r, "timeout", "handle_timeout")
           \/ Interrupted(r, "shutdown", "handle_shutdown")
  BY <1>1 DEF Accept, Begin, LeaveStage, CheckInside, StageRaises, PersistAborts,
              EnterPersist, StoreResult, WriteRow, LeavePersist, MarkCompleted,
              Interrupted
<1>2. CASE Kill(r)
  BY <1>2 DEF Kill
<1>3. CASE \/ MarkStopped(r, "mark_cancelled", "cancelled")
           \/ MarkStopped(r, "mark_failed", "failed")
           \/ Compensate(r) \/ HandleShutdown(r) \/ Cleanup(r)
           \/ HandleError(r) \/ HandleTimeout(r)
  BY <1>3 DEF MarkStopped, Compensate, HandleShutdown, Cleanup, HandleError,
              HandleTimeout, Handler
<1> QED
  BY <1>1, <1>2, <1>3 DEF RunStep, Advance

(* A single run over a healthy infrastructure leaves one terminal status.   *)
THEOREM StatusesAgree == Spec => []AgreeWhenQuiet
<1>1. Init => AgreeInv
  BY DEF Init, AgreeInv, Telling, Untouched, BeforeSolved
<1>2. AgreeInv /\ SavingInv /\ SoundInv /\ TypeOK' /\ [Next]_vars => AgreeInv'
  <2> SUFFICES ASSUME AgreeInv, SavingInv, SoundInv, TypeOK', [Next]_vars,
                      NEW q \in Run, Undisturbed(q)'
               PROVE  Telling(q)'
    BY DEF AgreeInv
  <2>1. faults = 0 /\ faults' = 0 /\ store.up
    BY NothingLost DEF TypeOK, SoundInv, Kept, SavingInv, RedisInv, Undisturbed
  <2>2. CASE Environment \/ UNCHANGED vars
    <3>1. row'.status = row.status /\ store'.progress = store.progress
          /\ deferred' = deferred
      BY <2>2 DEF Environment, RequestCancel, CommitRow, RedisDown, RedisBack, vars,
                  runVars, SoundInv, TypeOK, Store, Row
    <3>2. Undisturbed(q)
      BY <2>1, <2>2, EnvironmentUntouched DEF Undisturbed, Alone
    <3> QED
      BY <2>2, <3>1, <3>2, EnvironmentUntouched DEF AgreeInv, Telling
  <2>3. ASSUME NEW r \in Run, RunStep(r) PROVE Telling(q)'
    <3>1. r = q
      <4>1. pc'[r] # "unposted"
        BY <2>3, RunStepEffect DEF Working
      <4> QED
        BY <4>1 DEF Undisturbed, Alone
    <3>2. Alone(q)
      BY <2>3, <3>1, OtherRunsUntouched DEF Undisturbed, Alone, SoundInv
    <3>3. outcome[q] \notin {"killed", "shutdown"}
      BY <2>3, <3>1, VerdictStays DEF Undisturbed, SoundInv
    <3> QED
      BY <2>1, <2>3, <3>1, <3>2, <3>3, TellingStep DEF AgreeInv, Undisturbed
  <2> QED
    BY <2>2, <2>3 DEF Next
<1>3. AgreeInv => AgreeWhenQuiet
  BY DEF AgreeInv, Telling, Undisturbed, AgreeWhenQuiet
<1> QED
  BY <1>1, <1>2, <1>3, SavingAlways, TypeCorrect, VerdictsSound, PTL DEF Spec
=============================================================================
