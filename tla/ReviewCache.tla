---------------------------- MODULE ReviewCache ----------------------------
(***************************************************************************)
(* What the review pages show of the status of one job, from the cache:    *)
(* the list of workflows and a workflow (django academics/views/           *)
(* workflow_views.py), the job (generation_views.py), and the callback     *)
(* task that warms and clears these keys (academics/celery_tasks.py).      *)
(*                                                                         *)
(* An entry is the status it shows, "absent" when the list leaves the job  *)
(* out, "none" when there is no entry.  A request is one transaction: what *)
(* it saves is seen by others when it ends, after its cache commands; the  *)
(* task commits at once.                                                   *)
(***************************************************************************)
EXTENDS Naturals

CONSTANTS
  ReviewRequest,   \* requests for a page, each one again and again
  MaxDecisions     \* bound of the model: approvals and rejections

ASSUME ReviewAssumption == MaxDecisions \in Nat

VARIABLE rv

Pages       == {"list", "workflow", "job"}
WorkerEnd   == {"completed", "failed", "cancelled"}
Reviewable  == {"completed", "approved", "rejected"}     \* PENDING_APPROVAL_STATUSES
FinalStatus == WorkerEnd \union Reviewable

NoRequest == [pc |-> "idle", page |-> "list", seen |-> "none", healed |-> FALSE]
NoTask    == [pc |-> "idle", status |-> "none", warm |-> FALSE]

ReviewInit ==
  rv = [row |-> "running", progress |-> "running",
        cache |-> [page \in Pages |-> "none"],
        request |-> [r \in ReviewRequest |-> NoRequest],
        decision |-> "none", decisions |-> 0, task |-> NoTask]

-----------------------------------------------------------------------------
(* What a page makes of a status, and which statuses it keeps.             *)
Shown(page, status) ==
  IF page = "list" /\ status \notin Reviewable THEN "absent" ELSE status
Kept(page) ==
  CASE page = "list"     -> Reviewable \union {"absent"}
    [] page = "workflow" -> FinalStatus
    [] page = "job"      -> WorkerEnd

(* A hit ends the request; a miss goes on to the row.                      *)
AskPage(r) ==
  /\ rv.request[r].pc = "idle"
  /\ \E page \in {p \in Pages : rv.cache[p] = "none"} :
       rv' = [rv EXCEPT !.request[r] = [NoRequest EXCEPT !.pc = "row", !.page = page]]

(* retrieve of the workflow heals: a row that runs behind a progress key   *)
(* that says the worker ended takes the status of the key.                 *)
ReadRow(r) ==
  LET page == rv.request[r].page
      Seen(status, healed) ==
        rv' = [rv EXCEPT !.request[r] = [@ EXCEPT !.pc = "store", !.seen = Shown(page, status),
                                                  !.healed = healed]]
  IN /\ rv.request[r].pc = "row"
     /\ \/ Seen(rv.row, FALSE)                         \* also when Redis cannot be read
        \/ /\ page = "workflow" /\ rv.row \notin FinalStatus
           /\ rv.progress \in WorkerEnd
           /\ Seen(rv.progress, TRUE)

(* A status that is kept is stored; Redis may fail.                        *)
StorePage(r) ==
  LET page == rv.request[r].page
      seen == rv.request[r].seen
  IN /\ rv.request[r].pc = "store"
     /\ \E entry \in {rv.cache[page]} \union ({seen} \intersect Kept(page)) :
          rv' = [rv EXCEPT !.request[r].pc = "end", !.cache[page] = entry]

(* The request ends: a healed row is committed, the warming task is        *)
(* queued (if the broker takes it).                                        *)
EndPage(r) ==
  LET seen == rv.request[r].seen
      queued == [pc |-> "read", status |-> seen, warm |-> FALSE]
  IN /\ rv.request[r].pc = "end"
     /\ \/ /\ rv.request[r].healed
           /\ \E task \in {rv.task, queued} :
                /\ task # rv.task => rv.task = NoTask
                /\ rv' = [rv EXCEPT !.request[r] = NoRequest, !.row = seen, !.task = task]
        \/ ~rv.request[r].healed /\ rv' = [rv EXCEPT !.request[r] = NoRequest]

-----------------------------------------------------------------------------
(* approve and reject, whatever the status: the row is saved, the          *)
(* workflow and the lists are deleted (the job's own page is not), and     *)
(* then the request commits.                                               *)
DecideReview(status) ==
  /\ rv.decision = "none" /\ rv.decisions < MaxDecisions
  /\ \E deleted \in BOOLEAN :                           \* Redis may fail
       rv' = [rv EXCEPT !.decision = status, !.decisions = @ + 1,
                !.cache = [page \in Pages |->
                             IF deleted /\ page # "job" THEN "none" ELSE rv.cache[page]]]
Approve == DecideReview("approved")
Reject  == DecideReview("rejected")

CommitDecision ==
  /\ rv.decision # "none"
  /\ rv' = [rv EXCEPT !.decision = "none", !.row = rv.decision]

-----------------------------------------------------------------------------
(* The worker ends: the progress key, the row (unless the database fails)  *)
(* and the task.                                                           *)
EndWorker ==
  /\ rv.progress = "running"
  /\ \E status \in WorkerEnd, written \in BOOLEAN :
       rv' = [rv EXCEPT !.progress = status,
                !.row  = IF written THEN status ELSE @,
                !.task = IF status = "completed" /\ @ = NoTask
                         THEN [pc |-> "read", status |-> status, warm |-> FALSE] ELSE @]

(* fastapi_callback_task: the row takes the status, whatever it is now, ...*)
RunCallback ==
  /\ rv.task.pc = "read"
  /\ \E warm \in {FALSE, rv.task.status = "completed"} :   \* are there variants?
       rv' = [rv EXCEPT !.row = rv.task.status,
                        !.task = [@ EXCEPT !.pc = IF warm THEN "warm" ELSE "clean"]]

(* ... the workflow is cached as the task knows it ...                     *)
WarmReview ==
  /\ rv.task.pc = "warm"
  /\ rv' = [rv EXCEPT !.task.pc = "clean", !.cache["workflow"] = rv.task.status]

(* ... and the job's page deleted.  A task that raises ends where it is.   *)
CleanUp ==
  /\ rv.task.pc = "clean"
  /\ rv' = [rv EXCEPT !.task = NoTask, !.cache["job"] = "none"]

CallbackFails ==
  /\ rv.task.pc \in {"read", "warm", "clean"}
  /\ rv' = [rv EXCEPT !.task = NoTask]

-----------------------------------------------------------------------------
(* Mutant: what is cached of a final status is cached for good.            *)
ExpirePageNotFinal(page) ==
  /\ rv.cache[page] \notin FinalStatus \union {"none"}
  /\ rv' = [rv EXCEPT !.cache[page] = "none"]

(* 60 s for a list, an hour for the others.                                *)
ExpirePage(page) ==
  /\ rv.cache[page] # "none"
  /\ rv' = [rv EXCEPT !.cache[page] = "none"]

ReviewNext ==
  \/ \E r \in ReviewRequest : AskPage(r) \/ ReadRow(r) \/ StorePage(r) \/ EndPage(r)
  \/ Approve \/ Reject \/ CommitDecision
  \/ EndWorker \/ RunCallback \/ WarmReview \/ CleanUp \/ CallbackFails
  \/ \E page \in Pages : ExpirePage(page)

(* Requests and the task go on; every key has a time to live.              *)
ReviewFairness ==
  /\ \A r \in ReviewRequest : WF_rv(ReadRow(r) \/ StorePage(r) \/ EndPage(r))
  /\ WF_rv(CommitDecision)
  /\ WF_rv(RunCallback \/ WarmReview \/ CleanUp \/ CallbackFails)
  /\ \A page \in Pages : WF_rv(ExpirePage(page))

ReviewSpec == ReviewInit /\ [][ReviewNext]_rv /\ ReviewFairness

-----------------------------------------------------------------------------
(* A page read between a decision's deletions and its commit is cached     *)
(* with the status before it, the task warms the workflow with a status    *)
(* that may have been decided on since, and no decision deletes the job's  *)
(* page.  But not for ever: once decisions stop, from some point on        *)
(* whatever a page takes from the cache is the status of the row.          *)
ReviewSettles ==
  <>[](\A page \in Pages : rv.cache[page] \in {"none", Shown(page, rv.row)})
=============================================================================
