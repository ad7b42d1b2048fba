--------------------------- MODULE ProgressStream ---------------------------
(***************************************************************************)
(* One server-sent event stream over the progress of a job                 *)
(* (django academics/views/progress_endpoints.py): the Redis key the       *)
(* worker writes is read first, the row of the job when there is no key.   *)
(*                                                                         *)
(* A payload is abstracted to its status, a key that does not parse to     *)
(* "bad".  Every round of the loop is three steps: connect, read, answer.  *)
(* Waiting (REDIS_POLL_INTERVAL, DB_POLL_INTERVAL, the back-off) is only   *)
(* that a round may find it too soon to look at the row.  A row's snapshot *)
(* carries the time it was taken, so no two of them are equal and each one *)
(* is sent.                                                                *)
(***************************************************************************)
EXTENDS Naturals

CONSTANTS
  MaxRedisReconnects,   \* 5
  MaxProgress           \* bound of the model: progress values of a running job

ASSUME StreamAssumption == MaxRedisReconnects \in Nat /\ MaxProgress \in Nat

VARIABLE ps

Terminal == {"completed", "failed", "cancelled"}
Decided  == {"approved", "rejected"}

NoPayload == [status |-> "none", at |-> 0]

StreamInit ==
  ps = [row |-> "running", key |-> NoPayload, written |-> 0, worker |-> "running",
        pc |-> "new", client |-> FALSE, reconnects |-> 0, got |-> NoPayload,
        last |-> NoPayload, sent |-> "nothing"]

-----------------------------------------------------------------------------
(* The worker writes the key as it goes on and once more when it ends, or  *)
(* it dies; its row follows, or Django gives the job up by itself, and a   *)
(* completed job is decided on.  The key has a time to live.               *)
WriteProgress ==
  /\ ps.worker = "running" /\ ps.written < MaxProgress
  /\ \E status \in {"running", "bad"} :
       ps' = [ps EXCEPT !.written = @ + 1, !.key = [status |-> status, at |-> ps.written + 1]]

WorkerEnds ==
  /\ ps.worker = "running"
  /\ \/ \E status \in Terminal :
          ps' = [ps EXCEPT !.worker = status, !.key = [status |-> status, at |-> 0]]
     \/ \E status \in Terminal : ps' = [ps EXCEPT !.worker = status]  \* Redis refused it
     \/ ps' = [ps EXCEPT !.worker = "dead"]

RowSettles ==
  /\ ps.row = "running"
  /\ \E status \in Terminal :
       /\ status \in {ps.worker, "failed", "cancelled"}
       /\ ps' = [ps EXCEPT !.row = status]

Decide ==
  /\ ps.row = "completed"
  /\ \E decision \in Decided : ps' = [ps EXCEPT !.row = decision]

DeleteJob == ps.row \notin {"running", "none"} /\ ps' = [ps EXCEPT !.row = "none"]

KeyExpires == ps.key # NoPayload /\ ps' = [ps EXCEPT !.key = NoPayload]

-----------------------------------------------------------------------------
Ended(s, event) == [s EXCEPT !.pc = "ended", !.sent = event, !.client = FALSE, !.got = NoPayload]

(* _authenticate_plain_request: no cookie or a token that does not         *)
(* validate is 401; then the organisation of the job is compared, but a    *)
(* database error there lets the request through.                          *)
OpenStream ==
  /\ ps.pc = "new"
  /\ \/ ps' = Ended(ps, "refused")                                  \* 401 or 403
     \/ ps.row = "none" /\ ps' = Ended(ps, "refused")               \* 404
     \/ ps' = [ps EXCEPT !.pc = "connect", !.sent = "connected"]

Disconnect == ps.pc \notin {"new", "ended"} /\ ps' = Ended(ps, "disconnected")

(* 1. A client is made and pinged when there is none; once the retries are *)
(* used up the loop goes on without.                                       *)
ConnectRedis ==
  /\ ps.pc = "connect"
  /\ \/ ps.client /\ ps' = [ps EXCEPT !.pc = "read"]
     \/ ~ps.client /\ ps' = [ps EXCEPT !.client = TRUE, !.reconnects = 0, !.pc = "read"]
     \/ /\ ~ps.client
        /\ ps' = [ps EXCEPT !.pc = "read",
                    !.reconnects = IF @ > MaxRedisReconnects THEN @ ELSE @ + 1]

(* 2. GET: a lost connection is dropped.                                   *)
ReadKey ==
  /\ ps.pc = "read"
  /\ \/ ps.client /\ ps' = [ps EXCEPT !.pc = "answer", !.got = ps.key]
     \/ /\ ps.client
        /\ ps' = [ps EXCEPT !.pc = "answer", !.got = NoPayload, !.client = FALSE,
                            !.reconnects = IF @ > MaxRedisReconnects THEN @ ELSE @ + 1]
     \/ ~ps.client /\ ps' = [ps EXCEPT !.pc = "answer", !.got = NoPayload]

(* 3a. A payload is sent once; one that does not parse is tried again, and *)
(* while it is there the row is not looked at.                             *)
AnswerFromKey ==
  /\ ps.pc = "answer" /\ ps.got # NoPayload
  /\ ps' = CASE ps.got = ps.last \/ ps.got.status = "bad" ->
                  [ps EXCEPT !.pc = "connect", !.got = NoPayload]
             [] ps.got # ps.last /\ ps.got.status \in Terminal -> Ended(ps, "done")
             [] OTHER -> [ps EXCEPT !.pc = "connect", !.got = NoPayload,
                                    !.last = ps.got, !.sent = "progress"]

(* Mutant: cancelled is not one of the statuses that end the stream.       *)
AnswerFromRowWithoutCancelled ==
  /\ ps.pc = "answer" /\ ps.got = NoPayload
  /\ ps' = CASE ps.row = "none" -> Ended(ps, "error")
             [] ps.row \in Terminal \ {"cancelled"} -> Ended(ps, "done")
             [] OTHER -> [ps EXCEPT !.pc = "connect", !.sent = "progress"]

(* 3b. The row: a job that is gone ends the stream with an error.          *)
AnswerFromRow ==
  /\ ps.pc = "answer" /\ ps.got = NoPayload
  /\ ps' = CASE ps.row = "none"        -> Ended(ps, "error")
             [] ps.row \in Terminal    -> Ended(ps, "done")
             [] OTHER                  -> [ps EXCEPT !.pc = "connect", !.sent = "progress"]

(* It is too soon, or the database cannot be reached.                      *)
SkipRow ==
  /\ ps.pc = "answer" /\ ps.got = NoPayload
  /\ ps' = [ps EXCEPT !.pc = "connect"]

StreamNext == \/ WriteProgress \/ WorkerEnds \/ RowSettles \/ Decide \/ DeleteJob
              \/ KeyExpires \/ OpenStream \/ Disconnect \/ ConnectRedis \/ ReadKey
              \/ AnswerFromKey \/ AnswerFromRow \/ SkipRow

(* The generator runs on; a key expires; rounds in which there is no key   *)
(* do not all come too soon or meet a database that is down.               *)
StreamFairness ==
  /\ WF_ps(ConnectRedis \/ ReadKey \/ AnswerFromKey \/ AnswerFromRow \/ SkipRow)
  /\ SF_ps(AnswerFromRow)
  /\ WF_ps(KeyExpires)

StreamSpec == StreamInit /\ [][StreamNext]_ps /\ StreamFairness

-----------------------------------------------------------------------------
(* A stream ends once its job has: whatever Redis does, and even when the  *)
(* worker died behind a key that says running or does not parse, a stream  *)
(* over a job that stays completed, failed or cancelled is closed.  (A     *)
(* decision taken meanwhile is not a status the stream ends on.)           *)
StreamEnds ==
  <>[](ps.row \in Terminal /\ ps.pc # "new") => <>(ps.pc = "ended")
=============================================================================
