----------------------------- MODULE JobManager -----------------------------
(***************************************************************************)
(* The asynchronous job service of one generation process: the table and   *)
(* queue of AsyncJobManager, the HTTP handlers that submit, poll, collect  *)
(* and cancel jobs, the admin calls that empty the queue, and the single   *)
(* worker thread that renders (examples/server/async_jobs.{h,cpp},         *)
(* routes_sdcpp.cpp, routes_gpu_sharing.cpp, main.cpp).                    *)
(*                                                                         *)
(* A handler that holds manager.mutex from its first to its last access is *)
(* one step. The steps that are not: the notify after the unlock, the      *)
(* media handler's reads after the unlock, and the worker's last critical  *)
(* section, which that handler can look into. Rendering is one step that   *)
(* succeeds or fails; GpuSharing has what happens inside it.               *)
(***************************************************************************)
EXTENDS Naturals, Sequences, SequencesExt, FiniteSets

CONSTANTS Jobs,        (* the jobs clients may submit                       *)
          Readers,     (* threads that serve GET .../media                  *)
          MaxPending,  (* max_pending_jobs                                  *)
          NoJob        (* what the worker holds between jobs                *)

ASSUME JobManagerAssumption ==
    /\ NoJob \notin Jobs
    /\ MaxPending \in Nat \ {0}

VARIABLES status,      (* job->status; "unsubmitted" before the submit      *)
          table,       (* the map a job is in: jobs, expired_jobs or none   *)
          age,         (* completed_at, or the expiry, against the TTL      *)
          queue,       (* manager.queue                                     *)
          requested,   (* the jobs with cancel_requested set                *)
          stored,      (* the jobs whose result_images/media is not empty   *)
          stop,        (* manager.stop                                      *)
          wakes,       (* notify calls still to be made                     *)
          wpc,         (* where the worker thread is                        *)
          current,     (* the worker's local `job`                          *)
          rpc,         (* where each media handler is                       *)
          rjob,        (* the job a media handler holds a reference to      *)
          reply        (* its last answer                                   *)

tableVars == <<status, table, age, queue, requested, stored>>
workerVars == <<wpc, current>>
readerVars == <<rpc, rjob, reply>>
vars == <<tableVars, stop, wakes, workerVars, readerVars>>

Terminal == {"completed", "failed", "cancelled"}
Statuses == {"unsubmitted", "queued", "generating"} \cup Terminal

Init ==
    /\ status = [j \in Jobs |-> "unsubmitted"]
    /\ table = [j \in Jobs |-> "absent"]
    /\ age = [j \in Jobs |-> "zero"]
    /\ queue = <<>>
    /\ requested = {}
    /\ stored = {}
    /\ stop = FALSE
    /\ wakes = 0
    /\ wpc = "checking"
    /\ current = NoJob
    /\ rpc = [r \in Readers |-> "idle"]
    /\ rjob = [r \in Readers |-> NoJob]
    /\ reply = [r \in Readers |-> "none"]

-----------------------------------------------------------------------------
(* Only the worker's last critical section is more than one step.           *)
MutexFree == wpc # "marked"

(* The server listens, so a handler can run.                                *)
Serving == ~stop /\ MutexFree

(* Slip: a job whose completed_at is still 0 counts as long overdue. *)
BugZeroIsOld(j) == table[j] = "live" /\ age[j] \in {"old", "zero"}

(* completed_at is set and its TTL has passed.                              *)
Overdue(j) == table[j] = "live" /\ age[j] = "old"

(* purge_expired_jobs: drop what has expired, expire what is overdue.       *)
PurgedTable == [j \in Jobs |->
    CASE table[j] = "expired" /\ age[j] = "old" -> "absent"
      [] Overdue(j)                             -> "expired"
      [] OTHER                                  -> table[j]]
PurgedAge == [j \in Jobs |-> IF Overdue(j) THEN "fresh" ELSE age[j]]

Purge == table' = PurgedTable /\ age' = PurgedAge

Pending == {j \in Jobs : table[j] = "live" /\ status[j] \in {"queued", "generating"}}
ActiveJobs == {j \in Jobs : table[j] = "live" /\ status[j] = "generating"}

(* Time passes a TTL.                                                       *)
Age(j) ==
    /\ age[j] = "fresh"
    /\ age' = [age EXCEPT ![j] = "old"]
    /\ UNCHANGED <<status, table, queue, requested, stored, stop, wakes,
                   workerVars, readerVars>>

-----------------------------------------------------------------------------
(* Slip: the limit itself still lets a job in. *)
BugRoomAtLimit == Cardinality({j \in Pending : PurgedTable[j] = "live"}) <= MaxPending

(* count_pending_jobs below the limit, after the purge.                     *)
Room == Cardinality({j \in Pending : PurgedTable[j] = "live"}) < MaxPending

Accept(j) ==
    /\ Serving
    /\ status[j] = "unsubmitted"
    /\ Room
    /\ status' = [status EXCEPT ![j] = "queued"]
    /\ table' = [PurgedTable EXCEPT ![j] = "live"]
    /\ age' = PurgedAge
    /\ queue' = Append(queue, j)
    /\ UNCHANGED <<requested, stored, stop, workerVars, readerVars>>

(* Slip: a handler that forgets notify_one after the unlock. *)
BugNoNotify(j) == Accept(j) /\ UNCHANGED wakes

(* POST img_gen, vid_gen: the critical section that accepts the job; the    *)
(* notify comes after it. The 429 answer is the disabled step.              *)
Submit(j) == Accept(j) /\ wakes' = wakes + 1

(* cv.notify_one or notify_all, after the unlock: lost unless the worker    *)
(* waits.                                                                   *)
Notify ==
    /\ wakes > 0
    /\ wakes' = wakes - 1
    /\ wpc' = IF wpc = "asleep" THEN "checking" ELSE wpc
    /\ UNCHANGED <<tableVars, stop, current, readerVars>>

(* GET jobs/{id}: a purge is all it changes. So does a cancel of a job that *)
(* has ended or gone.                                                       *)
Poll ==
    /\ Serving
    /\ Purge
    /\ UNCHANGED <<status, queue, requested, stored, stop, wakes, workerVars,
                   readerVars>>

-----------------------------------------------------------------------------
(* POST cancel of a waiting job, whose id the queue has once. An id that is *)
(* not in the queue is answered 409 and left alone.                         *)
CancelQueued(j) ==
    /\ Serving
    /\ PurgedTable[j] = "live" /\ status[j] = "queued"
    /\ IF j \in ToSet(queue)
       THEN /\ \E i \in DOMAIN queue : queue[i] = j /\ queue' = RemoveAt(queue, i)
            /\ status' = [status EXCEPT ![j] = "cancelled"]
            /\ age' = [PurgedAge EXCEPT ![j] = "fresh"]
            /\ stored' = stored \ {j}
       ELSE UNCHANGED <<queue, status, stored>> /\ age' = PurgedAge
    /\ table' = PurgedTable
    /\ UNCHANGED <<requested, stop, wakes, workerVars, readerVars>>

(* POST cancel of the running job: answered 202.                            *)
CancelRunning(j) ==
    /\ Serving
    /\ PurgedTable[j] = "live" /\ status[j] = "generating"
    /\ requested' = requested \cup {j}
    /\ Purge
    /\ UNCHANGED <<status, queue, stored, stop, wakes, workerVars, readerVars>>

(* Slip: cancel_queued_jobs without the final queue.clear(). *)
BugKeepsQueue(force) ==
    /\ Serving
    /\ force \/ ActiveJobs = {}
    /\ LET gone == {j \in ToSet(queue) : table[j] = "live"} IN
         /\ status' = [j \in Jobs |-> IF j \in gone THEN "cancelled" ELSE status[j]]
         /\ age' = [j \in Jobs |-> IF j \in gone THEN "fresh" ELSE age[j]]
    /\ UNCHANGED <<table, queue, requested, stored, stop, wakes, workerVars,
                   readerVars>>

(* POST unload: its critical section, which ends every waiting job. Without *)
(* force a running job turns the call away. It does not purge.              *)
ReleaseQueue(force) ==
    /\ Serving
    /\ force \/ ActiveJobs = {}
    /\ LET gone == {j \in ToSet(queue) : table[j] = "live"} IN
         /\ status' = [j \in Jobs |-> IF j \in gone THEN "cancelled" ELSE status[j]]
         /\ age' = [j \in Jobs |-> IF j \in gone THEN "fresh" ELSE age[j]]
    /\ queue' = <<>>
    /\ UNCHANGED <<table, requested, stored, stop, wakes, workerVars, readerVars>>

-----------------------------------------------------------------------------
(* GET jobs/{id}/media: a reference to the job is taken under the mutex ... *)
TakeReference(r, j) ==
    /\ Serving
    /\ rpc[r] = "idle"
    /\ Purge
    /\ IF PurgedTable[j] = "live"
       THEN /\ rpc' = [rpc EXCEPT ![r] = "referenced"]
            /\ rjob' = [rjob EXCEPT ![r] = j]
            /\ UNCHANGED reply
       ELSE /\ reply' = [reply EXCEPT ![r] = "gone"]
            /\ UNCHANGED <<rpc, rjob>>
    /\ UNCHANGED <<status, queue, requested, stored, stop, wakes, workerVars>>

(* ... the status is read after the unlock ...                              *)
ReadStatus(r) ==
    /\ rpc[r] = "referenced"
    /\ IF status[rjob[r]] = "completed"
       THEN /\ rpc' = [rpc EXCEPT ![r] = "complete"]
            /\ UNCHANGED reply
       ELSE /\ rpc' = [rpc EXCEPT ![r] = "idle"]
            /\ reply' = [reply EXCEPT ![r] = "incomplete"]
    /\ UNCHANGED <<tableVars, stop, wakes, workerVars, rjob>>

(* ... and so is the result: 200 with the body, or the answer for a         *)
(* completed job without one (404 for an image, 500 for a video).           *)
ReadResult(r) ==
    /\ rpc[r] = "complete"
    /\ rpc' = [rpc EXCEPT ![r] = "idle"]
    /\ reply' = [reply EXCEPT ![r] = IF rjob[r] \in stored THEN "body" ELSE "missing"]
    /\ UNCHANGED <<tableVars, stop, wakes, workerVars, rjob>>

-----------------------------------------------------------------------------
(* async_job_worker: cv.wait with its predicate false.                      *)
Sleep ==
    /\ wpc = "checking"
    /\ queue = <<>> /\ ~stop
    /\ wpc' = "asleep"
    /\ UNCHANGED <<tableVars, stop, wakes, current, readerVars>>

Exit ==
    /\ wpc = "checking"
    /\ queue = <<>> /\ stop
    /\ wpc' = "exited"
    /\ UNCHANGED <<tableVars, stop, wakes, current, readerVars>>

(* Slip: the newest job is taken first. *)
BugTakesNewest ==
    /\ wpc = "checking"
    /\ queue # <<>>
    /\ LET j == Last(queue) IN
         IF PurgedTable[j] = "live"
         THEN /\ status' = [status EXCEPT ![j] = "generating"]
              /\ current' = j
              /\ wpc' = "rendering"
         ELSE UNCHANGED <<status, current, wpc>>
    /\ queue' = Front(queue)
    /\ Purge
    /\ UNCHANGED <<requested, stored, stop, wakes, readerVars>>

(* Purge, pop the head, and start it if the table still has it.             *)
TakeJob ==
    /\ wpc = "checking"
    /\ queue # <<>>
    /\ LET j == Head(queue) IN
         IF PurgedTable[j] = "live"
         THEN /\ status' = [status EXCEPT ![j] = "generating"]
              /\ current' = j
              /\ wpc' = "rendering"
         ELSE UNCHANGED <<status, current, wpc>>
    /\ queue' = Tail(queue)
    /\ Purge
    /\ UNCHANGED <<requested, stored, stop, wakes, readerVars>>

(* execute_img_gen_job or execute_vid_gen_job returns, with or without a    *)
(* result in the worker's locals.                                           *)
RenderEnds(outcome) ==
    /\ wpc = "rendering"
    /\ wpc' = outcome
    /\ UNCHANGED <<tableVars, stop, wakes, current, readerVars>>

(* Slip: the result decides before the cancellation is looked at. *)
BugResultFirst ==
    /\ wpc \in {"succeeded", "failed"}
    /\ wpc' = "marked"
    /\ age' = [age EXCEPT ![current] = "fresh"]
    /\ status' = [status EXCEPT ![current] =
                    IF wpc = "succeeded" THEN "completed"
                    ELSE IF current \in requested THEN "cancelled" ELSE "failed"]
    /\ UNCHANGED <<table, queue, requested, stored, stop, wakes, current, readerVars>>

(* The worker's last critical section: completed_at and the status ...      *)
Mark ==
    /\ wpc \in {"succeeded", "failed"}
    /\ IF table[current] = "live"
       THEN /\ wpc' = "marked"
            /\ age' = [age EXCEPT ![current] = "fresh"]
            /\ status' = [status EXCEPT ![current] =
                            IF current \in requested THEN "cancelled"
                            ELSE IF wpc = "succeeded" THEN "completed" ELSE "failed"]
            /\ UNCHANGED current
       ELSE /\ wpc' = "checking"
            /\ current' = NoJob
            /\ UNCHANGED <<status, age>>
    /\ UNCHANGED <<table, queue, requested, stored, stop, wakes, readerVars>>

(* ... then the result, and a purge before the unlock.                      *)
Store ==
    /\ wpc = "marked"
    /\ wpc' = "checking"
    /\ current' = NoJob
    /\ stored' = IF status[current] = "completed"
                 THEN stored \cup {current} ELSE stored \ {current}
    /\ Purge
    /\ UNCHANGED <<status, queue, requested, stop, wakes, readerVars>>

(* Slip: main sets stop and joins without notify_all. *)
BugStopsSilently ==
    /\ Serving
    /\ wakes = 0
    /\ \A r \in Readers : rpc[r] = "idle"
    /\ stop' = TRUE
    /\ UNCHANGED <<tableVars, wakes, workerVars, readerVars>>

(* svr.listen has returned, so every handler has: main sets stop and is     *)
(* about to notify.                                                         *)
Stop ==
    /\ Serving
    /\ wakes = 0
    /\ \A r \in Readers : rpc[r] = "idle"
    /\ stop' = TRUE
    /\ wakes' = wakes + 1
    /\ UNCHANGED <<tableVars, workerVars, readerVars>>

(* The process has ended.                                                   *)
Terminated == wpc = "exited" /\ UNCHANGED vars

Worker ==
    \/ Sleep
    \/ Exit
    \/ TakeJob
    \/ \E outcome \in {"succeeded", "failed"} : RenderEnds(outcome)
    \/ Mark
    \/ Store

Handlers ==
    \/ \E j \in Jobs : Submit(j)
    \/ Notify
    \/ Poll
    \/ \E j \in Jobs : CancelQueued(j)
    \/ \E j \in Jobs : CancelRunning(j)
    \/ \E force \in BOOLEAN : ReleaseQueue(force)
    \/ \E r \in Readers, j \in Jobs : TakeReference(r, j)
    \/ \E r \in Readers : ReadStatus(r)
    \/ \E r \in Readers : ReadResult(r)

Next ==
    \/ Worker
    \/ Handlers
    \/ \E j \in Jobs : Age(j)
    \/ Stop
    \/ Terminated

Spec == Init /\ [][Next]_vars

(* The worker thread is scheduled and a render is finite; a handler that    *)
(* has unlocked goes on to notify.                                          *)
Fairness == WF_vars(Worker) /\ WF_vars(Notify)

LiveSpec == Spec /\ Fairness

-----------------------------------------------------------------------------
(* Every variable keeps to its values.                                      *)
TypeOK ==
    /\ status \in [Jobs -> Statuses]
    /\ table \in [Jobs -> {"absent", "live", "expired"}]
    /\ age \in [Jobs -> {"zero", "fresh", "old"}]
    /\ queue \in Seq(Jobs)
    /\ requested \in SUBSET Jobs
    /\ stored \in SUBSET Jobs
    /\ stop \in BOOLEAN
    /\ wakes \in Nat
    /\ wpc \in {"checking", "asleep", "rendering", "succeeded", "failed", "marked",
                "exited"}
    /\ current \in Jobs \cup {NoJob}
    /\ rpc \in [Readers -> {"idle", "referenced", "complete"}]
    /\ rjob \in [Readers -> Jobs \cup {NoJob}]
    /\ reply \in [Readers -> {"none", "gone", "incomplete", "body", "missing"}]

(* Status and queue, which two routes and the worker update separately,     *)
(* agree: the queue lists the waiting jobs, each once. It is what makes the *)
(* cancel route's 409 branch and the worker's `continue` branches dead.     *)
QueueIsExact ==
    /\ IsInjective(queue)
    /\ ToSet(queue) = {j \in Jobs : status[j] = "queued"}

(* No purge, by any thread, drops a job that waits or runs, and nothing     *)
(* runs but the worker's own job.                                           *)
LiveJobIsKept ==
    \A j \in Jobs :
      /\ status[j] \in {"queued", "generating"} => table[j] = "live"
      /\ status[j] = "generating" => j = current

(* The limit on jobs that wait or run holds at every moment.                *)
QueueIsBounded == Cardinality(Pending) <= MaxPending

(* A cancellation answered 202 decides how the job ends, however late it    *)
(* came, and leaves no result behind.                                       *)
CancelDecides ==
    \A j \in requested :
      /\ status[j] \in Terminal => status[j] = "cancelled"
      /\ j \notin stored

(* The media route serves a completed job its result: "missing" is never    *)
(* the answer, since a job becomes complete with a non-empty result. The    *)
(* code does not keep it: the handler reads after the unlock, and the       *)
(* worker writes the status before the result.                              *)
CompletedHasMedia == \A r \in Readers : reply[r] # "missing"

(* What the API promises, in terms of this state.                           *)
Outcome == [j \in Jobs |-> IF status[j] \in Terminal THEN status[j] ELSE "none"]
Record == [j \in Jobs |-> CASE table[j] = "live"    -> "known"
                            [] table[j] = "absent"  -> "unknown"
                            [] table[j] = "expired" -> "expired"]

Contract == INSTANCE JobLifecycle WITH
    waiting <- queue, running <- ActiveJobs, outcome <- Outcome, record <- Record

(* The job service implements the life cycle the API promises.              *)
ImplementsLifecycle == Contract!Spec

(* Every accepted job ends, the ones that wait at shutdown included.        *)
EveryJobEnds == \A j \in Jobs : status[j] = "queued" ~> status[j] \in Terminal

(* main's join returns: after stop the worker drains the queue and exits.   *)
StopJoins == stop ~> wpc = "exited"
=============================================================================
