----------------------------- MODULE GpuSharing -----------------------------
(***************************************************************************)
(* The job service of JobManager together with what its threads share      *)
(* inside the process: sd_ctx_mutex, the context's one cancellation flag,  *)
(* the diffusion weights (DiT) on the GPU and the two flags that describe  *)
(* them. A render is segments between check points; synchronous routes     *)
(* render on the same context without a job; POST /v1/admin/unload and     *)
(* swap_model change the weights under the same mutex.                     *)
(* Polls, media reads, the passing of TTLs and the shutdown, which share    *)
(* nothing of this, stay in JobManager                                     *)
(* (examples/server/async_jobs.cpp, routes_gpu_sharing.cpp, main.cpp,      *)
(* routes_openai.cpp, routes_sdapi.cpp, routes_longcat.cpp,                *)
(* src/stable-diffusion.cpp).                                              *)
(***************************************************************************)
EXTENDS JobManager

CONSTANTS MaxSegments,   (* bound: segments of one video chain              *)
          MaxSyncs,      (* bound: synchronous renders                      *)
          MaxAdmins      (* bound: calls of unload and swap_model together  *)

ASSUME GpuSharingAssumption ==
    /\ MaxSegments \in Nat \ {0}
    /\ {MaxSyncs, MaxAdmins} \subseteq Nat

VARIABLES ctx,        (* the holder of sd_ctx_mutex                         *)
          flag,       (* cancellation_flag                                  *)
          phase,      (* where each renderer is                             *)
          left,       (* segments the worker's job has still to begin       *)
          held,       (* the DiT's weights are on the GPU                   *)
          loaded,     (* gpu_sharing.diffusion_loaded                       *)
          draining,   (* gpu_sharing.draining                               *)
          admitted,   (* jobs whose handler passed the drain check          *)
          upc,        (* where the unload handler is                        *)
          victims,    (* the jobs that unload found running and cancelled   *)
          spc,        (* where the swap_model handler is                    *)
          calls       (* calls made, per kind                               *)

gpuVars == <<ctx, flag, phase, left, held, loaded, draining, admitted, upc,
             victims, spc, calls>>
allVars == <<vars, gpuVars>>

Renderers == {"worker", "sync"}
Phases == {"idle", "waiting", "entered", "sampling", "tail", "stopped", "left"}

GInit ==
    /\ Init
    /\ ctx = "nobody"
    /\ flag = "reset"
    /\ phase = [a \in Renderers |-> "idle"]
    /\ left = 0
    /\ held = TRUE
    /\ loaded = TRUE
    /\ draining = FALSE
    /\ admitted = {}
    /\ upc = "idle"
    /\ victims = {}
    /\ spc = "idle"
    /\ calls = [k \in {"sync", "admin"} |-> 0]

Call(kind, max) ==
    /\ calls[kind] < max
    /\ calls' = [calls EXCEPT ![kind] = @ + 1]

Move(a, from, to) ==
    /\ phase[a] = from
    /\ phase' = [phase EXCEPT ![a] = to]

-----------------------------------------------------------------------------
(* A render by the worker or a synchronous route.                           *)

(* sd_ctx_mutex is locked; a job has one segment or is a chain of several.  *)
Enter(a) ==
    /\ ctx = "nobody"
    /\ Move(a, "waiting", "entered")
    /\ ctx' = a
    /\ IF a = "worker" THEN left' \in 1..MaxSegments ELSE UNCHANGED left
    /\ UNCHANGED <<vars, flag, held, loaded, draining, admitted, upc, victims,
                   spc, calls>>

(* Slip: the flag of an earlier cancellation is left up. *)
BugKeepsFlag(a) ==
    /\ Move(a, "entered", "sampling")
    /\ held' = TRUE
    /\ IF a = "worker" THEN left' = left - 1 ELSE UNCHANGED left
    /\ UNCHANGED <<vars, flag, ctx, loaded, draining, admitted, upc, victims,
                   spc, calls>>

(* generate_image or generate_video_ex, once per segment: reset_cancel_flag *)
(* and on to sampling, which prepares the DiT's weights on demand.          *)
BeginSegment(a) ==
    /\ Move(a, "entered", "sampling")
    /\ flag' = "reset"
    /\ held' = TRUE
    /\ IF a = "worker" THEN left' = left - 1 ELSE UNCHANGED left
    /\ UNCHANGED <<vars, ctx, loaded, draining, admitted, upc, victims, spc,
                   calls>>

(* The last check point is passed: what is left is decoding.                *)
PassLastCheck(a) ==
    /\ flag = "reset"
    /\ Move(a, "sampling", "tail")
    /\ UNCHANGED <<vars, ctx, flag, left, held, loaded, draining, admitted, upc,
                   victims, spc, calls>>

(* A check point sees the flag.                                             *)
Abort(a) ==
    /\ flag = "all"
    /\ Move(a, "sampling", "stopped")
    /\ UNCHANGED <<vars, ctx, flag, left, held, loaded, draining, admitted, upc,
                   victims, spc, calls>>

(* The segment fails for a reason of its own.                               *)
Fail(a) ==
    /\ Move(a, "sampling", "stopped")
    /\ flag = "reset"
    /\ UNCHANGED <<vars, ctx, flag, left, held, loaded, draining, admitted, upc,
                   victims, spc, calls>>

(* generate_video_chain goes on to its next segment.                        *)
NextSegment ==
    /\ left > 0
    /\ Move("worker", "tail", "entered")
    /\ UNCHANGED <<vars, ctx, flag, left, held, loaded, draining, admitted, upc,
                   victims, spc, calls>>

(* The worker records the weights and unlocks with frames to encode ...     *)
WorkerLeaves ==
    /\ left = 0
    /\ Move("worker", "tail", "left")
    /\ ctx' = "nobody"
    /\ loaded' = TRUE
    /\ UNCHANGED <<vars, flag, left, held, draining, admitted, upc, victims, spc,
                   calls>>

(* ... and the job succeeds unless they do not encode.                      *)
EncodeEnds(outcome) ==
    /\ Move("worker", "left", "idle")
    /\ RenderEnds(outcome)
    /\ UNCHANGED <<ctx, flag, left, held, loaded, draining, admitted, upc, victims,
                   spc, calls>>

(* A failed render ends the job as failed, unless frames are left to        *)
(* encode: those a streamed chain flushed before it was stopped.            *)
GivesUp ==
    \/ Move("worker", "stopped", "idle") /\ RenderEnds("failed")
    \/ Move("worker", "stopped", "left") /\ UNCHANGED vars

(* Slip: a failed render returns with the mutex locked. *)
BugHoldsOnFailure ==
    /\ GivesUp
    /\ left' = 0
    /\ UNCHANGED <<ctx, flag, held, loaded, draining, admitted, upc, victims, spc,
                   calls>>

(* A render that failed or was stopped unlocks without a result.            *)
WorkerGivesUp ==
    /\ GivesUp
    /\ ctx' = "nobody"
    /\ left' = 0
    /\ UNCHANGED <<flag, held, loaded, draining, admitted, upc, victims, spc, calls>>

(* A synchronous route unlocks, and records the weights after that.         *)
SyncLeaves ==
    /\ phase["sync"] \in {"tail", "stopped"}
    /\ phase' = [phase EXCEPT !["sync"] = IF @ = "tail" THEN "left" ELSE "idle"]
    /\ ctx' = "nobody"
    /\ UNCHANGED <<vars, flag, left, held, loaded, draining, admitted, upc,
                   victims, spc, calls>>

SyncRecords ==
    /\ Move("sync", "left", "idle")
    /\ loaded' = TRUE
    /\ UNCHANGED <<vars, ctx, flag, left, held, draining, admitted, upc, victims,
                   spc, calls>>

-----------------------------------------------------------------------------
(* Admission: the pre-routing handler looks at draining before the route's  *)
(* own handler runs.                                                        *)
Admit(j) ==
    /\ ~draining
    /\ j \notin admitted /\ status[j] = "unsubmitted"
    /\ admitted' = admitted \cup {j}
    /\ UNCHANGED <<vars, ctx, flag, phase, left, held, loaded, draining, upc,
                   victims, spc, calls>>

AdmitSync ==
    /\ ~draining
    /\ Call("sync", MaxSyncs)
    /\ Move("sync", "idle", "waiting")
    /\ UNCHANGED <<vars, ctx, flag, left, held, loaded, draining, admitted, upc,
                   victims, spc>>

SubmitAdmitted(j) == j \in admitted /\ Submit(j) /\ UNCHANGED gpuVars

(* POST cancel, as in JobManager; a running job has the flag raised too.    *)
Cancel(j) ==
    \/ CancelQueued(j) /\ UNCHANGED gpuVars
    \/ /\ CancelRunning(j)
       /\ flag' = "all"
       /\ UNCHANGED <<ctx, phase, left, held, loaded, draining, admitted, upc,
                      victims, spc, calls>>

(* The worker takes a job and goes for sd_ctx_mutex.                        *)
TakeAndWait ==
    /\ TakeJob
    /\ phase' = [phase EXCEPT !["worker"] = IF wpc' = "rendering" THEN "waiting" ELSE @]
    /\ UNCHANGED <<ctx, flag, left, held, loaded, draining, admitted, upc, victims,
                   spc, calls>>

(* POST drain and POST load.                                                *)
SetDraining(d) ==
    /\ draining' = d
    /\ UNCHANGED <<vars, ctx, flag, phase, left, held, loaded, admitted, upc,
                   victims, spc, calls>>

-----------------------------------------------------------------------------
(* Slip: the running job is given its end along with the waiting ones. *)
BugEndsRunning(force) ==
    /\ upc = "idle"
    /\ Call("admin", MaxAdmins)
    /\ Serving
    /\ force \/ ActiveJobs = {}
    /\ status' = [j \in Jobs |-> IF j \in Pending THEN "cancelled" ELSE status[j]]
    /\ age' = [j \in Jobs |-> IF j \in Pending THEN "fresh" ELSE age[j]]
    /\ queue' = <<>>
    /\ victims' = ActiveJobs
    /\ flag' = IF ActiveJobs # {} THEN "all" ELSE flag
    /\ upc' = "asked"
    /\ UNCHANGED <<table, requested, stored, stop, wakes, workerVars, readerVars,
                   ctx, phase, left, held, loaded, draining, admitted, spc>>

(* POST unload: under manager.mutex, turn away or cancel the running job    *)
(* and end the waiting ones ...                                             *)
UnloadAsk(force) ==
    /\ upc = "idle"
    /\ Call("admin", MaxAdmins)
    /\ ReleaseQueue(force)
    /\ victims' = ActiveJobs
    /\ flag' = IF ActiveJobs # {} THEN "all" ELSE flag
    /\ upc' = "asked"
    /\ UNCHANGED <<ctx, phase, left, held, loaded, draining, admitted, spc>>

(* Slip: the weights are freed without sd_ctx_mutex. *)
BugFreesUnlocked ==
    /\ upc = "asked"
    /\ held' = FALSE
    /\ upc' = "freed"
    /\ UNCHANGED <<vars, ctx, flag, phase, left, loaded, draining, admitted,
                   victims, spc, calls>>

(* ... free the DiT under sd_ctx_mutex ...                                  *)
UnloadFree ==
    /\ upc = "asked"
    /\ ctx = "nobody"
    /\ held' = FALSE
    /\ upc' = "freed"
    /\ UNCHANGED <<vars, ctx, flag, phase, left, loaded, draining, admitted,
                   victims, spc, calls>>

(* ... record it, and reopen.                                               *)
UnloadRecord ==
    /\ upc = "freed"
    /\ loaded' = FALSE
    /\ upc' = "recorded"
    /\ UNCHANGED <<vars, ctx, flag, phase, left, held, draining, admitted,
                   victims, spc, calls>>

UnloadReopen ==
    /\ upc = "recorded"
    /\ draining' = FALSE
    /\ upc' = "idle"
    /\ victims' = {}
    /\ UNCHANGED <<vars, ctx, flag, phase, left, held, loaded, admitted, spc,
                   calls>>

(* POST swap_model: refuse unless no job waits or runs ...                  *)
SwapCheck ==
    /\ spc = "idle"
    /\ Serving
    /\ ActiveJobs = {} /\ queue = <<>>
    /\ Call("admin", MaxAdmins)
    /\ spc' = "checked"
    /\ UNCHANGED <<vars, ctx, flag, phase, left, held, loaded, draining, admitted,
                   upc, victims>>

(* ... drop the outgoing weights under sd_ctx_mutex, alone; the incoming    *)
(* ones load lazily ...                                                     *)
SwapWeights ==
    /\ spc = "checked"
    /\ ctx = "nobody"
    /\ held' = FALSE
    /\ spc' \in {"swapped", "idle"}
    /\ UNCHANGED <<vars, ctx, flag, phase, left, loaded, draining, admitted, upc,
                   victims, calls>>

(* ... and record them, if the swap succeeded.                              *)
SwapRecord ==
    /\ spc = "swapped"
    /\ loaded' = TRUE
    /\ spc' = "idle"
    /\ UNCHANGED <<vars, ctx, flag, phase, left, held, draining, admitted, upc,
                   victims, calls>>

-----------------------------------------------------------------------------
Render(a) == Enter(a) \/ BeginSegment(a) \/ PassLastCheck(a) \/ Abort(a) \/ Fail(a)

WorkerThread ==
    \/ TakeAndWait
    \/ (Sleep \/ Mark \/ Store) /\ UNCHANGED gpuVars
    \/ Render("worker")
    \/ NextSegment
    \/ WorkerLeaves
    \/ WorkerGivesUp
    \/ \E outcome \in {"succeeded", "failed"} : EncodeEnds(outcome)

SyncThread == Render("sync") \/ SyncLeaves \/ SyncRecords

UnloadThread == UnloadFree \/ UnloadRecord \/ UnloadReopen

GNext ==
    \/ WorkerThread
    \/ SyncThread
    \/ UnloadThread
    \/ AdmitSync
    \/ Notify /\ UNCHANGED gpuVars
    \/ \E j \in Jobs : Admit(j) \/ SubmitAdmitted(j) \/ Cancel(j)
    \/ \E d \in BOOLEAN : SetDraining(d)
    \/ \E force \in BOOLEAN : UnloadAsk(force)
    \/ SwapCheck \/ SwapWeights \/ SwapRecord

GSpec == GInit /\ [][GNext]_allVars

(* Threads that can run do; calls and jobs are finitely many, so weak       *)
(* fairness suffices for a mutex every holder releases.                     *)
GFairness ==
    /\ WF_allVars(WorkerThread)
    /\ WF_allVars(SyncThread)
    /\ WF_allVars(UnloadThread)
    /\ WF_allVars(Notify /\ UNCHANGED gpuVars)

GLiveSpec == GSpec /\ GFairness

-----------------------------------------------------------------------------
(* Every variable keeps to its values, and the mutex to its users.          *)
GTypeOK ==
    /\ TypeOK
    /\ ctx \in Renderers \cup {"nobody"}
    /\ flag \in {"reset", "all"}
    /\ phase \in [Renderers -> Phases]
    /\ left \in 0..MaxSegments
    /\ {held, loaded, draining} \subseteq BOOLEAN
    /\ admitted \in SUBSET Jobs /\ victims \in SUBSET Jobs
    /\ upc \in {"idle", "asked", "freed", "recorded"}
    /\ spc \in {"idle", "checked", "swapped"}

(* What happens inside a render, and around it on the GPU, is invisible to  *)
(* the job service: every step is one of JobManager or changes nothing      *)
(* there, so what holds of the service holds here.                          *)
ImplementsJobManager == Spec

(* An unload or a swap never takes the weights from under a render that     *)
(* began: a job's or a synchronous route's.                                 *)
FreeSparesRender ==
    [][held /\ ~held' => \A a \in Renderers : phase[a] \notin {"sampling", "tail"}]_allVars

(* A check point stops a job only if that job was cancelled: the flag that  *)
(* outlives an earlier job's cancellation stops nobody.                     *)
OnlyCancelledJobsStop ==
    [][(flag = "all" /\ phase["worker"] = "sampling" /\ phase'["worker"] = "stopped")
         => current \in requested \cup victims]_allVars

(* unload answers, whatever renders when it is called.                      *)
UnloadReturns == upc = "asked" ~> upc = "idle"

(* A cancellation of the running job, answered 202, stops the render: no    *)
(* further segment of it begins. The code does not keep it: each segment    *)
(* lowers the flag first, whoever raised it.                                *)
CancelStopsRender ==
    [][(phase["worker"] = "entered" /\ phase'["worker"] = "sampling")
         => current \notin requested]_allVars
=============================================================================
