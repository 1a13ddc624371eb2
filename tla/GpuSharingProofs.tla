-------------------------- MODULE GpuSharingProofs --------------------------
(***************************************************************************)
(* GpuSharing implements JobManager, so what is proved of the job service  *)
(* holds of it among the threads that share the GPU; and, for any jobs,    *)
(* chains and calls, nobody frees the weights under a render and no        *)
(* cancellation stops a job that was not cancelled.                        *)
(*                                                                         *)
(* The mutex carries the argument: a renderer has it from its entry to its *)
(* last check point, and the flag that stops the worker's segment was      *)
(* raised after that segment began.                                        *)
(***************************************************************************)
EXTENDS GpuSharing, JobManagerProofs

(* Every step of the composition is one of the job service, or none of its. *)
LEMMA GStepRefines == [GNext]_allVars => [Next]_vars
<1> SUFFICES ASSUME [GNext]_allVars PROVE [Next]_vars
  OBVIOUS
<1>1. CASE WorkerThread
  <2>1. CASE TakeAndWait
    BY <2>1 DEF TakeAndWait, Next, Worker
  <2>2. CASE (Sleep \/ Mark \/ Store) /\ UNCHANGED gpuVars
    BY <2>2 DEF Next, Worker
  <2>3. CASE Render("worker")
    BY <2>3 DEF Render, Enter, BeginSegment, PassLastCheck, Abort, Fail
  <2>4. CASE NextSegment \/ WorkerLeaves
    BY <2>4 DEF NextSegment, WorkerLeaves
  <2>5. CASE WorkerGivesUp
    BY <2>5 DEF WorkerGivesUp, GivesUp, Next, Worker
  <2>6. CASE \E outcome \in {"succeeded", "failed"} : EncodeEnds(outcome)
    BY <2>6 DEF EncodeEnds, Next, Worker
  <2> QED
    BY <1>1, <2>1, <2>2, <2>3, <2>4, <2>5, <2>6 DEF WorkerThread
<1>2. CASE SyncThread
  BY <1>2
  DEF SyncThread, Render, Enter, BeginSegment, PassLastCheck, Abort, Fail,
      SyncLeaves, SyncRecords
<1>3. CASE UnloadThread
  BY <1>3 DEF UnloadThread, UnloadFree, UnloadRecord, UnloadReopen
<1>4. CASE AdmitSync \/ (Notify /\ UNCHANGED gpuVars)
  BY <1>4 DEF AdmitSync, Next, Handlers
<1>5. ASSUME NEW j \in Jobs, Admit(j) \/ SubmitAdmitted(j) \/ Cancel(j)
      PROVE  [Next]_vars
  BY <1>5 DEF Admit, SubmitAdmitted, Cancel, Next, Handlers
<1>6. CASE \E d \in BOOLEAN : SetDraining(d)
  BY <1>6 DEF SetDraining
<1>7. CASE \E force \in BOOLEAN : UnloadAsk(force)
  BY <1>7 DEF UnloadAsk, Next, Handlers
<1>8. CASE SwapCheck \/ SwapWeights \/ SwapRecord
  BY <1>8 DEF SwapCheck, SwapWeights, SwapRecord
<1>9. CASE UNCHANGED allVars
  BY <1>9 DEF allVars
<1> QED
  BY <1>1, <1>2, <1>3, <1>4, <1>5, <1>6, <1>7, <1>8, <1>9 DEF GNext

(* Rendering, synchronous routes, unloads and swaps change nothing of what  *)
(* the job service does (GSpec is that of the whole process).               *)
THEOREM ServiceRefinement == GSpec => ImplementsJobManager
<1>1. GInit => Init
  BY DEF GInit
<1> QED
  BY <1>1, GStepRefines, PTL DEF GSpec, Spec, ImplementsJobManager

LEMMA ServiceSafe == GSpec => [](TypeOK /\ Safe)
BY ServiceRefinement, AlwaysSafe, PTL DEF ImplementsJobManager

-----------------------------------------------------------------------------
(* What sd_ctx_mutex covers. *)
Covered == {"entered", "sampling", "tail", "stopped"}

MutexCovers == \A a \in Renderers : phase[a] \in Covered => ctx = a

WorkerRenders ==
    /\ phase["worker"] # "idle" => wpc = "rendering"
    /\ phase["worker"] = "entered" => left > 0

(* The flag that the worker's segment sees was raised for its job: by a     *)
(* cancel, or by an unload that has not got the mutex yet.                  *)
FlagIsOurs ==
    flag = "all" /\ phase["worker"] = "sampling"
        => \/ current \in requested
           \/ current \in victims /\ upc = "asked"

GSafe == MutexCovers /\ WorkerRenders /\ FlagIsOurs

LEMMA GInitSafe == GInit => GTypeOK /\ GSafe
<1> SUFFICES ASSUME GInit PROVE GTypeOK /\ GSafe
  OBVIOUS
<1>1. TypeOK
  BY InitSafe DEF GInit
<1>2. left \in 0..MaxSegments
  BY GpuSharingAssumption DEF GInit
<1> QED
  BY <1>1, <1>2
  DEF GInit, GTypeOK, GSafe, MutexCovers, WorkerRenders, FlagIsOurs, Covered,
      Renderers, Phases

(* What the worker's part of the invariant needs to know of the job that it *)
(* renders.                                                                 *)
LEMMA Rendered ==
    ASSUME TypeOK, Safe, WorkerRenders, phase["worker"] # "idle"
    PROVE  /\ current \in Jobs /\ status[current] = "generating"
           /\ ActiveJobs = {current}
<1>1. wpc = "rendering"
  BY DEF WorkerRenders
<1>2. current \in Jobs /\ status[current] = "generating"
  BY <1>1 DEF Safe, WorkerHolds
<1> QED
  BY <1>2 DEF Safe, LiveJobIsKept, ActiveJobs

(* A render of the worker keeps the types and the invariant. *)
LEMMA WorkerRenderSafe ==
    ASSUME TypeOK', GTypeOK, GSafe, Render("worker")
    PROVE  GTypeOK' /\ GSafe'
<1> USE DEF vars, tableVars, workerVars, readerVars
<1>0. "worker" # "sync"
  OBVIOUS
<1>1. ASSUME Enter("worker") PROVE GTypeOK' /\ GSafe'
  <2>1. GTypeOK'
    BY <1>1, GpuSharingAssumption
    DEF Enter, Move, GSafe, WorkerRenders, GTypeOK, Renderers, Phases
  <2>2. MutexCovers'
    BY <1>0, <1>1
    DEF Enter, Move, GSafe, MutexCovers, Covered, GTypeOK, Renderers
  <2>3. WorkerRenders' /\ FlagIsOurs'
    BY <1>1, GpuSharingAssumption
    DEF Enter, Move, GSafe, WorkerRenders, FlagIsOurs, GTypeOK, Renderers
  <2> QED
    BY <2>1, <2>2, <2>3 DEF GSafe
<1>2. ASSUME BeginSegment("worker") PROVE GTypeOK' /\ GSafe'
  <2>1. GTypeOK'
    BY <1>2, GpuSharingAssumption
    DEF BeginSegment, Move, GSafe, WorkerRenders, GTypeOK, Renderers, Phases
  <2>2. MutexCovers'
    BY <1>0, <1>2
    DEF BeginSegment, Move, GSafe, MutexCovers, Covered, GTypeOK, Renderers
  <2>3. WorkerRenders' /\ FlagIsOurs'
    BY <1>2, GpuSharingAssumption
    DEF BeginSegment, Move, GSafe, WorkerRenders, FlagIsOurs, GTypeOK,
        Renderers
  <2> QED
    BY <2>1, <2>2, <2>3 DEF GSafe
<1>3. ASSUME PassLastCheck("worker") PROVE GTypeOK' /\ GSafe'
  <2>1. GTypeOK'
    BY <1>3, GpuSharingAssumption
    DEF PassLastCheck, Move, GSafe, WorkerRenders, GTypeOK, Renderers, Phases
  <2>2. MutexCovers'
    BY <1>0, <1>3
    DEF PassLastCheck, Move, GSafe, MutexCovers, Covered, GTypeOK, Renderers
  <2>3. WorkerRenders' /\ FlagIsOurs'
    BY <1>3, GpuSharingAssumption
    DEF PassLastCheck, Move, GSafe, WorkerRenders, FlagIsOurs, GTypeOK,
        Renderers
  <2> QED
    BY <2>1, <2>2, <2>3 DEF GSafe
<1>4. ASSUME Abort("worker") PROVE GTypeOK' /\ GSafe'
  <2>1. GTypeOK'
    BY <1>4, GpuSharingAssumption
    DEF Abort, Move, GSafe, WorkerRenders, GTypeOK, Renderers, Phases
  <2>2. MutexCovers'
    BY <1>0, <1>4
    DEF Abort, Move, GSafe, MutexCovers, Covered, GTypeOK, Renderers
  <2>3. WorkerRenders' /\ FlagIsOurs'
    BY <1>4, GpuSharingAssumption
    DEF Abort, Move, GSafe, WorkerRenders, FlagIsOurs, GTypeOK, Renderers
  <2> QED
    BY <2>1, <2>2, <2>3 DEF GSafe
<1>5. ASSUME Fail("worker") PROVE GTypeOK' /\ GSafe'
  <2>1. GTypeOK'
    BY <1>5, GpuSharingAssumption
    DEF Fail, Move, GSafe, WorkerRenders, GTypeOK, Renderers, Phases
  <2>2. MutexCovers'
    BY <1>0, <1>5
    DEF Fail, Move, GSafe, MutexCovers, Covered, GTypeOK, Renderers
  <2>3. WorkerRenders' /\ FlagIsOurs'
    BY <1>5, GpuSharingAssumption
    DEF Fail, Move, GSafe, WorkerRenders, FlagIsOurs, GTypeOK, Renderers
  <2> QED
    BY <2>1, <2>2, <2>3 DEF GSafe
<1> QED
  BY <1>1, <1>2, <1>3, <1>4, <1>5 DEF Render

(* A render of a synchronous route keeps the types and the invariant. *)
LEMMA SyncRenderSafe ==
    ASSUME TypeOK', GTypeOK, GSafe, Render("sync")
    PROVE  GTypeOK' /\ GSafe'
<1> USE DEF vars, tableVars, workerVars, readerVars
<1>0. "sync" # "worker"
  OBVIOUS
<1>1. ASSUME Enter("sync") PROVE GTypeOK' /\ GSafe'
  <2>1. GTypeOK'
    BY <1>1, GpuSharingAssumption
    DEF Enter, Move, GSafe, WorkerRenders, GTypeOK, Renderers, Phases
  <2>2. MutexCovers'
    BY <1>0, <1>1
    DEF Enter, Move, GSafe, MutexCovers, Covered, GTypeOK, Renderers
  <2>3. WorkerRenders' /\ FlagIsOurs'
    BY <1>1, GpuSharingAssumption
    DEF Enter, Move, GSafe, WorkerRenders, FlagIsOurs, GTypeOK, Renderers
  <2> QED
    BY <2>1, <2>2, <2>3 DEF GSafe
<1>2. ASSUME BeginSegment("sync") PROVE GTypeOK' /\ GSafe'
  <2>1. GTypeOK'
    BY <1>2, GpuSharingAssumption
    DEF BeginSegment, Move, GSafe, WorkerRenders, GTypeOK, Renderers, Phases
  <2>2. MutexCovers'
    BY <1>0, <1>2
    DEF BeginSegment, Move, GSafe, MutexCovers, Covered, GTypeOK, Renderers
  <2>3. WorkerRenders' /\ FlagIsOurs'
    BY <1>2, GpuSharingAssumption
    DEF BeginSegment, Move, GSafe, WorkerRenders, FlagIsOurs, GTypeOK,
        Renderers
  <2> QED
    BY <2>1, <2>2, <2>3 DEF GSafe
<1>3. ASSUME PassLastCheck("sync") PROVE GTypeOK' /\ GSafe'
  <2>1. GTypeOK'
    BY <1>3, GpuSharingAssumption
    DEF PassLastCheck, Move, GSafe, WorkerRenders, GTypeOK, Renderers, Phases
  <2>2. MutexCovers'
    BY <1>0, <1>3
    DEF PassLastCheck, Move, GSafe, MutexCovers, Covered, GTypeOK, Renderers
  <2>3. WorkerRenders' /\ FlagIsOurs'
    BY <1>3, GpuSharingAssumption
    DEF PassLastCheck, Move, GSafe, WorkerRenders, FlagIsOurs, GTypeOK,
        Renderers
  <2> QED
    BY <2>1, <2>2, <2>3 DEF GSafe
<1>4. ASSUME Abort("sync") PROVE GTypeOK' /\ GSafe'
  <2>1. GTypeOK'
    BY <1>4, GpuSharingAssumption
    DEF Abort, Move, GSafe, WorkerRenders, GTypeOK, Renderers, Phases
  <2>2. MutexCovers'
    BY <1>0, <1>4
    DEF Abort, Move, GSafe, MutexCovers, Covered, GTypeOK, Renderers
  <2>3. WorkerRenders' /\ FlagIsOurs'
    BY <1>4, GpuSharingAssumption
    DEF Abort, Move, GSafe, WorkerRenders, FlagIsOurs, GTypeOK, Renderers
  <2> QED
    BY <2>1, <2>2, <2>3 DEF GSafe
<1>5. ASSUME Fail("sync") PROVE GTypeOK' /\ GSafe'
  <2>1. GTypeOK'
    BY <1>5, GpuSharingAssumption
    DEF Fail, Move, GSafe, WorkerRenders, GTypeOK, Renderers, Phases
  <2>2. MutexCovers'
    BY <1>0, <1>5
    DEF Fail, Move, GSafe, MutexCovers, Covered, GTypeOK, Renderers
  <2>3. WorkerRenders' /\ FlagIsOurs'
    BY <1>5, GpuSharingAssumption
    DEF Fail, Move, GSafe, WorkerRenders, FlagIsOurs, GTypeOK, Renderers
  <2> QED
    BY <2>1, <2>2, <2>3 DEF GSafe
<1> QED
  BY <1>1, <1>2, <1>3, <1>4, <1>5 DEF Render

(* The rest of the worker's loop. *)
LEMMA WorkerSafe ==
    ASSUME TypeOK', TypeOK, Safe, GTypeOK, GSafe, WorkerThread
    PROVE  GTypeOK' /\ GSafe'
<1> USE DEF vars, tableVars, workerVars, readerVars
<1>1. ASSUME TakeAndWait PROVE GTypeOK' /\ GSafe'
  <2>1. GTypeOK'
    BY <1>1 DEF TakeAndWait, TakeJob, GTypeOK, Renderers, Phases
  <2>2. MutexCovers'
    BY <1>1
    DEF TakeAndWait, TakeJob, GSafe, MutexCovers, Covered, GTypeOK, Renderers
  <2>3. WorkerRenders' /\ FlagIsOurs'
    BY <1>1
    DEF TakeAndWait, TakeJob, GSafe, WorkerRenders, FlagIsOurs, GTypeOK,
        Renderers
  <2> QED
    BY <2>1, <2>2, <2>3 DEF GSafe
<1>2. ASSUME Sleep \/ Mark \/ Store, UNCHANGED gpuVars PROVE GTypeOK' /\ GSafe'
  <2>1. GTypeOK'
    BY <1>2 DEF Sleep, Mark, Store, gpuVars, GTypeOK, Renderers, Phases
  <2>2. MutexCovers'
    BY <1>2
    DEF Sleep, Mark, Store, gpuVars, GSafe, MutexCovers, Covered, GTypeOK,
        Renderers
  <2>3. WorkerRenders' /\ FlagIsOurs'
    BY <1>2
    DEF Sleep, Mark, Store, gpuVars, GSafe, WorkerRenders, FlagIsOurs,
        GTypeOK, Renderers
  <2> QED
    BY <2>1, <2>2, <2>3 DEF GSafe
<1>3. ASSUME NextSegment PROVE GTypeOK' /\ GSafe'
  <2>1. GTypeOK'
    BY <1>3 DEF NextSegment, Move, GTypeOK, Renderers, Phases
  <2>2. MutexCovers'
    BY <1>3
    DEF NextSegment, Move, GSafe, MutexCovers, Covered, GTypeOK, Renderers
  <2>3. WorkerRenders' /\ FlagIsOurs'
    BY <1>3
    DEF NextSegment, Move, GSafe, WorkerRenders, FlagIsOurs, GTypeOK,
        Renderers
  <2> QED
    BY <2>1, <2>2, <2>3 DEF GSafe
<1>4. ASSUME WorkerLeaves PROVE GTypeOK' /\ GSafe'
  <2>1. GTypeOK'
    BY <1>4 DEF WorkerLeaves, Move, GTypeOK, Renderers, Phases
  <2>2. MutexCovers'
    BY <1>4
    DEF WorkerLeaves, Move, GSafe, MutexCovers, Covered, GTypeOK, Renderers
  <2>3. WorkerRenders' /\ FlagIsOurs'
    BY <1>4
    DEF WorkerLeaves, Move, GSafe, WorkerRenders, FlagIsOurs, GTypeOK,
        Renderers
  <2> QED
    BY <2>1, <2>2, <2>3 DEF GSafe
<1>5. ASSUME WorkerGivesUp PROVE GTypeOK' /\ GSafe'
  <2> DEFINE Rest == /\ ctx' = "nobody" /\ left' = 0
                     /\ UNCHANGED <<flag, held, loaded, draining, admitted, upc,
                                    victims, spc, calls>>
  <2>1. CASE Move("worker", "stopped", "idle") /\ RenderEnds("failed") /\ Rest
    <3>1. GTypeOK'
      BY <2>1, GpuSharingAssumption
      DEF Move, RenderEnds, GTypeOK, Renderers, Phases
    <3>2. MutexCovers'
      BY <2>1 DEF Move, RenderEnds, GSafe, MutexCovers, Covered, GTypeOK, Renderers
    <3>3. WorkerRenders' /\ FlagIsOurs'
      BY <2>1
      DEF Move, RenderEnds, GSafe, WorkerRenders, FlagIsOurs, GTypeOK, Renderers
    <3> QED
      BY <3>1, <3>2, <3>3 DEF GSafe
  <2>2. CASE Move("worker", "stopped", "left") /\ UNCHANGED vars /\ Rest
    <3>1. GTypeOK'
      BY <2>2, GpuSharingAssumption DEF Move, GTypeOK, Renderers, Phases
    <3>2. MutexCovers'
      BY <2>2 DEF Move, GSafe, MutexCovers, Covered, GTypeOK, Renderers
    <3>3. WorkerRenders' /\ FlagIsOurs'
      BY <2>2 DEF Move, GSafe, WorkerRenders, FlagIsOurs, GTypeOK, Renderers
    <3> QED
      BY <3>1, <3>2, <3>3 DEF GSafe
  <2> QED
    BY <1>5, <2>1, <2>2 DEF WorkerGivesUp, GivesUp
<1>6. ASSUME NEW o \in {"succeeded", "failed"}, EncodeEnds(o) PROVE GTypeOK' /\ GSafe'
  <2>1. GTypeOK'
    BY <1>6 DEF EncodeEnds, Move, RenderEnds, GTypeOK, Renderers, Phases
  <2>2. MutexCovers'
    BY <1>6
    DEF EncodeEnds, Move, RenderEnds, GSafe, MutexCovers, Covered, GTypeOK,
        Renderers
  <2>3. WorkerRenders' /\ FlagIsOurs'
    BY <1>6
    DEF EncodeEnds, Move, RenderEnds, GSafe, WorkerRenders, FlagIsOurs,
        GTypeOK, Renderers
  <2> QED
    BY <2>1, <2>2, <2>3 DEF GSafe
<1> QED
  BY <1>1, <1>2, <1>3, <1>4, <1>5, <1>6, WorkerRenderSafe DEF WorkerThread

(* Synchronous routes, the handlers and the admin calls.                    *)
LEMMA CallsSafe ==
    ASSUME TypeOK', TypeOK, Safe, GTypeOK, GSafe,
           \/ SyncThread \/ UnloadThread \/ AdmitSync
           \/ (Notify /\ UNCHANGED gpuVars)
           \/ \E j \in Jobs : Admit(j) \/ SubmitAdmitted(j) \/ Cancel(j)
           \/ \E d \in BOOLEAN : SetDraining(d)
           \/ \E force \in BOOLEAN : UnloadAsk(force)
           \/ SwapCheck \/ SwapWeights \/ SwapRecord
    PROVE  GTypeOK' /\ GSafe'
<1> USE DEF vars, tableVars, workerVars, readerVars
<1>1. ASSUME SyncLeaves PROVE GTypeOK' /\ GSafe'
  <2>1. GTypeOK'
    BY <1>1 DEF SyncLeaves, GTypeOK, Renderers, Phases
  <2>2. MutexCovers'
    BY <1>1 DEF SyncLeaves, GSafe, MutexCovers, Covered, GTypeOK, Renderers
  <2>3. WorkerRenders' /\ FlagIsOurs'
    BY <1>1
    DEF SyncLeaves, GSafe, WorkerRenders, FlagIsOurs, GTypeOK, Renderers
  <2> QED
    BY <2>1, <2>2, <2>3 DEF GSafe
<1>2. ASSUME SyncRecords PROVE GTypeOK' /\ GSafe'
  <2>1. GTypeOK'
    BY <1>2 DEF SyncRecords, Move, GTypeOK, Renderers, Phases
  <2>2. MutexCovers'
    BY <1>2
    DEF SyncRecords, Move, GSafe, MutexCovers, Covered, GTypeOK, Renderers
  <2>3. WorkerRenders' /\ FlagIsOurs'
    BY <1>2
    DEF SyncRecords, Move, GSafe, WorkerRenders, FlagIsOurs, GTypeOK,
        Renderers
  <2> QED
    BY <2>1, <2>2, <2>3 DEF GSafe
<1>3. ASSUME UnloadFree PROVE GTypeOK' /\ GSafe'
  <2>1. GTypeOK'
    BY <1>3 DEF UnloadFree, GTypeOK, Renderers, Phases
  <2>2. MutexCovers'
    BY <1>3 DEF UnloadFree, GSafe, MutexCovers, Covered, GTypeOK, Renderers
  <2>3. WorkerRenders' /\ FlagIsOurs'
    <3>1. phase["worker"] # "sampling"
      BY <1>3 DEF UnloadFree, GSafe, MutexCovers, Covered, Renderers
    <3> QED
      BY <1>3, <3>1
      DEF UnloadFree, GSafe, WorkerRenders, FlagIsOurs, GTypeOK, Renderers
  <2> QED
    BY <2>1, <2>2, <2>3 DEF GSafe
<1>4. ASSUME UnloadRecord PROVE GTypeOK' /\ GSafe'
  <2>1. GTypeOK'
    BY <1>4 DEF UnloadRecord, GTypeOK, Renderers, Phases
  <2>2. MutexCovers'
    BY <1>4 DEF UnloadRecord, GSafe, MutexCovers, Covered, GTypeOK, Renderers
  <2>3. WorkerRenders' /\ FlagIsOurs'
    BY <1>4
    DEF UnloadRecord, GSafe, WorkerRenders, FlagIsOurs, GTypeOK, Renderers
  <2> QED
    BY <2>1, <2>2, <2>3 DEF GSafe
<1>5. ASSUME UnloadReopen PROVE GTypeOK' /\ GSafe'
  <2>1. GTypeOK'
    BY <1>5 DEF UnloadReopen, GTypeOK, Renderers, Phases
  <2>2. MutexCovers'
    BY <1>5 DEF UnloadReopen, GSafe, MutexCovers, Covered, GTypeOK, Renderers
  <2>3. WorkerRenders' /\ FlagIsOurs'
    BY <1>5
    DEF UnloadReopen, GSafe, WorkerRenders, FlagIsOurs, GTypeOK, Renderers
  <2> QED
    BY <2>1, <2>2, <2>3 DEF GSafe
<1>6. ASSUME AdmitSync PROVE GTypeOK' /\ GSafe'
  <2>1. GTypeOK'
    BY <1>6 DEF AdmitSync, Call, Move, GTypeOK, Renderers, Phases
  <2>2. MutexCovers'
    BY <1>6
    DEF AdmitSync, Call, Move, GSafe, MutexCovers, Covered, GTypeOK, Renderers
  <2>3. WorkerRenders' /\ FlagIsOurs'
    BY <1>6
    DEF AdmitSync, Call, Move, GSafe, WorkerRenders, FlagIsOurs, GTypeOK,
        Renderers
  <2> QED
    BY <2>1, <2>2, <2>3 DEF GSafe
<1>7. ASSUME Notify, UNCHANGED gpuVars PROVE GTypeOK' /\ GSafe'
  <2>1. GTypeOK'
    BY <1>7 DEF Notify, gpuVars, GTypeOK, Renderers, Phases
  <2>2. MutexCovers'
    BY <1>7
    DEF Notify, gpuVars, GSafe, MutexCovers, Covered, GTypeOK, Renderers
  <2>3. WorkerRenders' /\ FlagIsOurs'
    BY <1>7
    DEF Notify, gpuVars, GSafe, WorkerRenders, FlagIsOurs, GTypeOK, Renderers
  <2> QED
    BY <2>1, <2>2, <2>3 DEF GSafe
<1>8. ASSUME NEW j \in Jobs, Admit(j) PROVE GTypeOK' /\ GSafe'
  <2>1. GTypeOK'
    BY <1>8 DEF Admit, GTypeOK, Renderers, Phases
  <2>2. MutexCovers'
    BY <1>8 DEF Admit, GSafe, MutexCovers, Covered, GTypeOK, Renderers
  <2>3. WorkerRenders' /\ FlagIsOurs'
    BY <1>8 DEF Admit, GSafe, WorkerRenders, FlagIsOurs, GTypeOK, Renderers
  <2> QED
    BY <2>1, <2>2, <2>3 DEF GSafe
<1>9. ASSUME NEW j \in Jobs, Submit(j), UNCHANGED gpuVars PROVE GTypeOK' /\ GSafe'
  <2>1. GTypeOK'
    BY <1>9 DEF Submit, Accept, gpuVars, GTypeOK, Renderers, Phases
  <2>2. MutexCovers'
    BY <1>9
    DEF Submit, Accept, gpuVars, GSafe, MutexCovers, Covered, GTypeOK,
        Renderers
  <2>3. WorkerRenders' /\ FlagIsOurs'
    BY <1>9
    DEF Submit, Accept, gpuVars, GSafe, WorkerRenders, FlagIsOurs, GTypeOK,
        Renderers
  <2> QED
    BY <2>1, <2>2, <2>3 DEF GSafe
<1>10. ASSUME NEW j \in Jobs, CancelQueued(j), UNCHANGED gpuVars PROVE GTypeOK' /\ GSafe'
  <2>1. GTypeOK'
    BY <1>10 DEF CancelQueued, gpuVars, GTypeOK, Renderers, Phases
  <2>2. MutexCovers'
    BY <1>10
    DEF CancelQueued, gpuVars, GSafe, MutexCovers, Covered, GTypeOK, Renderers
  <2>3. WorkerRenders' /\ FlagIsOurs'
    BY <1>10
    DEF CancelQueued, gpuVars, GSafe, WorkerRenders, FlagIsOurs, GTypeOK,
        Renderers
  <2> QED
    BY <2>1, <2>2, <2>3 DEF GSafe
<1>11. ASSUME NEW j \in Jobs, CancelRunning(j), flag' = "all",
              UNCHANGED <<ctx, phase, left, held, loaded, draining, admitted, upc,
                          victims, spc, calls>>
       PROVE  GTypeOK' /\ GSafe'
  <2>1. GTypeOK'
    BY <1>11 DEF GTypeOK
  <2>2. MutexCovers'
    BY <1>11 DEF GSafe, MutexCovers
  <2>3. WorkerRenders'
    BY <1>11 DEF CancelRunning, GSafe, WorkerRenders
  <2>4. FlagIsOurs'
    <3>1. requested' = requested \cup {j} /\ current' = current
          /\ status[j] = "generating"
      BY <1>11 DEF CancelRunning
    <3>2. j = current
      BY <3>1 DEF Safe, LiveJobIsKept
    <3> QED
      BY <3>1, <3>2 DEF FlagIsOurs
  <2> QED
    BY <2>1, <2>2, <2>3, <2>4 DEF GSafe
<1>12. ASSUME NEW d \in BOOLEAN, SetDraining(d) PROVE GTypeOK' /\ GSafe'
  <2>1. GTypeOK'
    BY <1>12 DEF SetDraining, GTypeOK, Renderers, Phases
  <2>2. MutexCovers'
    BY <1>12 DEF SetDraining, GSafe, MutexCovers, Covered, GTypeOK, Renderers
  <2>3. WorkerRenders' /\ FlagIsOurs'
    BY <1>12
    DEF SetDraining, GSafe, WorkerRenders, FlagIsOurs, GTypeOK, Renderers
  <2> QED
    BY <2>1, <2>2, <2>3 DEF GSafe
<1>13. ASSUME NEW force \in BOOLEAN, UnloadAsk(force) PROVE GTypeOK' /\ GSafe'
  <2>1. GTypeOK'
    BY <1>13 DEF UnloadAsk, ActiveJobs, GTypeOK
  <2>2. MutexCovers'
    BY <1>13
    DEF UnloadAsk, Call, ReleaseQueue, GSafe, MutexCovers, Covered, GTypeOK,
        Renderers
  <2>3. WorkerRenders'
    BY <1>13 DEF UnloadAsk, ReleaseQueue, GSafe, WorkerRenders
  <2>4. FlagIsOurs'
    <3>1. CASE phase["worker"] # "idle"
      <4>1. victims' = {current} /\ upc' = "asked" /\ current' = current
        BY <1>13, <3>1, Rendered DEF UnloadAsk, ReleaseQueue, GSafe
      <4> QED
        BY <4>1 DEF FlagIsOurs
    <3>2. CASE phase["worker"] = "idle"
      BY <1>13, <3>2 DEF UnloadAsk, FlagIsOurs
    <3> QED
      BY <3>1, <3>2
  <2> QED
    BY <2>1, <2>2, <2>3, <2>4 DEF GSafe
<1>14. ASSUME SwapCheck PROVE GTypeOK' /\ GSafe'
  <2>1. GTypeOK'
    BY <1>14 DEF SwapCheck, Call, GTypeOK, Renderers, Phases
  <2>2. MutexCovers'
    BY <1>14
    DEF SwapCheck, Call, GSafe, MutexCovers, Covered, GTypeOK, Renderers
  <2>3. WorkerRenders' /\ FlagIsOurs'
    BY <1>14
    DEF SwapCheck, Call, GSafe, WorkerRenders, FlagIsOurs, GTypeOK, Renderers
  <2> QED
    BY <2>1, <2>2, <2>3 DEF GSafe
<1>15. ASSUME SwapWeights PROVE GTypeOK' /\ GSafe'
  <2>1. GTypeOK'
    BY <1>15 DEF SwapWeights, GTypeOK, Renderers, Phases
  <2>2. MutexCovers'
    BY <1>15 DEF SwapWeights, GSafe, MutexCovers, Covered, GTypeOK, Renderers
  <2>3. WorkerRenders' /\ FlagIsOurs'
    BY <1>15
    DEF SwapWeights, GSafe, WorkerRenders, FlagIsOurs, GTypeOK, Renderers
  <2> QED
    BY <2>1, <2>2, <2>3 DEF GSafe
<1>16. ASSUME SwapRecord PROVE GTypeOK' /\ GSafe'
  <2>1. GTypeOK'
    BY <1>16 DEF SwapRecord, GTypeOK, Renderers, Phases
  <2>2. MutexCovers'
    BY <1>16 DEF SwapRecord, GSafe, MutexCovers, Covered, GTypeOK, Renderers
  <2>3. WorkerRenders' /\ FlagIsOurs'
    BY <1>16
    DEF SwapRecord, GSafe, WorkerRenders, FlagIsOurs, GTypeOK, Renderers
  <2> QED
    BY <2>1, <2>2, <2>3 DEF GSafe
<1> QED
  BY <1>1, <1>2, <1>3, <1>4, <1>5, <1>6, <1>7, <1>8, <1>9, <1>10, <1>11,
     <1>12, <1>13, <1>14, <1>15, <1>16, SyncRenderSafe
  DEF SyncThread, UnloadThread, SubmitAdmitted, Cancel

LEMMA GStepSafe ==
    TypeOK /\ Safe /\ TypeOK' /\ GTypeOK /\ GSafe /\ [GNext]_allVars
        => GTypeOK' /\ GSafe'
<1> SUFFICES ASSUME TypeOK, Safe, TypeOK', GTypeOK, GSafe, [GNext]_allVars
             PROVE  GTypeOK' /\ GSafe'
  OBVIOUS
<1>1. CASE GNext
  BY <1>1, WorkerSafe, CallsSafe DEF GNext
<1>2. CASE UNCHANGED allVars
  BY <1>2
  DEF allVars, vars, tableVars, workerVars, gpuVars, GTypeOK, GSafe,
      MutexCovers, WorkerRenders, FlagIsOurs
<1> QED
  BY <1>1, <1>2

LEMMA GAlwaysSafe == GSpec => [](TypeOK /\ Safe /\ GTypeOK /\ GSafe)
BY ServiceSafe, GInitSafe, GStepSafe, PTL DEF GSpec

(* Every variable keeps to its values, the ones of the job service too. *)
THEOREM GTypeCorrect == GSpec => []GTypeOK
BY GAlwaysSafe, PTL

(* An unload or a swap frees the weights only under sd_ctx_mutex, which a   *)
(* render has from its first segment to its last check point.               *)
THEOREM FreeIsSafe == GSpec => FreeSparesRender
<1>1. GSafe /\ [GNext]_allVars
        => [held /\ ~held' => \A a \in Renderers :
              phase[a] \notin {"sampling", "tail"}]_allVars
  <2> SUFFICES ASSUME GSafe, GNext, held, ~held', NEW a \in Renderers
               PROVE  phase[a] \notin {"sampling", "tail"}
    OBVIOUS
  <2>1. UnloadFree \/ SwapWeights
    BY
    DEF GNext, WorkerThread, SyncThread, UnloadThread, Render, TakeAndWait,
        Enter, BeginSegment, PassLastCheck, Abort, Fail, NextSegment,
        WorkerLeaves, WorkerGivesUp, GivesUp, EncodeEnds, SyncLeaves, SyncRecords,
        UnloadRecord, UnloadReopen, AdmitSync, Admit, SubmitAdmitted, Cancel,
        SetDraining, UnloadAsk, SwapCheck, SwapRecord, gpuVars
  <2>2. ctx = "nobody"
    BY <2>1 DEF UnloadFree, SwapWeights
  <2> QED
    BY <2>2 DEF GSafe, MutexCovers, Covered, Renderers
<1> QED
  BY <1>1, GAlwaysSafe, PTL DEF GSpec, FreeSparesRender

(* The one flag of the context stops a job only if that job was cancelled,  *)
(* by a client or by an unload.                                             *)
THEOREM StopsOwnJob == GSpec => OnlyCancelledJobsStop
<1>1. GSafe
        => [(flag = "all" /\ phase["worker"] = "sampling"
               /\ phase'["worker"] = "stopped")
              => current \in requested \cup victims]_allVars
  BY DEF GSafe, FlagIsOurs
<1> QED
  BY <1>1, GAlwaysSafe, PTL DEF GSpec, OnlyCancelledJobsStop
=============================================================================
