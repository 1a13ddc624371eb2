---------------------------- MODULE AvatarServer ----------------------------
(***************************************************************************)
(* The CUDA-free parent of avatar_server: its job table, its admission,    *)
(* the thread of each job and the one GPU worker that they lease, place    *)
(* and kill (tools/m1_ref/cpp_port/avatar_server.cpp, avatar_worker.hpp).  *)
(*                                                                         *)
(* A job is followed from its HTTP handler into its detached thread. A     *)
(* step ends where another thread or the worker can act: at the taking of  *)
(* Worker::mx_, at a wait, at each access to an atomic that is not made    *)
(* under a mutex, at each exchange with the worker process. The worker is  *)
(* reduced to what its answer makes of a job; AvatarEngine has its inside. *)
(*                                                                         *)
(* Abstractions: free VRAM is whatever the driver says, so a floor check   *)
(* may go either way; a port is the number of the process started on it;   *)
(* the spawner thread, which only forks for the holder of mx_, is part of  *)
(* the spawn; the child's in_flight is at most what is live here; a        *)
(* refused call that changes nothing is not a step; the clock is not kept,  *)
(* so idle_unload_seconds may have passed whenever no lease is held.       *)
(***************************************************************************)
EXTENDS Naturals, FiniteSets

CONSTANTS Jobs,         (* requests; each is sent at most once              *)
          Heavy,        (* those with needs_rig_vram                        *)
          Retargets,    (* those for /v1/animate                            *)
          Wants,        (* what the `gpu` field of each may be, NoCard for  *)
                        (* none                                             *)
          Cards,        (* LONGCAT_RIG_GPUS                                 *)
          DefaultCard,  (* WORKER_DEFAULT_GPU                               *)
          NoCard, Free,
          MaxPending,   (* max_pending                                      *)
          MaxRecords,   (* Manager::max_records                             *)
          MaxChild,     (* bound: processes forked                          *)
          AdminCalls,   (* what the admin calls                             *)
          IdleUnload,   (* idle_unload_seconds > 0                          *)
          ChildMayDie,  (* the worker may exit on its own                   *)
          KillMayFail   (* SIGKILL or waitpid may report an error           *)

ASSUME AvatarAssumption ==
    /\ Heavy \subseteq Jobs
    /\ Retargets \subseteq Jobs \ Heavy
    /\ DefaultCard \in Cards /\ NoCard \notin Cards
    /\ Wants \in [Jobs -> SUBSET (Cards \cup {NoCard})]
    /\ Free \notin Jobs
    /\ MaxPending \in Nat /\ MaxRecords \in Nat /\ MaxChild \in Nat
    /\ AdminCalls \subseteq {"drain", "load", "unload", "force"}
    /\ IdleUnload \in BOOLEAN /\ ChildMayDie \in BOOLEAN
    /\ KillMayFail \in BOOLEAN

VARIABLES
  pc,        (* where each job is, in its handler or in run_proxy           *)
  target,    (* the card resolve_gpu chose for it                           *)
  token,     (* jobs whose CancelToken is set                               *)
  serving,   (* the process a job's lease named                             *)
  outcome,   (* j->status once j->done, "none" before                       *)
  kept,      (* Manager::jobs, and Manager::order                           *)
  seat,      (* a job's place in Manager::order                             *)
  mutex,     (* the job that holds Worker::mx_ over several steps, or Free  *)
  pid,       (* pid_; 0 is pid_ <= 0                                        *)
  card,      (* worker_gpu_                                                 *)
  leases,    (* leases_                                                     *)
  alive,     (* worker processes that run                                   *)
  born,      (* worker processes forked so far                              *)
  draining,  (* State::draining                                             *)
  watch,     (* where the idle watchdog is                                  *)
  apc        (* where the admin call is                                     *)

jobVars == <<pc, target, token, serving, outcome, kept, seat>>
workerVars == <<mutex, pid, card, leases, alive, born>>
vars == <<jobVars, workerVars, draining, watch, apc>>

Ends == {"completed", "failed", "cancelled"}

(* Where run_proxy holds an avsup::Worker::Lease.                           *)
Leased == {"posting", "rendering", "answered"}

(* Where a request has no record yet, and may never have one.               *)
Submitting == {"new", "resolved", "floor", "admitted", "refused"}

Places == Leased \cup Submitting \cup
    {"queued", "recheck", "asking", "checked", "waiting", "woken", "late",
     "starting", "notifying", "done"}

Init ==
    /\ pc = [j \in Jobs |-> "new"]
    /\ target = [j \in Jobs |-> NoCard]
    /\ token = {}
    /\ serving = [j \in Jobs |-> 0]
    /\ outcome = [j \in Jobs |-> "none"]
    /\ kept = {}
    /\ seat = [j \in Jobs |-> 0]
    /\ mutex = Free
    /\ pid = 0 /\ card = NoCard
    /\ leases = 0
    /\ alive = {} /\ born = 0
    /\ draining = FALSE
    /\ watch = "sleeping"
    /\ apc = "idle"

-----------------------------------------------------------------------------
(* The job table.                                                           *)

(* Admitted and not done: what live_jobs() counts.                          *)
Live == {j \in kept : outcome[j] = "none"}

(* evict_locked: the oldest finished records go while the table is over     *)
(* its limit.                                                               *)
Evicted(records, ended) ==
    {j \in records \cap ended :
        Cardinality({k \in records \cap ended : seat[k] <= seat[j]})
            <= Cardinality(records) - MaxRecords}

(* finish: the verdict, and the eviction under the same lock.               *)
Finish(j, o, next) ==
    /\ outcome' = [outcome EXCEPT ![j] = o]
    /\ kept' = kept \ Evicted(kept, {k \in Jobs : outcome'[k] # "none"})
    /\ pc' = [pc EXCEPT ![j] = next]
    /\ UNCHANGED <<target, token, serving, seat>>

Goto(j, from, to) ==
    /\ pc[j] = from
    /\ pc' = [pc EXCEPT ![j] = to]

-----------------------------------------------------------------------------
(* The worker process.                                                      *)

Unlocked == mutex = Free

(* reap_locked, then pid_.                                                  *)
Resident == IF pid \in alive THEN pid ELSE 0

(* clear_locked *)
Clear == pid' = 0 /\ card' = NoCard

(* kill_locked, when it returns true: nothing of ours is left.              *)
KillSucceeds ==
    /\ Clear
    /\ alive' = alive \ {pid}

(* Slip: the worker is forgotten before it is known to be dead. *)
BugKillFails ==
    /\ KillMayFail /\ Resident # 0
    /\ Clear /\ UNCHANGED alive

(* kill_locked, when the kill or the wait fails.                            *)
KillFails ==
    /\ KillMayFail /\ Resident # 0
    /\ UNCHANGED <<pid, card, alive>>

(* The child exits, crashes or is killed from outside.                      *)
ChildDies ==
    /\ ChildMayDie
    /\ \E n \in alive : alive' = alive \ {n}
    /\ UNCHANGED <<jobVars, mutex, pid, card, leases, born, draining,
                   watch, apc>>

(* Worker::poll, by the watchdog.                                           *)
Reap ==
    /\ Unlocked /\ pid # 0 /\ pid \notin alive
    /\ Clear
    /\ UNCHANGED <<jobVars, mutex, leases, alive, born, draining,
                   watch, apc>>

-----------------------------------------------------------------------------
(* The submit handler.                                                      *)

(* resolve_gpu. A light job takes the card of the worker that is up; a      *)
(* heavy one that names none takes whichever card has room.                 *)
Resolve(j) ==
    /\ Goto(j, "new", "resolved")
    /\ \E c \in Cards, w \in Wants[j] :
         /\ \/ w = c
            \/ w = NoCard /\ j \in Heavy
            \/ w = NoCard /\ j \notin Heavy
                 /\ c = IF pid # 0 THEN card ELSE DefaultCard
         /\ target' = [target EXCEPT ![j] = c]
    /\ UNCHANGED <<token, serving, outcome, kept, seat, workerVars,
                   draining, watch, apc>>

(* max_pending *)
Full == Cardinality(Live) >= MaxPending

(* admit: the drain test, the limit on what is pending and, when nothing    *)
(* of ours is pending, the VRAM floor. Nothing is reserved.                 *)
Admit(j) ==
    /\ \/ Goto(j, "resolved", "refused") /\ (draining \/ Full)
       \/ Goto(j, "resolved", "floor") /\ ~draining /\ ~Full
            /\ j \in Heavy /\ Live = {}
       \/ Goto(j, "resolved", "admitted") /\ ~draining /\ ~Full
            /\ ~(j \in Heavy /\ Live = {})
    /\ UNCHANGED <<target, token, serving, outcome, kept, seat,
                   workerVars, draining, watch, apc>>

(* submit: the record, and the job's thread.                                *)
Enqueue(j) ==
    /\ Goto(j, "admitted", "queued")
    /\ kept' = kept \cup {j}
    /\ seat' = [seat EXCEPT ![j] = Cardinality({k \in Jobs : seat[k] > 0}) + 1]
    /\ UNCHANGED <<target, token, serving, outcome, workerVars,
                   draining, watch, apc>>

(* A client cancels its job, or closes the connection it waits on.          *)
Cancel(j) ==
    /\ j \in Live \ token
    /\ token' = token \cup {j}
    /\ UNCHANGED <<pc, target, serving, outcome, kept, seat,
                   workerVars, draining, watch, apc>>

(* run_proxy up to its floor check.                                         *)
Begin(j) ==
    /\ pc[j] = "queued"
    /\ \/ j \in token /\ Finish(j, "cancelled", "done")
       \/ /\ j \notin token
          /\ pc' = [pc EXCEPT ![j] =
                IF j \in Heavy /\ leases = 0 THEN "recheck" ELSE "asking"]
          /\ UNCHANGED <<target, token, serving, outcome, kept, seat>>
    /\ UNCHANGED <<workerVars, draining, watch, apc>>

-----------------------------------------------------------------------------
(* vram_ok, from admit and from run_proxy.                                  *)

FloorPassed(j) ==
    /\ pc' = [pc EXCEPT ![j] = IF pc[j] = "floor" THEN "admitted" ELSE "asking"]
    /\ UNCHANGED <<target, token, serving, outcome, kept, seat>>

FloorMissed(j) ==
    \/ /\ Goto(j, "floor", "refused")
       /\ UNCHANGED <<target, token, serving, outcome, kept, seat>>
    \/ /\ pc[j] = "recheck"
       /\ Finish(j, "failed", "done")

FloorFits(j) ==
    /\ pc[j] \in {"floor", "recheck"}
    /\ FloorPassed(j)
    /\ UNCHANGED <<workerVars, draining, watch, apc>>

(* The guard of kill_if_idle.                                               *)
Reclaimable == Resident # 0 /\ leases = 0

(* The card is short and kill_if_idle kills the idle worker: read again.    *)
FloorReclaims(j) ==
    /\ pc[j] \in {"floor", "recheck"}
    /\ Unlocked /\ Reclaimable
    /\ KillSucceeds
    /\ FloorPassed(j) \/ FloorMissed(j)
    /\ UNCHANGED <<mutex, leases, born, draining, watch, apc>>

(* The card is short and nothing of ours was killed.                        *)
FloorRefuses(j) ==
    /\ pc[j] \in {"floor", "recheck"}
    /\ Unlocked
    /\ \/ ~Reclaimable /\ pid' = Resident
            /\ card' = (IF Resident = pid THEN card ELSE NoCard)
            /\ UNCHANGED alive
       \/ Reclaimable /\ KillFails
    /\ FloorMissed(j)
    /\ UNCHANGED <<mutex, leases, born, draining, watch, apc>>

-----------------------------------------------------------------------------
(* Worker::lease and ensure_locked.                                         *)

(* Slip: a lease on the wrong card does not count. *)
BugMayPlace(j) == TRUE

(* The predicate a relocation waits for.                                    *)
MayPlace(j) == pid = 0 \/ card = target[j] \/ leases = 0

(* The threads that want mx_ for this job's lease.                          *)
Asking == {"asking", "woken", "late"}

(* Slip: any live worker will do. *)
BugFitsRequest(j) == Resident # 0

(* The reuse check: alive, and on the same card.                            *)
FitsRequest(j) == Resident # 0 /\ card = target[j]

(* Slip: the lease is handed out without being counted. *)
BugLease(j) ==
    /\ pc' = [pc EXCEPT ![j] = "posting"]
    /\ serving' = [serving EXCEPT ![j] = pid]
    /\ UNCHANGED <<target, token, outcome, kept, seat, leases>>

(* The Lease object, made under mx_.                                        *)
Lease(j) ==
    /\ pc' = [pc EXCEPT ![j] = "posting"]
    /\ serving' = [serving EXCEPT ![j] = pid]
    /\ leases' = leases + 1
    /\ UNCHANGED <<target, token, outcome, kept, seat>>

LeaseReuses(j) ==
    /\ pc[j] \in Asking /\ Unlocked
    /\ MayPlace(j) /\ FitsRequest(j)
    /\ Lease(j)
    /\ UNCHANGED <<mutex, pid, card, alive, born, draining, watch, apc>>

(* No worker, or one on another card without leases, which is killed: the   *)
(* fork, on the spawner thread, and the publication of the new pid.         *)
LeaseSpawns(j) ==
    /\ pc[j] \in Asking /\ Unlocked
    /\ MayPlace(j) /\ ~FitsRequest(j)
    /\ born < MaxChild
    /\ born' = born + 1
    /\ alive' = (alive \ {pid}) \cup {born + 1}
    /\ pid' = born + 1 /\ card' = target[j]
    /\ mutex' = j
    /\ pc' = [pc EXCEPT ![j] = "starting"]
    /\ UNCHANGED <<target, token, serving, outcome, kept, seat,
                   leases, draining, watch, apc>>

(* The relocation cannot kill, or there is no port or no process to be had. *)
LeaseFails(j) ==
    /\ pc[j] \in Asking /\ Unlocked
    /\ MayPlace(j) /\ ~FitsRequest(j)
    /\ KillSucceeds \/ KillFails
    /\ Finish(j, "failed", "done")
    /\ UNCHANGED <<mutex, leases, born, draining, watch, apc>>

(* The predicate is false: a step in which mx_ is still held ...            *)
LeaseChecks(j) ==
    /\ pc[j] \in {"asking", "woken"} /\ Unlocked
    /\ ~MayPlace(j)
    /\ pc' = [pc EXCEPT ![j] = "checked"]
    /\ mutex' = j
    /\ UNCHANGED <<target, token, serving, outcome, kept, seat, pid,
                   card, leases, alive, born, draining, watch, apc>>

(* ... and one in which the thread begins to wait and lets go of it.        *)
LeaseWaits(j) ==
    /\ Goto(j, "checked", "waiting")
    /\ mutex' = Free
    /\ UNCHANGED <<target, token, serving, outcome, kept, seat, pid,
                   card, leases, alive, born, draining, watch, apc>>

(* Slip: wait, without a time limit. *)
BugLeaseTimesOut(j) == FALSE

(* The 7200 s of the wait are over: the predicate is asked once more.       *)
LeaseTimesOut(j) ==
    /\ Goto(j, "waiting", "late")
    /\ UNCHANGED <<target, token, serving, outcome, kept, seat,
                   workerVars, draining, watch, apc>>

LeaseGivesUp(j) ==
    /\ pc[j] = "late" /\ Unlocked
    /\ ~MayPlace(j)
    /\ Finish(j, "failed", "done")
    /\ UNCHANGED <<workerVars, draining, watch, apc>>

(* wait_until_ready_locked: /health answers.                                *)
StartupReady(j) ==
    /\ pc[j] = "starting" /\ pid \in alive
    /\ Lease(j)
    /\ mutex' = Free
    /\ UNCHANGED <<pid, card, alive, born, draining, watch, apc>>

(* It exits: pid_ goes, worker_gpu_ stays. Or it does not answer within     *)
(* 120 s and is killed.                                                     *)
StartupFails(j) ==
    /\ pc[j] = "starting"
    /\ \/ pid \notin alive /\ pid' = 0 /\ UNCHANGED <<card, alive>>
       \/ pid \in alive /\ (KillSucceeds \/ KillFails)
    /\ mutex' = Free
    /\ Finish(j, "failed", "done")
    /\ UNCHANGED <<leases, born, draining, watch, apc>>

-----------------------------------------------------------------------------
(* The exchange with the worker.                                            *)

(* The child adopts the job: from here a relayed cancel finds it.           *)
ChildTakes(j) ==
    /\ Goto(j, "posting", "rendering")
    /\ serving[j] \in alive
    /\ UNCHANGED <<target, token, serving, outcome, kept, seat,
                   workerVars, draining, watch, apc>>

(* A worker that was killed under a cancelled job has cancelled it.         *)
BrokenVerdict(j) == IF j \in token THEN "cancelled" ELSE "failed"

(* Slip: the token that is armed in the worker is anybody's. *)
BugChildCancels(j) == token # {}

(* The worker calls a job cancelled on its own token, which the canceller   *)
(* thread relays until the worker has it, or, as it retargets beside the    *)
(* job on the card, on that one's; which of the cancelled jobs has the card *)
(* is not followed.                                                         *)
ChildCancels(j) ==
    \/ j \in token
    \/ j \in Retargets /\ \E k \in token \ Retargets :
           pc[k] \in {"rendering", "answered", "notifying", "done"}

(* The answer, and finish() while the lease is still held. A 499 is relayed *)
(* without a look at the job's token.                                       *)
Answer(j) ==
    /\ \/ /\ pc[j] = "rendering" /\ serving[j] \in alive
          /\ \/ \E o \in {"completed", "failed"} : Finish(j, o, "answered")
             \/ ChildCancels(j) /\ Finish(j, "cancelled", "answered")
       \/ /\ pc[j] \in {"posting", "rendering"} /\ serving[j] \notin alive
          /\ Finish(j, BrokenVerdict(j), "answered")
    /\ UNCHANGED <<workerVars, draining, watch, apc>>

(* release_lease, without mx_: the clock and the count, then the notify.    *)
DropLease(j) ==
    /\ Goto(j, "answered", "notifying")
    /\ leases' = leases - 1
    /\ serving' = [serving EXCEPT ![j] = 0]
    /\ UNCHANGED <<target, token, outcome, kept, seat, mutex,
                   pid, card, alive, born, draining, watch, apc>>

NotifyAll(j) ==
    /\ pc[j] = "notifying"
    /\ pc' = [k \in Jobs |-> CASE k = j -> "done"
                               [] pc[k] = "waiting" -> "woken"
                               [] OTHER -> pc[k]]
    /\ UNCHANGED <<target, token, serving, outcome, kept, seat,
                   workerVars, draining, watch, apc>>

-----------------------------------------------------------------------------
(* The idle watchdog, and the admin calls.                                  *)

(* Its reads of the worker's atomics ...                                    *)
WatchLooks ==
    /\ IdleUnload /\ watch = "sleeping"
    /\ pid # 0 /\ leases = 0
    /\ watch' = "counting"
    /\ UNCHANGED <<jobVars, workerVars, draining, apc>>

(* ... its look at the job table ...                                        *)
WatchCounts ==
    /\ watch = "counting"
    /\ watch' = IF Live = {} THEN "killing" ELSE "sleeping"
    /\ UNCHANGED <<jobVars, workerVars, draining, apc>>

(* ... and kill_worker, which asks nothing again.                           *)
WatchKills ==
    /\ watch = "killing" /\ Unlocked
    /\ KillSucceeds \/ KillFails
    /\ watch' = "sleeping"
    /\ UNCHANGED <<jobVars, mutex, leases, born, draining, apc>>

Drain ==
    /\ "drain" \in AdminCalls
    /\ ~draining /\ draining' = TRUE
    /\ UNCHANGED <<jobVars, workerVars, watch, apc>>

Load ==
    /\ "load" \in AdminCalls
    /\ draining /\ draining' = FALSE
    /\ UNCHANGED <<jobVars, workerVars, watch, apc>>

(* /v1/admin/unload: 409 unless nothing is live; with force=true it cancels *)
(* what is, and waits up to 7 s for the leases.                             *)
Unload ==
    /\ apc = "idle"
    /\ \/ "unload" \in AdminCalls /\ Live = {}
            /\ apc' = "killing" /\ UNCHANGED token
       \/ "force" \in AdminCalls
            /\ token' = token \cup Live /\ apc' = "killing"
    /\ UNCHANGED <<pc, target, serving, outcome, kept, seat,
                   workerVars, draining, watch>>

(* The kill; the service reopens, whatever it came to, and answers.         *)
UnloadKills ==
    /\ apc = "killing" /\ Unlocked
    /\ KillSucceeds \/ KillFails
    /\ draining' = FALSE
    /\ apc' = "idle"
    /\ UNCHANGED <<jobVars, mutex, leases, born, watch>>

-----------------------------------------------------------------------------
JobStep(j) ==
    \/ Resolve(j) \/ Admit(j) \/ Enqueue(j) \/ Begin(j)
    \/ FloorFits(j) \/ FloorReclaims(j) \/ FloorRefuses(j)
    \/ LeaseReuses(j) \/ LeaseSpawns(j) \/ LeaseFails(j)
    \/ LeaseChecks(j) \/ LeaseWaits(j) \/ LeaseTimesOut(j) \/ LeaseGivesUp(j)
    \/ StartupReady(j) \/ StartupFails(j)
    \/ ChildTakes(j) \/ Answer(j)
    \/ DropLease(j) \/ NotifyAll(j)

WatchStep == WatchLooks \/ WatchCounts \/ WatchKills

Next ==
    \/ \E j \in Jobs : JobStep(j) \/ Cancel(j)
    \/ WatchStep \/ UnloadKills \/ Drain \/ Load \/ Unload
    \/ ChildDies \/ Reap

Spec == Init /\ [][Next]_vars

(* A thread goes on; a start, a render and a wait for a lease have the time *)
(* limits that the code gives them. Nobody is obliged to send, to cancel or *)
(* to call, and no worker to die.                                           *)
Fairness ==
    /\ \A j \in Jobs : WF_vars(pc[j] # "new" /\ JobStep(j))
    /\ WF_vars(WatchStep)
    /\ WF_vars(UnloadKills)
    /\ WF_vars(Reap)

LiveSpec == Spec /\ Fairness

-----------------------------------------------------------------------------
TypeOK ==
    /\ pc \in [Jobs -> Places]
    /\ target \in [Jobs -> Cards \cup {NoCard}]
    /\ token \subseteq Jobs
    /\ serving \in [Jobs -> Nat]
    /\ outcome \in [Jobs -> Ends \cup {"none"}]
    /\ kept \subseteq Jobs
    /\ seat \in [Jobs -> Nat]
    /\ mutex \in Jobs \cup {Free}
    /\ pid \in Nat
    /\ card \in Cards \cup {NoCard}
    /\ leases \in Nat
    /\ alive \subseteq Nat
    /\ born \in Nat
    /\ draining \in BOOLEAN
    /\ watch \in {"sleeping", "counting", "killing"}
    /\ apc \in {"idle", "killing"}

(* There is never a second GPU process: pid_ names the only one that can    *)
(* live, through relocations, failed starts, kills that fail and crashes.   *)
OneWorker == alive \subseteq {pid}

(* leases_, which is counted under mx_ and discounted without it, is the    *)
(* number of jobs that hold a worker: a lease that leaks makes a relocation *)
(* impossible for good, one too few lets it kill a render.                  *)
LeasesAreExact == leases = Cardinality({j \in Jobs : pc[j] \in Leased})

(* A job renders on the card that was chosen for it and nowhere else, for   *)
(* as long as its worker lives (the reuse check of ensure_locked, and the   *)
(* wait of lease() for the other card's renders).                           *)
PlacedAsChosen ==
    \A j \in Jobs : pc[j] \in {"posting", "rendering"} /\ serving[j] \in alive =>
        pid = serving[j] /\ card = target[j]

(* A step that kills the worker under a lease is the watchdog's or an       *)
(* unload's: neither a relocation, nor the reclaim of a floor check, nor a  *)
(* start that fails takes a worker from a job.                              *)
ReclaimSparesLeases ==
    [][\A j \in Jobs :
         /\ pc[j] \in Leased /\ serving[j] \in alive
         /\ serving[j] \notin alive' /\ pid' # pid
         => watch = "killing" \/ apc = "killing"]_vars

(* What a client sees of a job: nothing is promised before it has a record. *)
Seen ==
    [j \in Jobs |-> CASE outcome[j] # "none"  -> outcome[j]
                      [] pc[j] \in Submitting -> "none"
                      [] OTHER                -> "live"]

Contract == INSTANCE JobVerdict WITH
    state <- Seen,
    retargets <- {j \in Retargets : pc[j] \notin Submitting},
    asked <- token

(* Whoever kills the worker, cancels or unloads: a job gets one verdict,    *)
(* which stands, and a job that nobody cancelled is not called cancelled    *)
(* because its worker was killed, or another job was cancelled, under it.   *)
(* Only a retarget can be. AvatarEngine keeps the same contract, so that    *)
(* the relay of the worker's verdict (run_proxy) breaks no promise.         *)
KeepsContract == Contract!Spec

(* Every accepted job ends, whatever it waits for and whoever kills its     *)
(* worker; with the lease's time limit that includes a lost notify.         *)
EveryJobEnds == \A j \in Jobs : pc[j] = "queued" ~> pc[j] = "done"

(* "Nothing kills a worker with an outstanding lease - not idle-unload, not *)
(* the demand-driven reclaim, not a plain /v1/admin/unload"                 *)
(* (avatar_worker.hpp:208-210).                                             *)
LeasedWorkerLives ==
    [][\A j \in Jobs : pc[j] \in {"posting", "rendering"} /\ serving[j] \in alive
         => serving[j] \in alive']_vars
=============================================================================
