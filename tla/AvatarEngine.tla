----------------------------- MODULE AvatarEngine ---------------------------
(***************************************************************************)
(* The process that owns the CUDA context: avatar::Engine, its Session     *)
(* (one request on the card, the rest in a FIFO, then the flock that the   *)
(* shell drivers also take), the cancellation hook and the resident motion *)
(* weights (avatar_pipeline.cpp, cancel_hook.hpp, hymotion_engine.hpp),    *)
(* with the job bodies that drive it in this process (avatar_server.cpp,   *)
(* run_rig, run_motion, run_animate, run_render).                          *)
(*                                                                         *)
(* An actor is a job's thread, the idle watchdog or a /v1/admin/unload in  *)
(* single-process mode. A step ends at a lock, at a wait, at each access   *)
(* to an atomic that another thread reads, and where a stage polls the     *)
(* cancellation hook. What the stages compute is left out; that they may   *)
(* fail is not. Nested Sessions change a counter that only the owner's     *)
(* thread reads, and are no steps.                                         *)
(***************************************************************************)
EXTENDS Naturals, Sequences, SequencesExt, FiniteSets

CONSTANTS Jobs,
          Routes,       (* what clients ask for                             *)
          Tiers,        (* how many tiers a ladder asks for                 *)
          Nobody,
          KeepResident, (* keep_motion_resident                             *)
          AdminCalls    (* what the admin calls                             *)

ASSUME EngineAssumption ==
    /\ Routes \subseteq {"motion", "rig", "render", "animate"}
    /\ Nobody \notin Jobs /\ "watchdog" \notin Jobs /\ "admin" \notin Jobs
    /\ "driver" \notin Jobs
    /\ Nobody \notin {"watchdog", "admin", "driver"}
    /\ Tiers \in Nat \ {0}
    /\ KeepResident \in BOOLEAN
    /\ AdminCalls \subseteq {"drain", "load", "unload", "force"}

VARIABLES
  pc,        (* where each actor is                                         *)
  kind,      (* the route of each job, "none" before it is sent             *)
  token,     (* jobs whose CancelToken is set                               *)
  outcome,   (* j->status once j->done, "none" before                       *)
  built,     (* tiers that a job's ladder has delivered                     *)
  waiters,   (* Impl::waiters, the actor in place of its ticket             *)
  owner,     (* card_busy and card_owner                                    *)
  hook,      (* cancelhook::slot: whose token is armed                      *)
  flock,     (* who holds the GPU lock file; "driver" is another process    *)
  dit,       (* HYMotion::Engine::dit_buf_ and what is in it                *)
  loaded,    (* motion_loaded                                               *)
  draining   (* Impl::draining                                              *)

jobVars == <<kind, token, outcome, built>>
cardVars == <<waiters, owner, flock>>
motionVars == <<dit, loaded>>
vars == <<pc, jobVars, cardVars, hook, motionVars, draining>>

Actors == Jobs \cup {"watchdog", "admin"}

(* From the card's queue to its release.                                    *)
Holding == {"arming", "locking", "blocked", "inside", "encoding", "loading",
            "solving", "tier", "rigging", "baking", "leaving", "unlocking",
            "releasing"}

(* Session::ok(): the code behind it touches the GPU.                       *)
Inside == {"inside", "encoding", "loading", "solving", "tier", "rigging",
           "baking"}

Places == Holding \cup {"new", "submitted", "queued", "trying", "retargeting",
                        "again", "done"}

Init ==
    /\ pc = [a \in Actors |-> "new"]
    /\ kind = [j \in Jobs |-> "none"]
    /\ token = {}
    /\ outcome = [j \in Jobs |-> "none"]
    /\ built = [j \in Jobs |-> 0]
    /\ waiters = <<>>
    /\ owner = Nobody /\ hook = Nobody /\ flock = Nobody
    /\ dit = "none" /\ loaded = FALSE
    /\ draining = FALSE

Goto(a, from, to) ==
    /\ pc[a] = from
    /\ pc' = [pc EXCEPT ![a] = to]

(* finish(), in the body of a job; its Session is left right after.         *)
Finish(j, o, next) ==
    /\ outcome' = [outcome EXCEPT ![j] = o]
    /\ pc' = [pc EXCEPT ![j] = next]

-----------------------------------------------------------------------------
(* Requests.                                                                *)

(* A job that admit() lets in.                                              *)
Submit(j) ==
    /\ Goto(j, "new", "submitted")
    /\ ~draining
    /\ \E r \in Routes : kind' = [kind EXCEPT ![j] = r]
    /\ UNCHANGED <<token, outcome, built, cardVars, hook, motionVars, draining>>

Cancel(j) ==
    /\ pc[j] # "new" /\ outcome[j] = "none" /\ j \notin token
    /\ token' = token \cup {j}
    /\ UNCHANGED <<pc, kind, outcome, built, cardVars, hook, motionVars, draining>>

-----------------------------------------------------------------------------
(* Session, its constructor.                                                *)

CardIsFree == owner = Nobody

(* The queue lets a job in unless it drains.                                *)
Enter(j) ==
    /\ pc[j] = "submitted" /\ kind[j] # "animate"
    /\ \/ draining /\ Finish(j, "failed", "done") /\ UNCHANGED waiters
       \/ ~draining /\ pc' = [pc EXCEPT ![j] = "queued"]
            /\ waiters' = Append(waiters, j) /\ UNCHANGED outcome
    /\ UNCHANGED <<kind, token, built, owner, flock, hook, motionVars, draining>>

(* Its ticket is the first of those that wait.                              *)
Mine(j) == waiters # <<>> /\ Head(waiters) = j

(* Its turn, tested before the cancel and the drain.                        *)
TakeCard(j) ==
    /\ Goto(j, "queued", "arming")
    /\ Mine(j) /\ CardIsFree
    /\ waiters' = Tail(waiters)
    /\ owner' = j
    /\ UNCHANGED <<jobVars, hook, flock, motionVars, draining>>

(* Slip: its ticket stays in the queue. *)
BugLeaveQueue(j) ==
    /\ pc[j] = "queued"
    /\ ~(Mine(j) /\ CardIsFree)
    /\ \/ j \in token /\ Finish(j, "cancelled", "done")
       \/ j \notin token /\ draining /\ Finish(j, "failed", "done")
    /\ UNCHANGED <<kind, token, built, cardVars, hook, motionVars, draining>>

(* 499 or 503: it leaves the queue without the card.                        *)
LeaveQueue(j) ==
    /\ pc[j] = "queued"
    /\ ~(Mine(j) /\ CardIsFree)
    /\ \/ j \in token /\ Finish(j, "cancelled", "done")
       \/ j \notin token /\ draining /\ Finish(j, "failed", "done")
    /\ \E i \in DOMAIN waiters :
         waiters[i] = j /\ waiters' = RemoveAt(waiters, i)
    /\ UNCHANGED <<kind, token, built, owner, flock, hook, motionVars, draining>>

(* try_session: the card at once or not at all.                             *)
TryCard(a) ==
    /\ pc[a] = "trying"
    /\ IF ~draining /\ waiters = <<>> /\ CardIsFree
         THEN owner' = a /\ pc' = [pc EXCEPT ![a] = "arming"]
         ELSE pc' = [pc EXCEPT ![a] = "new"] /\ UNCHANGED owner
    /\ UNCHANGED <<jobVars, waiters, hook, flock, motionVars, draining>>

(* Only then the hook ...                                                   *)
Arm(a) ==
    /\ Goto(a, "arming", "locking")
    /\ hook' = IF a \in Jobs THEN a ELSE Nobody
    /\ UNCHANGED <<jobVars, cardVars, motionVars, draining>>

(* ... and the flock, tried every 500 ms ...                                *)
TryLock(a) ==
    /\ pc[a] = "locking"
    /\ \/ flock = Nobody /\ flock' = a /\ pc' = [pc EXCEPT ![a] = "inside"]
       \/ flock # Nobody /\ pc' = [pc EXCEPT ![a] = "blocked"] /\ UNCHANGED flock
    /\ UNCHANGED <<jobVars, waiters, owner, hook, motionVars, draining>>

(* Slip: a timeout reads as a cancel. *)
BugLockVerdict(j) == "cancelled"

(* 499 or 504 *)
LockVerdict(j) == IF j \in token THEN "cancelled" ELSE "failed"

(* ... until it is cancelled, or gpu_lock_timeout_s has passed.             *)
GiveUp(a) ==
    /\ pc[a] = "blocked"
    /\ IF a \in Jobs
         THEN Finish(a, LockVerdict(a), "leaving")
         ELSE pc' = [pc EXCEPT ![a] = "leaving"] /\ UNCHANGED outcome
    /\ UNCHANGED <<kind, token, built, cardVars, hook, motionVars, draining>>

TryAgain(a) ==
    /\ Goto(a, "blocked", "locking")
    /\ a \notin token
    /\ UNCHANGED <<jobVars, cardVars, hook, motionVars, draining>>

-----------------------------------------------------------------------------
(* Session, its destructor: the hook, then the flock, then the card.        *)

(* Slip: the token stays armed. *)
BugDisarm(a) ==
    /\ Goto(a, "leaving", "unlocking")
    /\ UNCHANGED <<jobVars, cardVars, hook, motionVars, draining>>

Disarm(a) ==
    /\ Goto(a, "leaving", "unlocking")
    /\ hook' = Nobody
    /\ UNCHANGED <<jobVars, cardVars, motionVars, draining>>

Unlock(a) ==
    /\ Goto(a, "unlocking", "releasing")
    /\ flock' = IF flock = a THEN Nobody ELSE flock
    /\ UNCHANGED <<jobVars, waiters, owner, hook, motionVars, draining>>

Release(a) ==
    /\ Goto(a, "releasing", IF a \in Jobs THEN "done" ELSE "new")
    /\ owner' = Nobody
    /\ UNCHANGED <<jobVars, waiters, flock, hook, motionVars, draining>>

(* Another process takes the lock file, and gives it back.                  *)
DriverLocks ==
    /\ flock = Nobody /\ flock' = "driver"
    /\ UNCHANGED <<pc, jobVars, waiters, owner, hook, motionVars, draining>>

DriverUnlocks ==
    /\ flock = "driver" /\ flock' = Nobody
    /\ UNCHANGED <<pc, jobVars, waiters, owner, hook, motionVars, draining>>

-----------------------------------------------------------------------------
(* The stages, inside a Session.                                            *)

(* cancelhook::cancelled: the token that is armed, whoever asks.            *)
HookCancelled == hook \in token

(* release_gpu, and motion->unload().                                       *)
ReleaseGpu == dit' = "none" /\ loaded' = FALSE

(* run_rig gives the weights back before it looks at the VRAM floor,        *)
(* run_render looks before its motion, run_motion does neither.             *)
Begin(j) ==
    /\ pc[j] = "inside" /\ j \in Jobs
    /\ IF kind[j] = "rig" THEN ReleaseGpu ELSE UNCHANGED motionVars
    /\ \/ Goto(j, "inside", IF kind[j] = "rig" THEN "tier" ELSE "encoding")
            /\ UNCHANGED outcome
       \/ kind[j] # "motion" /\ Finish(j, "failed", "leaving")
    /\ UNCHANGED <<kind, token, built, cardVars, hook, draining>>

(* HYMotion::Engine::generate: the text encoders, which may fail ...        *)
Encode(j) ==
    /\ pc[j] = "encoding"
    /\ \/ HookCancelled /\ Finish(j, "cancelled", "leaving") /\ ReleaseGpu
       \/ ~HookCancelled /\ UNCHANGED motionVars
            /\ \/ Goto(j, "encoding", "loading") /\ UNCHANGED outcome
               \/ Finish(j, "failed", "leaving")
    /\ UNCHANGED <<kind, token, built, cardVars, hook, draining>>

(* ... load(), unless dit_buf_ is there; when the tensors cannot be read    *)
(* the buffer stays ...                                                     *)
Load(j) ==
    /\ pc[j] = "loading"
    /\ \/ HookCancelled /\ Finish(j, "cancelled", "leaving") /\ ReleaseGpu
       \/ /\ ~HookCancelled /\ UNCHANGED loaded
          /\ \/ /\ Goto(j, "loading", "solving") /\ UNCHANGED outcome
                /\ dit' = IF dit = "none" THEN "weights" ELSE dit
             \/ /\ dit = "none" /\ Finish(j, "failed", "leaving")
                /\ dit' \in {"none", "torn"}
    /\ UNCHANGED <<kind, token, built, cardVars, hook, draining>>

(* ... and the solver, which polls at each step. It fails, or the clip it   *)
(* made cannot be written, after the weights are recorded and then stay.    *)
Solve(j) ==
    /\ pc[j] = "solving"
    /\ \/ HookCancelled /\ Finish(j, "cancelled", "leaving") /\ ReleaseGpu
       \/ Finish(j, "failed", "leaving") /\ UNCHANGED dit /\ loaded' \in {loaded, TRUE}
       \/ kind[j] = "motion" /\ Finish(j, "completed", "leaving")
            /\ IF KeepResident THEN loaded' = TRUE /\ UNCHANGED dit ELSE ReleaseGpu
       \/ kind[j] = "render" /\ Goto(j, "solving", "tier") /\ UNCHANGED outcome
            /\ ReleaseGpu
    /\ UNCHANGED <<kind, token, built, cardVars, hook, draining>>

(* The end of a ladder that delivered: a rig is done, a render is baked.    *)
Delivered(j) ==
    IF kind[j] = "rig" THEN Finish(j, "completed", "leaving")
                       ELSE Goto(j, pc[j], "baking") /\ UNCHANGED outcome

LastTier(j) == built[j] + 1 = Tiers

(* build_ladder asks the job's own token between the tiers ...              *)
NextTier(j) ==
    /\ pc[j] = "tier"
    /\ IF j \in token THEN Finish(j, "cancelled", "leaving")
                      ELSE Goto(j, "tier", "rigging") /\ UNCHANGED outcome
    /\ UNCHANGED <<kind, token, built, cardVars, hook, motionVars, draining>>

(* ... and the stage the hook within one. What is built is delivered, also  *)
(* when a later tier is cancelled or fails.                                 *)
BuildRig(j) ==
    /\ pc[j] = "rigging"
    /\ \/ /\ built' = [built EXCEPT ![j] = @ + 1]
          /\ IF LastTier(j)
               THEN Delivered(j)
               ELSE Goto(j, "rigging", "tier") /\ UNCHANGED outcome
       \/ /\ UNCHANGED built
          /\ IF built[j] > 0 THEN Delivered(j)
             ELSE \E o \in {"failed"} \cup IF HookCancelled THEN {"cancelled"} ELSE {} :
                    Finish(j, o, "leaving")
    /\ UNCHANGED <<kind, token, cardVars, hook, motionVars, draining>>

(* animate, inside a render ...                                             *)
Bake(j) ==
    /\ pc[j] = "baking"
    /\ \E o \in {"completed", "failed"} \cup IF HookCancelled THEN {"cancelled"} ELSE {} :
         Finish(j, o, "leaving")
    /\ UNCHANGED <<kind, token, built, cardVars, hook, motionVars, draining>>

(* ... and on its own, without a Session, where the hook is whoever's: once *)
(* more if it was not ours.                                                 *)
Retarget(j) ==
    /\ \/ pc[j] = "submitted" /\ kind[j] = "animate"
       \/ pc[j] = "again"
    /\ \/ \E o \in {"completed", "failed"} : Finish(j, o, "done")
       \/ HookCancelled /\ pc[j] = "submitted" /\ j \notin token
            /\ pc' = [pc EXCEPT ![j] = "again"] /\ UNCHANGED outcome
       \/ HookCancelled /\ (pc[j] = "again" \/ j \in token)
            /\ Finish(j, "cancelled", "done")
    /\ UNCHANGED <<kind, token, built, cardVars, hook, motionVars, draining>>

-----------------------------------------------------------------------------
(* The idle watchdog, and the admin calls.                                  *)

WatchdogTries ==
    /\ pc["watchdog"] = "new" /\ loaded
    /\ pc' = [pc EXCEPT !["watchdog"] = "trying"]
    /\ UNCHANGED <<jobVars, cardVars, hook, motionVars, draining>>

(* Slip: it does not wait for the card. *)
BugWatchdogUnloads ==
    /\ Goto("watchdog", "trying", "new")
    /\ ReleaseGpu
    /\ UNCHANGED <<jobVars, cardVars, hook, draining>>

WatchdogUnloads ==
    /\ Goto("watchdog", "inside", "leaving")
    /\ ReleaseGpu
    /\ UNCHANGED <<jobVars, cardVars, hook, draining>>

(* health().in_flight *)
InFlight == owner # Nobody \/ waiters # <<>>

AdminUnloads ==
    /\ pc["admin"] = "new"
    /\ \/ "unload" \in AdminCalls /\ ~InFlight /\ UNCHANGED token
       \/ "force" \in AdminCalls
            /\ token' = token \cup {j \in Jobs : pc[j] # "new" /\ outcome[j] = "none"}
    /\ pc' = [pc EXCEPT !["admin"] = "trying"]
    /\ UNCHANGED <<kind, outcome, built, cardVars, hook, motionVars, draining>>

AdminReleases ==
    /\ Goto("admin", "inside", "leaving")
    /\ ReleaseGpu
    /\ draining' = FALSE
    /\ UNCHANGED <<jobVars, cardVars, hook>>

Drain ==
    /\ "drain" \in AdminCalls
    /\ ~draining /\ draining' = TRUE
    /\ UNCHANGED <<pc, jobVars, cardVars, hook, motionVars>>

Undrain ==
    /\ "load" \in AdminCalls
    /\ draining /\ draining' = FALSE
    /\ UNCHANGED <<pc, jobVars, cardVars, hook, motionVars>>

-----------------------------------------------------------------------------
SessionStep(a) ==
    \/ TryCard(a) \/ Arm(a) \/ TryLock(a) \/ TryAgain(a) \/ GiveUp(a)
    \/ Disarm(a) \/ Unlock(a) \/ Release(a)

StageStep(j) ==
    \/ Enter(j) \/ TakeCard(j) \/ LeaveQueue(j)
    \/ Begin(j) \/ Encode(j) \/ Load(j) \/ Solve(j)
    \/ NextTier(j) \/ BuildRig(j) \/ Bake(j) \/ Retarget(j)

OfficeStep == WatchdogUnloads \/ AdminReleases

Next ==
    \/ \E a \in Actors : SessionStep(a)
    \/ \E j \in Jobs : Submit(j) \/ StageStep(j) \/ Cancel(j)
    \/ OfficeStep \/ WatchdogTries \/ AdminUnloads \/ Drain \/ Undrain
    \/ DriverLocks \/ DriverUnlocks

Spec == Init /\ [][Next]_vars

(* Threads go on, and a stage has an end. The flock is retried every 500 ms *)
(* for gpu_lock_timeout_s and no longer. The driver may keep the lock, and  *)
(* nobody is obliged to send, to cancel or to call.                         *)
Fairness ==
    /\ \A a \in Actors : WF_vars(SessionStep(a)) /\ SF_vars(GiveUp(a))
    /\ \A j \in Jobs : WF_vars(StageStep(j))
    /\ WF_vars(OfficeStep)

LiveSpec == Spec /\ Fairness

-----------------------------------------------------------------------------
TypeOK ==
    /\ pc \in [Actors -> Places]
    /\ kind \in [Jobs -> Routes \cup {"none"}]
    /\ token \subseteq Jobs
    /\ outcome \in [Jobs -> {"none", "completed", "failed", "cancelled"}]
    /\ built \in [Jobs -> 0..Tiers]
    /\ waiters \in Seq(Jobs)
    /\ owner \in Actors \cup {Nobody}
    /\ hook \in Jobs \cup {Nobody}
    /\ flock \in Actors \cup {Nobody, "driver"}
    /\ dit \in {"none", "torn", "weights"}
    /\ loaded \in BOOLEAN /\ draining \in BOOLEAN

(* A request that touches the GPU holds the card and the lock file, for all *)
(* that other processes, timeouts and cancels do: it fails rather than go   *)
(* on unlocked, and no two are inside. The armed token is that of the       *)
(* request on the card, or none is armed: "A stale arm from a finished      *)
(* request cannot cancel the next one" (the destructor's order, and the     *)
(* arming after the card).                                                  *)
OneOnTheCard ==
    /\ \A a \in Actors : pc[a] \in Inside => owner = a /\ flock = a
    /\ hook # Nobody => owner = hook

(* The motion weights are not on the card while a rig is built, whether the *)
(* job made them itself or a motion job before it left them there; nobody   *)
(* frees them under a motion that runs on them, the watchdog and an unload  *)
(* included; and what /health calls loaded is there, though the flag is set *)
(* and reset in five places, each of them apart from the weights.           *)
MotionWeightsInPlace ==
    /\ \A j \in Jobs : /\ pc[j] = "rigging" => dit = "none"
                       /\ pc[j] = "solving" => dit # "none"
    /\ loaded => dit # "none"

(* A cancelled verdict in a job that had the card is its own: no other      *)
(* request's token, and no drain or timeout, reads as a cancel.             *)
CancelIsOwn ==
    \A j \in Jobs : outcome[j] = "cancelled" /\ kind[j] # "animate" => j \in token

(* What a client sees of a job.                                             *)
Seen ==
    [j \in Jobs |-> CASE outcome[j] # "none" -> outcome[j]
                      [] pc[j] = "new"       -> "none"
                      [] OTHER               -> "live"]

Contract == INSTANCE JobVerdict WITH
    state <- Seen,
    retargets <- {j \in Jobs : kind[j] = "animate"},
    asked <- token

(* A job is given one verdict, which stands, by its queue, its wait for the *)
(* lock, its stages or its retry; and whichever of them says cancelled has  *)
(* a token that was set by then: the job's own, although the stages poll a  *)
(* global, or for a retarget that of a job with the card.                   *)
KeepsContract == Contract!Spec

(* Every accepted request ends, and gives the card back.                    *)
EveryJobEnds == \A j \in Jobs : pc[j] = "submitted" ~> pc[j] = "done"

(* "One request. Loads the DiT on the first call only."                     *)
(* (hymotion_engine.hpp:217): a solve runs on weights that were read.       *)
SolvesOnWeights == \A j \in Jobs : pc[j] = "solving" => dit = "weights"
=============================================================================
