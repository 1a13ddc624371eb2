--------------------------- MODULE WorkerSupervisor ---------------------------
(***************************************************************************)
(* The CUDA-free parent of sd-server (examples/server/worker_supervisor):  *)
(* it keeps at most one GPU child, proxies generation requests and polls   *)
(* to it, recycles it when a request names another DiT variant or card,    *)
(* and lets a GPU gate drain and unload it.                                *)
(*                                                                         *)
(* Threads are the server's HTTP threads, one per call: generation         *)
(* requests, polls (every proxied request that is not a generation) and    *)
(* admin calls.  A step ends wherever another thread or the child can act  *)
(* before the next read or write: at each atomic access, at the taking of  *)
(* mutex_, at each HTTP exchange with the child.                           *)
(*                                                                         *)
(* Abstractions: a port is the number of the child that was started on it; *)
(* draining_ and drain_started_at_ are read and written in one step        *)
(* (DrainFlag takes them apart) and time passes in DrainAges; response     *)
(* bodies are left out.                                                    *)
(***************************************************************************)
EXTENDS Naturals

CONSTANTS Requests,      (* generation requests; each is sent at most once  *)
          Polls,         (* threads that proxy everything else              *)
          Admins,        (* threads that serve /v1/admin/...                *)
          Models,        (* variant names a request may carry               *)
          Variants,      (* keys of variants_; {} is a single-model server  *)
          Base,          (* the variant "base"                              *)
          Gpus, DefaultGpu,
          NoModel, NoGpu, Free,
          AdminCalls,    (* what the admins call                            *)
          MaxChild,      (* bound: children forked                          *)
          InProcessSwap, (* LTX_INPROC_MODEL_SWITCH                         *)
          HealthMayFail, (* the child's /health may not answer within 1 s   *)
          KillMayFail,   (* SIGKILL or waitpid may report an error          *)
          DrainMayExpire (* SD_DRAIN_WAIT_SECONDS >= SD_DRAIN_MAX_SECONDS   *)

ASSUME SupervisorAssumption ==
    /\ Variants \subseteq Models /\ Base \in Models /\ NoModel \notin Models
    /\ DefaultGpu \in Gpus /\ NoGpu \notin Gpus
    /\ Free \notin Requests /\ Requests \cap Polls = {}
    /\ AdminCalls \subseteq {"drain", "unload", "load"}
    /\ MaxChild \in Nat
    /\ InProcessSwap \in BOOLEAN /\ HealthMayFail \in BOOLEAN
    /\ KillMayFail \in BOOLEAN /\ DrainMayExpire \in BOOLEAN

VARIABLES
  mutex,     (* the request inside ensure_worker_locked(), or Free          *)
  worker,    (* pid_, port_, active_model_, active_gpu_; pid 0 is pid_ <= 0 *)
  drain,     (* draining_, and whether it is older than drain_max_seconds() *)
  counted,   (* the requests that hold an ActiveGenerationGuard             *)
  forked,    (* children forked so far                                      *)
  proc,      (* each child process                                          *)
  loads,     (* the variant each child serves                               *)
  jobs,      (* each child's live asynchronous jobs, queued or generating   *)
  rpc,       (* where each generation request is                            *)
  asks,      (* the model and gpu it names, resolved under the mutex        *)
  target,    (* the port it, or a poll, is forwarded to                     *)
  ppc,       (* where each poll is                                          *)
  apc,       (* where each admin call is                                    *)
  forced,    (* the admins whose unload came with force=true                *)
  found,     (* the admins whose in_flight() read a counter other than 0    *)
  overdue,   (* the admins whose SD_DRAIN_WAIT_SECONDS have passed          *)
  handover,  (* history: how the admin's last drain ended                   *)
  unheard,   (* history: requests that switch because a child with jobs did *)
             (* not answer /health                                          *)
  watch,     (* history: what was in flight when in_flight() started        *)
  lost       (* history: the requests whose work a switch destroyed, also   *)
             (* where the child was unheard, or a handover                  *)

supervisor == <<mutex, worker, drain, counted, forked>>
children   == <<proc, loads, jobs>>
requests   == <<rpc, asks>>
admins     == <<apc, forced, found, overdue, handover, watch>>
vars == <<supervisor, children, requests, target, ppc, admins, unheard, lost>>

Children == 1..MaxChild
NoWorker == [pid |-> 0, port |-> 0, model |-> NoModel, gpu |-> NoGpu]

Init ==
    /\ mutex = Free
    /\ worker = NoWorker
    /\ drain = "lowered"
    /\ counted = {}
    /\ forked = 0
    /\ proc = [c \in Children |-> "unborn"]
    /\ loads = [c \in Children |-> NoModel]
    /\ jobs = [c \in Children |-> {}]
    /\ rpc = [r \in Requests |-> "idle"]
    /\ asks = [r \in Requests |-> [model |-> NoModel, gpu |-> NoGpu]]
    /\ target = [t \in Requests \cup Polls |-> 0]
    /\ ppc = [q \in Polls |-> "idle"]
    /\ apc = [a \in Admins |-> "idle"]
    /\ forced = {} /\ found = {} /\ overdue = {}
    /\ handover = [a \in Admins |-> "none"]
    /\ watch = [a \in Admins |-> {}]
    /\ unheard = {}
    /\ lost = [r \in Requests |-> "no"]

-----------------------------------------------------------------------------
(* reap_exited_locked(): forget a child that has exited. *)
Exited == worker.pid > 0 /\ proc[worker.pid] = "dead"
Reaped == IF Exited THEN NoWorker ELSE worker

(* draining(): a drain that is too old is lowered and not reported. *)
ReadDraining == drain' = IF drain = "expired" THEN "lowered" ELSE drain

(* The requests whose work is in child c, or on its way there. *)
Routed(c) == {r \in Requests : rpc[r] \in {"forwarding", "rendering"} /\ target[r] = c}
Hosted(c) == jobs[c] \cup Routed(c)

(* Work the supervisor must not destroy: counted, or live in a child. *)
Live == counted \cup UNION {jobs[c] : c \in Children}

(* Child c stops and takes its work with it: for a switch or a handover, or *)
(* for something else, a crash, a timeout, an unload ("no").                *)
Stops(c, why) ==
    /\ proc' = [proc EXCEPT ![c] = "dead"]
    /\ jobs' = [jobs EXCEPT ![c] = {}]
    /\ lost' = [r \in Requests |-> IF r \in Hosted(c) THEN why ELSE lost[r]]

(* unload_locked(): reap; SIGKILL and wait for a child that is left. *)
UnloadLocked(why) ==
    \/ /\ Exited
       /\ worker' = NoWorker
       /\ UNCHANGED <<proc, jobs, lost>>
    \/ /\ worker.pid = 0
       /\ UNCHANGED <<worker, proc, jobs, lost>>
    \/ /\ worker.pid > 0 /\ ~Exited
       /\ Stops(worker.pid, why)
       /\ worker' = NoWorker

(* The other way out: the kill or the wait failed and the child stays. *)
UnloadFails ==
    /\ KillMayFail
    /\ worker.pid > 0 /\ ~Exited
    /\ UNCHANGED <<worker, proc, jobs, lost>>

-----------------------------------------------------------------------------
(* proxy() for a generation request. *)

RGoto(r, from, to) ==
    /\ rpc[r] = from
    /\ rpc' = [rpc EXCEPT ![r] = to]

(* The drain test comes first ... *)
Arrive(r) ==
    /\ \E m \in Models \cup {NoModel}, g \in Gpus \cup {NoGpu} :
           asks' = [asks EXCEPT ![r] = [model |-> m, gpu |-> g]]
    /\ ReadDraining
    /\ RGoto(r, "idle", IF drain' = "raised" THEN "done" ELSE "counting")
    /\ UNCHANGED <<mutex, worker, counted, forked, children, target, ppc, admins,
                   unheard, lost>>

(* ... and the guard that makes the request visible to a drain second. *)
Count(r) ==
    /\ RGoto(r, "counting", "locking")
    /\ counted' = counted \cup {r}
    /\ UNCHANGED <<mutex, worker, drain, forked, children, asks, target,
                   ppc, admins, unheard, lost>>

(* ensure_worker_locked(): an empty model keeps the active one.             *)
WantedModel(r) ==
    IF asks[r].model # NoModel THEN asks[r].model
    ELSE IF Reaped.model # NoModel THEN Reaped.model ELSE Base
WantedGpu(r) == IF asks[r].gpu # NoGpu THEN asks[r].gpu ELSE DefaultGpu

Unknown(r) == Variants # {} /\ WantedModel(r) \notin Variants
Matches(r) ==
    Reaped.pid > 0 /\ Reaped.model = WantedModel(r) /\ Reaped.gpu = WantedGpu(r)

(* Slip: the counter is not consulted before a switch. *)
BugCounterIgnored(r) == FALSE

OthersCounted(r) == counted # {r}

(* Take mutex_ and reap; what follows up to the first HTTP call is one step. *)
Enter(r, to, holder) ==
    /\ mutex = Free
    /\ mutex' = holder
    /\ RGoto(r, "locking", to)
    /\ worker' = Reaped
    /\ asks' = [asks EXCEPT ![r] = [model |-> WantedModel(r), gpu |-> WantedGpu(r)]]
    /\ UNCHANGED <<drain, counted, forked, children, ppc, admins, unheard, lost>>

RejectUnknown(r) == Unknown(r) /\ Enter(r, "answering", Free) /\ UNCHANGED target

Reuse(r) ==
    /\ ~Unknown(r) /\ Matches(r)
    /\ Enter(r, "forwarding", Free)
    /\ target' = [target EXCEPT ![r] = Reaped.port]

SwitchConflict(r) ==
    /\ ~Unknown(r) /\ ~Matches(r) /\ Reaped.pid > 0 /\ OthersCounted(r)
    /\ Enter(r, "answering", Free)
    /\ UNCHANGED target

BeginSwitch(r) ==
    /\ ~Unknown(r) /\ ~Matches(r) /\ Reaped.pid > 0 /\ ~OthersCounted(r)
    /\ Enter(r, "asking", r)
    /\ UNCHANGED target

BeginStart(r) ==
    /\ ~Unknown(r) /\ Reaped.pid = 0
    /\ Enter(r, "recycling", r)
    /\ UNCHANGED target

Lock(r) ==
    RejectUnknown(r) \/ Reuse(r) \/ SwitchConflict(r) \/ BeginSwitch(r) \/ BeginStart(r)

(* Slip: the thread returns the conflict with mutex_ still locked. *)
BugKeepsMutex(r) == mutex' = mutex

Unlock(r) == mutex' = Free

Holding(r, from, to) ==
    /\ mutex = r
    /\ RGoto(r, from, to)
    /\ UNCHANGED <<drain, counted, asks, ppc, admins>>

(* child_busy_on_port(): what /health answers, or no answer, which counts  *)
(* as idle.                                                                *)
HealthBusy == proc[worker.port] = "up" /\ jobs[worker.port] # {}
HealthIdle == ~HealthBusy \/ HealthMayFail

ChildBusy(r) ==
    /\ Holding(r, "asking", "answering")
    /\ HealthBusy
    /\ Unlock(r)
    /\ UNCHANGED <<worker, forked, children, target, lost, unheard>>

CanSwap(r) == InProcessSwap /\ worker.gpu = asks[r].gpu /\ Variants # {}

ChildIdle(r) ==
    /\ Holding(r, "asking", IF CanSwap(r) THEN "swapping" ELSE "recycling")
    /\ HealthIdle
    /\ unheard' = IF HealthBusy THEN unheard \cup {r} ELSE unheard
    /\ UNCHANGED <<mutex, worker, forked, children, target, lost>>

(* swap_child_model(): the child refuses while it has work; any answer but *)
(* 200 leads to the recycle.                                               *)
Swap(r) ==
    /\ Holding(r, "swapping", "forwarding")
    /\ proc[worker.port] = "up" /\ jobs[worker.port] = {}
    /\ loads' = [loads EXCEPT ![worker.port] = asks[r].model]
    /\ worker' = [worker EXCEPT !.model = asks[r].model]
    /\ target' = [target EXCEPT ![r] = worker.port]
    /\ Unlock(r)
    /\ UNCHANGED <<forked, proc, jobs, lost, unheard>>

SwapFails(r) ==
    /\ Holding(r, "swapping", "recycling")
    /\ UNCHANGED <<mutex, worker, forked, children, target, lost, unheard>>

Recycle(r) ==
    /\ Holding(r, "recycling", "spawning")
    /\ UnloadLocked(IF r \in unheard THEN "unheard" ELSE "switch")
    /\ UNCHANGED <<mutex, forked, loads, target, unheard>>

RecycleFails(r) ==
    /\ Holding(r, "recycling", "answering")
    /\ UnloadFails
    /\ Unlock(r)
    /\ UNCHANGED <<forked, loads, target, unheard>>

(* reserve_loopback_port() or fork() fails; either way port_ is 0. *)
SpawnFails(r) ==
    /\ Holding(r, "spawning", "answering")
    /\ worker' = [worker EXCEPT !.port = 0]
    /\ Unlock(r)
    /\ UNCHANGED <<forked, children, target, lost, unheard>>

Spawn(r) ==
    /\ forked < MaxChild
    /\ Holding(r, "spawning", "waiting")
    /\ LET c == forked + 1
       IN /\ forked' = c
          /\ proc' = [proc EXCEPT ![c] = "starting"]
          /\ loads' = [loads EXCEPT ![c] = asks[r].model]
          /\ worker' = [pid |-> c, port |-> c, model |-> asks[r].model, gpu |-> asks[r].gpu]
    /\ UNCHANGED <<mutex, jobs, target, lost, unheard>>

(* wait_until_ready_locked() *)
Ready(r) ==
    /\ Holding(r, "waiting", "forwarding")
    /\ proc[worker.port] = "up"
    /\ target' = [target EXCEPT ![r] = worker.port]
    /\ Unlock(r)
    /\ UNCHANGED <<worker, forked, children, lost, unheard>>

(* The child died first: only pid_ is reset, and the unload_locked() that  *)
(* follows finds nothing to do.                                            *)
StartupDeath(r) ==
    /\ Holding(r, "waiting", "answering")
    /\ proc[worker.pid] = "dead"
    /\ worker' = [worker EXCEPT !.pid = 0]
    /\ Unlock(r)
    /\ UNCHANGED <<forked, children, target, lost, unheard>>

(* Slip: the child that did not get ready is forgotten, not killed. *)
BugForgets(r) ==
    /\ Holding(r, "waiting", "answering")
    /\ worker' = NoWorker
    /\ Unlock(r)
    /\ UNCHANGED <<forked, children, target, lost, unheard>>

(* 30 s without a healthy answer: unload_locked(), whose result is ignored. *)
StartupTimeout(r) ==
    /\ Holding(r, "waiting", "answering")
    /\ UnloadLocked("no") \/ UnloadFails
    /\ Unlock(r)
    /\ UNCHANGED <<forked, loads, target, unheard>>

-----------------------------------------------------------------------------
(* The exchange with the child, outside the mutex. *)

(* An asynchronous route: the job is live before the 202 is sent. *)
AcceptJob(r) ==
    /\ RGoto(r, "forwarding", "answering")
    /\ proc[target[r]] = "up"
    /\ jobs' = [jobs EXCEPT ![target[r]] = @ \cup {r}]
    /\ UNCHANGED <<supervisor, proc, loads, asks, target, ppc, admins, unheard, lost>>

(* A synchronous route: the answer is the result. *)
AcceptSync(r) ==
    /\ RGoto(r, "forwarding", "rendering")
    /\ proc[target[r]] = "up"
    /\ UNCHANGED <<supervisor, children, asks, target, ppc, admins, unheard, lost>>

(* The child refuses (400, 429), or nothing answers on the port (502). *)
NotAccepted(r) ==
    /\ RGoto(r, "forwarding", "answering")
    /\ UNCHANGED <<supervisor, children, asks, target, ppc, admins, unheard, lost>>

(* A synchronous render ends, or the connection breaks with its child. *)
SyncEnds(r) ==
    /\ RGoto(r, "rendering", "answering")
    /\ UNCHANGED <<supervisor, children, asks, target, ppc, admins, unheard, lost>>

(* The handler returns and ~ActiveGenerationGuard() runs. *)
Release(r) ==
    /\ RGoto(r, "answering", "done")
    /\ counted' = counted \ {r}
    /\ target' = [target EXCEPT ![r] = 0]
    /\ unheard' = unheard \ {r}
    /\ UNCHANGED <<mutex, worker, drain, forked, children, asks, ppc,
                   admins, lost>>

(* What a request in progress can do. *)
Progress(r) ==
    \/ Count(r) \/ Lock(r) \/ ChildBusy(r) \/ ChildIdle(r)
    \/ Swap(r) \/ SwapFails(r) \/ Recycle(r) \/ RecycleFails(r)
    \/ Spawn(r) \/ SpawnFails(r) \/ Ready(r) \/ StartupDeath(r) \/ StartupTimeout(r)
    \/ AcceptJob(r) \/ AcceptSync(r) \/ NotAccepted(r) \/ SyncEnds(r) \/ Release(r)

-----------------------------------------------------------------------------
(* proxy() for every other request.  Its draining() call can lower an      *)
(* expired drain; its loaded() call is outside the section that attaches.  *)

PGoto(q, from, to) ==
    /\ ppc[q] = from
    /\ ppc' = [ppc EXCEPT ![q] = to]
    /\ UNCHANGED <<mutex, counted, requests, admins, unheard>>

PollArrives(q) ==
    /\ ReadDraining
    /\ PGoto(q, "idle", "arrived")
    /\ UNCHANGED <<worker, forked, children, target, lost>>

PollLoaded(q) ==
    /\ mutex = Free
    /\ worker' = Reaped
    /\ PGoto(q, "arrived", IF Reaped.pid > 0 THEN "attaching" ELSE "idle")
    /\ UNCHANGED <<drain, forked, children, target, lost>>

(* Slip: a poll that finds no worker falls through to a cold start. *)
BugPollSpawns(q) ==
    /\ mutex = Free
    /\ forked < MaxChild
    /\ LET c == IF Reaped.pid > 0 THEN Reaped.pid ELSE forked + 1
       IN /\ worker' = IF Reaped.pid > 0 THEN Reaped
                       ELSE [pid |-> c, port |-> c, model |-> Base, gpu |-> DefaultGpu]
          /\ forked' = IF Reaped.pid > 0 THEN forked ELSE c
          /\ proc' = IF Reaped.pid > 0 THEN proc ELSE [proc EXCEPT ![c] = "starting"]
          /\ target' = [target EXCEPT ![q] = c]
    /\ PGoto(q, "attaching", "forwarding")
    /\ UNCHANGED <<drain, loads, jobs, lost>>

(* The second test, under the mutex: 410, or the port of the resident one. *)
PollAttach(q) ==
    /\ mutex = Free
    /\ worker' = Reaped
    /\ target' = [target EXCEPT ![q] = Reaped.port]
    /\ PGoto(q, "attaching", IF Reaped.pid > 0 THEN "forwarding" ELSE "idle")
    /\ UNCHANGED <<drain, forked, children, lost>>

PollAnswered(q) ==
    /\ PGoto(q, "forwarding", "idle")
    /\ target' = [target EXCEPT ![q] = 0]
    /\ UNCHANGED <<worker, drain, forked, children, lost>>

Poll(q) == PollArrives(q) \/ PollLoaded(q) \/ PollAttach(q) \/ PollAnswered(q)

-----------------------------------------------------------------------------
(* /v1/admin/{drain,unload,load} *)

AGoto(a, from, to) ==
    /\ apc[a] = from
    /\ apc' = [apc EXCEPT ![a] = to]
    /\ UNCHANGED <<mutex, counted, forked, requests, target, ppc, loads, unheard>>

BeginDrain(a) ==
    /\ "drain" \in AdminCalls
    /\ AGoto(a, "idle", "drain_counter")
    /\ drain' = "raised"
    /\ overdue' = overdue \ {a}
    /\ handover' = [handover EXCEPT ![a] = "waiting"]
    /\ UNCHANGED <<worker, proc, jobs, forced, found, watch, lost>>

BeginUnload(a) ==
    /\ "unload" \in AdminCalls
    /\ AGoto(a, "idle", "unload_counter")
    /\ forced' \in {forced, forced \cup {a}}
    /\ UNCHANGED <<worker, drain, proc, jobs, found, overdue, handover,
                   watch, lost>>

(* Slip: in_flight() only asks the child. *)
BugCountUnread(a) ==
    /\ \/ AGoto(a, "drain_counter", "drain_child")
       \/ AGoto(a, "unload_counter", "unload_child")
    /\ watch' = [watch EXCEPT ![a] = Live]
    /\ UNCHANGED <<worker, drain, proc, jobs, forced, found, overdue, handover, lost>>

(* in_flight() reads the counter ... *)
ReadCounter(a) ==
    /\ \/ AGoto(a, "drain_counter", "drain_child")
       \/ AGoto(a, "unload_counter", "unload_child")
    /\ found' = IF counted = {} THEN found ELSE found \cup {a}
    /\ watch' = [watch EXCEPT ![a] = Live]
    /\ UNCHANGED <<worker, drain, proc, jobs, forced, overdue, handover, lost>>

(* ... and then asks the child, under the mutex (its locals are reset once  *)
(* used).                                                                  *)
ReadChild(a) ==
    /\ mutex = Free
    /\ worker' = Reaped
    /\ found' = found \ {a}
    /\ watch' = [watch EXCEPT ![a] = {}]
    /\ UNCHANGED <<proc, jobs, overdue, lost>>

ResidentBusy == Reaped.pid > 0 /\ proc[Reaped.port] = "up" /\ jobs[Reaped.port] # {}

(* in_flight() > 0, and in_flight() = 0 *)
InFlight(a) == a \in found \/ ResidentBusy
NoneInFlight(a) == a \notin found /\ (ResidentBusy => HealthMayFail)

DrainDone(a) ==
    /\ ReadChild(a) /\ NoneInFlight(a)
    /\ AGoto(a, "drain_child", "idle")
    /\ handover' = [handover EXCEPT ![a] = IF ResidentBusy THEN "unheard" ELSE "drained"]
    /\ UNCHANGED <<drain, forced>>

DrainTimesOut(a) ==
    /\ a \in overdue
    /\ ReadChild(a) /\ InFlight(a)
    /\ AGoto(a, "drain_child", "idle")
    /\ handover' = [handover EXCEPT ![a] = "timed_out"]
    /\ UNCHANGED <<drain, forced>>

(* Slip: the drain loop does not look at its deadline. *)
BugNoDeadline(a) ==
    /\ ReadChild(a) /\ InFlight(a)
    /\ AGoto(a, "drain_child", "drain_counter")
    /\ UNCHANGED <<drain, forced, handover>>

DrainWaits(a) ==
    /\ a \notin overdue
    /\ ReadChild(a) /\ InFlight(a)
    /\ AGoto(a, "drain_child", "drain_counter")
    /\ UNCHANGED <<drain, forced, handover>>

(* "busy (pass force=true to cancel + unload)" *)
UnloadRefused(a) ==
    /\ a \notin forced
    /\ ReadChild(a) /\ InFlight(a)
    /\ AGoto(a, "unload_child", "idle")
    /\ UNCHANGED <<drain, forced, handover>>

UnloadAllowed(a) ==
    /\ ReadChild(a)
    /\ NoneInFlight(a) \/ a \in forced
    /\ AGoto(a, "unload_child", "unloading")
    /\ forced' = forced \ {a}
    /\ UNCHANGED <<drain, handover>>

(* unload(): whatever unload_locked() found, the service reopens. *)
Unload(a) ==
    /\ mutex = Free
    /\ \/ UnloadLocked(IF handover[a] = "drained" THEN "handover" ELSE "no")
       \/ UnloadFails
    /\ AGoto(a, "unloading", "idle")
    /\ drain' = "lowered"
    /\ handover' = [handover EXCEPT ![a] = "none"]
    /\ UNCHANGED <<forced, found, overdue, watch>>

Load(a) ==
    /\ "load" \in AdminCalls
    /\ AGoto(a, "idle", "idle")
    /\ drain' = "lowered"
    /\ handover' = [handover EXCEPT ![a] = "none"]
    /\ UNCHANGED <<worker, proc, jobs, forced, found, overdue, watch, lost>>

(* The admin handlers' own steps, once called. *)
AdminStep(a) ==
    \/ ReadCounter(a) \/ DrainDone(a) \/ DrainTimesOut(a) \/ DrainWaits(a)
    \/ UnloadRefused(a) \/ UnloadAllowed(a) \/ Unload(a)

Admin(a) == BeginDrain(a) \/ BeginUnload(a) \/ Load(a) \/ AdminStep(a)

-----------------------------------------------------------------------------
(* The clock, and the child processes. *)

DrainAges ==
    /\ DrainMayExpire
    /\ drain = "raised" /\ drain' = "expired"
    /\ UNCHANGED <<mutex, worker, counted, forked, children, requests, target,
                   ppc, admins, unheard, lost>>

DeadlinePasses(a) ==
    /\ apc[a] \in {"drain_counter", "drain_child"}
    /\ overdue' = overdue \cup {a}
    /\ UNCHANGED <<supervisor, children, requests, target, ppc, apc, forced, found,
                   handover, watch, unheard, lost>>

Outside == <<supervisor, requests, target, ppc, admins, unheard>>

ChildUp(c) ==
    /\ proc[c] = "starting"
    /\ proc' = [proc EXCEPT ![c] = "up"]
    /\ UNCHANGED <<Outside, loads, jobs, lost>>

ChildDies(c) ==
    /\ proc[c] \in {"starting", "up"}
    /\ Stops(c, "no")
    /\ UNCHANGED <<Outside, loads>>

(* A job completes, fails or is cancelled. *)
JobEnds(c) ==
    /\ \E r \in jobs[c] : jobs' = [jobs EXCEPT ![c] = @ \ {r}]
    /\ UNCHANGED <<Outside, proc, loads, lost>>

Next ==
    \/ \E r \in Requests : Arrive(r) \/ Progress(r)
    \/ \E q \in Polls : Poll(q)
    \/ \E a \in Admins : Admin(a) \/ DeadlinePasses(a)
    \/ \E c \in Children : ChildUp(c) \/ ChildDies(c) \/ JobEnds(c)
    \/ DrainAges

(* A call in progress goes on; a child that lives gets ready or the 30 s    *)
(* pass (both are steps of Progress); a forwarded call returns because the  *)
(* proxy's client times out after an hour; the drain's deadline passes.     *)
(* Nobody is obliged to send a request, and no job is obliged to end.       *)
Fairness ==
    /\ \A r \in Requests : WF_vars(Progress(r))
    /\ \A a \in Admins : WF_vars(AdminStep(a)) /\ WF_vars(DeadlinePasses(a))

Spec == Init /\ [][Next]_vars /\ Fairness

-----------------------------------------------------------------------------
(* Every variable keeps to its values.                                      *)
TypeOK ==
    /\ mutex \in Requests \cup {Free}
    /\ worker \in [pid : 0..MaxChild, port : 0..MaxChild,
                   model : Models \cup {NoModel}, gpu : Gpus \cup {NoGpu}]
    /\ drain \in {"lowered", "raised", "expired"}
    /\ counted \in SUBSET Requests
    /\ forked \in 0..MaxChild
    /\ proc \in [Children -> {"unborn", "starting", "up", "dead"}]
    /\ loads \in [Children -> Models \cup {NoModel}]
    /\ jobs \in [Children -> SUBSET Requests]
    /\ rpc \in [Requests -> {"idle", "counting", "locking", "asking", "swapping",
                             "recycling", "spawning", "waiting", "forwarding",
                             "rendering", "answering", "done"}]
    /\ asks \in [Requests -> [model : Models \cup {NoModel}, gpu : Gpus \cup {NoGpu}]]
    /\ target \in [Requests \cup Polls -> 0..MaxChild]
    /\ ppc \in [Polls -> {"idle", "arrived", "attaching", "forwarding"}]
    /\ apc \in [Admins -> {"idle", "drain_counter", "drain_child", "unload_counter",
                           "unload_child", "unloading"}]
    /\ forced \subseteq Admins /\ found \subseteq Admins /\ overdue \subseteq Admins
    /\ handover \in [Admins -> {"none", "waiting", "drained", "unheard", "timed_out"}]
    /\ watch \in [Admins -> SUBSET Requests]
    /\ unheard \subseteq Requests
    /\ lost \in [Requests -> {"no", "switch", "unheard", "handover"}]

(* At most one child lives, and it is the one pid_ names: when the parent   *)
(* says "unloaded" (pid_ <= 0, cuda_context_released) no CUDA process is     *)
(* left, whichever of the start, switch, timeout and unload paths ran.      *)
OneResident ==
    \A c \in Children : proc[c] \in {"starting", "up"} => worker.pid = c

(* A model or GPU switch never destroys the work of another request: not a  *)
(* call that is being forwarded, not a render whose caller still waits, not *)
(* a job that was accepted with 202 and has left the counter. If the child  *)
(* has jobs and does not answer /health within a second, the switch goes    *)
(* ahead, but what it then destroys are jobs that were accepted and         *)
(* answered: no caller that still waits for its answer loses it.            *)
SwitchSparesWork ==
    \A r \in Requests : lost[r] # "switch" /\ (lost[r] = "unheard" => rpc[r] = "done")

(* Whatever a child renders, it renders with the variant its request was    *)
(* resolved to: no other request swaps or recycles the child in between.    *)
RightVariant ==
    \A r \in Requests, c \in Children :
        r \in jobs[c] \/ (rpc[r] = "rendering" /\ target[r] = c)
            => loads[c] = asks[r].model

(* When a drain answers "drained", nothing that was in flight when its last *)
(* in_flight() began is still in flight: a request that moves from the      *)
(* counter to the child's job list between the two reads is not missed. If  *)
(* a busy child did not answer, at least no request is still counted.       *)
DrainMissesNothing ==
    [][\A a \in Admins : handover'[a] # handover[a] =>
          /\ handover'[a] = "drained" => watch[a] \cap Live = {}
          /\ handover'[a] = "unheard" => watch[a] \cap counted = {}]_vars

(* The children that run.                                                   *)
Running == {c \in Children : proc[c] \in {"starting", "up"}}

(* The requests that have work in one of them, or on its way there.         *)
Homed == UNION {Hosted(c) : c \in Running}

Slot == INSTANCE GpuSlot WITH
    Processes <- Children,
    Variants <- Models \cup {NoModel},
    resident <- {<<c, loads[c]>> : c \in Running},
    work <- {<<r, asks[r].model>> : r \in Homed},
    placing <- counted \cap {mutex}

(* Between the calls, the polls, the crashes and the failures the card is   *)
(* what GpuSlot says: a child starts only for a generation request that is  *)
(* counted and holds mutex_, never for a poll that finds it gone, and only  *)
(* when no other runs; a request is forwarded to a child that serves its    *)
(* variant; and that one swaps in place only when nothing is on its way to  *)
(* it, or in it.                                                            *)
KeepsSlot == Slot!Spec

(* Every generation request that enters is answered: no path leaves the     *)
(* mutex locked and no wait is endless.                                     *)
EveryRequestAnswered == \A r \in Requests : rpc[r] = "counting" ~> rpc[r] = "done"

(* A drain always answers, even when a job never ends.                      *)
DrainReturns == \A a \in Admins : handover[a] = "waiting" ~> handover[a] # "waiting"

(* The comment above admin_drain: returning only once the work is done      *)
(* makes "drain, then force the unload" safe. The code does not keep it: a  *)
(* request that has tested the drain is not counted yet.                    *)
HandoverSparesWork == \A r \in Requests : lost[r] # "handover"

(* The comment above drain_max_seconds(): a legitimately slow handover is   *)
(* never cut short, so the flag is up for as long as the drain waits. The   *)
(* code does not keep it: the wait may be three times as long by default.   *)
DrainHeldWhileWaiting == \A a \in Admins : handover[a] = "waiting" => drain # "lowered"
=============================================================================
