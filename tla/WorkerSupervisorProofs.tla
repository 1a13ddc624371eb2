----------------------- MODULE WorkerSupervisorProofs -----------------------
(***************************************************************************)
(* The safety of WorkerSupervisor, for any number of requests, polls,      *)
(* admins, variants, cards and children.                                   *)
(*                                                                         *)
(* The argument has three layers.  Residence says who holds mutex_, who is *)
(* counted and which child pid_ names; it gives OneResident.  Work says    *)
(* where each request's work is; it gives RightVariant.  Quiet says        *)
(* that a child about to be replaced has no work left, or did not answer   *)
(* /health and has only jobs that were accepted; it gives                  *)
(* SwitchSparesWork, and what a drain has seen gives DrainMissesNothing.   *)
(***************************************************************************)
EXTENDS WorkerSupervisor, TLAPS

WorkerType == [pid : 0..MaxChild, port : 0..MaxChild,
               model : Models \cup {NoModel}, gpu : Gpus \cup {NoGpu}]

(* mutex_ belongs to the request inside ensure_worker_locked(). *)
InMutex == {"asking", "swapping", "recycling", "spawning", "waiting"}

MutexHeld == \A r \in Requests : rpc[r] \in InMutex <=> mutex = r

(* active_generation_requests_ is the number of guards that live. *)
CounterExact == counted = {r \in Requests : rpc[r] \notin {"idle", "counting", "done"}}

ForkOrder == \A c \in Children : proc[c] = "unborn" <=> c > forked

PidForked == worker.pid <= forked /\ (worker.pid > 0 => worker.port = worker.pid)

(* A switch in progress keeps pid_; the spawn finds none. *)
PidByPhase ==
    \A r \in Requests :
        /\ rpc[r] \in {"asking", "swapping", "waiting"} => worker.pid > 0
        /\ rpc[r] = "spawning" => worker.pid = 0

Residence ==
    MutexHeld /\ CounterExact /\ ForkOrder /\ PidForked /\ PidByPhase /\ OneResident

(* Only a healthy child has jobs, and only answered requests own them. *)
JobsUp == \A c \in Children : proc[c] # "up" => jobs[c] = {}
JobsAccepted == \A c \in Children : \A r \in jobs[c] : rpc[r] \in {"answering", "done"}

(* While a request switches a resident child, no other is past the mutex. *)
Outsiders == {"idle", "counting", "locking", "done"}
SwitchAlone ==
    \A r, q \in Requests :
        /\ rpc[r] \in {"asking", "swapping", "recycling"}
        /\ worker.pid > 0
        /\ q # r
        => rpc[q] \in Outsiders

TargetForked == \A r \in Requests : target[r] <= forked

ResidentLoads == worker.pid > 0 => loads[worker.pid] = worker.model
WaitedModel == \A r \in Requests : rpc[r] = "waiting" => worker.model = asks[r].model

(* RightVariant, from the moment the port is known. *)
RoutedRight ==
    \A r \in Requests, c \in Children :
        r \in jobs[c] \/ (rpc[r] \in {"forwarding", "rendering"} /\ target[r] = c)
            => loads[c] = asks[r].model

Work ==
    /\ JobsUp /\ JobsAccepted /\ SwitchAlone /\ TargetForked
    /\ ResidentLoads /\ WaitedModel /\ RoutedRight

(* A child about to be replaced was asked, and has had no way to get work   *)
(* since: unless it did not answer, it has none.                           *)
AskedIsIdle ==
    \A r \in Requests :
        rpc[r] \in {"swapping", "recycling"} /\ worker.pid > 0 /\ r \notin unheard
            => jobs[worker.pid] = {}

(* What an in_flight() that has read a counter of 0 saw belongs to answered *)
(* requests.                                                               *)
SeenAnswered ==
    \A a \in Admins :
        apc[a] \in {"drain_child", "unload_child"} /\ a \notin found
            => \A r \in watch[a] : rpc[r] = "done"

Quiet == AskedIsIdle /\ SwitchSparesWork /\ SeenAnswered

-----------------------------------------------------------------------------
(* Helpers: what a reaped worker, a resolved request and an unload are.    *)
LEMMA NoWorkerType == NoWorker \in WorkerType
BY SupervisorAssumption DEF NoWorker, WorkerType

(* What reap_exited_locked() leaves behind has the type of worker. *)
LEMMA ReapedType == TypeOK => Reaped \in WorkerType
BY NoWorkerType DEF TypeOK, Reaped, WorkerType

(* reap_exited_locked() forgets only a child that is dead. *)
LEMMA ReapedIs ==
    \/ Reaped = worker /\ ~Exited
    \/ Reaped = NoWorker /\ worker.pid > 0 /\ proc[worker.pid] = "dead"
BY DEF Reaped, Exited

(* A request is resolved to a model and a card, never to nothing. *)
LEMMA WantedType ==
    ASSUME TypeOK, NEW r \in Requests
    PROVE  WantedModel(r) \in Models /\ WantedGpu(r) \in Gpus
BY ReapedType, SupervisorAssumption DEF TypeOK, WantedModel, WantedGpu, WorkerType

(* Whatever unload_locked() finds, what it leaves behind is well typed. *)
LEMMA UnloadLockedType ==
    ASSUME TypeOK, NEW why \in {"switch", "unheard", "no", "handover"},
           UnloadLocked(why)
    PROVE  /\ worker' \in WorkerType
           /\ proc' \in [Children -> {"unborn", "starting", "up", "dead"}]
           /\ jobs' \in [Children -> SUBSET Requests]
           /\ lost' \in [Requests -> {"no", "switch", "unheard", "handover"}]
<1>1. worker' \in WorkerType
  BY NoWorkerType DEF TypeOK, WorkerType, UnloadLocked
<1>2. CASE Stops(worker.pid, why)
  <2>1. jobs' \in [Children -> SUBSET Requests]
    BY <1>2 DEF TypeOK, Stops
  <2>2. lost' \in [Requests -> {"no", "switch", "unheard", "handover"}]
    BY <1>2 DEF TypeOK, Stops
  <2> QED
    BY <1>1, <1>2, <2>1, <2>2 DEF TypeOK, Stops
<1>3. CASE UNCHANGED <<proc, jobs, lost>>
  BY <1>1, <1>3 DEF TypeOK
<1> QED
  BY <1>2, <1>3 DEF UnloadLocked

(* The initial state is of the right type. *)
LEMMA InitType == Init => TypeOK
BY NoWorkerType, SupervisorAssumption DEF Init, TypeOK, WorkerType, Children

(* Every step keeps every variable in its type. *)
LEMMA StepType ==
    ASSUME TypeOK, [Next]_vars
    PROVE  TypeOK'
<1>1. ASSUME NEW r \in Requests, Arrive(r) PROVE TypeOK'
  BY <1>1 DEF Arrive, TypeOK, ReadDraining, RGoto, children, admins
<1>2. ASSUME NEW r \in Requests, Count(r) PROVE TypeOK'
  BY <1>2 DEF Count, TypeOK, RGoto, children, admins
<1>3. ASSUME NEW r \in Requests, RejectUnknown(r) PROVE TypeOK'
  BY <1>3, ReapedType, WantedType, SupervisorAssumption
  DEF RejectUnknown, TypeOK, Enter, RGoto, children, admins, WorkerType
<1>4. ASSUME NEW r \in Requests, Reuse(r) PROVE TypeOK'
  BY <1>4, ReapedType, WantedType, SupervisorAssumption
  DEF Reuse, TypeOK, Enter, RGoto, children, admins, Matches, WorkerType
<1>5. ASSUME NEW r \in Requests, SwitchConflict(r) PROVE TypeOK'
  BY <1>5, ReapedType, WantedType, SupervisorAssumption
  DEF SwitchConflict, TypeOK, Enter, RGoto, children, admins, WorkerType
<1>6. ASSUME NEW r \in Requests, BeginSwitch(r) PROVE TypeOK'
  BY <1>6, ReapedType, WantedType, SupervisorAssumption
  DEF BeginSwitch, TypeOK, Enter, RGoto, children, admins, WorkerType
<1>7. ASSUME NEW r \in Requests, BeginStart(r) PROVE TypeOK'
  BY <1>7, ReapedType, WantedType, SupervisorAssumption
  DEF BeginStart, TypeOK, Enter, RGoto, children, admins, WorkerType
<1>8. ASSUME NEW r \in Requests, ChildBusy(r) PROVE TypeOK'
  BY <1>8, SupervisorAssumption
  DEF ChildBusy, TypeOK, Holding, RGoto, children, admins, Unlock, HealthBusy
<1>9. ASSUME NEW r \in Requests, ChildIdle(r) PROVE TypeOK'
  BY <1>9, SupervisorAssumption
  DEF ChildIdle, TypeOK, Holding, RGoto, children, admins
<1>10. ASSUME NEW r \in Requests, Swap(r) PROVE TypeOK'
  BY <1>10, SupervisorAssumption
  DEF Swap, TypeOK, Holding, RGoto, children, admins, Unlock, Children,
      WorkerType
<1>11. ASSUME NEW r \in Requests, SwapFails(r) PROVE TypeOK'
  BY <1>11, SupervisorAssumption
  DEF SwapFails, TypeOK, Holding, RGoto, children, admins
<1>12. ASSUME NEW r \in Requests, Recycle(r) PROVE TypeOK'
  BY <1>12, UnloadLockedType DEF Recycle, TypeOK, WorkerType, Holding, RGoto, admins
<1>13. ASSUME NEW r \in Requests, RecycleFails(r) PROVE TypeOK'
  BY <1>13, SupervisorAssumption
  DEF RecycleFails, TypeOK, Holding, RGoto, children, admins, Unlock,
      UnloadFails
<1>14. ASSUME NEW r \in Requests, Spawn(r) PROVE TypeOK'
  BY <1>14, SupervisorAssumption
  DEF Spawn, TypeOK, Holding, RGoto, children, admins, Children, WorkerType
<1>15. ASSUME NEW r \in Requests, SpawnFails(r) PROVE TypeOK'
  <2>1. worker \in WorkerType /\ worker' = [worker EXCEPT !.port = 0]
    BY <1>15 DEF SpawnFails, TypeOK, WorkerType
  <2>2. worker' \in WorkerType
    BY <2>1, SupervisorAssumption DEF WorkerType
  <2> QED
    BY <1>15, <2>2
    DEF SpawnFails, TypeOK, WorkerType, Holding, RGoto, children, admins, Unlock
<1>16. ASSUME NEW r \in Requests, Ready(r) PROVE TypeOK'
  BY <1>16, SupervisorAssumption
  DEF Ready, TypeOK, Holding, RGoto, children, admins, Unlock
<1>17. ASSUME NEW r \in Requests, StartupDeath(r) PROVE TypeOK'
  <2>1. worker \in WorkerType /\ worker' = [worker EXCEPT !.pid = 0]
    BY <1>17 DEF StartupDeath, TypeOK, WorkerType
  <2>2. worker' \in WorkerType
    BY <2>1, SupervisorAssumption DEF WorkerType
  <2> QED
    BY <1>17, <2>2
    DEF StartupDeath, TypeOK, WorkerType, Holding, RGoto, children, admins, Unlock
<1>18. ASSUME NEW r \in Requests, StartupTimeout(r) PROVE TypeOK'
  <2>1. CASE UnloadLocked("no")
    BY <1>18, <2>1, UnloadLockedType DEF StartupTimeout, TypeOK, WorkerType, Holding, RGoto, Unlock, admins, UnloadFails
  <2>2. CASE UnloadFails
    BY <1>18, <2>2 DEF StartupTimeout, TypeOK, Holding, RGoto, Unlock, admins, UnloadFails
  <2> QED
    BY <1>18, <2>1, <2>2 DEF StartupTimeout
<1>19. ASSUME NEW r \in Requests, AcceptJob(r) PROVE TypeOK'
  <2>1. /\ jobs \in [Children -> SUBSET Requests]
        /\ jobs' = [jobs EXCEPT ![target[r]] = @ \cup {r}]
    BY <1>19 DEF AcceptJob, TypeOK
  <2>2. jobs' \in [Children -> SUBSET Requests]
    BY <2>1
  <2> QED
    BY <1>19, <2>2 DEF AcceptJob, TypeOK, RGoto, supervisor, admins
<1>20. ASSUME NEW r \in Requests, AcceptSync(r) PROVE TypeOK'
  BY <1>20 DEF AcceptSync, TypeOK, RGoto, supervisor, children, admins
<1>21. ASSUME NEW r \in Requests, NotAccepted(r) PROVE TypeOK'
  BY <1>21 DEF NotAccepted, TypeOK, RGoto, supervisor, children, admins
<1>22. ASSUME NEW r \in Requests, SyncEnds(r) PROVE TypeOK'
  BY <1>22 DEF SyncEnds, TypeOK, RGoto, supervisor, children, admins
<1>23. ASSUME NEW r \in Requests, Release(r) PROVE TypeOK'
  BY <1>23, SupervisorAssumption
  DEF Release, TypeOK, RGoto, supervisor, children, admins
<1>24. ASSUME NEW q \in Polls, PollArrives(q) PROVE TypeOK'
  BY <1>24
  DEF PollArrives, TypeOK, PGoto, requests, admins, children, ReadDraining
<1>25. ASSUME NEW q \in Polls, PollLoaded(q) PROVE TypeOK'
  BY <1>25, ReapedType
  DEF PollLoaded, TypeOK, PGoto, requests, admins, children, WorkerType
<1>26. ASSUME NEW q \in Polls, PollAttach(q) PROVE TypeOK'
  BY <1>26, ReapedType
  DEF PollAttach, TypeOK, PGoto, requests, admins, children, WorkerType
<1>27. ASSUME NEW q \in Polls, PollAnswered(q) PROVE TypeOK'
  BY <1>27, SupervisorAssumption
  DEF PollAnswered, TypeOK, PGoto, requests, admins, children
<1>28. ASSUME NEW a \in Admins, BeginDrain(a) PROVE TypeOK'
  BY <1>28 DEF BeginDrain, TypeOK, AGoto, requests
<1>29. ASSUME NEW a \in Admins, BeginUnload(a) PROVE TypeOK'
  BY <1>29 DEF BeginUnload, TypeOK, AGoto, requests
<1>30. ASSUME NEW a \in Admins, Load(a) PROVE TypeOK'
  BY <1>30 DEF Load, TypeOK, AGoto, requests
<1>31. ASSUME NEW a \in Admins, ReadCounter(a) PROVE TypeOK'
  <2>1. Live \in SUBSET Requests
    BY DEF Live, TypeOK
  <2> QED
    BY <1>31, <2>1 DEF ReadCounter, TypeOK, AGoto, requests
<1>32. ASSUME NEW a \in Admins, DrainDone(a) PROVE TypeOK'
  BY <1>32, ReapedType
  DEF DrainDone, TypeOK, AGoto, ReadChild, requests, WorkerType
<1>33. ASSUME NEW a \in Admins, DrainTimesOut(a) PROVE TypeOK'
  BY <1>33, ReapedType
  DEF DrainTimesOut, TypeOK, AGoto, ReadChild, requests, WorkerType
<1>34. ASSUME NEW a \in Admins, DrainWaits(a) PROVE TypeOK'
  BY <1>34, ReapedType
  DEF DrainWaits, TypeOK, AGoto, ReadChild, requests, WorkerType
<1>35. ASSUME NEW a \in Admins, UnloadRefused(a) PROVE TypeOK'
  BY <1>35, ReapedType
  DEF UnloadRefused, TypeOK, AGoto, ReadChild, requests, WorkerType
<1>36. ASSUME NEW a \in Admins, UnloadAllowed(a) PROVE TypeOK'
  BY <1>36, ReapedType
  DEF UnloadAllowed, TypeOK, AGoto, ReadChild, requests, WorkerType
<1>37. ASSUME NEW a \in Admins, Unload(a) PROVE TypeOK'
  <2>1. CASE UnloadLocked(IF handover[a] = "drained" THEN "handover" ELSE "no")
    BY <1>37, <2>1, UnloadLockedType DEF Unload, TypeOK, WorkerType, AGoto, requests, UnloadFails
  <2>2. CASE UnloadFails
    BY <1>37, <2>2 DEF Unload, TypeOK, AGoto, requests, UnloadFails
  <2> QED
    BY <1>37, <2>1, <2>2 DEF Unload
<1>38. ASSUME NEW a \in Admins, DeadlinePasses(a) PROVE TypeOK'
  BY <1>38 DEF DeadlinePasses, TypeOK, supervisor, children, requests
<1>39. ASSUME NEW c \in Children, ChildUp(c) PROVE TypeOK'
  BY <1>39 DEF ChildUp, TypeOK, Outside, supervisor, requests, admins
<1>40. ASSUME NEW c \in Children, ChildDies(c) PROVE TypeOK'
  BY <1>40
  DEF ChildDies, TypeOK, Outside, supervisor, requests, admins, Stops
<1>41. ASSUME NEW c \in Children, JobEnds(c) PROVE TypeOK'
  BY <1>41 DEF JobEnds, TypeOK, Outside, supervisor, requests, admins
<1>42. ASSUME DrainAges PROVE TypeOK'
  BY <1>42 DEF DrainAges, TypeOK, children, requests, admins
<1>43. ASSUME UNCHANGED vars PROVE TypeOK'
  BY <1>43 DEF vars, TypeOK, supervisor, children, requests, admins
<1> QED
  BY <1>1, <1>2, <1>3, <1>4, <1>5, <1>6, <1>7, <1>8, <1>9, <1>10, <1>11,
      <1>12, <1>13, <1>14, <1>15, <1>16, <1>17, <1>18, <1>19, <1>20, <1>21,
      <1>22, <1>23, <1>24, <1>25, <1>26, <1>27, <1>28, <1>29, <1>30, <1>31,
      <1>32, <1>33, <1>34, <1>35, <1>36, <1>37, <1>38, <1>39, <1>40, <1>41,
      <1>42, <1>43
  DEF Next, Progress, Lock, Poll, Admin, AdminStep

(* Type correctness: every variable stays in the set TypeOK gives it; in    *)
(* particular no thread leaves the phases of proxy() and of the admin calls. *)
THEOREM TypeCorrect == Spec => []TypeOK
BY InitType, StepType, PTL DEF Spec

-----------------------------------------------------------------------------
(* Initially nobody holds mutex_, nobody is counted, no child exists. *)
LEMMA InitResidence == Init => Residence
BY SupervisorAssumption
DEF Init, Residence, MutexHeld, CounterExact, ForkOrder, PidForked, PidByPhase,
    OneResident, InMutex, NoWorker, Children

(* Who holds mutex_, who is counted and which child pid_ names is kept by   *)
(* every step.                                                             *)
LEMMA StepResidence ==
    ASSUME TypeOK, TypeOK', Residence, [Next]_vars
    PROVE  Residence'
<1>1. ASSUME NEW r \in Requests, Arrive(r) PROVE Residence'
  BY <1>1
  DEF Arrive, Residence, MutexHeld, CounterExact, ForkOrder, PidForked,
      PidByPhase, OneResident, InMutex, TypeOK, ReadDraining, RGoto, children,
      admins
<1>2. ASSUME NEW r \in Requests, Count(r) PROVE Residence'
  BY <1>2
  DEF Count, Residence, MutexHeld, CounterExact, ForkOrder, PidForked,
      PidByPhase, OneResident, InMutex, TypeOK, RGoto, children, admins
<1>3. ASSUME NEW r \in Requests, RejectUnknown(r) PROVE Residence'
  BY <1>3, ReapedIs, SupervisorAssumption
  DEF RejectUnknown, Residence, MutexHeld, CounterExact, ForkOrder, PidForked,
      PidByPhase, OneResident, InMutex, TypeOK, Enter, RGoto, children,
      admins, NoWorker
<1>4. ASSUME NEW r \in Requests, Reuse(r) PROVE Residence'
  BY <1>4, ReapedIs, SupervisorAssumption
  DEF Reuse, Residence, MutexHeld, CounterExact, ForkOrder, PidForked,
      PidByPhase, OneResident, InMutex, TypeOK, Enter, RGoto, children,
      admins, Matches, NoWorker
<1>5. ASSUME NEW r \in Requests, SwitchConflict(r) PROVE Residence'
  BY <1>5, ReapedIs, SupervisorAssumption
  DEF SwitchConflict, Residence, MutexHeld, CounterExact, ForkOrder,
      PidForked, PidByPhase, OneResident, InMutex, TypeOK, Enter, RGoto,
      children, admins, NoWorker
<1>6. ASSUME NEW r \in Requests, BeginSwitch(r) PROVE Residence'
  BY <1>6, ReapedIs, SupervisorAssumption
  DEF BeginSwitch, Residence, MutexHeld, CounterExact, ForkOrder, PidForked,
      PidByPhase, OneResident, InMutex, TypeOK, Enter, RGoto, children,
      admins, NoWorker
<1>7. ASSUME NEW r \in Requests, BeginStart(r) PROVE Residence'
  BY <1>7, ReapedIs, SupervisorAssumption
  DEF BeginStart, Residence, MutexHeld, CounterExact, ForkOrder, PidForked,
      PidByPhase, OneResident, InMutex, TypeOK, Enter, RGoto, children,
      admins, NoWorker
<1>8. ASSUME NEW r \in Requests, ChildBusy(r) PROVE Residence'
  BY <1>8, SupervisorAssumption
  DEF ChildBusy, Residence, MutexHeld, CounterExact, ForkOrder, PidForked,
      PidByPhase, OneResident, InMutex, TypeOK, Holding, RGoto, children,
      admins, Unlock, HealthBusy
<1>9. ASSUME NEW r \in Requests, ChildIdle(r) PROVE Residence'
  BY <1>9, SupervisorAssumption
  DEF ChildIdle, Residence, MutexHeld, CounterExact, ForkOrder, PidForked,
      PidByPhase, OneResident, InMutex, TypeOK, Holding, RGoto, children,
      admins
<1>10. ASSUME NEW r \in Requests, Swap(r) PROVE Residence'
  BY <1>10, SupervisorAssumption
  DEF Swap, Residence, MutexHeld, CounterExact, ForkOrder, PidForked,
      PidByPhase, OneResident, InMutex, TypeOK, Holding, RGoto, children,
      admins, Unlock
<1>11. ASSUME NEW r \in Requests, SwapFails(r) PROVE Residence'
  BY <1>11, SupervisorAssumption
  DEF SwapFails, Residence, MutexHeld, CounterExact, ForkOrder, PidForked,
      PidByPhase, OneResident, InMutex, TypeOK, Holding, RGoto, children,
      admins
<1>12. ASSUME NEW r \in Requests, Recycle(r) PROVE Residence'
  <2>1. CASE /\ worker.pid > 0 /\ ~Exited
             /\ Stops(worker.pid, IF r \in unheard THEN "unheard" ELSE "switch") /\ worker' = NoWorker
    BY <1>12, <2>1, SupervisorAssumption
    DEF Recycle, Residence, MutexHeld, CounterExact, ForkOrder, PidForked, PidByPhase,
        OneResident, InMutex, TypeOK, Holding, RGoto, Stops, NoWorker
  <2>2. CASE Exited /\ worker' = NoWorker /\ UNCHANGED <<proc, jobs, lost>>
    BY <1>12, <2>2, SupervisorAssumption
    DEF Recycle, Residence, MutexHeld, CounterExact, ForkOrder, PidForked, PidByPhase,
        OneResident, InMutex, TypeOK, Holding, RGoto, Exited, NoWorker
  <2>3. CASE worker.pid = 0 /\ UNCHANGED <<worker, proc, jobs, lost>>
    BY <1>12, <2>3, SupervisorAssumption
    DEF Recycle, Residence, MutexHeld, CounterExact, ForkOrder, PidForked, PidByPhase,
        OneResident, InMutex, TypeOK, Holding, RGoto
  <2> QED
    BY <1>12, <2>1, <2>2, <2>3 DEF Recycle, UnloadLocked
<1>13. ASSUME NEW r \in Requests, RecycleFails(r) PROVE Residence'
  BY <1>13, SupervisorAssumption
  DEF RecycleFails, Residence, MutexHeld, CounterExact, ForkOrder, PidForked,
      PidByPhase, OneResident, InMutex, TypeOK, Holding, RGoto, children,
      admins, Unlock, UnloadFails
<1>14. ASSUME NEW r \in Requests, Spawn(r) PROVE Residence'
  BY <1>14, SupervisorAssumption
  DEF Spawn, Residence, MutexHeld, CounterExact, ForkOrder, PidForked,
      PidByPhase, OneResident, InMutex, TypeOK, Holding, RGoto, children,
      admins, Children
<1>15. ASSUME NEW r \in Requests, SpawnFails(r) PROVE Residence'
  BY <1>15, SupervisorAssumption
  DEF SpawnFails, Residence, MutexHeld, CounterExact, ForkOrder, PidForked,
      PidByPhase, OneResident, InMutex, TypeOK, Holding, RGoto, children,
      admins, Unlock
<1>16. ASSUME NEW r \in Requests, Ready(r) PROVE Residence'
  BY <1>16, SupervisorAssumption
  DEF Ready, Residence, MutexHeld, CounterExact, ForkOrder, PidForked,
      PidByPhase, OneResident, InMutex, TypeOK, Holding, RGoto, children,
      admins, Unlock
<1>17. ASSUME NEW r \in Requests, StartupDeath(r) PROVE Residence'
  BY <1>17, SupervisorAssumption
  DEF StartupDeath, Residence, MutexHeld, CounterExact, ForkOrder, PidForked,
      PidByPhase, OneResident, InMutex, TypeOK, Holding, RGoto, children,
      admins, Unlock
<1>18. ASSUME NEW r \in Requests, StartupTimeout(r) PROVE Residence'
  BY <1>18, SupervisorAssumption
  DEF StartupTimeout, Residence, MutexHeld, CounterExact, ForkOrder,
      PidForked, PidByPhase, OneResident, InMutex, TypeOK, Holding, RGoto,
      children, admins, Unlock, UnloadLocked, Exited, Stops, UnloadFails,
      NoWorker
<1>19. ASSUME NEW r \in Requests, AcceptJob(r) PROVE Residence'
  BY <1>19
  DEF AcceptJob, Residence, MutexHeld, CounterExact, ForkOrder, PidForked,
      PidByPhase, OneResident, InMutex, TypeOK, RGoto, supervisor, children,
      admins
<1>20. ASSUME NEW r \in Requests, AcceptSync(r) PROVE Residence'
  BY <1>20
  DEF AcceptSync, Residence, MutexHeld, CounterExact, ForkOrder, PidForked,
      PidByPhase, OneResident, InMutex, TypeOK, RGoto, supervisor, children,
      admins
<1>21. ASSUME NEW r \in Requests, NotAccepted(r) PROVE Residence'
  BY <1>21
  DEF NotAccepted, Residence, MutexHeld, CounterExact, ForkOrder, PidForked,
      PidByPhase, OneResident, InMutex, TypeOK, RGoto, supervisor, children,
      admins
<1>22. ASSUME NEW r \in Requests, SyncEnds(r) PROVE Residence'
  BY <1>22
  DEF SyncEnds, Residence, MutexHeld, CounterExact, ForkOrder, PidForked,
      PidByPhase, OneResident, InMutex, TypeOK, RGoto, supervisor, children,
      admins
<1>23. ASSUME NEW r \in Requests, Release(r) PROVE Residence'
  BY <1>23
  DEF Release, Residence, MutexHeld, CounterExact, ForkOrder, PidForked,
      PidByPhase, OneResident, InMutex, TypeOK, RGoto, supervisor, children,
      admins
<1>24. ASSUME NEW q \in Polls, PollArrives(q) PROVE Residence'
  BY <1>24
  DEF PollArrives, Residence, MutexHeld, CounterExact, ForkOrder, PidForked,
      PidByPhase, OneResident, InMutex, TypeOK, PGoto, requests, admins,
      children, ReadDraining
<1>25. ASSUME NEW q \in Polls, PollLoaded(q) PROVE Residence'
  BY <1>25, ReapedIs, SupervisorAssumption
  DEF PollLoaded, Residence, MutexHeld, CounterExact, ForkOrder, PidForked,
      PidByPhase, OneResident, InMutex, TypeOK, PGoto, requests, admins,
      children, NoWorker
<1>26. ASSUME NEW q \in Polls, PollAttach(q) PROVE Residence'
  BY <1>26, ReapedIs, SupervisorAssumption
  DEF PollAttach, Residence, MutexHeld, CounterExact, ForkOrder, PidForked,
      PidByPhase, OneResident, InMutex, TypeOK, PGoto, requests, admins,
      children, NoWorker
<1>27. ASSUME NEW q \in Polls, PollAnswered(q) PROVE Residence'
  BY <1>27
  DEF PollAnswered, Residence, MutexHeld, CounterExact, ForkOrder, PidForked,
      PidByPhase, OneResident, InMutex, TypeOK, PGoto, requests, admins,
      children
<1>28. ASSUME NEW a \in Admins, BeginDrain(a) PROVE Residence'
  BY <1>28
  DEF BeginDrain, Residence, MutexHeld, CounterExact, ForkOrder, PidForked,
      PidByPhase, OneResident, InMutex, TypeOK, AGoto, requests
<1>29. ASSUME NEW a \in Admins, BeginUnload(a) PROVE Residence'
  BY <1>29
  DEF BeginUnload, Residence, MutexHeld, CounterExact, ForkOrder, PidForked,
      PidByPhase, OneResident, InMutex, TypeOK, AGoto, requests
<1>30. ASSUME NEW a \in Admins, Load(a) PROVE Residence'
  BY <1>30
  DEF Load, Residence, MutexHeld, CounterExact, ForkOrder, PidForked,
      PidByPhase, OneResident, InMutex, TypeOK, AGoto, requests
<1>31. ASSUME NEW a \in Admins, ReadCounter(a) PROVE Residence'
  BY <1>31
  DEF ReadCounter, Residence, MutexHeld, CounterExact, ForkOrder, PidForked,
      PidByPhase, OneResident, InMutex, TypeOK, AGoto, requests
<1>32. ASSUME NEW a \in Admins, DrainDone(a) PROVE Residence'
  BY <1>32, ReapedIs, SupervisorAssumption
  DEF DrainDone, Residence, MutexHeld, CounterExact, ForkOrder, PidForked,
      PidByPhase, OneResident, InMutex, TypeOK, AGoto, ReadChild, requests,
      NoWorker
<1>33. ASSUME NEW a \in Admins, DrainTimesOut(a) PROVE Residence'
  BY <1>33, ReapedIs, SupervisorAssumption
  DEF DrainTimesOut, Residence, MutexHeld, CounterExact, ForkOrder, PidForked,
      PidByPhase, OneResident, InMutex, TypeOK, AGoto, ReadChild, requests,
      NoWorker
<1>34. ASSUME NEW a \in Admins, DrainWaits(a) PROVE Residence'
  BY <1>34, ReapedIs, SupervisorAssumption
  DEF DrainWaits, Residence, MutexHeld, CounterExact, ForkOrder, PidForked,
      PidByPhase, OneResident, InMutex, TypeOK, AGoto, ReadChild, requests,
      NoWorker
<1>35. ASSUME NEW a \in Admins, UnloadRefused(a) PROVE Residence'
  BY <1>35, ReapedIs, SupervisorAssumption
  DEF UnloadRefused, Residence, MutexHeld, CounterExact, ForkOrder, PidForked,
      PidByPhase, OneResident, InMutex, TypeOK, AGoto, ReadChild, requests,
      NoWorker
<1>36. ASSUME NEW a \in Admins, UnloadAllowed(a) PROVE Residence'
  BY <1>36, ReapedIs, SupervisorAssumption
  DEF UnloadAllowed, Residence, MutexHeld, CounterExact, ForkOrder, PidForked,
      PidByPhase, OneResident, InMutex, TypeOK, AGoto, ReadChild, requests,
      NoWorker
<1>37. ASSUME NEW a \in Admins, Unload(a) PROVE Residence'
  <2>1. UNCHANGED <<mutex, counted, forked, rpc>>
    BY <1>37 DEF Unload, AGoto, requests
  <2>2. CASE UNCHANGED <<proc, worker>>
    BY <2>1, <2>2
    DEF Residence, MutexHeld, CounterExact, ForkOrder, PidForked, PidByPhase,
        OneResident
  <2>3. CASE Exited /\ UNCHANGED proc /\ worker' = NoWorker
    BY <1>37, <2>1, <2>3, SupervisorAssumption
    DEF Unload, Residence, MutexHeld, CounterExact, ForkOrder, PidForked,
        PidByPhase, OneResident, InMutex, TypeOK, Exited, NoWorker
  <2>4. ASSUME NEW why, Stops(worker.pid, why), worker' = NoWorker PROVE Residence'
    BY <1>37, <2>1, <2>4, SupervisorAssumption
    DEF Unload, Residence, MutexHeld, CounterExact, ForkOrder, PidForked,
        PidByPhase, OneResident, InMutex, TypeOK, Stops, NoWorker
  <2> QED
    BY <1>37, <2>2, <2>3, <2>4 DEF Unload, UnloadLocked, UnloadFails
<1>38. ASSUME NEW a \in Admins, DeadlinePasses(a) PROVE Residence'
  BY <1>38
  DEF DeadlinePasses, Residence, MutexHeld, CounterExact, ForkOrder,
      PidForked, PidByPhase, OneResident, InMutex, TypeOK, supervisor,
      children, requests
<1>39. ASSUME NEW c \in Children, ChildUp(c) PROVE Residence'
  BY <1>39
  DEF ChildUp, Residence, MutexHeld, CounterExact, ForkOrder, PidForked,
      PidByPhase, OneResident, InMutex, TypeOK, Outside, supervisor, requests,
      admins
<1>40. ASSUME NEW c \in Children, ChildDies(c) PROVE Residence'
  BY <1>40
  DEF ChildDies, Residence, MutexHeld, CounterExact, ForkOrder, PidForked,
      PidByPhase, OneResident, InMutex, TypeOK, Outside, supervisor, requests,
      admins, Stops
<1>41. ASSUME NEW c \in Children, JobEnds(c) PROVE Residence'
  BY <1>41
  DEF JobEnds, Residence, MutexHeld, CounterExact, ForkOrder, PidForked,
      PidByPhase, OneResident, InMutex, TypeOK, Outside, supervisor, requests,
      admins
<1>42. ASSUME DrainAges PROVE Residence'
  BY <1>42
  DEF DrainAges, Residence, MutexHeld, CounterExact, ForkOrder, PidForked,
      PidByPhase, OneResident, InMutex, TypeOK, children, requests, admins
<1>43. ASSUME UNCHANGED vars PROVE Residence'
  BY <1>43
  DEF vars, Residence, MutexHeld, CounterExact, ForkOrder, PidForked,
      PidByPhase, OneResident, InMutex, TypeOK, supervisor, children,
      requests, admins
<1> QED
  BY <1>1, <1>2, <1>3, <1>4, <1>5, <1>6, <1>7, <1>8, <1>9, <1>10, <1>11,
      <1>12, <1>13, <1>14, <1>15, <1>16, <1>17, <1>18, <1>19, <1>20, <1>21,
      <1>22, <1>23, <1>24, <1>25, <1>26, <1>27, <1>28, <1>29, <1>30, <1>31,
      <1>32, <1>33, <1>34, <1>35, <1>36, <1>37, <1>38, <1>39, <1>40, <1>41,
      <1>42, <1>43
  DEF Next, Progress, Lock, Poll, Admin, AdminStep

(* The supervisor keeps at most one CUDA process, the one pid_ names: every *)
(* way out of ensure_worker_locked(), unload() and the reaping leaves no    *)
(* child behind that the parent has forgotten.                             *)
THEOREM ResidentIsUnique == Spec => []OneResident
<1>1. Init => TypeOK /\ Residence
  BY InitType, InitResidence
<1>2. TypeOK /\ Residence /\ [Next]_vars => TypeOK' /\ Residence'
  BY StepType, StepResidence
<1>3. Residence => OneResident
  BY DEF Residence
<1> QED
  BY <1>1, <1>2, <1>3, PTL DEF Spec

-----------------------------------------------------------------------------
(* Initially no request has any work anywhere. *)
LEMMA InitWork == Init => Work
BY SupervisorAssumption
DEF Init, Work, JobsUp, JobsAccepted, SwitchAlone, TargetForked, ResidentLoads,
    WaitedModel, RoutedRight, NoWorker, Children

(* Where each request's work is, and what the child that has it serves, is  *)
(* kept by every step.                                                     *)
LEMMA StepWork ==
    ASSUME TypeOK, TypeOK', Residence, Work, [Next]_vars
    PROVE  Work'
<1>1. ASSUME NEW r \in Requests, Arrive(r) PROVE Work'
  <2>1. /\ rpc[r] = "idle" /\ rpc'[r] \in {"done", "counting"}
        /\ \A q \in Requests : q # r => rpc'[q] = rpc[q] /\ asks'[q] = asks[q]
        /\ UNCHANGED <<worker, forked, proc, loads, jobs, target>>
    BY <1>1 DEF Arrive, RGoto, TypeOK, children
  <2>2. JobsUp' /\ TargetForked' /\ ResidentLoads'
    BY <2>1 DEF Work, JobsUp, TargetForked, ResidentLoads
  <2>3. JobsAccepted'
    <3>1. \A c \in Children : jobs[c] \subseteq Requests /\ r \notin jobs[c]
      BY <2>1 DEF TypeOK, Work, JobsAccepted
    <3> QED
      BY <2>1, <3>1 DEF Work, JobsAccepted
  <2>4. WaitedModel' /\ SwitchAlone'
    BY <2>1 DEF Work, WaitedModel, SwitchAlone, Outsiders
  <2>5. RoutedRight'
    BY <2>1 DEF Work, RoutedRight, JobsAccepted
  <2> QED
    BY <2>2, <2>3, <2>4, <2>5 DEF Work
<1>2. ASSUME NEW r \in Requests, Count(r) PROVE Work'
  BY <1>2
  DEF Count, Work, JobsUp, JobsAccepted, SwitchAlone, TargetForked,
      ResidentLoads, WaitedModel, RoutedRight, Outsiders, TypeOK, RGoto,
      children, admins
<1>3. ASSUME NEW r \in Requests, RejectUnknown(r) PROVE Work'
  BY <1>3, ReapedIs, SupervisorAssumption, SMTT(60)
  DEF RejectUnknown, Work, JobsUp, JobsAccepted, SwitchAlone, TargetForked,
      ResidentLoads, WaitedModel, RoutedRight, Outsiders, TypeOK, Enter,
      RGoto, children, admins, NoWorker, Matches, OthersCounted, Residence,
      CounterExact, MutexHeld, InMutex, PidForked
<1>4. ASSUME NEW r \in Requests, Reuse(r) PROVE Work'
  BY <1>4, ReapedIs, SupervisorAssumption, SMTT(60)
  DEF Reuse, Work, JobsUp, JobsAccepted, SwitchAlone, TargetForked,
      ResidentLoads, WaitedModel, RoutedRight, Outsiders, TypeOK, Enter,
      RGoto, children, admins, Matches, NoWorker, OthersCounted, Residence,
      CounterExact, MutexHeld, InMutex, PidForked
<1>5. ASSUME NEW r \in Requests, SwitchConflict(r) PROVE Work'
  BY <1>5, ReapedIs, SupervisorAssumption, SMTT(60)
  DEF SwitchConflict, Work, JobsUp, JobsAccepted, SwitchAlone, TargetForked,
      ResidentLoads, WaitedModel, RoutedRight, Outsiders, TypeOK, Enter,
      RGoto, children, admins, NoWorker, Matches, OthersCounted, Residence,
      CounterExact, MutexHeld, InMutex, PidForked
<1>6. ASSUME NEW r \in Requests, BeginSwitch(r) PROVE Work'
  BY <1>6, ReapedIs, SupervisorAssumption, SMTT(60)
  DEF BeginSwitch, Work, JobsUp, JobsAccepted, SwitchAlone, TargetForked,
      ResidentLoads, WaitedModel, RoutedRight, Outsiders, TypeOK, Enter,
      RGoto, children, admins, NoWorker, Matches, OthersCounted, Residence,
      CounterExact, MutexHeld, InMutex, PidForked
<1>7. ASSUME NEW r \in Requests, BeginStart(r) PROVE Work'
  BY <1>7, ReapedIs, SupervisorAssumption, SMTT(60)
  DEF BeginStart, Work, JobsUp, JobsAccepted, SwitchAlone, TargetForked,
      ResidentLoads, WaitedModel, RoutedRight, Outsiders, TypeOK, Enter,
      RGoto, children, admins, NoWorker, Matches, OthersCounted, Residence,
      CounterExact, MutexHeld, InMutex, PidForked
<1>8. ASSUME NEW r \in Requests, ChildBusy(r) PROVE Work'
  BY <1>8, SupervisorAssumption
  DEF ChildBusy, Work, JobsUp, JobsAccepted, SwitchAlone, TargetForked,
      ResidentLoads, WaitedModel, RoutedRight, Outsiders, TypeOK, Holding,
      RGoto, children, admins, Unlock, HealthBusy, Residence, MutexHeld,
      InMutex, PidForked, PidByPhase
<1>9. ASSUME NEW r \in Requests, ChildIdle(r) PROVE Work'
  BY <1>9, SupervisorAssumption
  DEF ChildIdle, Work, JobsUp, JobsAccepted, SwitchAlone, TargetForked,
      ResidentLoads, WaitedModel, RoutedRight, Outsiders, TypeOK, Holding,
      RGoto, children, admins, Residence, MutexHeld, InMutex, PidForked,
      PidByPhase
<1>10. ASSUME NEW r \in Requests, Swap(r) PROVE Work'
  <2>1. /\ worker.pid \in Children /\ worker.port = worker.pid /\ mutex = r
        /\ \A q \in Requests \ {r} : rpc[q] \in Outsiders
    BY <1>10, SupervisorAssumption
    DEF Swap, Holding, RGoto, TypeOK, Residence, PidForked, PidByPhase, Work,
        SwitchAlone, Children
  <2>2. /\ loads' = [loads EXCEPT ![worker.pid] = asks[r].model]
        /\ worker'.pid = worker.pid /\ worker'.model = asks[r].model
        /\ rpc' = [rpc EXCEPT ![r] = "forwarding"]
        /\ target' = [target EXCEPT ![r] = worker.pid]
        /\ jobs[worker.pid] = {} /\ rpc[r] = "swapping"
        /\ UNCHANGED <<proc, jobs, forked, asks>>
    BY <1>10, <2>1 DEF Swap, Holding, RGoto, TypeOK
  <2>3. RoutedRight'
    <3> SUFFICES ASSUME NEW q \in Requests, NEW c \in Children,
                        (q \in jobs[c] \/ (rpc[q] \in {"forwarding", "rendering"}
                                          /\ target[q] = c))'
                 PROVE  loads'[c] = asks[q].model
      BY <2>2 DEF RoutedRight
    <3>1. CASE q = r
      BY <2>1, <2>2, <3>1 DEF TypeOK, Work, RoutedRight, JobsAccepted
    <3>2. CASE q # r
      <4>1. rpc'[q] = rpc[q] /\ rpc[q] \in Outsiders
        BY <2>1, <2>2, <3>2 DEF TypeOK
      <4>2. q \in jobs[c]
        BY <2>2, <4>1 DEF Outsiders
      <4>3. c # worker.pid
        BY <2>2, <4>2
      <4> QED
        BY <2>2, <4>2, <4>3 DEF TypeOK, Work, RoutedRight
    <3> QED
      BY <3>1, <3>2
  <2>4. JobsUp' /\ JobsAccepted' /\ TargetForked' /\ ResidentLoads'
    BY <2>1, <2>2, SupervisorAssumption
    DEF Work, JobsUp, JobsAccepted, TargetForked, ResidentLoads, TypeOK,
        Residence, PidForked
  <2>5. \A q \in Requests : rpc'[q] \in Outsiders \cup {"forwarding"}
    BY <2>1, <2>2 DEF TypeOK
  <2>6. SwitchAlone' /\ WaitedModel'
    BY <2>5 DEF SwitchAlone, WaitedModel, Outsiders
  <2> QED
    BY <2>3, <2>4, <2>6 DEF Work
<1>11. ASSUME NEW r \in Requests, SwapFails(r) PROVE Work'
  BY <1>11, SupervisorAssumption
  DEF SwapFails, Work, JobsUp, JobsAccepted, SwitchAlone, TargetForked,
      ResidentLoads, WaitedModel, RoutedRight, Outsiders, TypeOK, Holding,
      RGoto, children, admins, Residence, MutexHeld, InMutex, PidForked,
      PidByPhase
<1>12. ASSUME NEW r \in Requests, Recycle(r) PROVE Work'
  <2>1. CASE Stops(worker.pid, IF r \in unheard THEN "unheard" ELSE "switch")
             /\ worker' = NoWorker
    BY <1>12, <2>1, SupervisorAssumption
    DEF Recycle, Work, JobsUp, JobsAccepted, SwitchAlone, TargetForked, ResidentLoads,
        WaitedModel, RoutedRight, Outsiders, Residence, MutexHeld, InMutex, TypeOK,
        Holding, RGoto, Stops, NoWorker
  <2>2. CASE worker' \in {worker, NoWorker} /\ UNCHANGED <<proc, jobs, lost>>
    BY <1>12, <2>2, SupervisorAssumption
    DEF Recycle, Work, JobsUp, JobsAccepted, SwitchAlone, TargetForked, ResidentLoads,
        WaitedModel, RoutedRight, Outsiders, Residence, MutexHeld, InMutex, TypeOK,
        Holding, RGoto, NoWorker
  <2> QED
    BY <1>12, <2>1, <2>2 DEF Recycle, UnloadLocked
<1>13. ASSUME NEW r \in Requests, RecycleFails(r) PROVE Work'
  BY <1>13, SupervisorAssumption
  DEF RecycleFails, Work, JobsUp, JobsAccepted, SwitchAlone, TargetForked,
      ResidentLoads, WaitedModel, RoutedRight, Outsiders, TypeOK, Holding,
      RGoto, children, admins, Unlock, UnloadFails, Residence, MutexHeld,
      InMutex, PidForked, PidByPhase
<1>14. ASSUME NEW r \in Requests, Spawn(r) PROVE Work'
  BY <1>14, SupervisorAssumption
  DEF Spawn, Work, JobsUp, JobsAccepted, SwitchAlone, TargetForked,
      ResidentLoads, WaitedModel, RoutedRight, Outsiders, TypeOK, Holding,
      RGoto, children, admins, Children, Residence, MutexHeld, InMutex,
      PidForked, PidByPhase, ForkOrder
<1>15. ASSUME NEW r \in Requests, SpawnFails(r) PROVE Work'
  BY <1>15, SupervisorAssumption
  DEF SpawnFails, Work, JobsUp, JobsAccepted, SwitchAlone, TargetForked,
      ResidentLoads, WaitedModel, RoutedRight, Outsiders, TypeOK, Holding,
      RGoto, children, admins, Unlock, Residence, MutexHeld, InMutex,
      PidForked, PidByPhase
<1>16. ASSUME NEW r \in Requests, Ready(r) PROVE Work'
  BY <1>16, SupervisorAssumption
  DEF Ready, Work, JobsUp, JobsAccepted, SwitchAlone, TargetForked,
      ResidentLoads, WaitedModel, RoutedRight, Outsiders, TypeOK, Holding,
      RGoto, children, admins, Unlock, Residence, MutexHeld, InMutex,
      PidForked, PidByPhase
<1>17. ASSUME NEW r \in Requests, StartupDeath(r) PROVE Work'
  BY <1>17, SupervisorAssumption
  DEF StartupDeath, Work, JobsUp, JobsAccepted, SwitchAlone, TargetForked,
      ResidentLoads, WaitedModel, RoutedRight, Outsiders, TypeOK, Holding,
      RGoto, children, admins, Unlock, Residence, MutexHeld, InMutex,
      PidForked, PidByPhase
<1>18. ASSUME NEW r \in Requests, StartupTimeout(r) PROVE Work'
  <2>1. CASE Stops(worker.pid, "no") /\ worker' = NoWorker
    BY <1>18, <2>1, SupervisorAssumption
    DEF StartupTimeout, Work, JobsUp, JobsAccepted, SwitchAlone, TargetForked, ResidentLoads,
        WaitedModel, RoutedRight, Outsiders, Residence, MutexHeld, InMutex, TypeOK,
        Holding, RGoto, Unlock, Stops, NoWorker
  <2>2. CASE worker' \in {worker, NoWorker} /\ UNCHANGED <<proc, jobs, lost>>
    BY <1>18, <2>2, SupervisorAssumption
    DEF StartupTimeout, Work, JobsUp, JobsAccepted, SwitchAlone, TargetForked, ResidentLoads,
        WaitedModel, RoutedRight, Outsiders, Residence, MutexHeld, InMutex, TypeOK,
        Holding, RGoto, Unlock, NoWorker
  <2> QED
    BY <1>18, <2>1, <2>2 DEF StartupTimeout, UnloadLocked, UnloadFails
<1>19. ASSUME NEW r \in Requests, AcceptJob(r) PROVE Work'
  BY <1>19
  DEF AcceptJob, Work, JobsUp, JobsAccepted, SwitchAlone, TargetForked,
      ResidentLoads, WaitedModel, RoutedRight, Outsiders, TypeOK, RGoto,
      supervisor, children, admins
<1>20. ASSUME NEW r \in Requests, AcceptSync(r) PROVE Work'
  BY <1>20
  DEF AcceptSync, Work, JobsUp, JobsAccepted, SwitchAlone, TargetForked,
      ResidentLoads, WaitedModel, RoutedRight, Outsiders, TypeOK, RGoto,
      supervisor, children, admins
<1>21. ASSUME NEW r \in Requests, NotAccepted(r) PROVE Work'
  BY <1>21
  DEF NotAccepted, Work, JobsUp, JobsAccepted, SwitchAlone, TargetForked,
      ResidentLoads, WaitedModel, RoutedRight, Outsiders, TypeOK, RGoto,
      supervisor, children, admins
<1>22. ASSUME NEW r \in Requests, SyncEnds(r) PROVE Work'
  BY <1>22
  DEF SyncEnds, Work, JobsUp, JobsAccepted, SwitchAlone, TargetForked,
      ResidentLoads, WaitedModel, RoutedRight, Outsiders, TypeOK, RGoto,
      supervisor, children, admins
<1>23. ASSUME NEW r \in Requests, Release(r) PROVE Work'
  BY <1>23
  DEF Release, Work, JobsUp, JobsAccepted, SwitchAlone, TargetForked,
      ResidentLoads, WaitedModel, RoutedRight, Outsiders, TypeOK, RGoto,
      supervisor, children, admins
<1>24. ASSUME NEW q \in Polls, PollArrives(q) PROVE Work'
  BY <1>24
  DEF PollArrives, Work, JobsUp, JobsAccepted, SwitchAlone, TargetForked,
      ResidentLoads, WaitedModel, RoutedRight, Outsiders, TypeOK, PGoto,
      requests, admins, children, ReadDraining
<1>25. ASSUME NEW q \in Polls, PollLoaded(q) PROVE Work'
  BY <1>25, ReapedIs, SupervisorAssumption
  DEF PollLoaded, Work, JobsUp, JobsAccepted, SwitchAlone, TargetForked,
      ResidentLoads, WaitedModel, RoutedRight, Outsiders, TypeOK, PGoto,
      requests, admins, children, NoWorker, Residence, MutexHeld, InMutex
<1>26. ASSUME NEW q \in Polls, PollAttach(q) PROVE Work'
  BY <1>26, ReapedIs, SupervisorAssumption
  DEF PollAttach, Work, JobsUp, JobsAccepted, SwitchAlone, TargetForked,
      ResidentLoads, WaitedModel, RoutedRight, Outsiders, TypeOK, PGoto,
      requests, admins, children, NoWorker, Residence, MutexHeld, InMutex
<1>27. ASSUME NEW q \in Polls, PollAnswered(q) PROVE Work'
  BY <1>27, SupervisorAssumption
  DEF PollAnswered, Work, JobsUp, JobsAccepted, SwitchAlone, TargetForked,
      ResidentLoads, WaitedModel, RoutedRight, Outsiders, TypeOK, PGoto,
      requests, admins, children
<1>28. ASSUME NEW a \in Admins, BeginDrain(a) PROVE Work'
  BY <1>28
  DEF BeginDrain, Work, JobsUp, JobsAccepted, SwitchAlone, TargetForked,
      ResidentLoads, WaitedModel, RoutedRight, Outsiders, TypeOK, AGoto,
      requests
<1>29. ASSUME NEW a \in Admins, BeginUnload(a) PROVE Work'
  BY <1>29
  DEF BeginUnload, Work, JobsUp, JobsAccepted, SwitchAlone, TargetForked,
      ResidentLoads, WaitedModel, RoutedRight, Outsiders, TypeOK, AGoto,
      requests
<1>30. ASSUME NEW a \in Admins, Load(a) PROVE Work'
  BY <1>30
  DEF Load, Work, JobsUp, JobsAccepted, SwitchAlone, TargetForked,
      ResidentLoads, WaitedModel, RoutedRight, Outsiders, TypeOK, AGoto,
      requests
<1>31. ASSUME NEW a \in Admins, ReadCounter(a) PROVE Work'
  BY <1>31
  DEF ReadCounter, Work, JobsUp, JobsAccepted, SwitchAlone, TargetForked,
      ResidentLoads, WaitedModel, RoutedRight, Outsiders, TypeOK, AGoto,
      requests
<1>32. ASSUME NEW a \in Admins, DrainDone(a) PROVE Work'
  BY <1>32, ReapedIs, SupervisorAssumption
  DEF DrainDone, Work, JobsUp, JobsAccepted, SwitchAlone, TargetForked,
      ResidentLoads, WaitedModel, RoutedRight, Outsiders, TypeOK, AGoto,
      ReadChild, requests, NoWorker, Residence, MutexHeld, InMutex
<1>33. ASSUME NEW a \in Admins, DrainTimesOut(a) PROVE Work'
  BY <1>33, ReapedIs, SupervisorAssumption
  DEF DrainTimesOut, Work, JobsUp, JobsAccepted, SwitchAlone, TargetForked,
      ResidentLoads, WaitedModel, RoutedRight, Outsiders, TypeOK, AGoto,
      ReadChild, requests, NoWorker, Residence, MutexHeld, InMutex
<1>34. ASSUME NEW a \in Admins, DrainWaits(a) PROVE Work'
  BY <1>34, ReapedIs, SupervisorAssumption
  DEF DrainWaits, Work, JobsUp, JobsAccepted, SwitchAlone, TargetForked,
      ResidentLoads, WaitedModel, RoutedRight, Outsiders, TypeOK, AGoto,
      ReadChild, requests, NoWorker, Residence, MutexHeld, InMutex
<1>35. ASSUME NEW a \in Admins, UnloadRefused(a) PROVE Work'
  BY <1>35, ReapedIs, SupervisorAssumption
  DEF UnloadRefused, Work, JobsUp, JobsAccepted, SwitchAlone, TargetForked,
      ResidentLoads, WaitedModel, RoutedRight, Outsiders, TypeOK, AGoto,
      ReadChild, requests, NoWorker, Residence, MutexHeld, InMutex
<1>36. ASSUME NEW a \in Admins, UnloadAllowed(a) PROVE Work'
  BY <1>36, ReapedIs, SupervisorAssumption
  DEF UnloadAllowed, Work, JobsUp, JobsAccepted, SwitchAlone, TargetForked,
      ResidentLoads, WaitedModel, RoutedRight, Outsiders, TypeOK, AGoto,
      ReadChild, requests, NoWorker, Residence, MutexHeld, InMutex
<1>37. ASSUME NEW a \in Admins, Unload(a) PROVE Work'
  <2>1. CASE Stops(worker.pid, IF handover[a] = "drained" THEN "handover" ELSE "no") /\ worker' = NoWorker
    BY <1>37, <2>1, SupervisorAssumption
    DEF Unload, Work, JobsUp, JobsAccepted, SwitchAlone, TargetForked, ResidentLoads,
        WaitedModel, RoutedRight, Outsiders, Residence, MutexHeld, InMutex, TypeOK,
        AGoto, requests, Stops, NoWorker
  <2>2. CASE worker' \in {worker, NoWorker} /\ UNCHANGED <<proc, jobs, lost>>
    BY <1>37, <2>2, SupervisorAssumption
    DEF Unload, Work, JobsUp, JobsAccepted, SwitchAlone, TargetForked, ResidentLoads,
        WaitedModel, RoutedRight, Outsiders, Residence, MutexHeld, InMutex, TypeOK,
        AGoto, requests, NoWorker
  <2> QED
    BY <1>37, <2>1, <2>2 DEF Unload, UnloadLocked, UnloadFails
<1>38. ASSUME NEW a \in Admins, DeadlinePasses(a) PROVE Work'
  BY <1>38
  DEF DeadlinePasses, Work, JobsUp, JobsAccepted, SwitchAlone, TargetForked,
      ResidentLoads, WaitedModel, RoutedRight, Outsiders, TypeOK, supervisor,
      children, requests
<1>39. ASSUME NEW c \in Children, ChildUp(c) PROVE Work'
  BY <1>39
  DEF ChildUp, Work, JobsUp, JobsAccepted, SwitchAlone, TargetForked,
      ResidentLoads, WaitedModel, RoutedRight, Outsiders, TypeOK, Outside,
      supervisor, requests, admins, Residence, ForkOrder
<1>40. ASSUME NEW c \in Children, ChildDies(c) PROVE Work'
  BY <1>40
  DEF ChildDies, Work, JobsUp, JobsAccepted, SwitchAlone, TargetForked,
      ResidentLoads, WaitedModel, RoutedRight, Outsiders, TypeOK, Outside,
      supervisor, requests, admins, Stops, Residence, ForkOrder
<1>41. ASSUME NEW c \in Children, JobEnds(c) PROVE Work'
  BY <1>41
  DEF JobEnds, Work, JobsUp, JobsAccepted, SwitchAlone, TargetForked,
      ResidentLoads, WaitedModel, RoutedRight, Outsiders, TypeOK, Outside,
      supervisor, requests, admins, Residence, ForkOrder
<1>42. ASSUME DrainAges PROVE Work'
  BY <1>42
  DEF DrainAges, Work, JobsUp, JobsAccepted, SwitchAlone, TargetForked,
      ResidentLoads, WaitedModel, RoutedRight, Outsiders, TypeOK, children,
      requests, admins
<1>43. ASSUME UNCHANGED vars PROVE Work'
  BY <1>43
  DEF vars, Work, JobsUp, JobsAccepted, SwitchAlone, TargetForked,
      ResidentLoads, WaitedModel, RoutedRight, Outsiders, TypeOK, supervisor,
      children, requests, admins
<1> QED
  BY <1>1, <1>2, <1>3, <1>4, <1>5, <1>6, <1>7, <1>8, <1>9, <1>10, <1>11,
      <1>12, <1>13, <1>14, <1>15, <1>16, <1>17, <1>18, <1>19, <1>20, <1>21,
      <1>22, <1>23, <1>24, <1>25, <1>26, <1>27, <1>28, <1>29, <1>30, <1>31,
      <1>32, <1>33, <1>34, <1>35, <1>36, <1>37, <1>38, <1>39, <1>40, <1>41,
      <1>42, <1>43
  DEF Next, Progress, Lock, Poll, Admin, AdminStep

(* Whatever a child renders, it renders with the variant the request was    *)
(* resolved to, even when /health does not answer.                         *)
THEOREM VariantIsRight == Spec => []RightVariant
<1>1. Init => TypeOK /\ Residence /\ Work
  BY InitType, InitResidence, InitWork
<1>2. TypeOK /\ Residence /\ Work /\ [Next]_vars => (TypeOK /\ Residence /\ Work)'
  BY StepType, StepResidence, StepWork
<1>3. Work => RightVariant
  BY DEF Work, RoutedRight, RightVariant
<1> QED
  BY <1>1, <1>2, <1>3, PTL DEF Spec

-----------------------------------------------------------------------------
(* Initially nothing is being switched, lost or watched. *)
LEMMA InitQuiet == Init => Quiet
BY DEF Init, Quiet, AskedIsIdle, SwitchSparesWork, SeenAnswered

(* A child about to be replaced stays without work unless it did not        *)
(* answer, and what a drain saw answered stays answered.                    *)
LEMMA StepQuiet ==
    ASSUME TypeOK, TypeOK', Residence, Work, Quiet, [Next]_vars
    PROVE  Quiet'
<1>1. ASSUME NEW r \in Requests, Arrive(r) PROVE Quiet'
  BY <1>1, SupervisorAssumption
  DEF Arrive, Quiet, AskedIsIdle, SwitchSparesWork, SeenAnswered, TypeOK,
      ReadDraining, RGoto, children, admins
<1>2. ASSUME NEW r \in Requests, Count(r) PROVE Quiet'
  BY <1>2, SupervisorAssumption
  DEF Count, Quiet, AskedIsIdle, SwitchSparesWork, SeenAnswered, TypeOK,
      RGoto, children, admins
<1>3. ASSUME NEW r \in Requests, RejectUnknown(r) PROVE Quiet'
  BY <1>3, ReapedIs, SupervisorAssumption
  DEF RejectUnknown, Quiet, AskedIsIdle, SwitchSparesWork, SeenAnswered,
      TypeOK, Enter, RGoto, children, admins, NoWorker, Residence, MutexHeld,
      InMutex
<1>4. ASSUME NEW r \in Requests, Reuse(r) PROVE Quiet'
  BY <1>4, ReapedIs, SupervisorAssumption
  DEF Reuse, Quiet, AskedIsIdle, SwitchSparesWork, SeenAnswered, TypeOK,
      Enter, RGoto, children, admins, Matches, NoWorker, Residence, MutexHeld,
      InMutex
<1>5. ASSUME NEW r \in Requests, SwitchConflict(r) PROVE Quiet'
  BY <1>5, ReapedIs, SupervisorAssumption
  DEF SwitchConflict, Quiet, AskedIsIdle, SwitchSparesWork, SeenAnswered,
      TypeOK, Enter, RGoto, children, admins, NoWorker, Residence, MutexHeld,
      InMutex
<1>6. ASSUME NEW r \in Requests, BeginSwitch(r) PROVE Quiet'
  BY <1>6, ReapedIs, SupervisorAssumption
  DEF BeginSwitch, Quiet, AskedIsIdle, SwitchSparesWork, SeenAnswered, TypeOK,
      Enter, RGoto, children, admins, NoWorker, Residence, MutexHeld, InMutex
<1>7. ASSUME NEW r \in Requests, BeginStart(r) PROVE Quiet'
  BY <1>7, ReapedIs, SupervisorAssumption
  DEF BeginStart, Quiet, AskedIsIdle, SwitchSparesWork, SeenAnswered, TypeOK,
      Enter, RGoto, children, admins, NoWorker, Residence, MutexHeld, InMutex
<1>8. ASSUME NEW r \in Requests, ChildBusy(r) PROVE Quiet'
  BY <1>8, SupervisorAssumption
  DEF ChildBusy, Quiet, AskedIsIdle, SwitchSparesWork, SeenAnswered, TypeOK,
      Holding, RGoto, children, admins, Unlock, HealthBusy, Residence,
      MutexHeld, InMutex, PidForked, PidByPhase
<1>9. ASSUME NEW r \in Requests, ChildIdle(r) PROVE Quiet'
  <2>1. worker.pid \in Children /\ worker.port = worker.pid
    BY <1>9, SupervisorAssumption
    DEF ChildIdle, Holding, RGoto, TypeOK, Residence, PidForked, PidByPhase, Children
  <2>2. r \notin unheard' => jobs[worker.pid] = {}
    BY <1>9, <2>1 DEF ChildIdle, HealthBusy, Work, JobsUp
  <2> QED
    BY <1>9, <2>2, SupervisorAssumption
    DEF ChildIdle, Holding, RGoto, children, admins, Residence, MutexHeld, InMutex,
        Quiet, AskedIsIdle, SwitchSparesWork, SeenAnswered, TypeOK
<1>10. ASSUME NEW r \in Requests, Swap(r) PROVE Quiet'
  BY <1>10, SupervisorAssumption
  DEF Swap, Quiet, AskedIsIdle, SwitchSparesWork, SeenAnswered, TypeOK,
      Holding, RGoto, children, admins, Unlock, Residence, MutexHeld, InMutex,
      PidForked, PidByPhase
<1>11. ASSUME NEW r \in Requests, SwapFails(r) PROVE Quiet'
  BY <1>11, SupervisorAssumption
  DEF SwapFails, Quiet, AskedIsIdle, SwitchSparesWork, SeenAnswered, TypeOK,
      Holding, RGoto, children, admins, Residence, MutexHeld, InMutex,
      PidForked, PidByPhase
<1>12. ASSUME NEW r \in Requests, Recycle(r) PROVE Quiet'
  <2>1. ASSUME worker.pid > 0, worker' = NoWorker,
               Stops(worker.pid, IF r \in unheard THEN "unheard" ELSE "switch")
        PROVE  Quiet'
    <3>1. rpc[r] = "recycling" /\ rpc' = [rpc EXCEPT ![r] = "spawning"]
      BY <1>12 DEF Recycle, Holding, RGoto
    <3>2. \A q \in Hosted(worker.pid) : rpc[q] = "done"
      <4>1. worker.pid \in Children
        BY <2>1, SupervisorAssumption DEF TypeOK, Children
      <4>2. \A q \in Hosted(worker.pid) : q # r
        BY <3>1, <4>1 DEF Hosted, Routed, Work, JobsAccepted
      <4>3. \A q \in Hosted(worker.pid) :
               q \in Requests /\ rpc[q] \in {"forwarding", "rendering", "answering", "done"}
        BY <4>1 DEF Hosted, Routed, Work, JobsAccepted, TypeOK
      <4> QED
        BY <2>1, <3>1, <4>2, <4>3 DEF Work, SwitchAlone, Outsiders
    <3>3. r \notin unheard => Hosted(worker.pid) = {}
      <4>1. r \notin unheard => jobs[worker.pid] = {}
        BY <2>1, <3>1 DEF Quiet, AskedIsIdle
      <4>2. Routed(worker.pid) = {}
        BY <3>2 DEF Hosted, Routed
      <4> QED
        BY <4>1, <4>2 DEF Hosted
    <3>4. SwitchSparesWork'
      <4>1. \A q \in Requests : rpc[q] = "done" => rpc'[q] = "done"
        BY <3>1 DEF TypeOK
      <4>2. \A q \in Requests :
               lost'[q] = IF q \in Hosted(worker.pid)
                          THEN IF r \in unheard THEN "unheard" ELSE "switch" ELSE lost[q]
        BY <2>1 DEF Stops
      <4> QED
        BY <3>2, <3>3, <4>1, <4>2 DEF Quiet, SwitchSparesWork
    <3>5. AskedIsIdle' /\ SeenAnswered'
      BY <1>12, <2>1, <3>1
      DEF Recycle, Holding, admins, NoWorker, Quiet, AskedIsIdle, SeenAnswered, TypeOK
    <3> QED
      BY <3>4, <3>5 DEF Quiet
  <2>2. CASE worker' \in {worker, NoWorker} /\ UNCHANGED <<proc, jobs, lost>>
    BY <1>12, <2>2, SupervisorAssumption
    DEF Recycle, Holding, RGoto, admins, NoWorker, Quiet, AskedIsIdle, SwitchSparesWork, SeenAnswered, TypeOK
  <2> QED
    BY <1>12, <2>1, <2>2 DEF Recycle, UnloadLocked
<1>13. ASSUME NEW r \in Requests, RecycleFails(r) PROVE Quiet'
  BY <1>13, SupervisorAssumption
  DEF RecycleFails, Quiet, AskedIsIdle, SwitchSparesWork, SeenAnswered,
      TypeOK, Holding, RGoto, children, admins, Unlock, UnloadFails,
      Residence, MutexHeld, InMutex, PidForked, PidByPhase
<1>14. ASSUME NEW r \in Requests, Spawn(r) PROVE Quiet'
  BY <1>14, SupervisorAssumption
  DEF Spawn, Quiet, AskedIsIdle, SwitchSparesWork, SeenAnswered, TypeOK,
      Holding, RGoto, children, admins, Residence, MutexHeld, InMutex,
      PidForked, PidByPhase
<1>15. ASSUME NEW r \in Requests, SpawnFails(r) PROVE Quiet'
  BY <1>15, SupervisorAssumption
  DEF SpawnFails, Quiet, AskedIsIdle, SwitchSparesWork, SeenAnswered, TypeOK,
      Holding, RGoto, children, admins, Unlock, Residence, MutexHeld, InMutex,
      PidForked, PidByPhase
<1>16. ASSUME NEW r \in Requests, Ready(r) PROVE Quiet'
  BY <1>16, SupervisorAssumption
  DEF Ready, Quiet, AskedIsIdle, SwitchSparesWork, SeenAnswered, TypeOK,
      Holding, RGoto, children, admins, Unlock, Residence, MutexHeld, InMutex,
      PidForked, PidByPhase
<1>17. ASSUME NEW r \in Requests, StartupDeath(r) PROVE Quiet'
  BY <1>17, SupervisorAssumption
  DEF StartupDeath, Quiet, AskedIsIdle, SwitchSparesWork, SeenAnswered,
      TypeOK, Holding, RGoto, children, admins, Unlock, Residence, MutexHeld,
      InMutex, PidForked, PidByPhase
<1>18. ASSUME NEW r \in Requests, StartupTimeout(r) PROVE Quiet'
  <2>1. CASE Stops(worker.pid, "no") /\ worker' = NoWorker
    BY <1>18, <2>1, SupervisorAssumption
    DEF StartupTimeout, Quiet, AskedIsIdle, SwitchSparesWork, SeenAnswered, TypeOK,
        Holding, RGoto, Unlock, admins, Stops, NoWorker
  <2>2. CASE worker' \in {worker, NoWorker} /\ UNCHANGED <<proc, jobs, lost>>
    BY <1>18, <2>2, SupervisorAssumption
    DEF StartupTimeout, Quiet, AskedIsIdle, SwitchSparesWork, SeenAnswered, TypeOK,
        Holding, RGoto, Unlock, admins, NoWorker
  <2> QED
    BY <1>18, <2>1, <2>2 DEF StartupTimeout, UnloadLocked, UnloadFails
<1>19. ASSUME NEW r \in Requests, AcceptJob(r) PROVE Quiet'
  <2>1. rpc[r] = "forwarding" /\ rpc' = [rpc EXCEPT ![r] = "answering"]
    BY <1>19 DEF AcceptJob, RGoto
  <2>2. AskedIsIdle'
    <3> SUFFICES ASSUME NEW p \in Requests, rpc'[p] \in {"swapping", "recycling"},
                        worker'.pid > 0
                 PROVE  jobs'[worker'.pid] = {}
      BY DEF AskedIsIdle
    <3> QED
      BY <1>19, <2>1, SMTT(60)
      DEF AcceptJob, supervisor, TypeOK, Work, SwitchAlone, Outsiders
  <2>3. SwitchSparesWork' /\ SeenAnswered'
    BY <1>19, <2>1
    DEF AcceptJob, supervisor, admins, TypeOK, Quiet, SwitchSparesWork, SeenAnswered
  <2> QED
    BY <2>2, <2>3 DEF Quiet
<1>20. ASSUME NEW r \in Requests, AcceptSync(r) PROVE Quiet'
  BY <1>20, SupervisorAssumption
  DEF AcceptSync, Quiet, AskedIsIdle, SwitchSparesWork, SeenAnswered, TypeOK,
      RGoto, supervisor, children, admins, Work, SwitchAlone, Outsiders
<1>21. ASSUME NEW r \in Requests, NotAccepted(r) PROVE Quiet'
  BY <1>21, SupervisorAssumption
  DEF NotAccepted, Quiet, AskedIsIdle, SwitchSparesWork, SeenAnswered, TypeOK,
      RGoto, supervisor, children, admins, Work, SwitchAlone, Outsiders
<1>22. ASSUME NEW r \in Requests, SyncEnds(r) PROVE Quiet'
  BY <1>22, SupervisorAssumption
  DEF SyncEnds, Quiet, AskedIsIdle, SwitchSparesWork, SeenAnswered, TypeOK,
      RGoto, supervisor, children, admins, Work, SwitchAlone, Outsiders
<1>23. ASSUME NEW r \in Requests, Release(r) PROVE Quiet'
  BY <1>23, SupervisorAssumption
  DEF Release, Quiet, AskedIsIdle, SwitchSparesWork, SeenAnswered, TypeOK,
      RGoto, supervisor, children, admins, Work, SwitchAlone, Outsiders
<1>24. ASSUME NEW q \in Polls, PollArrives(q) PROVE Quiet'
  BY <1>24
  DEF PollArrives, Quiet, AskedIsIdle, SwitchSparesWork, SeenAnswered, TypeOK,
      PGoto, requests, admins, children, ReadDraining
<1>25. ASSUME NEW q \in Polls, PollLoaded(q) PROVE Quiet'
  BY <1>25, ReapedIs, SupervisorAssumption
  DEF PollLoaded, Quiet, AskedIsIdle, SwitchSparesWork, SeenAnswered, TypeOK,
      PGoto, requests, admins, children, NoWorker
<1>26. ASSUME NEW q \in Polls, PollAttach(q) PROVE Quiet'
  BY <1>26, ReapedIs, SupervisorAssumption
  DEF PollAttach, Quiet, AskedIsIdle, SwitchSparesWork, SeenAnswered, TypeOK,
      PGoto, requests, admins, children, NoWorker
<1>27. ASSUME NEW q \in Polls, PollAnswered(q) PROVE Quiet'
  BY <1>27
  DEF PollAnswered, Quiet, AskedIsIdle, SwitchSparesWork, SeenAnswered,
      TypeOK, PGoto, requests, admins, children
<1>28. ASSUME NEW a \in Admins, BeginDrain(a) PROVE Quiet'
  BY <1>28
  DEF BeginDrain, Quiet, AskedIsIdle, SwitchSparesWork, SeenAnswered, TypeOK,
      AGoto, requests
<1>29. ASSUME NEW a \in Admins, BeginUnload(a) PROVE Quiet'
  BY <1>29
  DEF BeginUnload, Quiet, AskedIsIdle, SwitchSparesWork, SeenAnswered, TypeOK,
      AGoto, requests
<1>30. ASSUME NEW a \in Admins, Load(a) PROVE Quiet'
  BY <1>30
  DEF Load, Quiet, AskedIsIdle, SwitchSparesWork, SeenAnswered, TypeOK, AGoto,
      requests
<1>31. ASSUME NEW a \in Admins, ReadCounter(a) PROVE Quiet'
  BY <1>31
  DEF ReadCounter, Quiet, AskedIsIdle, SwitchSparesWork, SeenAnswered, TypeOK,
      AGoto, requests, Live, Work, JobsAccepted, Residence, CounterExact
<1>32. ASSUME NEW a \in Admins, DrainDone(a) PROVE Quiet'
  BY <1>32, ReapedIs, SupervisorAssumption
  DEF DrainDone, Quiet, AskedIsIdle, SwitchSparesWork, SeenAnswered, TypeOK,
      AGoto, ReadChild, requests, NoWorker
<1>33. ASSUME NEW a \in Admins, DrainTimesOut(a) PROVE Quiet'
  BY <1>33, ReapedIs, SupervisorAssumption
  DEF DrainTimesOut, Quiet, AskedIsIdle, SwitchSparesWork, SeenAnswered,
      TypeOK, AGoto, ReadChild, requests, NoWorker
<1>34. ASSUME NEW a \in Admins, DrainWaits(a) PROVE Quiet'
  BY <1>34, ReapedIs, SupervisorAssumption
  DEF DrainWaits, Quiet, AskedIsIdle, SwitchSparesWork, SeenAnswered, TypeOK,
      AGoto, ReadChild, requests, NoWorker
<1>35. ASSUME NEW a \in Admins, UnloadRefused(a) PROVE Quiet'
  BY <1>35, ReapedIs, SupervisorAssumption
  DEF UnloadRefused, Quiet, AskedIsIdle, SwitchSparesWork, SeenAnswered,
      TypeOK, AGoto, ReadChild, requests, NoWorker
<1>36. ASSUME NEW a \in Admins, UnloadAllowed(a) PROVE Quiet'
  BY <1>36, ReapedIs, SupervisorAssumption
  DEF UnloadAllowed, Quiet, AskedIsIdle, SwitchSparesWork, SeenAnswered,
      TypeOK, AGoto, ReadChild, requests, NoWorker
<1>37. ASSUME NEW a \in Admins, Unload(a) PROVE Quiet'
  <2>1. CASE Stops(worker.pid, IF handover[a] = "drained" THEN "handover" ELSE "no") /\ worker' = NoWorker
    BY <1>37, <2>1, SupervisorAssumption
    DEF Unload, Quiet, AskedIsIdle, SwitchSparesWork, SeenAnswered, TypeOK,
        AGoto, requests, Stops, NoWorker
  <2>2. CASE worker' \in {worker, NoWorker} /\ UNCHANGED <<proc, jobs, lost>>
    BY <1>37, <2>2, SupervisorAssumption
    DEF Unload, Quiet, AskedIsIdle, SwitchSparesWork, SeenAnswered, TypeOK,
        AGoto, requests, NoWorker
  <2> QED
    BY <1>37, <2>1, <2>2 DEF Unload, UnloadLocked, UnloadFails
<1>38. ASSUME NEW a \in Admins, DeadlinePasses(a) PROVE Quiet'
  BY <1>38
  DEF DeadlinePasses, Quiet, AskedIsIdle, SwitchSparesWork, SeenAnswered,
      TypeOK, supervisor, children, requests
<1>39. ASSUME NEW c \in Children, ChildUp(c) PROVE Quiet'
  BY <1>39
  DEF ChildUp, Quiet, AskedIsIdle, SwitchSparesWork, SeenAnswered, TypeOK,
      Outside, supervisor, requests, admins, Work, SwitchAlone, Outsiders
<1>40. ASSUME NEW c \in Children, ChildDies(c) PROVE Quiet'
  BY <1>40
  DEF ChildDies, Quiet, AskedIsIdle, SwitchSparesWork, SeenAnswered, TypeOK,
      Outside, supervisor, requests, admins, Stops, Work, SwitchAlone,
      Outsiders
<1>41. ASSUME NEW c \in Children, JobEnds(c) PROVE Quiet'
  BY <1>41
  DEF JobEnds, Quiet, AskedIsIdle, SwitchSparesWork, SeenAnswered, TypeOK,
      Outside, supervisor, requests, admins, Work, SwitchAlone, Outsiders
<1>42. ASSUME DrainAges PROVE Quiet'
  BY <1>42
  DEF DrainAges, Quiet, AskedIsIdle, SwitchSparesWork, SeenAnswered, TypeOK,
      children, requests, admins
<1>43. ASSUME UNCHANGED vars PROVE Quiet'
  BY <1>43
  DEF vars, Quiet, AskedIsIdle, SwitchSparesWork, SeenAnswered, TypeOK,
      supervisor, children, requests, admins
<1> QED
  BY <1>1, <1>2, <1>3, <1>4, <1>5, <1>6, <1>7, <1>8, <1>9, <1>10, <1>11,
      <1>12, <1>13, <1>14, <1>15, <1>16, <1>17, <1>18, <1>19, <1>20, <1>21,
      <1>22, <1>23, <1>24, <1>25, <1>26, <1>27, <1>28, <1>29, <1>30, <1>31,
      <1>32, <1>33, <1>34, <1>35, <1>36, <1>37, <1>38, <1>39, <1>40, <1>41,
      <1>42, <1>43
  DEF Next, Progress, Lock, Poll, Admin, AdminStep

(* A model or GPU switch destroys nothing of another request: no forwarded  *)
(* call, no render, no accepted job; but where the child did not answer     *)
(* /health, nothing that a caller still waits for.                          *)
THEOREM SwitchIsSafe == Spec => []SwitchSparesWork
<1>1. Init => TypeOK /\ Residence /\ Work /\ Quiet
  BY InitType, InitResidence, InitWork, InitQuiet
<1>2. TypeOK /\ Residence /\ Work /\ Quiet /\ [Next]_vars
          => (TypeOK /\ Residence /\ Work /\ Quiet)'
  BY StepType, StepResidence, StepWork, StepQuiet
<1>3. Quiet => SwitchSparesWork
  BY DEF Quiet
<1> QED
  BY <1>1, <1>2, <1>3, PTL DEF Spec

(* Only the last look of a drain says how it ended. *)
LEMMA HandoverSet ==
    ASSUME TypeOK, [Next]_vars, NEW a \in Admins, handover'[a] # handover[a],
           handover'[a] \in {"drained", "unheard"}
    PROVE  DrainDone(a)
<1>1. CASE UNCHANGED handover
  BY <1>1
<1>2. ASSUME NEW b \in Admins, Admin(b), handover' # handover PROVE DrainDone(a)
  BY <1>2
  DEF Admin, AdminStep, BeginDrain, BeginUnload, Load, ReadCounter, DrainDone,
      DrainTimesOut, DrainWaits, UnloadRefused, UnloadAllowed, Unload, TypeOK
<1>3. ASSUME NEW r \in Requests, Arrive(r) \/ Progress(r) PROVE UNCHANGED handover
  <2>1. CASE Lock(r)
    BY <2>1 DEF Lock, RejectUnknown, Reuse, SwitchConflict, BeginSwitch, BeginStart,
                Enter, admins
  <2>2. CASE ChildBusy(r) \/ ChildIdle(r) \/ Swap(r) \/ SwapFails(r) \/ Recycle(r)
             \/ RecycleFails(r) \/ Spawn(r) \/ SpawnFails(r) \/ Ready(r)
             \/ StartupDeath(r) \/ StartupTimeout(r)
    BY <2>2 DEF ChildBusy, ChildIdle, Swap, SwapFails, Recycle, RecycleFails, Spawn,
                SpawnFails, Ready, StartupDeath, StartupTimeout, Holding, admins
  <2>3. CASE Arrive(r) \/ Count(r) \/ AcceptJob(r) \/ AcceptSync(r) \/ NotAccepted(r)
             \/ SyncEnds(r) \/ Release(r)
    BY <2>3 DEF Arrive, Count, AcceptJob, AcceptSync, NotAccepted, SyncEnds, Release,
                admins
  <2> QED
    BY <1>3, <2>1, <2>2, <2>3 DEF Progress
<1>4. ASSUME NEW q \in Polls, Poll(q) PROVE UNCHANGED handover
  BY <1>4 DEF Poll, PollArrives, PollLoaded, PollAttach, PollAnswered, PGoto, admins
<1>5. ASSUME NEW b \in Admins, DeadlinePasses(b) PROVE UNCHANGED handover
  BY <1>5 DEF DeadlinePasses
<1>6. ASSUME NEW c \in Children, ChildUp(c) \/ ChildDies(c) \/ JobEnds(c)
      PROVE  UNCHANGED handover
  BY <1>6 DEF ChildUp, ChildDies, JobEnds, Outside, admins
<1>7. ASSUME DrainAges \/ UNCHANGED vars PROVE UNCHANGED handover
  BY <1>7 DEF DrainAges, vars, admins
<1> QED
  BY <1>1, <1>2, <1>3, <1>4, <1>5, <1>6, <1>7 DEF Next

(* At the step that answers "drained", what the last in_flight() began with *)
(* is no longer counted, nor, if the child answered, in its list.          *)
LEMMA StepDrained ==
    ASSUME TypeOK, Residence, Work, Quiet, [Next]_vars,
           NEW a \in Admins, handover'[a] # handover[a]
    PROVE  /\ handover'[a] = "drained" => watch[a] \cap Live = {}
           /\ handover'[a] = "unheard" => watch[a] \cap counted = {}
<1> SUFFICES ASSUME handover'[a] \in {"drained", "unheard"}
             PROVE  /\ handover'[a] = "drained" => watch[a] \cap Live = {}
                    /\ watch[a] \cap counted = {}
  OBVIOUS
<1>1. DrainDone(a)
  BY HandoverSet
<1>2. \A r \in watch[a] : rpc[r] = "done"
  BY <1>1 DEF DrainDone, NoneInFlight, AGoto, Quiet, SeenAnswered
<1>3. watch[a] \cap counted = {}
  BY <1>2 DEF Residence, CounterExact
<1>4. ASSUME handover'[a] = "drained", NEW c \in Children PROVE jobs[c] = {}
  <2>1. CASE proc[c] # "up"
    BY <2>1 DEF Work, JobsUp
  <2>2. CASE proc[c] = "up"
    <3>1. worker.pid = c /\ worker.pid > 0 /\ worker.port = c
      BY <2>2, SupervisorAssumption DEF Residence, OneResident, PidForked, Children
    <3>2. Reaped = worker
      BY <2>2, <3>1 DEF Reaped, Exited
    <3>3. ~ResidentBusy
      BY <1>1, <1>4 DEF DrainDone, TypeOK
    <3> QED
      BY <2>2, <3>1, <3>2, <3>3 DEF ResidentBusy
  <2> QED
    BY <2>1, <2>2
<1> QED
  BY <1>3, <1>4 DEF Live

(* in_flight() misses nothing between its two reads: a job that leaves the  *)
(* counter for the child's list in between is found there, if the child     *)
(* answers; a request that is still counted never passes for drained.       *)
THEOREM DrainIsComplete == Spec => DrainMissesNothing
<1>1. Init => TypeOK /\ Residence /\ Work /\ Quiet
  BY InitType, InitResidence, InitWork, InitQuiet
<1>2. TypeOK /\ Residence /\ Work /\ Quiet /\ [Next]_vars
          => (TypeOK /\ Residence /\ Work /\ Quiet)'
  BY StepType, StepResidence, StepWork, StepQuiet
<1>3. TypeOK /\ Residence /\ Work /\ Quiet /\ [Next]_vars
          => [\A a \in Admins : handover'[a] # handover[a] =>
                 /\ handover'[a] = "drained" => watch[a] \cap Live = {}
                 /\ handover'[a] = "unheard" => watch[a] \cap counted = {}]_vars
  BY StepDrained
<1> QED
  BY <1>1, <1>2, <1>3, PTL DEF Spec, DrainMissesNothing

-----------------------------------------------------------------------------
(* WorkerSupervisor implements GpuSlot.                                     *)

Resident == {<<c, loads[c]>> : c \in Running}
Due == {<<r, asks[r].model>> : r \in Homed}
Placing == counted \cap {mutex}

LEMMA HomedIs ==
    ASSUME TypeOK
    PROVE  \A r : r \in Homed <=>
             /\ r \in Requests
             /\ \E c \in Running :
                  \/ r \in jobs[c]
                  \/ rpc[r] \in {"forwarding", "rendering"} /\ target[r] = c
BY DEF TypeOK, Homed, Hosted, Routed, Running

LEMMA HomedNext ==
    ASSUME TypeOK'
    PROVE  \A r : r \in Homed' <=>
             /\ r \in Requests
             /\ \E c \in Running' :
                  \/ r \in jobs'[c]
                  \/ rpc'[r] \in {"forwarding", "rendering"} /\ target'[r] = c
BY DEF TypeOK, Homed, Hosted, Routed, Running

(* The request inside the mutex is counted, so that it is the one placed.   *)
LEMMA PlacingIs ==
    ASSUME TypeOK, Residence
    PROVE  IF mutex = Free THEN Placing = {} ELSE Placing = {mutex}
<1>1. mutex \in Requests => mutex \in counted
  BY DEF Residence, MutexHeld, CounterExact, InMutex
<1> QED
  BY <1>1, SupervisorAssumption DEF TypeOK, Placing

LEMMA PlacingNext ==
    ASSUME TypeOK', Residence'
    PROVE  IF mutex' = Free THEN Placing' = {} ELSE Placing' = {mutex'}
<1>1. mutex' \in Requests => mutex' \in counted'
  BY DEF Residence, MutexHeld, CounterExact, InMutex
<1> QED
  BY <1>1, SupervisorAssumption DEF TypeOK, Placing

(* A step that touches no child, and only a request that has no work in     *)
(* one, or leaves its work there, changes neither the process nor the work. *)
LEMMA SameChildren ==
    ASSUME TypeOK, TypeOK', UNCHANGED <<proc, loads>>,
           \A r \in Requests : r \in Homed' <=> r \in Homed,
           \A r \in Homed : asks'[r] = asks[r]
    PROVE  UNCHANGED <<Resident, Due>>
<1>1. Running' = Running
  BY DEF Running
<1>2. Homed' = Homed
  BY HomedIs, HomedNext
<1> QED
  BY <1>1, <1>2 DEF Resident, Due

LEMMA Untouched ==
    ASSUME TypeOK, TypeOK',
           UNCHANGED <<proc, loads, jobs, rpc, asks>>,
           \A r \in Requests : target'[r] = target[r]
    PROVE  UNCHANGED <<Resident, Due>>
<1>1. Running' = Running
  BY DEF Running
<1>2. \A r \in Requests : r \in Homed' <=> r \in Homed
  BY <1>1, HomedIs, HomedNext
<1> QED
  BY <1>2, SameChildren

(* The same for a request that is neither forwarded nor rendered.           *)
LEMMA Apart ==
    ASSUME TypeOK, TypeOK', Work, NEW r \in Requests,
           UNCHANGED <<proc, loads, jobs>>,
           {rpc[r], rpc'[r]} \cap {"forwarding", "rendering"} = {},
           \/ asks'[r] = asks[r]
           \/ rpc[r] \notin {"answering", "done"},
           \A q \in Requests \ {r} :
               rpc'[q] = rpc[q] /\ asks'[q] = asks[q] /\ target'[q] = target[q]
    PROVE  UNCHANGED <<Resident, Due>>
<1>1. Running' = Running
  BY DEF Running
<1>2. \A q \in Requests : q \in Homed' <=> q \in Homed
  <2>1. \A q \in Requests \ {r} : q \in Homed' <=> q \in Homed
    BY <1>1, HomedIs, HomedNext
  <2>2. r \in Homed' <=> r \in Homed
    BY <1>1, HomedIs, HomedNext
  <2> QED
    BY <2>1, <2>2
<1>3. \A q \in Homed : asks'[q] = asks[q]
  <2>1. rpc[r] \notin {"answering", "done"} => r \notin Homed
    BY HomedIs DEF Work, JobsAccepted, Running
  <2> QED
    BY <2>1, HomedIs
<1> QED
  BY <1>2, <1>3, SameChildren

(* A child that stops leaves the card empty.                                *)
LEMMA StopsEmpty ==
    ASSUME TypeOK, TypeOK', OneResident, NEW c \in Running, NEW why,
           Stops(c, why)
    PROVE  Resident # {} /\ Resident' = {} /\ Due' = {}
<1>1. Running = {c} /\ c \in Children
  BY DEF Running, OneResident
<1>2. Running' = {}
  BY <1>1 DEF Running, Stops, TypeOK
<1>3. Homed' = {}
  BY <1>2, HomedNext
<1> QED
  BY <1>1, <1>2, <1>3 DEF Resident, Due

(* What is left of such a step is that a request gets its turn, or ends it. *)
LEMMA PlaceStep ==
    ASSUME TypeOK, TypeOK', Residence, Residence', UNCHANGED <<Resident, Due>>,
           mutex' \in {mutex, Free} \/ mutex = Free
    PROVE  [Slot!Next]_Slot!vars
<1>1. \/ Placing' = Placing
      \/ Placing' = {}
      \/ Placing = {} /\ \E r \in Requests : Placing' = {r}
  BY PlacingIs, PlacingNext DEF TypeOK
<1>2. CASE Placing' = Placing
  BY <1>2 DEF Slot!vars, Resident, Due, Placing
<1>3. CASE Placing' # Placing
  <2>1. Slot!Place
    BY <1>1, <1>3 DEF Slot!Place, Resident, Due, Placing
  <2> QED
    BY <2>1 DEF Slot!Next
<1> QED
  BY <1>2, <1>3

LEMMA StopStep ==
    ASSUME TypeOK, TypeOK', Residence, Residence', NEW c \in Running, NEW why,
           Stops(c, why), mutex' \in {mutex, Free}
    PROVE  [Slot!Next]_Slot!vars
<1>1. Resident # {} /\ Resident' = {} /\ Due' = {}
  BY StopsEmpty DEF Residence
<1>2. Placing' \in {Placing, {}}
  BY PlacingIs, PlacingNext
<1>3. Slot!Stop
  BY <1>1, <1>2 DEF Slot!Stop, Resident, Due, Placing
<1> QED
  BY <1>3 DEF Slot!Next

(* unload_locked(), which may find nothing to do, or fail.                  *)
LEMMA UnloadStep ==
    ASSUME TypeOK, TypeOK', Residence, Residence', Work, NEW why,
           UnloadLocked(why) \/ UnloadFails, mutex' \in {mutex, Free},
           UNCHANGED <<loads, target, asks>>,
           \/ UNCHANGED rpc
           \/ \E r \in Requests : /\ rpc[r] \in InMutex
                                  /\ rpc' \in {[rpc EXCEPT ![r] = "spawning"],
                                              [rpc EXCEPT ![r] = "answering"]}
    PROVE  [Slot!Next]_Slot!vars
<1>1. CASE worker.pid > 0 /\ ~Exited /\ Stops(worker.pid, why)
  <2>1. worker.pid \in Running
    BY <1>1, SupervisorAssumption
    DEF Exited, Running, TypeOK, Residence, PidForked, ForkOrder, Children
  <2> QED
    BY <1>1, <2>1, StopStep
<1>2. CASE UNCHANGED <<proc, jobs>>
  <2>1. CASE UNCHANGED rpc
    BY <1>2, <2>1, Untouched, PlaceStep
  <2>2. ASSUME NEW r \in Requests, rpc[r] \in InMutex,
               rpc' \in {[rpc EXCEPT ![r] = "spawning"],
                         [rpc EXCEPT ![r] = "answering"]}
        PROVE  [Slot!Next]_Slot!vars
    <3>1. /\ {rpc[r], rpc'[r]} \cap {"forwarding", "rendering"} = {}
          /\ \A q \in Requests \ {r} : rpc'[q] = rpc[q]
      BY <2>2 DEF InMutex, TypeOK
    <3>2. UNCHANGED <<Resident, Due>>
      BY <1>2, <3>1, Apart
    <3> QED
      BY <3>2, PlaceStep
  <2> QED
    BY <2>1, <2>2
<1> QED
  BY <1>1, <1>2 DEF UnloadLocked, UnloadFails

(* The steps of a request that neither make nor change a child nor give it  *)
(* work.                                                                    *)
LEMMA BesideStep ==
    ASSUME TypeOK, TypeOK', Residence, Residence', Work, NEW r \in Requests,
           \/ Arrive(r) \/ Count(r) \/ RejectUnknown(r) \/ SwitchConflict(r)
           \/ BeginSwitch(r) \/ BeginStart(r) \/ ChildBusy(r) \/ ChildIdle(r)
           \/ SwapFails(r) \/ SpawnFails(r) \/ StartupDeath(r) \/ Release(r)
    PROVE  [Slot!Next]_Slot!vars
<1> USE DEF children, admins
<1>1. /\ UNCHANGED <<proc, loads, jobs>>
      /\ mutex' \in {mutex, Free} \/ mutex = Free
  BY DEF Arrive, Count, RejectUnknown, SwitchConflict, BeginSwitch, BeginStart,
         Enter, ChildBusy, ChildIdle, SwapFails, SpawnFails, StartupDeath,
         Release, Holding, Unlock
<1>2. PICK to \in {"done", "counting", "locking", "answering", "asking", "swapping",
                   "recycling"} :
        rpc' = [rpc EXCEPT ![r] = to]
  BY DEF Arrive, Count, RejectUnknown, SwitchConflict, BeginSwitch, BeginStart,
         Enter, ChildBusy, ChildIdle, SwapFails, SpawnFails, StartupDeath,
         Release, Holding, RGoto
<1>3. /\ rpc[r] \notin {"forwarding", "rendering"}
      /\ UNCHANGED asks \/ rpc[r] \notin {"answering", "done"}
      /\ \A q \in Requests \ {r} : asks'[q] = asks[q] /\ target'[q] = target[q]
  BY DEF Arrive, Count, RejectUnknown, SwitchConflict, BeginSwitch, BeginStart,
         Enter, ChildBusy, ChildIdle, SwapFails, SpawnFails, StartupDeath,
         Release, Holding, RGoto, TypeOK
<1>4. rpc'[r] = to /\ \A q \in Requests \ {r} : rpc'[q] = rpc[q]
  BY <1>2 DEF TypeOK
<1>5. UNCHANGED <<Resident, Due>>
  BY <1>1, <1>3, <1>4, Apart
<1> QED
  BY <1>1, <1>5, PlaceStep

(* A request is given to a child that serves its variant.                   *)
LEMMA GiveStep ==
    ASSUME TypeOK, TypeOK', Residence, Residence', Work, NEW r \in Requests,
           NEW c \in Running,
           UNCHANGED <<proc, loads, jobs>>,
           rpc' = [rpc EXCEPT ![r] = "forwarding"],
           target' = [target EXCEPT ![r] = c],
           rpc[r] \notin {"forwarding", "rendering", "answering", "done"},
           \A q \in Requests \ {r} : asks'[q] = asks[q],
           asks'[r].model = loads[c],
           mutex \in {r, Free}, mutex' = Free
    PROVE  [Slot!Next]_Slot!vars
<1>1. Running' = Running /\ Running = {c} /\ c \in Children
  BY DEF Running, Residence, OneResident
<1>2. /\ rpc'[r] = "forwarding" /\ target'[r] = c
      /\ \A q \in Requests \ {r} : rpc'[q] = rpc[q] /\ target'[q] = target[q]
  BY DEF TypeOK
<1>3. Homed' = Homed \cup {r}
  <2>1. r \in Homed'
    BY <1>1, <1>2, HomedNext
  <2>2. \A q \in Requests \ {r} : q \in Homed' <=> q \in Homed
    BY <1>1, <1>2, HomedIs, HomedNext
  <2> QED
    BY <2>1, <2>2, HomedIs, HomedNext
<1>4. r \notin Homed
  BY HomedIs DEF Work, JobsAccepted, Running
<1>5. Due' = Due \cup {<<r, loads[c]>>}
  BY <1>3, <1>4, HomedIs DEF Due
<1>6. Resident' = Resident /\ <<c, loads[c]>> \in Resident
  BY <1>1 DEF Resident
<1>7. Placing \in {{}, {r}} /\ Placing' = {}
  BY PlacingIs, PlacingNext
<1>8. loads[c] \in Models \cup {NoModel}
  BY <1>1 DEF TypeOK
<1>9. Slot!Give
  BY <1>1, <1>5, <1>6, <1>7, <1>8 DEF Slot!Give, Resident, Due, Placing
<1> QED
  BY <1>9 DEF Slot!Next

LEMMA ReuseStep ==
    ASSUME TypeOK, TypeOK', Residence, Residence', Work, NEW r \in Requests,
           Reuse(r)
    PROVE  [Slot!Next]_Slot!vars
<1>1. Reaped = worker /\ worker.pid > 0 /\ ~Exited
  BY ReapedIs DEF Reuse, Matches, Reaped, NoWorker
<1>2. worker.pid \in Running
  BY <1>1, SupervisorAssumption
  DEF Exited, Running, TypeOK, Residence, PidForked, ForkOrder, Children
<1>3. /\ UNCHANGED <<proc, loads, jobs>>
      /\ rpc[r] = "locking" /\ rpc' = [rpc EXCEPT ![r] = "forwarding"]
      /\ target' = [target EXCEPT ![r] = worker.pid]
      /\ mutex = Free /\ mutex' = Free
  BY <1>1 DEF Reuse, Enter, RGoto, children, Residence, PidForked
<1>4. /\ \A q \in Requests \ {r} : asks'[q] = asks[q]
      /\ asks'[r].model = WantedModel(r)
  BY DEF Reuse, Enter, TypeOK
<1>5. WantedModel(r) = loads[worker.pid]
  BY <1>1 DEF Reuse, Matches, Work, ResidentLoads
<1> QED
  BY <1>2, <1>3, <1>4, <1>5, GiveStep

LEMMA ReadyStep ==
    ASSUME TypeOK, TypeOK', Residence, Residence', Work, NEW r \in Requests,
           Ready(r)
    PROVE  [Slot!Next]_Slot!vars
<1>1. /\ rpc[r] = "waiting" /\ mutex = r /\ proc[worker.port] = "up"
      /\ UNCHANGED <<proc, loads, jobs, asks>>
      /\ rpc' = [rpc EXCEPT ![r] = "forwarding"]
      /\ target' = [target EXCEPT ![r] = worker.port]
      /\ mutex' = Free
  BY DEF Ready, Holding, RGoto, children, Unlock
<1>2. worker.pid > 0 /\ worker.port = worker.pid
  BY <1>1 DEF Residence, PidForked, PidByPhase
<1>3. worker.pid \in Running /\ worker.pid \in Children
  BY <1>1, <1>2, SupervisorAssumption DEF Running, TypeOK, Children
<1>4. asks[r].model = loads[worker.pid]
  BY <1>1, <1>2 DEF Work, ResidentLoads, WaitedModel
<1> QED
  BY <1>1, <1>2, <1>3, <1>4, GiveStep

(* In place only when nobody has work in the child, or on its way there.    *)
LEMMA SwapStep ==
    ASSUME TypeOK, TypeOK', Residence, Residence', Work, NEW r \in Requests,
           Swap(r)
    PROVE  [Slot!Next]_Slot!vars
<1> DEFINE c == worker.pid
<1>1. /\ rpc[r] = "swapping" /\ mutex = r /\ mutex' = Free
      /\ proc[worker.port] = "up" /\ jobs[worker.port] = {}
      /\ UNCHANGED <<proc, jobs, asks>>
      /\ loads' = [loads EXCEPT ![worker.port] = asks[r].model]
      /\ rpc' = [rpc EXCEPT ![r] = "forwarding"]
      /\ target' = [target EXCEPT ![r] = worker.port]
  BY DEF Swap, Holding, RGoto, Unlock
<1>2. c > 0 /\ worker.port = c /\ c \in Children
  BY <1>1, SupervisorAssumption
  DEF Residence, PidForked, PidByPhase, TypeOK, Children
<1>3. Running = {c} /\ Running' = {c}
  BY <1>1, <1>2 DEF Running, Residence, OneResident
<1>4. \A q \in Requests \ {r} : rpc[q] \in Outsiders /\ rpc'[q] = rpc[q]
  BY <1>1, <1>2 DEF Work, SwitchAlone, TypeOK
<1>5. Homed = {}
  BY <1>1, <1>2, <1>3, <1>4, HomedIs DEF Outsiders
<1>6. Homed' = {r}
  <2>1. rpc'[r] = "forwarding" /\ target'[r] = c
    BY <1>1, <1>2 DEF TypeOK
  <2> QED
    BY <1>1, <1>2, <1>3, <1>4, <2>1, HomedNext DEF Outsiders
<1>7. loads'[c] = asks[r].model
  BY <1>1, <1>2 DEF TypeOK
<1>8. Resident = {<<c, loads[c]>>} /\ Resident' = {<<c, asks[r].model>>}
  BY <1>3, <1>7 DEF Resident
<1>9. Due = {} /\ Due' = {<<r, asks[r].model>>}
  BY <1>1, <1>5, <1>6 DEF Due
<1>10. Placing = {r} /\ Placing' = {}
  BY <1>1, PlacingIs, PlacingNext, SupervisorAssumption
<1>11. {loads[c], asks[r].model} \subseteq Models \cup {NoModel}
  BY <1>2 DEF TypeOK
<1>12. <<c, loads[c]>> \in Resident /\ <<c, loads[c]>>[1] = c
  BY <1>8
<1>13. Slot!Swap
  BY <1>8, <1>9, <1>10, <1>11, <1>12 DEF Slot!Swap, Resident, Due, Placing
<1> QED
  BY <1>13 DEF Slot!Next

(* A child is forked when none runs, and nobody has its number yet.         *)
LEMMA SpawnStep ==
    ASSUME TypeOK, TypeOK', Residence, Residence', Work, NEW r \in Requests,
           Spawn(r)
    PROVE  [Slot!Next]_Slot!vars
<1> DEFINE c == forked + 1
<1>1. /\ rpc[r] = "spawning" /\ mutex = r /\ mutex' = mutex
      /\ proc' = [proc EXCEPT ![c] = "starting"]
      /\ loads' = [loads EXCEPT ![c] = asks[r].model]
      /\ rpc' = [rpc EXCEPT ![r] = "waiting"]
      /\ UNCHANGED <<jobs, asks, target>>
  BY DEF Spawn, Holding, RGoto
<1>2. c \in Children
  BY SupervisorAssumption DEF Spawn, TypeOK, Children
<1>3. Running = {}
  BY <1>1 DEF Running, Residence, OneResident, PidByPhase, Children
<1>4. Running' = {c} /\ loads'[c] = asks[r].model
  BY <1>1, <1>2, <1>3 DEF Running, TypeOK
<1>5. Homed = {}
  BY <1>3, HomedIs
<1>6. Homed' = {}
  <2>1. jobs'[c] = {}
    BY <1>1, <1>2
    DEF Work, JobsUp, Residence, ForkOrder, TypeOK, Children
  <2>2. \A q \in Requests : target'[q] # c
    BY <1>1, SupervisorAssumption DEF Work, TargetForked, TypeOK
  <2> QED
    BY <1>4, <2>1, <2>2, HomedNext
<1>7. Resident = {} /\ Resident' = {<<c, asks[r].model>>}
  BY <1>3, <1>4 DEF Resident
<1>8. Due' = Due
  BY <1>5, <1>6 DEF Due
<1>9. Placing = {r} /\ Placing' = Placing
  BY <1>1, PlacingIs, PlacingNext, SupervisorAssumption
<1>10. asks[r].model \in Models \cup {NoModel}
  BY DEF TypeOK
<1>11. Slot!Start
  BY <1>2, <1>7, <1>8, <1>9, <1>10 DEF Slot!Start, Resident, Due, Placing
<1> QED
  BY <1>11 DEF Slot!Next

(* A forwarded call is taken by the child, which changes no one's place, or *)
(* its work is over.                                                        *)
LEMMA AcceptStep ==
    ASSUME TypeOK, TypeOK', Residence, Residence', Work, NEW r \in Requests,
           AcceptJob(r) \/ AcceptSync(r)
    PROVE  [Slot!Next]_Slot!vars
<1>1. /\ rpc[r] = "forwarding" /\ proc[target[r]] = "up"
      /\ UNCHANGED <<proc, loads, asks, target, mutex>>
      /\ \A q \in Requests \ {r} : rpc'[q] = rpc[q]
  BY DEF AcceptJob, AcceptSync, RGoto, supervisor, children, TypeOK
<1>2. Running' = Running
  BY <1>1 DEF Running
<1>3. r \in Homed' <=> r \in Homed
  <2>1. CASE target[r] \in Children
    <3>1. target[r] \in Running
      BY <1>1, <2>1 DEF Running
    <3>2. r \in jobs'[target[r]] \/ rpc'[r] = "rendering"
      BY <2>1 DEF AcceptJob, AcceptSync, RGoto, TypeOK
    <3> QED
      BY <1>1, <1>2, <3>1, <3>2, HomedIs, HomedNext
  <2>2. CASE target[r] \notin Children
    <3>1. jobs' = jobs
      BY <2>2 DEF AcceptJob, AcceptSync, children, TypeOK
    <3> QED
      BY <1>1, <1>2, <2>2, <3>1, HomedIs, HomedNext DEF Running, Work, JobsAccepted
  <2> QED
    BY <2>1, <2>2
<1>4. \A q \in Requests \ {r}, c \in Children : q \in jobs'[c] <=> q \in jobs[c]
  <2>1. CASE AcceptJob(r)
    <3>1. \A c \in Children : jobs'[c] = jobs[c] \/ jobs'[c] = jobs[c] \cup {r}
      BY <2>1 DEF AcceptJob, TypeOK
    <3> QED
      BY <3>1
  <2>2. CASE AcceptSync(r)
    BY <2>2 DEF AcceptSync, children
  <2> QED
    BY <2>1, <2>2
<1>5. \A q \in Requests \ {r} : q \in Homed' <=> q \in Homed
  BY <1>1, <1>2, <1>4, HomedIs, HomedNext DEF Running
<1>6. \A q \in Requests : q \in Homed' <=> q \in Homed
  BY <1>3, <1>5
<1>7. UNCHANGED <<Resident, Due>>
  BY <1>1, <1>6, SameChildren
<1> QED
  BY <1>1, <1>7, PlaceStep

LEMMA EndStep ==
    ASSUME TypeOK, TypeOK', Residence, Residence', Work, NEW r \in Requests,
           UNCHANGED <<proc, loads, asks, mutex>>, r \notin Homed',
           \A q \in Requests \ {r} : q \in Homed' <=> q \in Homed
    PROVE  [Slot!Next]_Slot!vars
<1>1. Running' = Running /\ Resident' = Resident
  BY DEF Running, Resident
<1>2. Placing' = Placing
  BY PlacingIs, PlacingNext
<1>3. Homed' = Homed \ {r}
  BY HomedIs, HomedNext
<1>4. Due' = Due \ {<<r, asks[r].model>>}
  BY <1>3 DEF Due
<1>5. CASE r \in Homed
  <2>1. <<r, asks[r].model>> \in Due
    BY <1>5 DEF Due
  <2>2. Slot!End
    BY <1>1, <1>2, <1>4, <2>1 DEF Slot!End, Resident, Due, Placing
  <2> QED
    BY <2>2 DEF Slot!Next
<1>6. CASE r \notin Homed
  <2>1. Due' = Due
    BY <1>3, <1>6 DEF Due
  <2> QED
    BY <1>1, <1>2, <2>1 DEF Slot!vars, Resident, Due, Placing
<1> QED
  BY <1>5, <1>6

LEMMA CallEndsStep ==
    ASSUME TypeOK, TypeOK', Residence, Residence', Work, NEW r \in Requests,
           NotAccepted(r) \/ SyncEnds(r)
    PROVE  [Slot!Next]_Slot!vars
<1>1. /\ rpc[r] \in {"forwarding", "rendering"} /\ rpc'[r] = "answering"
      /\ UNCHANGED <<proc, loads, jobs, asks, target, mutex>>
      /\ \A q \in Requests \ {r} : rpc'[q] = rpc[q]
  BY DEF NotAccepted, SyncEnds, RGoto, supervisor, children, TypeOK
<1>2. Running' = Running
  BY <1>1 DEF Running
<1>3. \A c \in Running : r \notin jobs[c]
  BY <1>1 DEF Work, JobsAccepted, Running
<1>4. r \notin Homed'
  BY <1>1, <1>2, <1>3, HomedNext
<1>5. \A q \in Requests \ {r} : q \in Homed' <=> q \in Homed
  BY <1>1, <1>2, HomedIs, HomedNext
<1> QED
  BY <1>1, <1>4, <1>5, EndStep

LEMMA ChildStep ==
    ASSUME TypeOK, TypeOK', Residence, Residence', Work, NEW c \in Children,
           ChildUp(c) \/ ChildDies(c) \/ JobEnds(c)
    PROVE  [Slot!Next]_Slot!vars
<1> USE DEF Outside, supervisor, requests
<1>1. CASE ChildUp(c)
  <2>1. Running' = Running /\ UNCHANGED <<loads, jobs, rpc, asks, target, mutex>>
    BY <1>1 DEF ChildUp, Running, TypeOK
  <2>2. \A r \in Requests : r \in Homed' <=> r \in Homed
    BY <2>1, HomedIs, HomedNext
  <2>3. Homed' = Homed
    BY <2>2, HomedIs, HomedNext
  <2>4. UNCHANGED <<Resident, Due>>
    BY <2>1, <2>3 DEF Resident, Due
  <2> QED
    BY <2>1, <2>4, PlaceStep
<1>2. CASE ChildDies(c)
  <2>1. c \in Running /\ mutex' = mutex /\ Stops(c, "no")
    BY <1>2 DEF ChildDies, Running
  <2> QED
    BY <2>1, StopStep
<1>3. CASE JobEnds(c)
  <2>1. PICK r \in jobs[c] : jobs' = [jobs EXCEPT ![c] = jobs[c] \ {r}]
    BY <1>3 DEF JobEnds
  <2>2. /\ UNCHANGED <<proc, loads, rpc, asks, target, mutex>>
        /\ r \in Requests /\ rpc[r] \in {"answering", "done"}
    BY <1>3, <2>1 DEF JobEnds, TypeOK, Work, JobsAccepted
  <2>3. Running' = Running /\ Running = {c}
    BY <2>1, <2>2 DEF Running, Work, JobsUp, Residence, OneResident
  <2>4. jobs'[c] = jobs[c] \ {r}
    BY <2>1 DEF TypeOK
  <2>5. r \notin Homed'
    BY <2>2, <2>3, <2>4, HomedNext
  <2>6. \A q \in Requests \ {r} : q \in Homed' <=> q \in Homed
    BY <2>2, <2>3, <2>4, HomedIs, HomedNext
  <2> QED
    BY <2>2, <2>5, <2>6, EndStep
<1> QED
  BY <1>1, <1>2, <1>3

(* Polls and admin calls, but for the kill of an unload.                    *)
LEMMA OtherStep ==
    ASSUME TypeOK, TypeOK', Residence, Residence',
           \/ \E q \in Polls : Poll(q)
           \/ \E a \in Admins : Admin(a) /\ ~Unload(a)
           \/ \E a \in Admins : DeadlinePasses(a)
           \/ DrainAges \/ UNCHANGED vars
    PROVE  [Slot!Next]_Slot!vars
<1> USE DEF supervisor, children, requests, admins
<1>1. /\ UNCHANGED <<proc, loads, jobs, rpc, asks, mutex>>
      /\ \A r \in Requests : target'[r] = target[r]
  BY SupervisorAssumption
  DEF Poll, PollArrives, PollLoaded, PollAttach, PollAnswered, PGoto, Admin,
      BeginDrain, BeginUnload, Load, AdminStep, ReadCounter, DrainDone,
      DrainTimesOut, DrainWaits, UnloadRefused, UnloadAllowed, ReadChild, AGoto,
      DeadlinePasses, DrainAges, vars, TypeOK
<1>2. UNCHANGED <<Resident, Due>>
  BY <1>1, Untouched
<1> QED
  BY <1>1, <1>2, PlaceStep

LEMMA StepRefines ==
    ASSUME TypeOK, TypeOK', Residence, Residence', Work, [Next]_vars
    PROVE  [Slot!Next]_Slot!vars
<1>1. ASSUME NEW r \in Requests, Recycle(r) \/ RecycleFails(r) \/ StartupTimeout(r)
      PROVE  [Slot!Next]_Slot!vars
  <2>1. /\ mutex' \in {mutex, Free} /\ UNCHANGED <<loads, target, asks>>
        /\ rpc[r] \in InMutex
        /\ rpc' \in {[rpc EXCEPT ![r] = "spawning"], [rpc EXCEPT ![r] = "answering"]}
    BY <1>1
    DEF Recycle, RecycleFails, StartupTimeout, Holding, RGoto, Unlock, InMutex
  <2>2. \E why \in {"unheard", "switch", "no"} : UnloadLocked(why) \/ UnloadFails
    BY <1>1 DEF Recycle, RecycleFails, StartupTimeout
  <2> QED
    BY <2>1, <2>2, UnloadStep
<1>2. ASSUME NEW a \in Admins, Unload(a) PROVE [Slot!Next]_Slot!vars
  <2>1. UNCHANGED <<mutex, loads, target, asks, rpc>>
    BY <1>2 DEF Unload, AGoto, requests
  <2>2. \E why \in {"handover", "no"} : UnloadLocked(why) \/ UnloadFails
    BY <1>2 DEF Unload
  <2> QED
    BY <2>1, <2>2, UnloadStep
<1>3. ASSUME NEW r \in Requests, Arrive(r) \/ Progress(r)
      PROVE  [Slot!Next]_Slot!vars
  BY <1>1, <1>3, BesideStep, ReuseStep, ReadyStep, SwapStep, SpawnStep, AcceptStep,
     CallEndsStep
  DEF Progress, Lock
<1>4. ASSUME NEW c \in Children, ChildUp(c) \/ ChildDies(c) \/ JobEnds(c)
      PROVE  [Slot!Next]_Slot!vars
  BY <1>4, ChildStep
<1>5. CASE \/ \E q \in Polls : Poll(q)
           \/ \E a \in Admins : Admin(a) \/ DeadlinePasses(a)
           \/ DrainAges \/ UNCHANGED vars
  BY <1>2, <1>5, OtherStep
<1> QED
  BY <1>3, <1>4, <1>5 DEF Next

LEMMA InitRefines == Init => Slot!Init
<1> SUFFICES ASSUME Init PROVE Slot!Init
  OBVIOUS
<1>1. Running = {} /\ counted = {}
  BY DEF Init, Running
<1>2. Homed = {}
  BY <1>1 DEF Homed
<1> QED
  BY <1>1, <1>2 DEF Slot!Init

(* For any number of requests, polls, admins, variants and cards, and with  *)
(* whatever fails: the card has one process at a time, which is started for *)
(* a counted generation request, works only for requests of its variant and *)
(* changes the variant only without work.                                   *)
THEOREM Refinement == Spec => KeepsSlot
<1>1. Init => TypeOK /\ Residence /\ Work
  BY InitType, InitResidence, InitWork
<1>2. TypeOK /\ Residence /\ Work /\ [Next]_vars => TypeOK' /\ Residence' /\ Work'
  BY StepType, StepResidence, StepWork
<1>3. TypeOK /\ TypeOK' /\ Residence /\ Residence' /\ Work /\ [Next]_vars
        => [Slot!Next]_Slot!vars
  BY StepRefines
<1> QED
  BY <1>1, <1>2, <1>3, InitRefines, PTL DEF Spec, KeepsSlot, Slot!Spec
=============================================================================
