# Formal model of the generation servers

This directory models the two servers of this repository: sd-server (`examples/server/`, with the
parts of `src/stable-diffusion.cpp` that its threads share) and avatar_server
(`tools/m1_ref/cpp_port/avatar_server.cpp`, `avatar_worker.hpp`, with the engine in
`avatar_pipeline.cpp` beside them and in `examples/hymotion/`). TLA+ modules describe the control of the code: every guard, early return,
error path and state change, in the order in which they happen. TLC checks the modules on small
instances; TLAPS proves the safety of all eight components for every instance, and every
refinement. Paths below are relative to the root of the repository.

## 1. The system

### Inventory

| Component | State it keeps | Operations | Talks to |
|---|---|---|---|
| Worker supervisor (`examples/server/worker_supervisor.*`): the CUDA-free parent | `pid_`, `port_`, `active_model_`, `active_gpu_` under `mutex_`; atomics `draining_`, `drain_started_at_`, `active_generation_requests_` | `proxy`, `ensure_worker_locked` (reuse, refuse, swap, recycle, fork, wait), `unload`, `drain`, `reopen`, `in_flight`, `ltx_delete_job` | one child over HTTP on a loopback port; a GPU gate over `/v1/admin/*`; clients |
| Job service of the child (`async_jobs.*`, `routes_sdcpp.cpp`, `main.cpp`) | `AsyncJobManager`: jobs, expired ids, queue, stop, under `mutex` with a condition variable | submit, poll, media, cancel, purge, the worker thread, shutdown | the context, by rendering; the admin routes |
| GPU sharing (`routes_gpu_sharing.cpp`, `runtime.h`) | atomics `draining`, `diffusion_loaded`; `loaded_variant`; `sd_ctx_mutex` | drain, load, unload, swap_model | job service (cancels its queue), context (frees or swaps the DiT) |
| Diffusion context (`src/stable-diffusion.cpp`) | `cancellation_flag`, registered and resident weights | `generate_image`, `generate_video_ex`, the chains, `sd_cancel_generation`, `swap_diffusion_model` | called under `sd_ctx_mutex`, the cancel without it |
| Synchronous routes (`routes_openai.cpp`, `routes_sdapi.cpp`, `routes_longcat.cpp`) | `avatar_rendering` | one render per call under `sd_ctx_mutex` | context |
| LTX and Wan routes (`routes_ltx.cpp`, `routes_wan.cpp`) | the durable latent bank on disk | submit, resume, retake, pick shots, fork a bank, delete a bank | job service, file system |
| Segment previews (`async_jobs.cpp:109-242`) | a slot and an encoder thread | start, enqueue, finish | the render's callbacks, file system |
| Avatar server (`tools/m1_ref/cpp_port/avatar_server.cpp`) | job table and its order, `draining` | submit, admit, VRAM floor, run_proxy, cancel, drain, load, unload, idle watchdog | its worker process |
| Avatar worker process (`avatar_worker.hpp`) | `pid_`, `worker_gpu_`, `leases_`, `mx_` with a condition variable | lease, relocate, spawn, start, kill, reclaim, reap, release | the driver, the child |
| Avatar engine (`avatar_pipeline.cpp`, `cancel_hook.hpp`, `hymotion_engine.hpp`) | the card's queue and owner, the lock file, the armed cancel token, the motion weights | session, try_session, the stages, idle unload, admin unload | other processes, by the lock file |
| Model manager and loader (`src/model_manager.cpp`, `src/model_loader.cpp`) | residency of tensor groups | register, prepare, release | context, sequentially |
| Graph planning (`src/core/`), samplers (`src/runtime/`), networks (`src/model/`, `src/conditioning/`), media I/O (`examples/common/`), CLIs, rigging tools | numerical data | pure computation | |

What makes this code hard: HTTP threads that test a condition in one critical section and act in the
next; processes whose records of each other age; a GPU gate whose `drain`, `unload(force)` sequence
relies on `drain` having waited; cancellation flags that one thread sets and another clears, and
that belong to a context rather than to a request; hard links that make one write visible under several
names; a condition variable notified without its mutex; and processes that die, fail to start, or do not answer in
time. `PROJECT.json` lists each hazard at its line.

What makes the components correct, in one sentence each. The supervisor never owns two
children, never destroys work that it accepted, never renders on other weights than it resolved, and
always answers. The job service ends every accepted job once, in order, as the last cancellation
says. GPU sharing never takes weights from a running render, and unload always returns. A request
renders on the variant that it names. A bank describes the clip that its job delivered, and no later
job changes it. The avatar server owns one worker, counts its leases exactly, and moves or reclaims
no worker that is leased. The engine lets one request on the card and stops no request by another's token.

### What is not modelled

- Numerical code (networks, samplers, VAE, caches), tokenizers, media codecs, command line tools and
  the rigging pipeline keep no state that threads share: they are data to this model. They, and the
  vendored libraries, are most of the repository's lines, so the share of lines that the map covers is small
  although the two servers are covered.
- The model manager and loader. They run under `sd_ctx_mutex` and have no second actor; what would be
  worth a model is how LoRA folding, CPU mappings and staged tensors keep account of each other,
  and that account is interwoven with tensor data.
- Graph cutting and layer splits (`src/core/`): sequential planning over graphs.
- Of HTTP, only the exchanges: a request is accepted, refused, answered or breaks. Bodies,
  headers, parsing and encoding are left out.
- The death of the parents: that the child dies with it rests on `PR_SET_PDEATHSIG`.
- Of the avatar server: shutdown, listings, `/health`, mesh caches.
- Of the LTX routes: validation, staging of audio files, the Wan routes (the same queue, no
  bank), and `routes_ltx.cpp`'s LoRA half of the per-shot lease.
- `/health` of the child is the one that `routes_longcat.cpp` registers: it comes before the one in
  `routes_gpu_sharing.cpp:45`, which the HTTP library therefore never calls. It counts
  queued jobs as busy, contrary to the comment at `routes_gpu_sharing.cpp:133`.

## 2. Modules

| Module | What it is | Extends or implements |
|---|---|---|
| `DrainFlag` | the two atomics of a drain, one step per load and store | |
| `GpuSlot` | what the supervisor promises of the card: whose process, which variant, whose work | |
| `WorkerSupervisor` | the parent, its HTTP threads, its children, the gate | implements `GpuSlot`; treats the pair of `DrainFlag` as one variable |
| `JobLifecycle` | what the asynchronous API promises of a job | |
| `JobManager` | the job service, its handlers and its worker thread | implements `JobLifecycle` |
| `GpuSharing` | what a render does on the context, cancellation, unload, swap | extends and implements `JobManager` |
| `VariantResidency` | which weights each request renders with, across both processes | rests on `GpuSlot` for the route of a request, on `GpuSharing` for renders |
| `LatentBank` | what chains leave on disk and later jobs take from it; the preview thread; crashes | |
| `JobVerdict` | what the avatar service promises of a job that it accepts | |
| `AvatarServer` | the avatar server's parent: job table, admission, leases, the worker, the watchdog | implements `JobVerdict` |
| `AvatarEngine` | the avatar worker: the card, the lock file, the cancel hook, the motion weights | implements `JobVerdict`; is what `AvatarServer` reduces to an answer |
| `*Proofs` | theorems about the module of that name and their proofs | extend it; `GpuSharingProofs` also `JobManagerProofs` |
| `MC*` | symmetry sets and definitions for TLC | |

Definitions carry the names of the code or of what a handler does there; the `map` of
`PROJECT.json` gives file, lines and function of each. Definitions called `Bug...` are slips that a
programmer could make in the definition that follows; the specifications do not use them.

### DrainFlag

`draining`, `startedAt` are the atomics, `now` is `time(nullptr)`. `DrainStamp`, `DrainRaise` are the
two stores of `drain()`; `ClearFlag`, `ClearStamp` those of `reopen()` and of the tail of `unload()`;
`ReadFlag`, `ReadStamp`, `Compare`, `HealFlag`, `HealStamp` are `draining()`, with its local
`started` in `seen`. `calm` is a history variable: no thread has been about to lower the flag or to clear
the stamp for an earlier drain (`Late`) while a `drain()` was between its two stores. Once that has happened
the flag can be up without a stamp, or come down early (section 6); the properties say that nothing else
can do it.

### WorkerSupervisor

| Variable | Code |
|---|---|
| `mutex` | `mutex_`, by the request that is inside `ensure_worker_locked()`; other holders need one step |
| `worker` | `pid_`, `port_`, `active_model_`, `active_gpu_`; a port is the number of the child started on it |
| `drain` | `draining_` and whether its stamp is older than `drain_max_seconds()` |
| `counted` | `active_generation_requests_`, as the set of holders of an `ActiveGenerationGuard` |
| `proc`, `loads`, `jobs` | the children: life, variant, live asynchronous jobs |
| `rpc`, `asks`, `target` | where each generation request is, what it resolved to, its `worker_port` |
| `ppc`, `apc`, `forced`, `found`, `overdue` | proxied polls and admin calls, with their locals |
| `handover`, `watch`, `lost`, `unheard` | history, for the properties only; `unheard` are the requests that switch a child whose jobs did not answer for themselves |

A generation request goes `Arrive` (drain test), `Count` (guard), `Lock` (reuse, reject, conflict,
begin a switch, begin a start), `ChildBusy`/`ChildIdle` (health), `Swap`/`SwapFails`,
`Recycle`/`RecycleFails`, `Spawn`/`SpawnFails`, `Ready`/`StartupDeath`/`StartupTimeout`,
then outside the mutex `AcceptJob`/`AcceptSync`/`NotAccepted`, `SyncEnds`, `Release`. The order of
the statements is the order of the actions; every early return is an action that unlocks. The admin
calls read `in_flight()` in its two halves (`ReadCounter`, `ReadChild`), and `Unload` lowers the drain
on every path, as the code does. The child of this module is reduced to what `/health`,
`swap_model` and a submitted request make of it; `JobManager` and `GpuSharing` have the rest.

`HealthMayFail` and `KillMayFail` say whether a health check may time out and a kill may fail. The
code allows both; the theorems hold either way, and say what is still spared when no answer is taken
for idle.

`GpuSlot` is the promise that the other modules rely on: `resident`, `work`, `placing`. A process starts only
while a request is being placed and no other runs, work goes to a process of its variant, a swap in place
needs a process without work, and a stop ends the work with the process. `WorkerSupervisor` maps
`resident` to the children that run and what each serves, `work` to the requests that are forwarded to one
or have a job in it (`Homed`), and `placing` to the holder of `mutex_`, if it is counted.

### JobLifecycle and JobManager

`JobLifecycle` is the promise: `waiting`, `running`, `outcome`, `record`. `JobManager` maps its
`queue`, its generating jobs, its terminal statuses (`Outcome`) and its two tables (`Record`) to them.
A handler that holds `manager.mutex` from its first to its last access is one action. Three are
not: the notify follows the unlock (`wakes` counts the notifies that are still to be made); the media
handler reads status and result after the unlock (`TakeReference`, `ReadStatus`, `ReadResult`); and
the worker's last critical section is two steps (`Mark`, `Store`), because the media handler can
look into it. A TTL is three-valued: `completed_at` is zero, fresh or old.

### GpuSharing

Extends `JobManager` with `ctx` (`sd_ctx_mutex`), `flag` (`cancellation_flag`), `held` (the
weights are on the GPU), `loaded`, `draining`, and the program counters of a render, an unload and a
swap. A render is `Enter`, then per segment `BeginSegment` (which resets the flag),
`PassLastCheck` or `Abort` or `Fail`, then `NextSegment` or `WorkerLeaves`; `EncodeEnds` is
`JobManager`'s `RenderEnds` with its outcome. A render that is stopped gives up (`WorkerGivesUp`): the job
fails, or frames that a streamed chain flushed before are left to encode, and the job may yet succeed. Admission is a step before the submit. `GNext` leaves
out polls, media reads, TTLs and shutdown: they share nothing with the new state, and `JobManager`
covers them.

### VariantResidency

`active` is the parent's record, `recorded` the child's `loaded_variant`, `lease` the chain's,
`registered` the truth. Routing a request is one step, because `WorkerSupervisor` implements `GpuSlot`:
nothing is forwarded while the parent switches a child, and a child that has work keeps its variant. `RouteMatch`, `RouteSwap`, `RouteFork`
are the outcomes of `ensure_worker_locked`; `SelectForImage` is the swap in `execute_img_gen_job`,
`LeaseForShot` the hook of a chain, `Restore` its end. `spoiled` is a history variable: a swap of this
child failed, or a chain's lease started from what was not registered. It delimits where
`NamedVariantRenders` and `NothingLeaks` hold.

### LatentBank

| Variable | Code |
|---|---|
| `made`, `status`, `out`, `first`, `last`, `pick` | the job: its id, status, `ltx_bank_dir`, the range of shots it samples, `ltx_segment_bank_dirs` |
| `points` | the directory of a job id: its own bank, or the alias file `bank_id` |
| `dir`, `data` | names to inodes, inodes to the take that they hold; `Torn` while a writer has truncated the file |
| `queue`, `cur`, `at`, `step` | the worker thread and where it is in which shot |
| `slot`, `busy` | `SegmentPreviewWriter`: `pending_`, and the shot its thread encodes |
| `del` | a DELETE between its check and its removal |
| `faults`, `clip`, `skipped` | the bound on faults, and history |
| `rushed` | history: the jobs whose bank has links from one that was still being written, or that was rushed itself |

`Submit`, `Resume`, `Retake` are the three forms of the POST; `ForkLinks` is `fork_ltx_bank`, and the
second disjunct of `Reuse` its fallback. `DeleteChecks` and `DeleteRemoves` are the two halves of
DELETE, on either side of the unlock. A shot is `Restore`, or `Sample` (truncates the file), `Save`,
`Preview`, `Side`; `Fails` is every call of `fail()` in the chain, and `Finish` the end of the job.
A video that is streamed (webm, the default) is encoded while the chain runs, up to a window of 16 frames that
is held back: when the chain fails, `execute_vid_gen_job` looks only at the number of frames in the encoder,
and completes the job with them. `Finish` therefore ends a failed chain with the first `n` shots of its video,
for any `n` up to the shot that failed: as completed, or as failed when `n` is 0, which stands for a
video that is not streamed, a window that held everything, a cancellation and an encoder without output.
`clip` is cut accordingly, and `Delivered` are the shots left in it.
`Take`, `EncodeFails`, `Publish` are the preview thread. `Crash` leaves only the
disk. A request may name shots of any bank that resolves, as in the code, also of one that a job still
writes. `Unsettled` are such banks, and a fork from one puts the job into `rushed`: of its bank
`BankRecordsClip` and `TakesSurvive` promise nothing.

### JobVerdict

`state`, `retargets`, `asked`: a job is accepted, and ends once, with a verdict that stands. It ends
as cancelled only if somebody asked for that. A retarget (`/v1/animate`) may also be cancelled by the
token of another job, because it runs beside the session and reads the token that is armed (the comment
above `run_animate` says so). Both processes keep this promise, so the parent's relay of the child's
verdict (`avatar_server.cpp:1471-1480`) breaks none.

### AvatarServer

| Variable | Code |
|---|---|
| `pc`, `target`, `token`, `serving`, `outcome` | a job from its handler into its detached thread: the card chosen by `resolve_gpu`, its `CancelToken`, the child its lease names, its status |
| `kept`, `seat` | `Manager::jobs` and `Manager::order` |
| `mutex`, `pid`, `card`, `leases` | `Worker::mx_`, `pid_`, `worker_gpu_`, `leases_` |
| `alive`, `born` | the processes themselves |
| `draining`, `watch`, `apc` | `State::draining`, the idle watchdog, the admin call |

`Resolve`, `Admit`, `Enqueue` are the submit handler, each on its own look at shared state;
`Begin`, `FloorFits`/`FloorReclaims`/`FloorRefuses` the start of `run_proxy`; `LeaseReuses`, `LeaseSpawns`,
`LeaseFails`, `LeaseChecks`, `LeaseWaits`, `LeaseTimesOut`, `LeaseGivesUp` are `lease()` and
`ensure_locked()`, where the test of the predicate and the wait are two steps because
`release_lease` (`DropLease`, `NotifyAll`) takes no mutex; `StartupReady`/`StartupFails` the wait
for the child; `ChildTakes`, `Answer` the exchange. The child calls a job cancelled when `ChildCancels`
lets it, which is what `AvatarEngine` shows of it, and the parent relays that without a look at the job's
own token. `WatchLooks`, `WatchCounts`, `WatchKills` are the watchdog's
observations and its kill.

### AvatarEngine

| Variable | Code |
|---|---|
| `waiters`, `owner` | `Impl::waiters`, `card_busy`/`card_owner` |
| `flock` | the lock file, which another process may hold |
| `hook` | `cancelhook::slot` |
| `dit`, `loaded` | `dit_buf_` and what is in it; `motion_loaded` |
| `pc`, `kind`, `token`, `outcome`, `built` | a request: where it is, its route, its token, its end, the tiers its ladder delivered |

`Enter`, `TakeCard`, `LeaveQueue`, `TryCard`, `Arm`, `TryLock`, `TryAgain`, `GiveUp` are the constructor
of a `Session`, `Disarm`, `Unlock`, `Release` its destructor. `Begin`, `Encode`, `Load`, `Solve`,
`NextTier`, `BuildRig`, `Bake` are the stages of the four routes where they poll the hook, fail or
end; `Retarget` is the animate route, which holds no session. `WatchdogTries`/`WatchdogUnloads`
and `AdminUnloads`/`AdminReleases` take a session too.

## 3. Runs

Bounds are in the `.cfg` files. Each is the least at which the property's cases happen.

| Run | Instance | Shows |
|---|---|---|
| `drain_abandoned` | 2 admins with up to 2 drains and 2 calls each, 2 readers, an age limit of 2 ticks, 6 ticks | while `calm`, an abandoned drain comes down, not too soon, and a raised flag is stamped |
| `supervisor_switch` | 3 requests, 1 poll, 3 names (one unknown), 2 cards, 3 children, in-process swap, failing kills, a `/health` that may not answer | one child, no caller's work lost to a switch, right weights, and that it implements `GpuSlot` |
| `supervisor_gate` | 2 requests, 1 gate with drain, unload and load, expiring drain, 2 children, single model, a `/health` that may not answer | `in_flight()` misses nothing, every request and every drain is answered |
| `jobs_safety` | 3 jobs, limit 2, 1 media reader | the invariants of the job service, and that it implements `JobLifecycle` |
| `jobs_live` | 2 jobs, limit 2, 1 reader | every job ends, shutdown joins |
| `gpu_safety` | 2 jobs, chains of up to 2 segments, 1 synchronous render, 1 unload or swap | weights, flag, unload's return, and refinement of `JobManager` |
| `variant_named` | 2 variants, images, videos and chains of 1 or 2 shots, 2 pending, failing swaps, absent names | what is named renders and nothing leaks, with exactly the two exceptions of `spoiled` |
| `bank_takes` | 3 jobs of 2 shots, 2 faults, picks from any bank | banks are faithful to the clips delivered, whole or cut short by a failure, takes survive, an accepted job keeps its bank, previews are out, every job ends |
| `avatar_worker` | a rig and a retarget, 2 cards, 2 children, every admin call, failing kills, a child that dies | one worker, exact leases, right card, reclaim and relocation spare leases, that it implements `JobVerdict`, every job ends |
| `avatar_watchdog` | as above without admin calls or failures | finding 1 |
| `engine_session` | 2 requests of any of 4 routes, 2 tiers, watchdog, every admin call, another process on the lock file | one on the card, motion weights where they belong, that it implements `JobVerdict`, every request ends |
| `engine_torn` | 2 motion requests | finding 2 |

Why the bounds are enough. A third request is what it takes for one request to switch while a second
is counted and a third has left a job behind; two children are the least for a recycle, three for two
in a row. Three jobs with a limit of two fill the queue while one renders and let one be turned away.
Two segments are the least for something to come between segments; two shots the least for a shot to
differ from its predecessor and from the default, or to be kept while the other is rendered again. A third
bank is the least for a job to mix shots of two others, or for a take to outlive a fork of a
fork; two faults let a crash or a failed fork meet a delete or a cancel. Two avatar jobs on two cards are the least
for a relocation under a lease, and a heavy and a light one take different paths through admission. Two
requests are the least for one to leave state to another on the card. The theorems of section 5 need no bound.

Symmetry is used in `supervisor_switch` and `jobs_safety`, which check invariants and action
properties only: no expression tells two requests, or two jobs, apart. Deadlock is checked in the
runs of `JobManager`, `GpuSharing` and `VariantResidency`. It is not in those of `DrainFlag`, whose
clock is bounded, and of `WorkerSupervisor`, `LatentBank`, `AvatarServer` and `AvatarEngine`, where each request
is sent at most once and nobody is obliged to call: they really stop. There, a request that
hangs is found by the liveness properties.

In `drain_abandoned` two admins and two drains each are the least for a late store to meet a
`drain()`; its properties are stated while `calm`. The bank's properties but the last two are stated for histories
in which no fork failed (`ForkHeld`). Section 6 says what happens otherwise.

## 4. Fairness

- `DrainFlag`: a thread inside a call goes on, requests keep calling `draining()` (the gate polls
  `/health`), the clock advances. No admin is obliged to call.
- `WorkerSupervisor`: a request in progress goes on, and so does an admin call; a drain's deadline
  passes. A wait for a start ends by the 300 attempts of `wait_until_ready_locked`, a forwarded call
  by the hour of its read timeout. No client is obliged to send, no job to end, no child to live.
  Weak fairness suffices for `mutex_`: in `supervisor_gate` only finitely many requests compete for it.
- `JobManager`: the worker thread is scheduled and a render is finite; a handler that unlocked goes
  on to notify.
- `GpuSharing`: the same, per thread. Weak fairness suffices for `sd_ctx_mutex` because jobs and
  calls are finitely many. The code's mutex is not fair: with an endless supply of renders
  an unload could starve, and the model does not claim otherwise.
- `LatentBank`: the worker and the preview thread are never starved. No client or crash is owed.
- `AvatarServer`: a job's thread, the watchdog and an admin call in progress go on; a start has its 120 s, a
  lease its 7200 s, a render ends. A child is never obliged to die nor a client to cancel. `LeaseTimesOut` is part of
  a thread's progress because a notify may be lost: without it `EveryJobEnds` fails.
- `AvatarEngine`: threads go on and a stage has an end. `GiveUp` is strongly fair: the wait on the lock file
  alternates between trying and being blocked, and `gpu_lock_timeout_s` ends it at the latest. The other
  process may keep the lock for ever.

## 5. Theorems

All but one assume nothing beyond what TLC evaluates: each module of proofs uses the named assumption of its module (`SupervisorAssumption`,
`JobManagerAssumption` and so on), which is checked in every run.

| Module | Theorem | States | Assumes further |
|---|---|---|---|
| `DrainFlagProofs` | `TypeCorrect` | `[]TypeOK` | |
| | `DrainIsStamped`, `HealsOld` | `[]RaisedDrainIsStamped`, `HealsOnlyOldDrains` | |
| | `OneGateIsCalm` | `[]calm` | one admin, at most one drain; any calls and readers |
| `WorkerSupervisorProofs` | `TypeCorrect` | `[]TypeOK` | |
| | `ResidentIsUnique`, `VariantIsRight` | `[]OneResident`, `[]RightVariant` | |
| | `SwitchIsSafe`, `DrainIsComplete` | `[]SwitchSparesWork`, `DrainMissesNothing` | |
| | `Refinement` | `KeepsSlot` | |
| `JobManagerProofs` | `TypeCorrect` | `[]TypeOK` | |
| | `QueueExact`, `LiveJobKept`, `LimitHolds`, `CancellationDecides` | `[]QueueIsExact`, `[]LiveJobIsKept`, `[]QueueIsBounded`, `[]CancelDecides` | |
| | `Refinement` | `ImplementsLifecycle` | |
| `GpuSharingProofs` | `ServiceRefinement` | `ImplementsJobManager` | |
| | `GTypeCorrect`, `FreeIsSafe`, `StopsOwnJob` | `[]GTypeOK`, `FreeSparesRender`, `OnlyCancelledJobsStop` | |
| `VariantResidencyProofs` | `TypeCorrect` | `[]TypeOK` | |
| | `NamedRenders`, `LeaksNothing`, `LeaseTrue` | `[]NamedVariantRenders`, `[]NothingLeaks`, `[]LeaseIsTrue` | |
| `AvatarServerProofs` | `TypeCorrect` | `[]TypeOK` | |
| | `WorkerIsUnique`, `LeasesExact`, `JobsArePlaced`, `ReclaimIsSafe` | `[]OneWorker`, `[]LeasesAreExact`, `[]PlacedAsChosen`, `ReclaimSparesLeases` | |
| | `Refinement` | `KeepsContract` | |
| `AvatarEngineProofs` | `TypeCorrect` | `[]TypeOK` | |
| | `CardIsExclusive`, `WeightsInPlace`, `CancelledByItself` | `[]OneOnTheCard`, `[]MotionWeightsInPlace`, `[]CancelIsOwn` | |
| | `Refinement` | `KeepsContract` | |
| `LatentBankProofs` | `TypeCorrect` | `[]TypeOK` | |
| | `TakesStay`, `RecordIsFaithful`, `SidecarsAgree`, `ResumedBankStays` | `TakesSurvive`, `[]BankRecordsClip`, `[]SidecarsMatch`, `[]ActiveBankStays` | |
| | `PreviewsOut` | `PreviewsAreOut` | |

Hardly one of these invariants is inductive. The strengthenings, and why each is needed:

- `DrainFlag`, `Stamped`, which holds while `calm`: a raised flag has its stamp, and a `drain()` between its
  stores meets no late thread (`UpStamped`); who is to clear a stamp does it under a lowered flag
  (`ClearsLowered`); what a reader has loaded while the flag is still up is the current stamp
  (`HealsSeen`). `OneGateIsCalm` shows that the condition is not idle: one gate that drains once never
  meets a late store (`UpOnce`).
- `WorkerSupervisor`, in layers, each preserved by every action given the layers below. `Residence`:
  the holder of the mutex is where its program counter says; the counter is the set of requests
  between `Count` and `Release`; `pid_` names a forked child, or none where the code has just
  unloaded. `Work`: jobs live in children that are up, and were accepted after their request was
  resolved; while a request switches it is counted alone, so nobody else is being forwarded. `Quiet`:
  between the health check that reported idle and the end of the switch the child has no job, unless
  it had jobs and did not answer (`AskedIsIdle`), because only a counted request could give it one; and what
  a drain saw as counted before it asked the child is answered or in the child's list (`SeenAnswered`).
  `Refinement` needs `Residence` and `Work`: they say that a child is forked when none runs and under a
  number that no call is routed to, that the child being swapped hosts nobody, and that the one which gets a
  request serves its variant.
- `JobManager`, `Safe`: beside the four invariants, that the worker holds the one job that is generating, that
  `completed_at` is zero exactly while a job has not ended, and that a result is stored only when
  a job is not cancelled. The lemmas on queues (`QueueAppend`, `QueueTail`, `QueueRemove`,
  `QueueLength`) say what each change of the queue does to its set and to its length.
  `Refinement` maps every action to one of `JobLifecycle` or to a stutter: a purge that happens
  inside a handler is the `Aged` of the same abstract step.
- `GpuSharing`, `GSafe`: a renderer has `sd_ctx_mutex` from its entry to its last check point
  (`MutexCovers`); the worker renders what `JobManager` says it does (`WorkerRenders`); the flag that a
  running segment sees was raised after that segment began, for its job (`FlagIsOurs`). `ServiceRefinement`
  brings the invariant of `JobManager` along.
- `VariantResidency`, `Safe`: whatever waits or renders names `active` or nothing (`RoutedHere`),
  since the parent changes it only over an idle child; unless the child is spoiled, `registered`
  is `active` outside chains and the lease within (`Unspoiled`); a shot renders once its variant is
  leased (`ShotLeased`).
- `AvatarServer`, `Safe`: `mx_` is held over steps by exactly one thread (`MutexHeld`); the worker
  being started has no lessee yet (`StartsAlone`); the lessees are finitely many and counted
  (`LeasesCounted`). Hence a lease names the resident or a dead process, and a relocation, which
  waits for no leases, finds none on it. `Refinement` adds `Promised`: a job has a verdict only when its thread
  is past `finish()` (`Unended`), so that every `finish()` is the first, and the table lists accepted jobs only.
- `AvatarEngine`, `Safe`: whoever is between the queue and the release owns the card (`CardHeld`),
  holds the lock file while inside (`LockHeld`), and only its token is armed (`HookHeld`); the weights
  are absent from the first tier on and present in the solver (`WeightsByStage`). `Refinement` adds that only a
  job with a session is queued or on the card (`OnCard`): the token that a retarget reads is then never
  another retarget's.
- `LatentBank`, `Takes`, which holds as long as every fork has worked (`ForkHeld`, the premise of
  the four properties): a bank that is not gone sits under the name of the job that made it
  (`Placed`); an inode is written only by that job, and other banks get it by a link only once the job has
  ended (`Linked`, `Own`, `Holds`); a sidecar is written after its latent, with its bytes, and is
  linked with it (`Trio`, `Together`, `Fresh`, `InHand`); a shot picked from another bank is the
  one that was linked, or that bank is gone (`Picked`, `Kept`); bank and clip agree as far as
  the job has come and, once it has completed, for the shots of the video it delivered (`Recorded`): the end of
  a job only takes shots away from the clip (`Ends`), so a render that failed leaves the agreement it had. Of these, `Linked`, `Picked` and `Recorded` speak of the banks that are not
  `rushed`: the handler does not ask whether a job still writes in a bank that a shot is picked from. `PreviewsOut` has an invariant of its own,
`Shown`: a shot that is done waits, is being encoded, was skipped or is out, unless its bank is gone. It
  holds on after a failure, for the shots before the one that failed, which are all that can be delivered.

Only model-checked: all liveness (`EveryJobEnds`, `StopJoins`, `UnloadReturns`,
`EveryRequestAnswered`, `DrainReturns`, `AbandonedDrainHeals`).
Liveness, ENABLED and induction over data are beyond the prover as installed.

## 6. Findings

The violation runs show places where the code does not do what its own comments say.
`PROJECT.json` quotes each.

1. `avatar_watchdog`: the idle watchdog looks at leases and live jobs, and then kills the worker without
   looking again under the lock; a job that was submitted and leased the worker in between is killed.
   A plain unload has the same window.
2. `engine_torn`: a load of the motion weights that fails half-way leaves the buffer that says that
   they are loaded; the next request solves on it.

Other conditions under which something that a reader of the code would expect fails. The modules hold the
behaviour, most with the property written out; no run of its own shows it.

Supervisor and drain:

- A request between its drain test and its guard is invisible to the drain, and the forced unload
  that follows kills it (`worker_supervisor.cpp:580-590`, `HandoverSparesWork`).
- The self-heal (600 s) is shorter than the drain's wait (1800 s): `DrainHeldWhileWaiting`.
- Two admins (`calm` is FALSE from there): a drain between the two stores of a clear (`worker_supervisor.cpp:216-217`) leaves the
  flag raised without a stamp, which never heals. Two drains: `draining()` lowers a drain that was
  raised after it read the old stamp.
- No answer of `/health` within a second counts as idle: a switch then destroys the jobs that the child has
  accepted and answered for, and a drain reports drained over them. `SwitchSparesWork` and `DrainMissesNothing`
  say what is spared even then: the calls that somebody still waits for.

Job service, GPU sharing, variants:

- The media handler can find a completed job without its result (`async_jobs.cpp:1183`,
  `routes_sdcpp.cpp:685`, `CompletedHasMedia`).
- Each segment erases a pending cancellation (`src/stable-diffusion.cpp:10095`, `CancelStopsRender`).
- A chain that names no model, on the child of another variant, runs "base" and leaves it behind
  (`routes_ltx.cpp:1238`, `ChainsRestoreTheirModel`); so does a restore that fails
  (`async_jobs.cpp:1030-1033`).
- A forced unload can take `sd_ctx_mutex` before the running job does; it then frees weights
  that this job loads again, and reports "not loaded" while they are resident
  (`routes_gpu_sharing.cpp:107-119`).
- A job can be accepted between `swap_model`'s look at the queue and its swap
  (`routes_gpu_sharing.cpp:154-166`). Behind the supervisor it cannot: the mutex is held and nothing else is counted.
- `loaded_variant` is written by the image path only; after a `swap_model`, a lease or a fork with
  another variant it does not name what is resident.
- `QueueIsExact` shows that a cancel of a queued job always finds its id: the 409 answer of that
  branch is never given.

Latent bank:

- A streamed chain that fails after frames were flushed is completed, with a video that stops early and no
  error: `execute_vid_gen_job` tests the encoder's frames and not `generated`
  (`async_jobs.cpp:1083-1109`, `CompletedIsWhole`). So is one whose render succeeded and whose default
  model could not be restored (`async_jobs.cpp:1032`). Only a requested cancellation still decides. The bank may
  then hold shots that the video does not show (kept ones behind the failure, a latent whose shot failed
  later): `BankRecordsClip` and `PreviewsAreOut` speak of the shots delivered.
- When the fork fails, or `LTX_BANK_FORK=0`, the job writes into the bank that it resumed, and
  through shared inodes into the takes that were forked from or into it: `TakesSurvive` needs `ForkHeld`
  (the comment at `routes_ltx.cpp:1526-1528` promises it without).
- A segment may be picked from a bank that a job still writes; the fork then copies a latent without its
  sidecars (the bank is `rushed`).
- `ActiveBankStays` is about the child's DELETE. The supervisor's own (`worker_supervisor.cpp:822`) tests
  `in_flight()` and then removes the bank; a generation that resumes from it may be admitted between the two.
- A DELETE of a bank from which a queued job picked a shot makes that job fail, although its own fork has the
  hard link: the restore reads the other bank.
- A crash between `.bin` and `.len` leaves a shot that a resume counts as complete without its
  sidecars; one within the write of `.bin` leaves a torn latent that counts as resumable, so every resume fails.

Avatar server:

- `release_lease` notifies without the mutex of its waiters: the notify may be lost, and the waiter
  sleeps until its 7200 s are over. `EveryJobEnds` rests on that limit.
- The card of a light job is chosen at submit from the worker that is up then; when another job has
  moved the worker since, the light job moves it back (contrary to the intent at `avatar_server.cpp:894`).
- `max_pending` is tested before the record is made: two submits can both pass.
- A cancelled job that waits in `lease()` starts a worker after a forced unload has answered that it
  unloaded.
- The refusal for want of VRAM blames a co-tenant also when the kill of the server's own idle
  worker failed.

Avatar engine:

- In single-process mode an unload after a drain is always refused, and a drain turns queued requests
  away with 503 although they had been accepted.
- An animate request reads whatever token is armed; it tries once more and then reports "cancelled" for a job
  that nobody cancelled. `CancelIsOwn` therefore excludes that route, `JobVerdict` allows it, and the
  parent's `run_proxy` relays it without a look at the job's own token.
- A ladder that is cancelled after its first tier reports completed.
- `try_session` takes the card without waiting but may then block on the lock file for up to
  `gpu_lock_timeout_s`, with requests queued behind it (contrary to `avatar_pipeline.cpp:414-415`).
- A torn buffer (finding 2) is never unloaded by the idle watchdog, which looks at `motion_loaded`.

## 7. What is left

- A module of the model manager's account of folded, staged and mapped weights (section 1).
- Operator modules for the planning algorithms in `src/core/`, against reference definitions.
