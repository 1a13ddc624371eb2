------------------------- MODULE AvatarEngineProofs -------------------------
(***************************************************************************)
(* The safety of AvatarEngine, for any requests, routes and tiers, and     *)
(* whatever the other process on the lock file does.                       *)
(*                                                                         *)
(* owner names the one actor between the queue of the card and its         *)
(* release.  The stages, the hook and the motion weights change only in    *)
(* its hands; what is left is the order within a request.                  *)
(***************************************************************************)
EXTENDS AvatarEngine, SequenceTheorems, TLAPS

(* The card belongs to the actor that is past the queue and not yet out.    *)
CardHeld == \A a \in Actors : pc[a] \in Holding <=> owner = a

(* The lock file is taken before the stages and given back after them.      *)
LockHeld == \A a \in Actors : pc[a] \in Inside => flock = a

(* The armed token is that of the owner, between its arming and disarming.  *)
HookHeld == hook # Nobody => pc[hook] \in Holding \ {"unlocking", "releasing"}

(* Only the watchdog and an unload try the card; only requests have stages, *)
(* and only an animate tries again.                                         *)
Roles ==
    /\ \A j \in Jobs : /\ pc[j] # "trying"
                       /\ pc[j] = "new" => outcome[j] = "none"
                       /\ pc[j] = "again" => kind[j] = "animate"
    /\ \A a \in {"watchdog", "admin"} : pc[a] \notin Inside \ {"inside"}

(* After the motion, and before a rig, the weights are gone.                *)
WeightsByStage ==
    /\ \A j \in Jobs : /\ pc[j] \in {"tier", "rigging", "baking"} => dit = "none"
                       /\ pc[j] = "solving" => dit # "none"
    /\ loaded => dit # "none"

(* A ladder has a tier to build as long as it is on one.                    *)
BeforeLadder == {"new", "submitted", "queued", "arming", "locking", "blocked",
                 "inside", "encoding", "loading", "solving"}

Ladder ==
    \A j \in Jobs : /\ pc[j] \in BeforeLadder => built[j] = 0
                    /\ pc[j] \in {"tier", "rigging"} => built[j] < Tiers

Safe == CardHeld /\ LockHeld /\ HookHeld /\ Roles /\ WeightsByStage /\ Ladder
            /\ CancelIsOwn

-----------------------------------------------------------------------------
(* Initially nobody is past the queue. *)
LEMMA InitSafe == Init => TypeOK /\ Safe
<1> SUFFICES ASSUME Init PROVE TypeOK /\ Safe
  OBVIOUS
<1>1. TypeOK
  <2>1. waiters \in Seq(Jobs)
    BY EmptySeq DEF Init
  <2>2. built \in [Jobs -> 0..Tiers]
    BY EngineAssumption DEF Init
  <2> QED
    BY <2>1, <2>2, EngineAssumption DEF Init, TypeOK, Places, Actors
<1>2. CardHeld /\ LockHeld /\ HookHeld
  BY EngineAssumption
  DEF Init, CardHeld, LockHeld, HookHeld, Holding, Inside, Actors
<1>3. Roles /\ WeightsByStage /\ Ladder /\ CancelIsOwn
  BY EngineAssumption
  DEF Init, Roles, WeightsByStage, Ladder, CancelIsOwn, BeforeLadder, Inside,
      Actors
<1> QED
  BY <1>1, <1>2, <1>3 DEF Safe

(* What a job's last word changes. *)
LEMMA FinishType ==
    ASSUME TypeOK, NEW j \in Jobs, NEW o, NEW next \in Places,
           o \in {"completed", "failed", "cancelled"}, Finish(j, o, next)
    PROVE  /\ pc' \in [Actors -> Places]
           /\ outcome' \in [Jobs -> {"none", "completed", "failed", "cancelled"}]
BY DEF Finish, TypeOK, Actors

(* The queue of the card holds jobs. *)
LEMMA QueueType ==
    ASSUME TypeOK, NEW j \in Jobs
    PROVE  /\ Append(waiters, j) \in Seq(Jobs)
           /\ Mine(j) => Tail(waiters) \in Seq(Jobs)
           /\ \A i \in DOMAIN waiters : RemoveAt(waiters, i) \in Seq(Jobs)
<1>1. waiters \in Seq(Jobs)
  BY DEF TypeOK
<1>2. Append(waiters, j) \in Seq(Jobs)
  BY <1>1, AppendProperties
<1>3. Mine(j) => Tail(waiters) \in Seq(Jobs)
  BY <1>1, HeadTailProperties DEF Mine
<1>4. ASSUME NEW i \in DOMAIN waiters PROVE RemoveAt(waiters, i) \in Seq(Jobs)
  <2>1. i \in 1..Len(waiters) /\ Len(waiters) \in Nat
    BY <1>1, LenProperties
  <2>2. SubSeq(waiters, 1, i - 1) \in Seq(Jobs)
    <3> SUFFICES \A k \in 1..(i - 1) : waiters[k] \in Jobs
      BY <1>1, <2>1, SubSeqProperties
    <3> QED
      BY <1>1, <2>1, ElementOfSeq
  <2>3. SubSeq(waiters, i + 1, Len(waiters)) \in Seq(Jobs)
    <3> SUFFICES \A k \in (i + 1)..Len(waiters) : waiters[k] \in Jobs
      BY <1>1, <2>1, SubSeqProperties
    <3> QED
      BY <1>1, <2>1, ElementOfSeq
  <2> QED
    BY <2>2, <2>3, ConcatProperties DEF RemoveAt
<1> QED
  BY <1>2, <1>3, <1>4

(* A step of a Session keeps the types. *)
LEMMA SessionType ==
    ASSUME TypeOK, NEW a \in Actors, SessionStep(a)
    PROVE  TypeOK'
<1> USE DEF jobVars, cardVars, motionVars
<1>1. ASSUME TryCard(a) PROVE TypeOK'
  BY <1>1 DEF TryCard, TypeOK, Places, Holding
<1>2. ASSUME Arm(a) PROVE TypeOK'
  BY <1>2 DEF Arm, Goto, TypeOK, Places, Holding
<1>3. ASSUME TryLock(a) PROVE TypeOK'
  BY <1>3 DEF TryLock, TypeOK, Places, Holding
<1>4. ASSUME TryAgain(a) PROVE TypeOK'
  BY <1>4 DEF TryAgain, Goto, TypeOK, Places, Holding
<1>5. ASSUME GiveUp(a) PROVE TypeOK'
  BY <1>5 DEF GiveUp, Finish, LockVerdict, TypeOK, Places, Holding
<1>6. ASSUME Disarm(a) PROVE TypeOK'
  BY <1>6 DEF Disarm, Goto, TypeOK, Places, Holding
<1>7. ASSUME Unlock(a) PROVE TypeOK'
  BY <1>7 DEF Unlock, Goto, TypeOK, Places, Holding
<1>8. ASSUME Release(a) PROVE TypeOK'
  BY <1>8 DEF Release, Goto, TypeOK, Places, Holding
<1> QED
  BY <1>1, <1>2, <1>3, <1>4, <1>5, <1>6, <1>7, <1>8 DEF SessionStep

(* A stage keeps the types; a ladder does not count beyond its tiers. *)
LEMMA StageType ==
    ASSUME TypeOK, Ladder, NEW j \in Jobs, StageStep(j)
    PROVE  TypeOK'
<1> USE DEF jobVars, cardVars, motionVars
<1>0. j \in Actors
  BY DEF Actors
<1>1. ASSUME Enter(j) PROVE TypeOK'
  BY <1>0, <1>1, QueueType DEF Enter, Finish, TypeOK, Places
<1>2. ASSUME TakeCard(j) PROVE TypeOK'
  BY <1>0, <1>2, QueueType DEF TakeCard, Goto, TypeOK, Places, Holding
<1>3. ASSUME LeaveQueue(j) PROVE TypeOK'
  <2>1. waiters' \in Seq(Jobs)
    BY <1>3, QueueType DEF LeaveQueue
  <2> QED
    BY <1>0, <1>3, <2>1 DEF LeaveQueue, Finish, TypeOK, Places
<1>4. ASSUME Begin(j) PROVE TypeOK'
  BY <1>0, <1>4 DEF Begin, Goto, Finish, ReleaseGpu, TypeOK, Places, Holding
<1>5. ASSUME Encode(j) PROVE TypeOK'
  BY <1>0, <1>5 DEF Encode, Goto, Finish, ReleaseGpu, TypeOK, Places, Holding
<1>6. ASSUME Load(j) PROVE TypeOK'
  <2>1. /\ pc' \in [Actors -> Places]
        /\ outcome' \in [Jobs -> {"none", "completed", "failed", "cancelled"}]
    BY <1>0, <1>6 DEF Load, Goto, Finish, TypeOK, Places, Holding
  <2>2. dit' \in {"none", "torn", "weights"}
    BY <1>6 DEF Load, ReleaseGpu, TypeOK
  <2>3. loaded' \in BOOLEAN
    BY <1>6 DEF Load, ReleaseGpu, TypeOK
  <2> QED
    BY <1>6, <2>1, <2>2, <2>3 DEF Load, TypeOK
<1>7. ASSUME Solve(j) PROVE TypeOK'
  BY <1>0, <1>7 DEF Solve, Goto, Finish, ReleaseGpu, TypeOK, Places, Holding
<1>8. ASSUME NextTier(j) PROVE TypeOK'
  BY <1>0, <1>8 DEF NextTier, Goto, Finish, TypeOK, Places, Holding
<1>9. ASSUME BuildRig(j) PROVE TypeOK'
  <2>1. built' \in [Jobs -> 0..Tiers]
    BY <1>9, EngineAssumption DEF BuildRig, TypeOK, Ladder
  <2>2. /\ pc' \in [Actors -> Places]
        /\ outcome' \in [Jobs -> {"none", "completed", "failed", "cancelled"}]
    BY <1>0, <1>9
    DEF BuildRig, Delivered, Goto, Finish, TypeOK, Places, Holding
  <2> QED
    BY <1>9, <2>1, <2>2 DEF BuildRig, TypeOK
<1>10. ASSUME Bake(j) PROVE TypeOK'
  BY <1>0, <1>10 DEF Bake, Finish, TypeOK, Places, Holding
<1>11. ASSUME Retarget(j) PROVE TypeOK'
  <2>1. pc' \in [Actors -> Places]
    BY <1>0, <1>11 DEF Retarget, Finish, TypeOK, Places
  <2>2. outcome' \in [Jobs -> {"none", "completed", "failed", "cancelled"}]
    BY <1>0, <1>11 DEF Retarget, Finish, TypeOK
  <2> QED
    BY <1>11, <2>1, <2>2 DEF Retarget, TypeOK
<1> QED
  BY <1>1, <1>2, <1>3, <1>4, <1>5, <1>6, <1>7, <1>8, <1>9, <1>10, <1>11
  DEF StageStep

(* Clients, the watchdog, an admin and the other process keep the types. *)
OutsideStep ==
    \/ \E j \in Jobs : Submit(j) \/ Cancel(j)
    \/ OfficeStep \/ WatchdogTries \/ AdminUnloads \/ Drain \/ Undrain
    \/ DriverLocks \/ DriverUnlocks

LEMMA OutsideType ==
    ASSUME TypeOK, OutsideStep
    PROVE  TypeOK'
<1> USE DEF jobVars, cardVars, motionVars
<1>1. ASSUME NEW j \in Jobs, Submit(j) PROVE TypeOK'
  BY <1>1 DEF Submit, Goto, TypeOK, Places, Actors
<1>2. ASSUME NEW j \in Jobs, Cancel(j) PROVE TypeOK'
  BY <1>2 DEF Cancel, TypeOK
<1>3. ASSUME WatchdogUnloads PROVE TypeOK'
  BY <1>3 DEF WatchdogUnloads, Goto, ReleaseGpu, TypeOK, Places, Holding
<1>4. ASSUME AdminReleases PROVE TypeOK'
  BY <1>4 DEF AdminReleases, Goto, ReleaseGpu, TypeOK, Places, Holding
<1>5. ASSUME WatchdogTries PROVE TypeOK'
  BY <1>5 DEF WatchdogTries, TypeOK, Places
<1>6. ASSUME AdminUnloads PROVE TypeOK'
  BY <1>6 DEF AdminUnloads, TypeOK, Places
<1>7. ASSUME Drain \/ Undrain \/ DriverLocks \/ DriverUnlocks PROVE TypeOK'
  BY <1>7 DEF Drain, Undrain, DriverLocks, DriverUnlocks, TypeOK
<1> QED
  BY <1>1, <1>2, <1>3, <1>4, <1>5, <1>6, <1>7 DEF OutsideStep, OfficeStep

-----------------------------------------------------------------------------
(* The moves of the owner between its arming and its release leave the card *)
(* alone; entering a stage takes the lock file first.                       *)
LEMMA OwnerMoves ==
    ASSUME TypeOK, Safe, NEW a \in Actors, pc[a] \in Holding,
           NEW to \in Holding, pc' = [pc EXCEPT ![a] = to],
           UNCHANGED owner,
           flock' = flock \/ pc[a] \notin Inside,
           to \in Inside => flock' = a,
           \/ hook' = hook /\ to \notin {"unlocking", "releasing"}
           \/ hook' \in {Nobody, a} /\ to \notin {"unlocking", "releasing"}
           \/ hook' = Nobody
           \/ hook' = hook /\ pc[a] \in {"unlocking", "releasing"}
    PROVE  CardHeld' /\ LockHeld' /\ HookHeld'
<1>1. owner = a /\ \A b \in Actors \ {a} : pc[b] \notin Holding /\ pc'[b] = pc[b]
  BY EngineAssumption DEF Safe, CardHeld, TypeOK
<1>2. pc'[a] = to
  BY DEF TypeOK
<1>3. CardHeld'
  BY <1>1, <1>2 DEF CardHeld, Actors
<1>4. LockHeld'
  BY <1>1, <1>2 DEF LockHeld, Inside, Holding
<1>5. HookHeld'
  BY <1>1, <1>2 DEF HookHeld, Safe, TypeOK, Actors
<1> QED
  BY <1>3, <1>4, <1>5

(* Nobody else is past the queue, so nobody else is in a stage. *)
LEMMA OwnerAlone ==
    ASSUME TypeOK, Safe, NEW a \in Actors, pc[a] \in Holding
    PROVE  /\ \A b \in Actors \ {a} : pc[b] \notin Holding
           /\ hook # Nobody => hook = a
BY EngineAssumption DEF Safe, CardHeld, HookHeld, TypeOK, Actors

(* A step of a Session keeps the invariant. *)
LEMMA SessionSafe ==
    ASSUME TypeOK, Safe, NEW a \in Actors, SessionStep(a)
    PROVE  Safe'
<1> USE DEF jobVars, cardVars, motionVars
<1>1. ASSUME TryCard(a) PROVE Safe'
  <2>1. CardHeld' /\ LockHeld' /\ HookHeld'
    BY <1>1, EngineAssumption
    DEF TryCard, CardIsFree, Safe, CardHeld, LockHeld, HookHeld, Holding,
        Inside, TypeOK, Actors
  <2>2. Roles' /\ WeightsByStage' /\ Ladder' /\ CancelIsOwn'
    BY <1>1, EngineAssumption
    DEF TryCard, Safe, Roles, WeightsByStage, Ladder, BeforeLadder,
        CancelIsOwn, Inside, TypeOK, Actors
  <2> QED
    BY <2>1, <2>2 DEF Safe
<1>2. ASSUME Arm(a) PROVE Safe'
  <2>1. CardHeld' /\ LockHeld' /\ HookHeld'
    BY <1>2, OwnerMoves DEF Arm, Goto, Holding, Inside
  <2>2. Roles' /\ WeightsByStage' /\ Ladder' /\ CancelIsOwn'
    BY <1>2, EngineAssumption
    DEF Arm, Goto, Safe, Roles, WeightsByStage, Ladder, BeforeLadder,
        CancelIsOwn, Inside, TypeOK, Actors
  <2> QED
    BY <2>1, <2>2 DEF Safe
<1>3. ASSUME TryLock(a) PROVE Safe'
  <2>1. CardHeld' /\ LockHeld' /\ HookHeld'
    BY <1>3, OwnerMoves DEF TryLock, Holding, Inside
  <2>2. Roles' /\ WeightsByStage' /\ Ladder' /\ CancelIsOwn'
    BY <1>3, EngineAssumption
    DEF TryLock, Safe, Roles, WeightsByStage, Ladder, BeforeLadder,
        CancelIsOwn, Inside, TypeOK, Actors
  <2> QED
    BY <2>1, <2>2 DEF Safe
<1>4. ASSUME TryAgain(a) PROVE Safe'
  <2>1. CardHeld' /\ LockHeld' /\ HookHeld'
    BY <1>4, OwnerMoves DEF TryAgain, Goto, Holding, Inside
  <2>2. Roles' /\ WeightsByStage' /\ Ladder' /\ CancelIsOwn'
    BY <1>4, EngineAssumption
    DEF TryAgain, Goto, Safe, Roles, WeightsByStage, Ladder, BeforeLadder,
        CancelIsOwn, Inside, TypeOK, Actors
  <2> QED
    BY <2>1, <2>2 DEF Safe
<1>5. ASSUME GiveUp(a) PROVE Safe'
  <2>0. pc[a] = "blocked" /\ pc' = [pc EXCEPT ![a] = "leaving"]
    BY <1>5 DEF GiveUp, Finish
  <2>1. CardHeld' /\ LockHeld' /\ HookHeld'
    BY <1>5, <2>0, OwnerMoves DEF GiveUp, Holding, Inside
  <2>2. Roles' /\ WeightsByStage' /\ Ladder'
    BY <1>5, <2>0, EngineAssumption
    DEF GiveUp, Finish, Safe, Roles, WeightsByStage, Ladder, BeforeLadder,
        Inside, TypeOK, Actors
  <2>3. CancelIsOwn'
    BY <1>5 DEF GiveUp, Finish, LockVerdict, Safe, CancelIsOwn, TypeOK
  <2> QED
    BY <2>1, <2>2, <2>3 DEF Safe
<1>6. ASSUME Disarm(a) PROVE Safe'
  <2>1. CardHeld' /\ LockHeld' /\ HookHeld'
    BY <1>6, OwnerMoves DEF Disarm, Goto, Holding, Inside
  <2>2. Roles' /\ WeightsByStage' /\ Ladder' /\ CancelIsOwn'
    BY <1>6, EngineAssumption
    DEF Disarm, Goto, Safe, Roles, WeightsByStage, Ladder, BeforeLadder,
        CancelIsOwn, Inside, TypeOK, Actors
  <2> QED
    BY <2>1, <2>2 DEF Safe
<1>7. ASSUME Unlock(a) PROVE Safe'
  <2>1. CardHeld' /\ LockHeld' /\ HookHeld'
    BY <1>7, OwnerMoves DEF Unlock, Goto, Holding, Inside
  <2>2. Roles' /\ WeightsByStage' /\ Ladder' /\ CancelIsOwn'
    BY <1>7, EngineAssumption
    DEF Unlock, Goto, Safe, Roles, WeightsByStage, Ladder, BeforeLadder,
        CancelIsOwn, Inside, TypeOK, Actors
  <2> QED
    BY <2>1, <2>2 DEF Safe
<1>8. ASSUME Release(a) PROVE Safe'
  <2>0. /\ pc[a] = "releasing" /\ pc[a] \in Holding /\ owner' = Nobody
        /\ pc' = [pc EXCEPT ![a] = IF a \in Jobs THEN "done" ELSE "new"]
        /\ UNCHANGED <<flock, hook>>
    BY <1>8 DEF Release, Goto, Holding
  <2>1. CardHeld' /\ LockHeld' /\ HookHeld'
    <3>1. hook = Nobody
      BY <2>0, OwnerAlone DEF Safe, HookHeld
    <3> QED
      BY <2>0, <3>1, OwnerAlone, EngineAssumption
      DEF Safe, CardHeld, LockHeld, HookHeld, Holding, Inside, TypeOK, Actors
  <2>2. Roles' /\ WeightsByStage' /\ Ladder' /\ CancelIsOwn'
    BY <1>8, EngineAssumption
    DEF Release, Goto, Safe, Roles, WeightsByStage, Ladder, BeforeLadder,
        CancelIsOwn, Inside, TypeOK, Actors
  <2> QED
    BY <2>1, <2>2 DEF Safe
<1> QED
  BY <1>1, <1>2, <1>3, <1>4, <1>5, <1>6, <1>7, <1>8 DEF SessionStep

(* A stage leaves the card, the lock file and the hook alone, and only the  *)
(* job that is in one touches the weights.                                  *)
LEMMA StageMoves ==
    ASSUME TypeOK, Safe, NEW j \in Jobs, pc[j] \in Inside,
           NEW to \in Inside \cup {"leaving"}, pc' = [pc EXCEPT ![j] = to],
           UNCHANGED <<cardVars, hook>>
    PROVE  CardHeld' /\ LockHeld' /\ HookHeld'
<1>1. /\ j \in Actors /\ pc[j] \in Holding /\ to \in Holding
      /\ to \notin {"unlocking", "releasing"}
  BY DEF Actors, Inside, Holding
<1>2. UNCHANGED <<owner, flock, hook>> /\ (to \in Inside => flock' = j)
  BY <1>1 DEF cardVars, Safe, LockHeld
<1> QED
  BY <1>1, <1>2, OwnerMoves

(* The hook that a job in a stage polls is its own. *)
LEMMA OwnHook ==
    ASSUME TypeOK, Safe, NEW j \in Jobs, pc[j] \in Inside, HookCancelled
    PROVE  j \in token
<1>1. j \in Actors /\ pc[j] \in Holding
  BY DEF Actors, Inside, Holding
<1>2. hook # Nobody
  BY EngineAssumption DEF HookCancelled, TypeOK
<1> QED
  BY <1>1, <1>2, OwnerAlone DEF HookCancelled

(* What the queue and the stages do keeps the invariant. *)
LEMMA StageSafe ==
    ASSUME TypeOK, Safe, NEW j \in Jobs, StageStep(j)
    PROVE  Safe'
<1> USE DEF jobVars, motionVars
<1>0. j \in Actors /\ (pc[j] \in Inside => pc[j] \in Holding)
  BY DEF Actors, Inside, Holding
<1>a. pc[j] \in Inside => \A k \in Jobs \ {j} : pc[k] \notin Inside
  BY <1>0, OwnerAlone DEF Actors, Inside, Holding
<1>1. ASSUME Enter(j) PROVE Safe'
  <2>1. CardHeld' /\ LockHeld' /\ HookHeld'
    BY <1>0, <1>1, EngineAssumption
    DEF Enter, Finish, cardVars, Safe, CardHeld, LockHeld, HookHeld, Holding,
        Inside, TypeOK, Actors
  <2>2. Roles' /\ WeightsByStage' /\ Ladder' /\ CancelIsOwn'
    <3>1. /\ pc[j] = "submitted" /\ UNCHANGED <<kind, token, built, dit, loaded>>
          /\ \/ /\ pc' = [pc EXCEPT ![j] = "done"]
                /\ outcome' = [outcome EXCEPT ![j] = "failed"]
             \/ pc' = [pc EXCEPT ![j] = "queued"] /\ UNCHANGED outcome
      BY <1>1, Zenon DEF Enter, Finish
    <3> QED
      BY <1>0, <3>1, EngineAssumption
      DEF Safe, Roles, WeightsByStage, Ladder, BeforeLadder, CancelIsOwn,
          Inside, TypeOK, Actors
  <2> QED
    BY <2>1, <2>2 DEF Safe
<1>2. ASSUME TakeCard(j) PROVE Safe'
  <2>1. CardHeld' /\ LockHeld' /\ HookHeld'
    BY <1>0, <1>2, EngineAssumption
    DEF TakeCard, Goto, CardIsFree, cardVars, Safe, CardHeld, LockHeld,
        HookHeld, Holding, Inside, TypeOK, Actors
  <2>2. Roles' /\ WeightsByStage' /\ Ladder' /\ CancelIsOwn'
    BY <1>0, <1>2, EngineAssumption
    DEF TakeCard, Goto, CardIsFree, cardVars, Safe, Roles, WeightsByStage,
        Ladder, BeforeLadder, CancelIsOwn, Inside, TypeOK, Actors
  <2> QED
    BY <2>1, <2>2 DEF Safe
<1>3. ASSUME LeaveQueue(j) PROVE Safe'
  <2>1. CardHeld' /\ LockHeld' /\ HookHeld'
    BY <1>0, <1>3, EngineAssumption
    DEF LeaveQueue, Finish, cardVars, Safe, CardHeld, LockHeld, HookHeld,
        Holding, Inside, TypeOK, Actors
  <2>2. Roles' /\ WeightsByStage' /\ Ladder' /\ CancelIsOwn'
    BY <1>0, <1>3, EngineAssumption
    DEF LeaveQueue, Finish, cardVars, Safe, Roles, WeightsByStage, Ladder,
        BeforeLadder, CancelIsOwn, Inside, TypeOK, Actors
  <2> QED
    BY <2>1, <2>2 DEF Safe
<1>4. ASSUME Begin(j) PROVE Safe'
  <2>0. pc[j] = "inside" /\ pc[j] \in Inside /\ UNCHANGED <<cardVars, hook>>
    BY <1>4 DEF Begin, Inside
  <2>1. PICK to \in Inside \cup {"leaving"} : pc' = [pc EXCEPT ![j] = to]
    BY <1>4 DEF Begin, Goto, Finish, ReleaseGpu, Inside
  <2>2. CardHeld' /\ LockHeld' /\ HookHeld'
    BY <2>0, <2>1, StageMoves
  <2>3. Roles'
    BY <1>0, <1>4, <2>0, <2>1, EngineAssumption
    DEF Begin, Goto, Finish, ReleaseGpu, Safe, Roles, Inside, TypeOK, Actors
  <2>4. WeightsByStage'
    BY <1>0, <1>a, <1>4, EngineAssumption
    DEF Begin, Goto, Finish, ReleaseGpu, Safe, WeightsByStage, Inside,
        TypeOK, Actors
  <2>5. Ladder'
    BY <1>0, <1>4, EngineAssumption
    DEF Begin, Goto, Finish, ReleaseGpu, Safe, Ladder, BeforeLadder, TypeOK,
        Actors
  <2>6. CancelIsOwn'
    BY <1>0, <1>4, <2>0, OwnHook
    DEF Begin, Goto, Finish, ReleaseGpu, Safe, CancelIsOwn, TypeOK, Actors
  <2> QED
    BY <2>2, <2>3, <2>4, <2>5, <2>6 DEF Safe
<1>5. ASSUME Encode(j) PROVE Safe'
  <2>0. pc[j] = "encoding" /\ pc[j] \in Inside /\ UNCHANGED <<cardVars, hook>>
    BY <1>5 DEF Encode, Inside
  <2>1. PICK to \in Inside \cup {"leaving"} : pc' = [pc EXCEPT ![j] = to]
    BY <1>5 DEF Encode, Goto, Finish, ReleaseGpu, Inside
  <2>2. CardHeld' /\ LockHeld' /\ HookHeld'
    BY <2>0, <2>1, StageMoves
  <2>3. Roles'
    BY <1>0, <1>5, <2>0, <2>1, EngineAssumption
    DEF Encode, Goto, Finish, ReleaseGpu, Safe, Roles, Inside, TypeOK, Actors
  <2>4. WeightsByStage'
    BY <1>0, <1>a, <1>5, EngineAssumption
    DEF Encode, Goto, Finish, ReleaseGpu, Safe, WeightsByStage, Inside,
        TypeOK, Actors
  <2>5. Ladder'
    BY <1>0, <1>5, EngineAssumption
    DEF Encode, Goto, Finish, ReleaseGpu, Safe, Ladder, BeforeLadder, TypeOK,
        Actors
  <2>6. CancelIsOwn'
    BY <1>0, <1>5, <2>0, OwnHook
    DEF Encode, Goto, Finish, ReleaseGpu, Safe, CancelIsOwn, TypeOK, Actors
  <2> QED
    BY <2>2, <2>3, <2>4, <2>5, <2>6 DEF Safe
<1>6. ASSUME Load(j) PROVE Safe'
  <2>0. pc[j] = "loading" /\ pc[j] \in Inside /\ UNCHANGED <<cardVars, hook>>
    BY <1>6 DEF Load, Inside
  <2>1. PICK to \in Inside \cup {"leaving"} : pc' = [pc EXCEPT ![j] = to]
    BY <1>6 DEF Load, Goto, Finish, ReleaseGpu, Inside
  <2>2. CardHeld' /\ LockHeld' /\ HookHeld'
    BY <2>0, <2>1, StageMoves
  <2>3. Roles'
    <3>1. outcome' = outcome \/ \E o : outcome' = [outcome EXCEPT ![j] = o]
      BY <1>6 DEF Load, Finish
    <3> QED
      BY <1>0, <1>6, <2>0, <2>1, <3>1, EngineAssumption
      DEF Load, Safe, Roles, Inside, TypeOK, Actors
  <2>4. WeightsByStage'
    <3>1. \A k \in Jobs \ {j} : pc'[k] = pc[k] /\ pc[k] \notin Inside
      BY <1>0, <1>a, <2>0, <2>1 DEF TypeOK, Actors
    <3>2. pc'[j] \in {"leaving", "solving"}
      BY <1>0, <1>6 DEF Load, Goto, Finish, TypeOK
    <3>3. pc'[j] = "solving" => dit' # "none"
      BY <1>0, <1>6 DEF Load, Goto, Finish, TypeOK
    <3>4. loaded' => dit' # "none"
      BY <1>6 DEF Load, ReleaseGpu, Safe, WeightsByStage
    <3> QED
      BY <3>1, <3>2, <3>3, <3>4 DEF WeightsByStage, Inside
  <2>5. Ladder'
    BY <1>0, <1>6, EngineAssumption
    DEF Load, Goto, Finish, ReleaseGpu, Safe, Ladder, BeforeLadder, TypeOK,
        Actors
  <2>6. CancelIsOwn'
    BY <1>0, <1>6, <2>0, OwnHook
    DEF Load, Goto, Finish, ReleaseGpu, Safe, CancelIsOwn, TypeOK, Actors
  <2> QED
    BY <2>2, <2>3, <2>4, <2>5, <2>6 DEF Safe
<1>7. ASSUME Solve(j) PROVE Safe'
  <2>0. pc[j] = "solving" /\ pc[j] \in Inside /\ UNCHANGED <<cardVars, hook>>
    BY <1>7 DEF Solve, Inside
  <2>1. PICK to \in Inside \cup {"leaving"} : pc' = [pc EXCEPT ![j] = to]
    BY <1>7 DEF Solve, Goto, Finish, ReleaseGpu, Inside
  <2>2. CardHeld' /\ LockHeld' /\ HookHeld'
    BY <2>0, <2>1, StageMoves
  <2>3. Roles'
    <3>1. /\ outcome' = outcome \/ \E o : outcome' = [outcome EXCEPT ![j] = o]
          /\ UNCHANGED kind
      BY <1>7 DEF Solve, Finish
    <3> QED
      BY <1>0, <2>0, <2>1, <3>1, EngineAssumption
      DEF Safe, Roles, Inside, TypeOK, Actors
  <2>4. WeightsByStage'
    <3>1. \A k \in Jobs \ {j} : pc'[k] = pc[k] /\ pc[k] \notin Inside
      BY <1>0, <1>a, <2>0, <2>1 DEF TypeOK, Actors
    <3>2. /\ pc'[j] \in {"leaving", "tier"}
          /\ pc'[j] = "tier" => dit' = "none"
      BY <1>0, <1>7 DEF Solve, Goto, Finish, ReleaseGpu, TypeOK
    <3>3. dit # "none"
      BY <2>0 DEF Safe, WeightsByStage
    <3>4. loaded' => dit' # "none"
      BY <1>7, <3>3 DEF Solve, ReleaseGpu, Safe
    <3> QED
      BY <3>1, <3>2, <3>4 DEF WeightsByStage, Inside
  <2>5. Ladder'
    <3>1. UNCHANGED built /\ pc'[j] \in {"leaving", "tier"}
      BY <1>0, <1>7 DEF Solve, Goto, Finish, TypeOK
    <3>2. \A k \in Jobs \ {j} : pc'[k] = pc[k]
      BY <1>0, <2>1 DEF TypeOK, Actors
    <3>3. built[j] = 0
      BY <2>0 DEF Safe, Ladder, BeforeLadder
    <3> QED
      BY <3>1, <3>2, <3>3, EngineAssumption DEF Safe, Ladder, BeforeLadder
  <2>6. CancelIsOwn'
    <3>1. UNCHANGED <<kind, token>>
      BY <1>7 DEF Solve
    <3>2. \/ outcome' = outcome
          \/ \E o : outcome' = [outcome EXCEPT ![j] = o] /\ (o = "cancelled" => HookCancelled)
      BY <1>7 DEF Solve, Finish
    <3>3. HookCancelled => j \in token
      BY <1>0, <2>0, OwnHook
    <3> QED
      BY <1>0, <3>1, <3>2, <3>3 DEF Safe, CancelIsOwn, TypeOK
  <2> QED
    BY <2>2, <2>3, <2>4, <2>5, <2>6 DEF Safe
<1>8. ASSUME NextTier(j) PROVE Safe'
  <2>0. pc[j] = "tier" /\ pc[j] \in Inside /\ UNCHANGED <<cardVars, hook>>
    BY <1>8 DEF NextTier, Inside
  <2>1. PICK to \in Inside \cup {"leaving"} : pc' = [pc EXCEPT ![j] = to]
    BY <1>8 DEF NextTier, Goto, Finish, Inside
  <2>2. CardHeld' /\ LockHeld' /\ HookHeld'
    BY <2>0, <2>1, StageMoves
  <2>3. Roles'
    BY <1>0, <1>8, <2>0, <2>1, EngineAssumption
    DEF NextTier, Goto, Finish, Safe, Roles, Inside, TypeOK, Actors
  <2>4. WeightsByStage'
    BY <1>0, <1>a, <1>8, EngineAssumption
    DEF NextTier, Goto, Finish, Safe, WeightsByStage, Inside, TypeOK, Actors
  <2>5. Ladder'
    BY <1>0, <1>8, EngineAssumption
    DEF NextTier, Goto, Finish, Safe, Ladder, BeforeLadder, TypeOK, Actors
  <2>6. CancelIsOwn'
    BY <1>0, <1>8, <2>0, OwnHook
    DEF NextTier, Goto, Finish, Safe, CancelIsOwn, TypeOK, Actors
  <2> QED
    BY <2>2, <2>3, <2>4, <2>5, <2>6 DEF Safe
<1>9. ASSUME BuildRig(j) PROVE Safe'
  <2>0. pc[j] = "rigging" /\ pc[j] \in Inside /\ UNCHANGED <<cardVars, hook>>
    BY <1>9 DEF BuildRig, Inside
  <2>1. PICK to \in Inside \cup {"leaving"} : pc' = [pc EXCEPT ![j] = to]
    BY <1>9 DEF BuildRig, Goto, Finish, Delivered, LastTier, Inside
  <2>2. CardHeld' /\ LockHeld' /\ HookHeld'
    BY <2>0, <2>1, StageMoves
  <2>3. Roles'
    BY <1>0, <1>9, <2>0, <2>1, EngineAssumption
    DEF BuildRig, Goto, Finish, Delivered, LastTier, Safe, Roles, Inside,
        TypeOK, Actors
  <2>4. WeightsByStage'
    BY <1>0, <1>a, <1>9, EngineAssumption
    DEF BuildRig, Goto, Finish, Delivered, LastTier, Safe, WeightsByStage,
        Inside, TypeOK, Actors
  <2>5. Ladder'
    BY <1>0, <1>9, EngineAssumption
    DEF BuildRig, Goto, Finish, Delivered, LastTier, Safe, Ladder,
        BeforeLadder, TypeOK, Actors
  <2>6. CancelIsOwn'
    BY <1>0, <1>9, <2>0, OwnHook
    DEF BuildRig, Goto, Finish, Delivered, LastTier, Safe, CancelIsOwn,
        TypeOK, Actors
  <2> QED
    BY <2>2, <2>3, <2>4, <2>5, <2>6 DEF Safe
<1>10. ASSUME Bake(j) PROVE Safe'
  <2>0. pc[j] = "baking" /\ pc[j] \in Inside /\ UNCHANGED <<cardVars, hook>>
    BY <1>10 DEF Bake, Inside
  <2>1. PICK to \in Inside \cup {"leaving"} : pc' = [pc EXCEPT ![j] = to]
    BY <1>10 DEF Bake, Finish, Inside
  <2>2. CardHeld' /\ LockHeld' /\ HookHeld'
    BY <2>0, <2>1, StageMoves
  <2>3. Roles'
    BY <1>0, <1>10, <2>0, <2>1, EngineAssumption
    DEF Bake, Finish, Safe, Roles, Inside, TypeOK, Actors
  <2>4. WeightsByStage'
    BY <1>0, <1>a, <1>10, EngineAssumption
    DEF Bake, Finish, Safe, WeightsByStage, Inside, TypeOK, Actors
  <2>5. Ladder'
    BY <1>0, <1>10, EngineAssumption
    DEF Bake, Finish, Safe, Ladder, BeforeLadder, TypeOK, Actors
  <2>6. CancelIsOwn'
    BY <1>0, <1>10, <2>0, OwnHook
    DEF Bake, Finish, Safe, CancelIsOwn, TypeOK, Actors
  <2> QED
    BY <2>2, <2>3, <2>4, <2>5, <2>6 DEF Safe
<1>11. ASSUME Retarget(j) PROVE Safe'
  <2>1. CardHeld' /\ LockHeld' /\ HookHeld'
    BY <1>0, <1>11, EngineAssumption
    DEF Retarget, Finish, cardVars, Safe, CardHeld, LockHeld, HookHeld,
        Holding, Inside, TypeOK, Actors
  <2>2. Roles' /\ CancelIsOwn'
    BY <1>0, <1>11, EngineAssumption
    DEF Retarget, Finish, Safe, Roles, CancelIsOwn, Inside, TypeOK, Actors
  <2>3. WeightsByStage' /\ Ladder'
    BY <1>0, <1>11, EngineAssumption
    DEF Retarget, Finish, Safe, WeightsByStage, Ladder, BeforeLadder, Inside,
        TypeOK, Actors
  <2> QED
    BY <2>1, <2>2, <2>3 DEF Safe
<1> QED
  BY <1>1, <1>2, <1>3, <1>4, <1>5, <1>6, <1>7, <1>8, <1>9, <1>10, <1>11
  DEF StageStep

(* Clients, the watchdog, an admin and the other process keep it: the one   *)
(* that frees the weights holds the card.                                   *)
LEMMA OutsideSafe ==
    ASSUME TypeOK, Safe, OutsideStep
    PROVE  Safe'
<1> USE DEF jobVars, cardVars, motionVars
<1>1. ASSUME NEW j \in Jobs, Submit(j) PROVE Safe'
  <2>1. CardHeld' /\ LockHeld' /\ HookHeld'
    BY <1>1, EngineAssumption
    DEF Submit, Goto, Safe, CardHeld, LockHeld, HookHeld, Holding, Inside,
        TypeOK, Actors
  <2>2. Roles' /\ WeightsByStage' /\ Ladder' /\ CancelIsOwn'
    BY <1>1, EngineAssumption
    DEF Submit, Goto, Safe, Roles, WeightsByStage, Ladder, BeforeLadder,
        CancelIsOwn, Inside, TypeOK, Actors
  <2> QED
    BY <2>1, <2>2 DEF Safe
<1>2. ASSUME NEW j \in Jobs, Cancel(j) PROVE Safe'
  <2>1. CardHeld' /\ LockHeld' /\ HookHeld'
    BY <1>2, EngineAssumption
    DEF Cancel, Safe, CardHeld, LockHeld, HookHeld, Holding, Inside, TypeOK,
        Actors
  <2>2. Roles' /\ WeightsByStage' /\ Ladder' /\ CancelIsOwn'
    BY <1>2, EngineAssumption
    DEF Cancel, Safe, Roles, WeightsByStage, Ladder, BeforeLadder,
        CancelIsOwn, Inside, TypeOK, Actors
  <2> QED
    BY <2>1, <2>2 DEF Safe
<1>3. ASSUME WatchdogUnloads PROVE Safe'
  <2>0. "watchdog" \in Actors /\ pc["watchdog"] = "inside" /\ pc["watchdog"] \in Holding
    BY <1>3 DEF WatchdogUnloads, Goto, Actors, Holding
  <2>1. CardHeld' /\ LockHeld' /\ HookHeld'
    BY <1>3, <2>0, OwnerMoves DEF WatchdogUnloads, Goto, Inside, Holding
  <2>2. \A j \in Jobs : pc[j] \notin Inside
    BY <2>0, OwnerAlone, EngineAssumption DEF Actors, Inside, Holding
  <2>3. Roles' /\ WeightsByStage' /\ Ladder' /\ CancelIsOwn'
    BY <1>3, <2>2, EngineAssumption
    DEF WatchdogUnloads, Goto, ReleaseGpu, Safe, Roles, WeightsByStage,
        Ladder, BeforeLadder, CancelIsOwn, Inside, TypeOK, Actors
  <2> QED
    BY <2>1, <2>3 DEF Safe
<1>4. ASSUME AdminReleases PROVE Safe'
  <2>0. "admin" \in Actors /\ pc["admin"] = "inside" /\ pc["admin"] \in Holding
    BY <1>4 DEF AdminReleases, Goto, Actors, Holding
  <2>1. CardHeld' /\ LockHeld' /\ HookHeld'
    BY <1>4, <2>0, OwnerMoves DEF AdminReleases, Goto, Inside, Holding
  <2>2. \A j \in Jobs : pc[j] \notin Inside
    BY <2>0, OwnerAlone, EngineAssumption DEF Actors, Inside, Holding
  <2>3. Roles' /\ WeightsByStage' /\ Ladder' /\ CancelIsOwn'
    BY <1>4, <2>2, EngineAssumption
    DEF AdminReleases, Goto, ReleaseGpu, Safe, Roles, WeightsByStage, Ladder,
        BeforeLadder, CancelIsOwn, Inside, TypeOK, Actors
  <2> QED
    BY <2>1, <2>3 DEF Safe
<1>5. ASSUME WatchdogTries PROVE Safe'
  <2>1. CardHeld' /\ LockHeld' /\ HookHeld'
    BY <1>5, EngineAssumption
    DEF WatchdogTries, Safe, CardHeld, LockHeld, HookHeld, Holding, Inside,
        TypeOK, Actors
  <2>2. Roles' /\ WeightsByStage' /\ Ladder' /\ CancelIsOwn'
    BY <1>5, EngineAssumption
    DEF WatchdogTries, Safe, Roles, WeightsByStage, Ladder, BeforeLadder,
        CancelIsOwn, Inside, TypeOK, Actors
  <2> QED
    BY <2>1, <2>2 DEF Safe
<1>6. ASSUME AdminUnloads PROVE Safe'
  <2>1. CardHeld' /\ LockHeld' /\ HookHeld'
    BY <1>6, EngineAssumption
    DEF AdminUnloads, Safe, CardHeld, LockHeld, HookHeld, Holding, Inside,
        TypeOK, Actors
  <2>2. Roles' /\ WeightsByStage' /\ Ladder' /\ CancelIsOwn'
    BY <1>6, EngineAssumption
    DEF AdminUnloads, Safe, Roles, WeightsByStage, Ladder, BeforeLadder,
        CancelIsOwn, Inside, TypeOK, Actors
  <2> QED
    BY <2>1, <2>2 DEF Safe
<1>7. ASSUME Drain \/ Undrain \/ DriverLocks \/ DriverUnlocks PROVE Safe'
  <2>1. CardHeld' /\ LockHeld' /\ HookHeld'
    BY <1>7, EngineAssumption
    DEF Drain, Undrain, DriverLocks, DriverUnlocks, Safe, CardHeld, LockHeld,
        HookHeld, Holding, Inside, TypeOK, Actors
  <2>2. Roles' /\ WeightsByStage' /\ Ladder' /\ CancelIsOwn'
    BY <1>7, EngineAssumption
    DEF Drain, Undrain, DriverLocks, DriverUnlocks, Safe, Roles,
        WeightsByStage, Ladder, BeforeLadder, CancelIsOwn, Inside, TypeOK,
        Actors
  <2> QED
    BY <2>1, <2>2 DEF Safe
<1> QED
  BY <1>1, <1>2, <1>3, <1>4, <1>5, <1>6, <1>7 DEF OutsideStep, OfficeStep

-----------------------------------------------------------------------------
LEMMA StepSafe == TypeOK /\ Safe /\ [Next]_vars => TypeOK' /\ Safe'
<1> SUFFICES ASSUME TypeOK, Safe, [Next]_vars PROVE TypeOK' /\ Safe'
  OBVIOUS
<1>1. ASSUME NEW a \in Actors, SessionStep(a) PROVE TypeOK' /\ Safe'
  BY <1>1, SessionType, SessionSafe
<1>2. ASSUME NEW j \in Jobs, StageStep(j) PROVE TypeOK' /\ Safe'
  BY <1>2, StageType, StageSafe DEF Safe
<1>3. ASSUME OutsideStep PROVE TypeOK' /\ Safe'
  BY <1>3, OutsideType, OutsideSafe
<1>4. ASSUME UNCHANGED vars PROVE TypeOK' /\ Safe'
  <2>1. TypeOK'
    BY <1>4 DEF vars, jobVars, cardVars, motionVars, TypeOK
  <2>2. CardHeld' /\ LockHeld' /\ HookHeld'
    BY <1>4 DEF vars, cardVars, Safe, CardHeld, LockHeld, HookHeld
  <2>3. Roles' /\ WeightsByStage' /\ Ladder' /\ CancelIsOwn'
    BY <1>4
    DEF vars, jobVars, motionVars, Safe, Roles, WeightsByStage, Ladder,
        CancelIsOwn
  <2> QED
    BY <2>1, <2>2, <2>3 DEF Safe
<1> QED
  BY <1>1, <1>2, <1>3, <1>4 DEF Next, OutsideStep

LEMMA AlwaysSafe == Spec => [](TypeOK /\ Safe)
BY InitSafe, StepSafe, PTL DEF Spec

(* Every variable keeps its type; a ladder stays within its tiers. *)
THEOREM TypeCorrect == Spec => []TypeOK
BY AlwaysSafe, PTL

(* Whoever touches the GPU holds the card and the lock file, and the armed  *)
(* token is that of the request on the card (Session, cancel_hook.hpp).     *)
THEOREM CardIsExclusive == Spec => []OneOnTheCard
<1>1. TypeOK /\ Safe => OneOnTheCard
  <2> SUFFICES ASSUME TypeOK, Safe PROVE OneOnTheCard
    OBVIOUS
  <2>1. \A a \in Actors : pc[a] \in Inside => owner = a /\ flock = a
    BY DEF Safe, CardHeld, LockHeld, Inside, Holding
  <2>2. hook # Nobody => owner = hook
    BY DEF Safe, CardHeld, HookHeld, TypeOK, Actors
  <2> QED
    BY <2>1, <2>2 DEF OneOnTheCard
<1> QED
  BY <1>1, AlwaysSafe, PTL

(* The motion weights are gone before a rig is built and there while a      *)
(* motion runs on them, and "loaded" never lies (release_gpu, unload).      *)
THEOREM WeightsInPlace == Spec => []MotionWeightsInPlace
<1>1. Safe => MotionWeightsInPlace
  BY DEF Safe, WeightsByStage, MotionWeightsInPlace
<1> QED
  BY <1>1, AlwaysSafe, PTL

(* A job that had the card is cancelled by its own token only. *)
THEOREM CancelledByItself == Spec => []CancelIsOwn
<1>1. Safe => CancelIsOwn
  BY DEF Safe
<1> QED
  BY <1>1, AlwaysSafe, PTL

-----------------------------------------------------------------------------
(* AvatarEngine implements JobVerdict.                                      *)

(* Where a job has its verdict already.                                     *)
Over == {"leaving", "unlocking", "releasing", "done"}

Unended == \A j \in Jobs : pc[j] \notin Over => outcome[j] = "none"

(* Only a job with a Session is ever queued or on the card.                 *)
OnCard == \A j \in Jobs : pc[j] \in Holding \cup {"queued"} => kind[j] # "animate"

(* A job has no route before it is sent.                                    *)
Unsent == \A j \in Jobs : pc[j] = "new" => kind[j] = "none"

Promised == Unended /\ OnCard /\ Unsent

(* What an actor does between two promises ...                              *)
Quiet(a) ==
    /\ \E to \in Places :
         /\ pc' = [pc EXCEPT ![a] = to]
         /\ a \in Jobs =>
              /\ pc[a] # "new" /\ to # "new"
              /\ to \in Over <=> pc[a] \in Over
              /\ to \in Holding \cup {"queued"} => kind[a] # "animate"
    /\ UNCHANGED <<outcome, kind, token>>

(* ... and what gives its job a verdict.                                    *)
Ended(j) ==
    /\ pc[j] \notin Over \cup {"new"}
    /\ \E to \in {"leaving", "done"}, o \in {"completed", "failed", "cancelled"} :
         /\ pc' = [pc EXCEPT ![j] = to]
         /\ outcome' = [outcome EXCEPT ![j] = o]
         /\ o = "cancelled" => Contract!MayCancel(j)
         /\ to = "leaving" => kind[j] # "animate"
    /\ UNCHANGED <<kind, token>>

(* A job that is cancelled has been asked to, or is a retarget that polls   *)
(* the token of the job on the card.                                        *)
LEMMA HookMayCancel ==
    ASSUME TypeOK, Safe, Promised, NEW j \in Jobs, HookCancelled,
           pc[j] \in Inside \/ kind[j] = "animate"
    PROVE  Contract!MayCancel(j)
<1>1. CASE pc[j] \in Inside
  BY <1>1, OwnHook DEF Contract!MayCancel
<1>2. CASE kind[j] = "animate"
  <2>1. hook \in token /\ hook \in Jobs
    BY DEF HookCancelled, TypeOK
  <2>2. kind[hook] # "animate"
    BY <2>1, EngineAssumption DEF Safe, HookHeld, Promised, OnCard
  <2> QED
    BY <1>2, <2>1, <2>2 DEF Contract!MayCancel
<1> QED
  BY <1>1, <1>2

(* What a Session does is quiet, except that it gives up on the lock file.  *)
LEMMA SessionPromise ==
    ASSUME TypeOK, Safe, Promised, NEW a \in Actors, SessionStep(a)
    PROVE  Quiet(a) \/ (a \in Jobs /\ Ended(a))
<1> USE DEF jobVars
<1>1. CASE TryCard(a)
  <2>1. a \notin Jobs
    BY <1>1 DEF TryCard, Safe, Roles
  <2>2. \E to \in {"arming", "new"} : pc' = [pc EXCEPT ![a] = to]
    BY <1>1, Zenon DEF TryCard
  <2>3. UNCHANGED <<outcome, kind, token>>
    BY <1>1 DEF TryCard
  <2>4. {"arming", "new"} \in SUBSET Places
    BY DEF Places, Holding
  <2> QED
    BY <2>1, <2>2, <2>3, <2>4, Zenon DEF Quiet
<1>2. CASE Arm(a) \/ TryLock(a) \/ TryAgain(a) \/ Disarm(a) \/ Unlock(a)
  <2>1. PICK to \in Places :
          /\ pc' = [pc EXCEPT ![a] = to]
          /\ pc[a] \in Holding /\ to \in Holding
          /\ to \in Over <=> pc[a] \in Over
    BY <1>2
    DEF Arm, TryLock, TryAgain, Disarm, Unlock, Goto, Places, Holding, Over
  <2>2. UNCHANGED <<outcome, kind, token>>
    BY <1>2 DEF Arm, TryLock, TryAgain, Disarm, Unlock
  <2> QED
    BY <2>1, <2>2 DEF Quiet, Promised, OnCard, Holding
<1>3. CASE Release(a)
  <2>1. pc[a] = "releasing" /\ UNCHANGED <<outcome, kind, token>>
    BY <1>3 DEF Release, Goto
  <2>2. CASE a \in Jobs
    BY <1>3, <2>1, <2>2 DEF Release, Goto, Quiet, Places, Holding, Over
  <2>3. CASE a \notin Jobs
    BY <1>3, <2>1, <2>3 DEF Release, Goto, Quiet, Places
  <2> QED
    BY <2>2, <2>3
<1>4. CASE GiveUp(a)
  <2>1. CASE a \in Jobs
    <3>1. /\ pc[a] = "blocked" /\ kind[a] # "animate"
          /\ pc' = [pc EXCEPT ![a] = "leaving"]
          /\ outcome' = [outcome EXCEPT ![a] = LockVerdict(a)]
          /\ UNCHANGED <<kind, token>>
      BY <1>4, <2>1 DEF GiveUp, Finish, Promised, OnCard, Holding
    <3>2. /\ LockVerdict(a) \in {"completed", "failed", "cancelled"}
          /\ LockVerdict(a) = "cancelled" => Contract!MayCancel(a)
      BY DEF LockVerdict, Contract!MayCancel
    <3> QED
      BY <2>1, <3>1, <3>2 DEF Ended, Over
  <2>2. CASE a \notin Jobs
    BY <1>4, <2>2 DEF GiveUp, Quiet, Places, Holding
  <2> QED
    BY <2>1, <2>2
<1> QED
  BY <1>1, <1>2, <1>3, <1>4 DEF SessionStep

(* What the queue and the stages do is quiet, or gives a verdict.           *)
LEMMA StagePromise ==
    ASSUME TypeOK, Safe, Promised, NEW j \in Jobs, StageStep(j)
    PROVE  Quiet(j) \/ Ended(j)
<1> USE DEF jobVars
<1> DEFINE Carded == pc[j] \in Holding \cup {"queued"}
           Moves(to) == pc' = [pc EXCEPT ![j] = to]
           Given(o) == outcome' = [outcome EXCEPT ![j] = o]
<1>0. /\ pc[j] \in Inside => kind[j] # "animate"
      /\ HookCancelled /\ pc[j] \in Inside => Contract!MayCancel(j)
  BY HookMayCancel DEF Promised, OnCard, Inside, Holding
<1>1. CASE Enter(j)
  <2>1. /\ pc[j] = "submitted" /\ kind[j] # "animate"
        /\ \/ Moves("done") /\ Given("failed")
           \/ Moves("queued") /\ UNCHANGED outcome
        /\ UNCHANGED <<kind, token>>
    BY <1>1, Zenon DEF Enter, Finish
  <2> QED
    BY <2>1 DEF Quiet, Ended, Places, Holding, Over
<1>2. CASE TakeCard(j)
  <2>1. pc[j] = "queued" /\ Moves("arming") /\ UNCHANGED <<outcome, kind, token>>
    BY <1>2 DEF TakeCard, Goto
  <2> QED
    BY <2>1 DEF Quiet, Promised, OnCard, Places, Holding, Over
<1>3. CASE LeaveQueue(j)
  <2>1. /\ pc[j] = "queued" /\ Moves("done") /\ UNCHANGED <<kind, token>>
        /\ \/ j \in token /\ Given("cancelled")
           \/ Given("failed")
    BY <1>3 DEF LeaveQueue, Finish
  <2> QED
    BY <2>1 DEF Ended, Over, Contract!MayCancel
<1>4. CASE \/ Begin(j) \/ Encode(j) \/ Load(j) \/ Solve(j)
           \/ NextTier(j) \/ BuildRig(j) \/ Bake(j)
  <2>1. pc[j] \in Inside /\ UNCHANGED <<kind, token>>
    BY <1>4
    DEF Begin, Encode, Load, Solve, NextTier, BuildRig, Bake, Inside
  <2>2. \/ \E to \in Inside : Moves(to) /\ UNCHANGED outcome
        \/ Moves("leaving") /\ (Given("completed") \/ Given("failed"))
        \/ /\ Moves("leaving") /\ Given("cancelled")
           /\ HookCancelled \/ j \in token
    <3>1. CASE Begin(j)
      BY <3>1 DEF Begin, Goto, Finish, Inside
    <3>2. CASE Encode(j)
      BY <3>2 DEF Encode, Goto, Finish, Inside
    <3>3. CASE Load(j)
      BY <3>3 DEF Load, Goto, Finish, Inside
    <3>4. CASE Solve(j)
      BY <3>4 DEF Solve, Goto, Finish, Inside
    <3>5. CASE NextTier(j)
      BY <3>5 DEF NextTier, Goto, Finish, Inside
    <3>6. CASE BuildRig(j)
      BY <3>6 DEF BuildRig, Delivered, Goto, Finish, Inside
    <3>7. CASE Bake(j)
      BY <3>7 DEF Bake, Finish
    <3> QED
      BY <1>4, <3>1, <3>2, <3>3, <3>4, <3>5, <3>6, <3>7
  <2>3. Contract!MayCancel(j) \/ ~(HookCancelled \/ j \in token)
    BY <1>0, <2>1 DEF Contract!MayCancel
  <2> QED
    BY <1>0, <2>1, <2>2, <2>3 DEF Quiet, Ended, Inside, Places, Holding, Over
<1>5. CASE Retarget(j)
  <2>1. /\ pc[j] \in {"submitted", "again"} /\ kind[j] = "animate"
        /\ UNCHANGED <<kind, token>>
    BY <1>5 DEF Retarget, Safe, Roles
  <2>2. \/ Moves("again") /\ UNCHANGED outcome
        \/ Moves("done") /\ (Given("completed") \/ Given("failed"))
        \/ Moves("done") /\ Given("cancelled") /\ HookCancelled
    BY <1>5 DEF Retarget, Finish
  <2>3. HookCancelled => Contract!MayCancel(j)
    BY <2>1, HookMayCancel
  <2> QED
    BY <2>1, <2>2, <2>3 DEF Quiet, Ended, Places, Holding, Over
<1> QED
  BY <1>1, <1>2, <1>3, <1>4, <1>5 DEF StageStep

(* What a client sees of one job makes what it sees of all.                 *)
LEMMA SeenJob ==
    /\ \A j \in Jobs : Seen[j] = CASE outcome[j] # "none" -> outcome[j]
                                   [] pc[j] = "new"       -> "none"
                                   [] OTHER               -> "live"
    /\ DOMAIN Seen = Jobs
    /\ Seen = [j \in Jobs |-> Seen[j]]
<1>1. \E F \in {Seen} : F = [j \in Jobs |-> F[j]]
  BY DEF Seen
<1> QED
  BY <1>1 DEF Seen

LEMMA SeenUpdate ==
    ASSUME NEW j \in Jobs, NEW s, Seen'[j] = s,
           \A k \in Jobs \ {j} : Seen'[k] = Seen[k]
    PROVE  Seen' = [Seen EXCEPT ![j] = s]
<1>1. Seen = [k \in Jobs |-> Seen[k]] /\ Seen' = [k \in Jobs |-> Seen'[k]]
  <2>1. \E F \in {Seen'} : F = [k \in Jobs |-> F[k]]
    BY DEF Seen
  <2> QED
    BY <2>1, SeenJob
<1> DEFINE F == [Seen EXCEPT ![j] = s]
<1>2. F = [k \in Jobs |-> F[k]] /\ \A k \in Jobs : F[k] = Seen'[k]
  BY <1>1
<1> QED
  BY <1>1, <1>2

(* A quiet step changes nothing that a client sees, a verdict ends a job,   *)
(* and both leave the other jobs as they were.                              *)
LEMMA QuietRefines ==
    ASSUME TypeOK, Promised, NEW a \in Actors, Quiet(a)
    PROVE  Promised' /\ UNCHANGED Contract!vars
<1>1. PICK to \in Places :
        /\ pc' = [pc EXCEPT ![a] = to]
        /\ a \in Jobs =>
             /\ pc[a] # "new" /\ to # "new"
             /\ to \in Over <=> pc[a] \in Over
             /\ to \in Holding \cup {"queued"} => kind[a] # "animate"
  BY DEF Quiet
<1>2. UNCHANGED <<outcome, kind, token>>
  BY DEF Quiet
<1>3. \A j \in Jobs : j # a => pc'[j] = pc[j]
  BY <1>1 DEF TypeOK, Actors
<1>4. a \in Jobs => pc'[a] = to
  BY <1>1 DEF TypeOK
<1>5. \A j \in Jobs : pc[j] = "new" <=> pc'[j] = "new"
  BY <1>1, <1>3, <1>4
<1>6. Promised'
  <2>1. Unended'
    BY <1>1, <1>2, <1>3, <1>4 DEF Promised, Unended
  <2>2. OnCard'
    BY <1>1, <1>2, <1>3, <1>4 DEF Promised, OnCard
  <2>3. Unsent'
    BY <1>2, <1>5 DEF Promised, Unsent
  <2> QED
    BY <2>1, <2>2, <2>3 DEF Promised
<1>7. Seen' = Seen
  BY <1>2, <1>5 DEF Seen
<1> QED
  BY <1>2, <1>6, <1>7 DEF Contract!vars

LEMMA EndedRefines ==
    ASSUME TypeOK, Promised, NEW j \in Jobs, Ended(j)
    PROVE  Promised' /\ Contract!Next
<1>1. PICK to \in {"leaving", "done"}, o \in {"completed", "failed", "cancelled"} :
        /\ pc' = [pc EXCEPT ![j] = to]
        /\ outcome' = [outcome EXCEPT ![j] = o]
        /\ o = "cancelled" => Contract!MayCancel(j)
        /\ to = "leaving" => kind[j] # "animate"
  BY DEF Ended
<1>2. pc[j] \notin Over \cup {"new"} /\ UNCHANGED <<kind, token>>
  BY DEF Ended
<1>3. /\ pc'[j] = to /\ outcome'[j] = o
      /\ \A k \in Jobs \ {j} : pc'[k] = pc[k] /\ outcome'[k] = outcome[k]
  BY <1>1 DEF TypeOK, Actors
<1>4. Promised'
  BY <1>1, <1>2, <1>3 DEF Promised, Unended, OnCard, Unsent, Over, Holding
<1>5. Seen[j] = "live"
  BY <1>2 DEF Seen, Promised, Unended
<1>6. Seen' = [Seen EXCEPT ![j] = o]
  <2>1. Seen'[j] = o
    BY <1>3 DEF Seen
  <2>2. \A k \in Jobs \ {j} : Seen'[k] = Seen[k]
    BY <1>3 DEF Seen
  <2> QED
    BY <2>1, <2>2, SeenUpdate
<1>7. Contract!End(j)
  BY <1>1, <1>2, <1>5, <1>6 DEF Contract!End, Contract!Verdicts
<1> QED
  BY <1>4, <1>7 DEF Contract!Next

(* Requests, cancels and the admin calls.                                   *)
LEMMA SubmitRefines ==
    ASSUME TypeOK, Safe, Promised, NEW j \in Jobs, Submit(j)
    PROVE  Promised' /\ Contract!Next
<1>1. PICK r \in Routes : kind' = [kind EXCEPT ![j] = r]
  BY DEF Submit
<1>2. /\ pc[j] = "new" /\ pc' = [pc EXCEPT ![j] = "submitted"]
      /\ UNCHANGED <<token, outcome>>
  BY DEF Submit, Goto
<1>3. /\ pc'[j] = "submitted" /\ kind'[j] = r
      /\ \A k \in Jobs \ {j} : pc'[k] = pc[k] /\ kind'[k] = kind[k]
  BY <1>1, <1>2 DEF TypeOK, Actors
<1>4. Promised'
  BY <1>2, <1>3 DEF Promised, Unended, OnCard, Unsent, Over, Holding
<1>5. outcome[j] = "none" /\ kind[j] # "animate"
  BY <1>2 DEF Safe, Roles, Promised, Unsent
<1>6. Seen[j] = "none" /\ Seen' = [Seen EXCEPT ![j] = "live"]
  <2>1. Seen[j] = "none" /\ Seen'[j] = "live"
    BY <1>2, <1>3, <1>5 DEF Seen
  <2>2. \A k \in Jobs \ {j} : Seen'[k] = Seen[k]
    BY <1>2, <1>3 DEF Seen
  <2> QED
    BY <2>1, <2>2, SeenUpdate
<1> DEFINE Beside == {k \in Jobs : kind[k] = "animate"}
<1>7. Beside' \in {Beside, Beside \cup {j}}
  BY <1>3, <1>5
<1>8. Contract!Accept(j)
  BY <1>2, <1>6, <1>7 DEF Contract!Accept
<1> QED
  BY <1>4, <1>8 DEF Contract!Next

LEMMA AskRefines ==
    ASSUME TypeOK, Promised, NEW S \in SUBSET Jobs,
           \A j \in S : pc[j] # "new" /\ outcome[j] = "none",
           token' = token \cup S, UNCHANGED <<kind, outcome>>,
           \A j \in Jobs : pc'[j] = pc[j]
    PROVE  Promised' /\ Contract!Next
<1>1. Promised'
  BY DEF Promised, Unended, OnCard, Unsent
<1>2. Seen' = Seen
  BY DEF Seen
<1>3. S \in SUBSET {j \in Jobs : Seen[j] = "live"}
  BY DEF Seen
<1>4. Contract!Ask
  BY <1>2, <1>3 DEF Contract!Ask
<1> QED
  BY <1>1, <1>4 DEF Contract!Next

LEMMA OutsideRefines ==
    ASSUME TypeOK, Safe, Promised,
           \/ \E j \in Jobs : Cancel(j)
           \/ OfficeStep \/ WatchdogTries \/ AdminUnloads \/ Drain \/ Undrain
           \/ DriverLocks \/ DriverUnlocks
    PROVE  Promised' /\ [Contract!Next]_Contract!vars
<1> USE DEF jobVars
<1>1. ASSUME NEW j \in Jobs, Cancel(j) PROVE Promised' /\ Contract!Next
  <2>1. /\ {j} \in SUBSET Jobs
        /\ \A k \in {j} : pc[k] # "new" /\ outcome[k] = "none"
        /\ token' = token \cup {j}
        /\ UNCHANGED <<pc, kind, outcome>>
    BY <1>1 DEF Cancel
  <2> QED
    BY <2>1, AskRefines
<1>2. CASE AdminUnloads
  <2>1. /\ \A j \in Jobs : pc'[j] = pc[j]
        /\ UNCHANGED <<kind, outcome>>
    BY <1>2, EngineAssumption DEF AdminUnloads, TypeOK, Actors
  <2>2. \E S \in {{}, {j \in Jobs : pc[j] # "new" /\ outcome[j] = "none"}} :
          token' = token \cup S
    BY <1>2 DEF AdminUnloads
  <2>3. PICK S \in SUBSET Jobs :
          /\ \A j \in S : pc[j] # "new" /\ outcome[j] = "none"
          /\ token' = token \cup S
    BY <2>2
  <2> QED
    BY <2>1, <2>3, AskRefines
<1>3. CASE OfficeStep \/ WatchdogTries
  <2>1. \E a \in Actors : Quiet(a)
    BY <1>3, EngineAssumption
    DEF OfficeStep, WatchdogUnloads, AdminReleases, WatchdogTries, Goto,
        Quiet, Actors, Places, Holding
  <2> QED
    BY <2>1, QuietRefines
<1>4. CASE Drain \/ Undrain \/ DriverLocks \/ DriverUnlocks
  <2>1. UNCHANGED <<pc, kind, token, outcome>>
    BY <1>4 DEF Drain, Undrain, DriverLocks, DriverUnlocks
  <2>2. Promised' /\ Seen' = Seen
    BY <2>1 DEF Promised, Unended, OnCard, Unsent, Seen
  <2> QED
    BY <2>1, <2>2 DEF Contract!vars
<1> QED
  BY <1>1, <1>2, <1>3, <1>4

LEMMA StepRefines ==
    ASSUME TypeOK, Safe, Promised, [Next]_vars
    PROVE  Promised' /\ [Contract!Next]_Contract!vars
<1>1. ASSUME NEW a \in Actors, SessionStep(a)
      PROVE  Promised' /\ [Contract!Next]_Contract!vars
  BY <1>1, SessionPromise, QuietRefines, EndedRefines
<1>2. ASSUME NEW j \in Jobs, Submit(j) \/ StageStep(j)
      PROVE  Promised' /\ [Contract!Next]_Contract!vars
  <2>1. j \in Actors
    BY DEF Actors
  <2> QED
    BY <1>2, <2>1, StagePromise, SubmitRefines, QuietRefines, EndedRefines
<1>3. CASE UNCHANGED vars
  <2>1. UNCHANGED <<pc, kind, token, outcome>>
    BY <1>3 DEF vars, jobVars
  <2>2. Promised' /\ Seen' = Seen
    BY <2>1 DEF Promised, Unended, OnCard, Unsent, Seen
  <2> QED
    BY <2>1, <2>2 DEF Contract!vars
<1> QED
  BY <1>1, <1>2, <1>3, OutsideRefines DEF Next

LEMMA InitRefines == Init => Promised /\ Contract!Init
<1> SUFFICES ASSUME Init PROVE Promised /\ Contract!Init
  OBVIOUS
<1>1. \A j \in Jobs : pc[j] = "new" /\ outcome[j] = "none" /\ kind[j] = "none"
  BY DEF Init, Actors
<1>2. Promised
  BY <1>1 DEF Promised, Unended, OnCard, Unsent, Holding
<1>3. Seen = [j \in Jobs |-> "none"]
  BY <1>1 DEF Seen
<1>4. {j \in Jobs : kind[j] = "animate"} = {} /\ token = {}
  BY <1>1 DEF Init
<1> QED
  BY <1>2, <1>3, <1>4 DEF Contract!Init

(* Whichever of its steps ends a request, the process that owns the card    *)
(* gives it one verdict, and calls none cancelled that nobody cancelled.    *)
THEOREM Refinement == Spec => KeepsContract
<1>1. TypeOK /\ Safe /\ Promised /\ [Next]_vars
        => Promised' /\ [Contract!Next]_Contract!vars
  BY StepRefines
<1> QED
  BY <1>1, AlwaysSafe, InitRefines, PTL
  DEF Spec, KeepsContract, Contract!Spec
=============================================================================
