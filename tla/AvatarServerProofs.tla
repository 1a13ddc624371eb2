------------------------- MODULE AvatarServerProofs -------------------------
(***************************************************************************)
(* The safety of AvatarServer, for any jobs, cards and limits, whatever    *)
(* the admin calls, the watchdog, failing kills and dying workers do.      *)
(*                                                                         *)
(* mx_ is what the argument turns on: a job that holds it over several     *)
(* steps is the only one that changes the worker, and a spawn happens only *)
(* when no lease on a live worker is out.  So a lease names the worker     *)
(* that pid_ names, or a dead one.                                         *)
(***************************************************************************)
EXTENDS AvatarServer, FiniteSetTheorems, TLAPS

(* The jobs that hold a lease: what leases_ counts.                         *)
Lessees == {j \in Jobs : pc[j] \in Leased}

LeasesCounted == IsFiniteSet(Lessees) /\ LeasesAreExact

(* mx_ is held over steps by a thread that tests the predicate and by one   *)
(* that starts a worker.                                                    *)
MutexHeld == \A j \in Jobs : pc[j] \in {"checked", "starting"} <=> mutex = j

(* The jobs that have been accepted.                                        *)
Seated == {k \in Jobs : seat[k] > 0}

(* Processes are numbered as they are forked, jobs as they are accepted.    *)
Numbered ==
    /\ pid <= born
    /\ 0 \notin alive
    /\ \A j \in Jobs : serving[j] <= born
    /\ IsFiniteSet(Seated)

(* The worker that is being started is the one the starter wants, and       *)
(* nobody's lease names it yet.                                             *)
StartsAlone ==
    \A j \in Jobs : pc[j] = "starting" =>
        /\ pid > 0 /\ card = target[j]
        /\ \A k \in Lessees : serving[k] # pid

Safe == OneWorker /\ LeasesCounted /\ MutexHeld /\ Numbered /\ StartsAlone
            /\ PlacedAsChosen

-----------------------------------------------------------------------------
(* Initially nothing is leased, forked or held. *)
LEMMA InitSafe == Init => TypeOK /\ Safe
<1> SUFFICES ASSUME Init PROVE TypeOK /\ Safe
  OBVIOUS
<1>1. TypeOK
  BY AvatarAssumption DEF Init, TypeOK, Places, Submitting, Leased, Ends
<1>2. Lessees = {}
  BY DEF Init, Lessees, Leased
<1>3. LeasesCounted
  BY <1>2, FS_EmptySet DEF Init, LeasesCounted, LeasesAreExact, Lessees
<1>4. Seated = {}
  BY DEF Init, Seated
<1>5. OneWorker /\ MutexHeld /\ Numbered /\ StartsAlone /\ PlacedAsChosen
  BY <1>4, FS_EmptySet, AvatarAssumption
  DEF Init, OneWorker, MutexHeld, Numbered, StartsAlone, PlacedAsChosen
<1> QED
  BY <1>1, <1>3, <1>5 DEF Safe

(* The verdict of a job is one of the three, and the job goes on.           *)
LEMMA FinishType ==
    ASSUME TypeOK, NEW j \in Jobs, NEW o \in Ends, NEW next \in Places,
           Finish(j, o, next)
    PROVE  /\ pc' \in [Jobs -> Places]
           /\ outcome' \in [Jobs -> Ends \cup {"none"}]
           /\ kept' \subseteq Jobs
           /\ target' = target /\ token' = token /\ serving' = serving
           /\ seat' = seat
BY DEF Finish, TypeOK

(* Killing leaves no worker of ours, or the one there was.                  *)
LEMMA KillType ==
    ASSUME TypeOK, KillSucceeds \/ KillFails
    PROVE  pid' \in Nat /\ card' \in Cards \cup {NoCard} /\ alive' \subseteq Nat
<1>1. CASE KillSucceeds
  BY <1>1 DEF KillSucceeds, Clear, TypeOK
<1>2. CASE KillFails
  BY <1>2 DEF KillFails, TypeOK
<1> QED
  BY <1>1, <1>2

(* A floor check that passes or misses. *)
LEMMA FloorType ==
    ASSUME TypeOK, NEW j \in Jobs, FloorPassed(j) \/ FloorMissed(j)
    PROVE  /\ pc' \in [Jobs -> Places]
           /\ outcome' \in [Jobs -> Ends \cup {"none"}]
           /\ kept' \subseteq Jobs
           /\ target' = target /\ token' = token /\ serving' = serving
           /\ seat' = seat
<1>1. CASE FloorPassed(j)
  BY <1>1 DEF FloorPassed, TypeOK, Places, Submitting
<1>2. CASE Goto(j, "floor", "refused") /\ UNCHANGED <<target, token, serving, outcome, kept, seat>>
  BY <1>2 DEF Goto, TypeOK, Places, Submitting
<1>3. CASE Finish(j, "failed", "done")
  BY <1>3, FinishType DEF Places, Ends
<1> QED
  BY <1>1, <1>2, <1>3 DEF FloorMissed

(* Every step of the watchdog, of an admin or of the worker keeps the types. *)
LEMMA OfficeType ==
    ASSUME TypeOK,
           \/ WatchStep \/ UnloadKills \/ Drain \/ Load \/ Unload
           \/ ChildDies \/ Reap
    PROVE  TypeOK'
<1> USE DEF jobVars, workerVars
<1>1. ASSUME WatchLooks PROVE TypeOK'
  BY <1>1 DEF WatchLooks, TypeOK
<1>2. ASSUME WatchCounts PROVE TypeOK'
  BY <1>2 DEF WatchCounts, TypeOK
<1>3. ASSUME WatchKills PROVE TypeOK'
  BY <1>3, KillType DEF WatchKills, TypeOK
<1>4. ASSUME UnloadKills PROVE TypeOK'
  BY <1>4, KillType DEF UnloadKills, TypeOK
<1>5. ASSUME Drain PROVE TypeOK'
  BY <1>5 DEF Drain, TypeOK
<1>6. ASSUME Load PROVE TypeOK'
  BY <1>6 DEF Load, TypeOK
<1>7. ASSUME Unload PROVE TypeOK'
  BY <1>7 DEF Unload, TypeOK, Live
<1>8. ASSUME ChildDies PROVE TypeOK'
  BY <1>8 DEF ChildDies, TypeOK
<1>9. ASSUME Reap PROVE TypeOK'
  BY <1>9 DEF Reap, Clear, TypeOK
<1> QED
  BY <1>1, <1>2, <1>3, <1>4, <1>5, <1>6, <1>7, <1>8, <1>9 DEF WatchStep

(* A job that holds a lease is counted, so leases_ does not go below 0. *)
LEMMA LeaseHeld ==
    ASSUME TypeOK, LeasesCounted, NEW j \in Lessees
    PROVE  leases > 0
<1>1. Cardinality(Lessees) \in Nat /\ Cardinality(Lessees) # 0
  BY FS_EmptySet, FS_CardinalityType DEF LeasesCounted
<1> QED
  BY <1>1 DEF LeasesCounted, LeasesAreExact, Lessees

(* Every step of a job keeps the types. *)
LEMMA JobType ==
    ASSUME TypeOK, LeasesCounted, Numbered, NEW j \in Jobs,
           JobStep(j) \/ Cancel(j)
    PROVE  TypeOK'
<1> USE DEF jobVars, workerVars
<1>1. ASSUME Resolve(j) PROVE TypeOK'
  BY <1>1 DEF Resolve, Goto, TypeOK, Places, Submitting
<1>2. ASSUME Admit(j) PROVE TypeOK'
  BY <1>2 DEF Admit, Goto, TypeOK, Places, Submitting
<1>3. ASSUME Enqueue(j) PROVE TypeOK'
  <2>1. seat' \in [Jobs -> Nat]
    <3>1. Cardinality(Seated) + 1 \in Nat
      BY FS_CardinalityType DEF Numbered
    <3> QED
      BY <1>3, <3>1 DEF Enqueue, TypeOK, Seated
  <2> QED
    BY <1>3, <2>1 DEF Enqueue, Goto, TypeOK, Places
<1>4. ASSUME Cancel(j) PROVE TypeOK'
  BY <1>4 DEF Cancel, TypeOK
<1>5. ASSUME Begin(j) PROVE TypeOK'
  <2>1. CASE Finish(j, "cancelled", "done")
    BY <1>5, <2>1, FinishType DEF Begin, TypeOK, Places, Ends
  <2>2. CASE pc' = [pc EXCEPT ![j] = IF j \in Heavy /\ leases = 0 THEN "recheck" ELSE "asking"]
    BY <1>5, <2>2 DEF Begin, TypeOK, Places, Finish
  <2> QED
    BY <1>5, <2>1, <2>2 DEF Begin
<1>6. ASSUME FloorFits(j) PROVE TypeOK'
  BY <1>6, FloorType DEF FloorFits, TypeOK
<1>7. ASSUME FloorReclaims(j) PROVE TypeOK'
  BY <1>7, FloorType, KillType DEF FloorReclaims, TypeOK
<1>8. ASSUME FloorRefuses(j) PROVE TypeOK'
  <2>1. CASE KillFails
    BY <1>8, <2>1, FloorType, KillType DEF FloorRefuses, TypeOK
  <2>2. CASE /\ pid' = Resident
             /\ card' = (IF Resident = pid THEN card ELSE NoCard)
             /\ UNCHANGED alive
    BY <1>8, <2>2, FloorType DEF FloorRefuses, TypeOK, Resident
  <2> QED
    BY <1>8, <2>1, <2>2 DEF FloorRefuses
<1>9. ASSUME LeaseReuses(j) PROVE TypeOK'
  BY <1>9 DEF LeaseReuses, Lease, TypeOK, Places, Leased
<1>10. ASSUME LeaseSpawns(j) PROVE TypeOK'
  BY <1>10 DEF LeaseSpawns, TypeOK, Places
<1>11. ASSUME LeaseFails(j) PROVE TypeOK'
  BY <1>11, FinishType, KillType DEF LeaseFails, TypeOK, Places, Ends
<1>12. ASSUME LeaseChecks(j) PROVE TypeOK'
  BY <1>12 DEF LeaseChecks, TypeOK, Places
<1>13. ASSUME LeaseWaits(j) PROVE TypeOK'
  BY <1>13 DEF LeaseWaits, Goto, TypeOK, Places
<1>14. ASSUME LeaseTimesOut(j) PROVE TypeOK'
  BY <1>14 DEF LeaseTimesOut, Goto, TypeOK, Places
<1>15. ASSUME LeaseGivesUp(j) PROVE TypeOK'
  BY <1>15, FinishType DEF LeaseGivesUp, TypeOK, Places, Ends
<1>16. ASSUME StartupReady(j) PROVE TypeOK'
  BY <1>16 DEF StartupReady, Lease, TypeOK, Places, Leased
<1>17. ASSUME StartupFails(j) PROVE TypeOK'
  <2>1. /\ pc' \in [Jobs -> Places]
        /\ outcome' \in [Jobs -> Ends \cup {"none"}]
        /\ kept' \subseteq Jobs
        /\ UNCHANGED <<target, token, serving, seat>>
    BY <1>17, FinishType DEF StartupFails, Places, Ends
  <2>2. pid' \in Nat /\ card' \in Cards \cup {NoCard} /\ alive' \subseteq Nat
    <3>1. CASE pid' = 0 /\ UNCHANGED <<card, alive>>
      BY <3>1 DEF TypeOK
    <3>2. CASE KillSucceeds \/ KillFails
      BY <3>2, KillType
    <3> QED
      BY <1>17, <3>1, <3>2 DEF StartupFails
  <2> QED
    BY <1>17, <2>1, <2>2 DEF StartupFails, TypeOK
<1>18. ASSUME ChildTakes(j) PROVE TypeOK'
  BY <1>18 DEF ChildTakes, Goto, TypeOK, Places, Leased
<1>19. ASSUME Answer(j) PROVE TypeOK'
  <2>1. \E o \in Ends : Finish(j, o, "answered")
    BY <1>19 DEF Answer, BrokenVerdict, Ends
  <2> QED
    <3>1. /\ pc' \in [Jobs -> Places]
          /\ outcome' \in [Jobs -> Ends \cup {"none"}]
          /\ kept' \subseteq Jobs
          /\ UNCHANGED <<target, token, serving, seat>>
      BY <2>1, FinishType DEF Places, Leased
    <3>2. UNCHANGED <<workerVars, draining, watch, apc>>
      BY <1>19 DEF Answer
    <3> QED
      BY <3>1, <3>2 DEF TypeOK
<1>20. ASSUME DropLease(j) PROVE TypeOK'
  <2>1. leases - 1 \in Nat
    BY <1>20, LeaseHeld DEF DropLease, Goto, Lessees, Leased, TypeOK
  <2> QED
    BY <1>20, <2>1 DEF DropLease, Goto, TypeOK, Places
<1>21. ASSUME NotifyAll(j) PROVE TypeOK'
  BY <1>21 DEF NotifyAll, TypeOK, Places
<1> QED
  BY <1>1, <1>2, <1>3, <1>4, <1>5, <1>6, <1>7, <1>8, <1>9, <1>10, <1>11,
     <1>12, <1>13, <1>14, <1>15, <1>16, <1>17, <1>18, <1>19, <1>20, <1>21
  DEF JobStep

(* Whatever keeps pc inside or outside the lease keeps the count.           *)
LEMMA SameLessees ==
    ASSUME LeasesCounted, Lessees' = Lessees, leases' = leases
    PROVE  LeasesCounted'
BY DEF LeasesCounted, LeasesAreExact, Lessees

(* A lease handed out, or given back, is counted. *)
LEMMA LeaseCounted ==
    ASSUME TypeOK, LeasesCounted, NEW j \in Jobs,
           \/ /\ j \notin Lessees /\ Lessees' = Lessees \cup {j}
              /\ leases' = leases + 1
           \/ /\ j \in Lessees /\ Lessees' = Lessees \ {j}
              /\ leases' = leases - 1
    PROVE  LeasesCounted'
<1>1. IsFiniteSet(Lessees) /\ leases = Cardinality(Lessees)
  BY DEF LeasesCounted, LeasesAreExact, Lessees
<1>2. IsFiniteSet(Lessees') /\ leases' = Cardinality(Lessees')
  BY <1>1, FS_AddElement, FS_RemoveElement
<1> QED
  BY <1>2 DEF LeasesCounted, LeasesAreExact, Lessees

(* Nobody starts a worker while mx_ is free, so that whoever takes it may   *)
(* kill, or fail to kill, the one there is.                                 *)
LEMMA KillSafe ==
    ASSUME TypeOK, Safe, Unlocked, KillSucceeds \/ KillFails,
           UNCHANGED <<pc, target, serving, seat, mutex, leases, born>>
    PROVE  Safe'
<1>1. \A j \in Jobs : pc[j] # "starting"
  BY AvatarAssumption DEF Safe, MutexHeld, Unlocked
<1>2. LeasesCounted'
  BY SameLessees DEF Safe, Lessees
<1>3. CASE KillSucceeds
  BY <1>1, <1>2, <1>3
  DEF Safe, TypeOK, Seated, OneWorker, MutexHeld, Numbered, StartsAlone,
      PlacedAsChosen, KillSucceeds, Clear
<1>4. CASE KillFails
  BY <1>1, <1>2, <1>4
  DEF Safe, TypeOK, Seated, OneWorker, MutexHeld, Numbered, StartsAlone,
      PlacedAsChosen, KillFails
<1> QED
  BY <1>3, <1>4

(* The worker's death under a lease, and the watchdog's or an admin's kill, *)
(* leave nothing that contradicts the leases.                               *)
LEMMA OfficeSafe ==
    ASSUME TypeOK, Safe,
           \/ WatchStep \/ UnloadKills \/ Drain \/ Load \/ Unload
           \/ ChildDies \/ Reap
    PROVE  Safe'
<1> USE DEF jobVars, workerVars
<1>1. ASSUME WatchLooks PROVE Safe'
  <2>1. LeasesCounted'
    BY <1>1, SameLessees DEF WatchLooks, Safe, Lessees
  <2>2. (OneWorker /\ MutexHeld /\ Numbered /\ StartsAlone /\ PlacedAsChosen)'
    BY <1>1, AvatarAssumption
    DEF WatchLooks, Safe, TypeOK, Lessees, Leased, Seated, OneWorker,
        MutexHeld, Numbered, StartsAlone, PlacedAsChosen
  <2> QED
    BY <2>1, <2>2 DEF Safe
<1>2. ASSUME WatchCounts PROVE Safe'
  <2>1. LeasesCounted'
    BY <1>2, SameLessees DEF WatchCounts, Safe, Lessees
  <2>2. (OneWorker /\ MutexHeld /\ Numbered /\ StartsAlone /\ PlacedAsChosen)'
    BY <1>2, AvatarAssumption
    DEF WatchCounts, Safe, TypeOK, Lessees, Leased, Seated, OneWorker,
        MutexHeld, Numbered, StartsAlone, PlacedAsChosen
  <2> QED
    BY <2>1, <2>2 DEF Safe
<1>3. ASSUME WatchKills PROVE Safe'
  BY <1>3, KillSafe DEF WatchKills
<1>4. ASSUME UnloadKills PROVE Safe'
  BY <1>4, KillSafe DEF UnloadKills
<1>5. ASSUME Drain PROVE Safe'
  <2>1. LeasesCounted'
    BY <1>5, SameLessees DEF Drain, Safe, Lessees
  <2>2. (OneWorker /\ MutexHeld /\ Numbered /\ StartsAlone /\ PlacedAsChosen)'
    BY <1>5, AvatarAssumption
    DEF Drain, Safe, TypeOK, Lessees, Leased, Seated, OneWorker, MutexHeld,
        Numbered, StartsAlone, PlacedAsChosen
  <2> QED
    BY <2>1, <2>2 DEF Safe
<1>6. ASSUME Load PROVE Safe'
  <2>1. LeasesCounted'
    BY <1>6, SameLessees DEF Load, Safe, Lessees
  <2>2. (OneWorker /\ MutexHeld /\ Numbered /\ StartsAlone /\ PlacedAsChosen)'
    BY <1>6, AvatarAssumption
    DEF Load, Safe, TypeOK, Lessees, Leased, Seated, OneWorker, MutexHeld,
        Numbered, StartsAlone, PlacedAsChosen
  <2> QED
    BY <2>1, <2>2 DEF Safe
<1>7. ASSUME Unload PROVE Safe'
  <2>1. LeasesCounted'
    BY <1>7, SameLessees DEF Unload, Safe, Lessees
  <2>2. (OneWorker /\ MutexHeld /\ Numbered /\ StartsAlone /\ PlacedAsChosen)'
    BY <1>7, AvatarAssumption
    DEF Unload, Safe, TypeOK, Lessees, Leased, Seated, OneWorker, MutexHeld,
        Numbered, StartsAlone, PlacedAsChosen
  <2> QED
    BY <2>1, <2>2 DEF Safe
<1>8. ASSUME ChildDies PROVE Safe'
  <2>1. LeasesCounted'
    BY <1>8, SameLessees DEF ChildDies, Safe, Lessees
  <2>2. (OneWorker /\ MutexHeld /\ Numbered /\ StartsAlone /\ PlacedAsChosen)'
    BY <1>8, AvatarAssumption
    DEF ChildDies, Safe, TypeOK, Lessees, Leased, Seated, OneWorker,
        MutexHeld, Numbered, StartsAlone, PlacedAsChosen
  <2> QED
    BY <2>1, <2>2 DEF Safe
<1>9. ASSUME Reap PROVE Safe'
  <2>1. LeasesCounted'
    BY <1>9, SameLessees DEF Reap, Safe, Lessees, Clear, Unlocked
  <2>2. (OneWorker /\ MutexHeld /\ Numbered /\ StartsAlone /\ PlacedAsChosen)'
    BY <1>9, AvatarAssumption
    DEF Reap, Safe, TypeOK, Lessees, Leased, Seated, OneWorker, MutexHeld,
        Numbered, StartsAlone, PlacedAsChosen, Clear, Unlocked
  <2> QED
    BY <2>1, <2>2 DEF Safe
<1> QED
  BY <1>1, <1>2, <1>3, <1>4, <1>5, <1>6, <1>7, <1>8, <1>9 DEF WatchStep

(* A floor check leaves the job outside any lease.                          *)
LEMMA FloorMoves ==
    ASSUME TypeOK, NEW j \in Jobs, pc[j] \in {"floor", "recheck"},
           FloorPassed(j) \/ FloorMissed(j)
    PROVE  /\ \E x \in {"admitted", "refused", "asking", "done"} :
                  pc' = [pc EXCEPT ![j] = x]
           /\ UNCHANGED <<target, serving, seat>>
BY DEF FloorPassed, FloorMissed, Goto, Finish

(* A kill that fails has changed nothing. *)
LEMMA KillFailsIdle == KillFails => UNCHANGED <<pid, card, alive>>
BY DEF KillFails

(* A job that neither leases nor holds mx_, and goes on so, may find the    *)
(* worker as it was, or gone because mx_ was free to take.                  *)
LEMMA OutsideSafe ==
    ASSUME TypeOK, Safe, NEW j \in Jobs, NEW x \in Places,
           pc' = [pc EXCEPT ![j] = x],
           {pc[j], x} \cap (Leased \cup {"checked", "starting"}) = {},
           UNCHANGED <<target, serving, seat, mutex, leases, born>>,
           \/ UNCHANGED <<pid, card, alive>>
           \/ Unlocked /\ KillSucceeds
    PROVE  Safe'
<1>1. LeasesCounted'
  BY SameLessees DEF Safe, Lessees, TypeOK
<1>2. \A k \in Jobs : /\ pc'[k] \in Leased <=> pc[k] \in Leased
                      /\ pc'[k] = "starting" <=> pc[k] = "starting"
                      /\ pc'[k] = "checked" <=> pc[k] = "checked"
                      /\ pc'[k] \in {"posting", "rendering"} => pc'[k] = pc[k]
  BY DEF TypeOK, Leased
<1>3. CASE UNCHANGED <<pid, card, alive>>
  BY <1>1, <1>2, <1>3
  DEF Safe, Seated, Lessees, OneWorker, MutexHeld, Numbered, StartsAlone,
      PlacedAsChosen
<1>4. CASE Unlocked /\ KillSucceeds
  <2>1. \A k \in Jobs : pc[k] # "starting"
    BY <1>4, AvatarAssumption DEF Safe, MutexHeld, Unlocked
  <2> QED
    BY <1>1, <1>2, <1>4, <2>1
    DEF Safe, TypeOK, Seated, OneWorker, MutexHeld, Numbered, StartsAlone,
        PlacedAsChosen, KillSucceeds, Clear
<1> QED
  BY <1>3, <1>4

(* Every step of a job keeps the safety invariant. *)
LEMMA JobSafe ==
    ASSUME TypeOK, Safe, NEW j \in Jobs, JobStep(j) \/ Cancel(j)
    PROVE  Safe'
<1> USE DEF jobVars, workerVars
<1> DEFINE Rest == OneWorker /\ MutexHeld /\ Numbered /\ StartsAlone /\ PlacedAsChosen
<1>1. ASSUME Resolve(j) PROVE Safe'
  <2>1. LeasesCounted'
    BY <1>1, SameLessees DEF Resolve, Goto, Safe, TypeOK, Lessees, Leased
  <2>2. Rest'
    BY <1>1, AvatarAssumption
    DEF Resolve, Goto, Safe, TypeOK, Lessees, Leased, Seated, OneWorker,
        MutexHeld, Numbered, StartsAlone, PlacedAsChosen
  <2> QED
    BY <2>1, <2>2 DEF Safe
<1>2. ASSUME Admit(j) PROVE Safe'
  <2>1. LeasesCounted'
    BY <1>2, SameLessees DEF Admit, Goto, Safe, TypeOK, Lessees, Leased
  <2>2. Rest'
    BY <1>2, AvatarAssumption
    DEF Admit, Goto, Safe, TypeOK, Lessees, Leased, Seated, OneWorker,
        MutexHeld, Numbered, StartsAlone, PlacedAsChosen
  <2> QED
    BY <2>1, <2>2 DEF Safe
<1>3. ASSUME Enqueue(j) PROVE Safe'
  <2>1. LeasesCounted'
    BY <1>3, SameLessees DEF Enqueue, Goto, Safe, TypeOK, Lessees, Leased
  <2>2. IsFiniteSet(Seated')
    <3>1. Seated' \subseteq Seated \cup {j}
      BY <1>3 DEF Enqueue, Seated, TypeOK
    <3>2. IsFiniteSet(Seated \cup {j})
      BY FS_AddElement DEF Safe, Numbered
    <3> QED
      BY <3>1, <3>2, FS_Subset
  <2>3. Rest'
    BY <1>3, <2>2, AvatarAssumption
    DEF Enqueue, Goto, Safe, TypeOK, Lessees, Leased, OneWorker, MutexHeld,
        Numbered, StartsAlone, PlacedAsChosen
  <2> QED
    BY <2>1, <2>3 DEF Safe
<1>4. ASSUME Cancel(j) PROVE Safe'
  <2>1. LeasesCounted'
    BY <1>4, SameLessees DEF Cancel, Goto, Safe, TypeOK, Lessees, Leased
  <2>2. Rest'
    BY <1>4, AvatarAssumption
    DEF Cancel, Goto, Safe, TypeOK, Lessees, Leased, Seated, OneWorker,
        MutexHeld, Numbered, StartsAlone, PlacedAsChosen
  <2> QED
    BY <2>1, <2>2 DEF Safe
<1>5. ASSUME Begin(j) PROVE Safe'
  <2>1. PICK x \in {"done", "recheck", "asking"} : pc' = [pc EXCEPT ![j] = x]
    BY <1>5 DEF Begin, Finish
  <2>2. UNCHANGED <<target, serving, seat, mutex, leases, born, pid, card, alive>>
    BY <1>5 DEF Begin, Finish
  <2>3. pc[j] = "queued"
    BY <1>5 DEF Begin
  <2> QED
    BY <2>1, <2>2, <2>3, OutsideSafe DEF Places, Leased
<1>6. ASSUME FloorFits(j) PROVE Safe'
  BY <1>6, FloorMoves, OutsideSafe DEF FloorFits, Places, Submitting, Leased
<1>7. ASSUME FloorReclaims(j) PROVE Safe'
  BY <1>7, FloorMoves, OutsideSafe DEF FloorReclaims, Places, Submitting, Leased
<1>8. ASSUME FloorRefuses(j) PROVE Safe'
  <2>1. UNCHANGED <<pid, card, alive>> \/ (Unlocked /\ KillSucceeds)
    <3>1. CASE KillFails
      BY <3>1, KillFailsIdle
    <3>2. CASE pid' = Resident /\ card' = (IF Resident = pid THEN card ELSE NoCard)
                 /\ UNCHANGED alive
      BY <1>8, <3>2 DEF FloorRefuses, Resident, KillSucceeds, Clear
    <3> QED
      BY <1>8, <3>1, <3>2 DEF FloorRefuses
  <2> QED
    BY <1>8, <2>1, FloorMoves, OutsideSafe DEF FloorRefuses, Places, Submitting, Leased
<1>9. ASSUME LeaseReuses(j) PROVE Safe'
  <2>1. LeasesCounted'
    <3>1. j \notin Lessees /\ Lessees' = Lessees \cup {j}
      BY <1>9 DEF LeaseReuses, Lease, Asking, Lessees, Leased, TypeOK
    <3> QED
      BY <1>9, <3>1, LeaseCounted DEF LeaseReuses, Lease, Safe
  <2>2. Rest'
    BY <1>9, AvatarAssumption
    DEF LeaseReuses, Lease, Asking, Unlocked, FitsRequest, Resident, Safe,
        TypeOK, Lessees, Leased, Seated, OneWorker, MutexHeld, Numbered,
        StartsAlone, PlacedAsChosen
  <2> QED
    BY <2>1, <2>2 DEF Safe
<1>10. ASSUME LeaseSpawns(j) PROVE Safe'
  <2>1. LeasesCounted'
    BY <1>10, SameLessees
    DEF LeaseSpawns, Asking, Safe, TypeOK, Lessees, Leased
  <2>2. OneWorker' /\ Numbered'
    BY <1>10 DEF LeaseSpawns, Safe, TypeOK, OneWorker, Numbered, Seated
  <2>3. MutexHeld'
    BY <1>10, AvatarAssumption
    DEF LeaseSpawns, Asking, Unlocked, Safe, TypeOK, MutexHeld
  <2>4. StartsAlone' /\ PlacedAsChosen'
    <3>1. \A k \in Jobs : serving'[k] <= born /\ pid' > born /\ alive' \subseteq {pid'}
      BY <1>10 DEF LeaseSpawns, Safe, TypeOK, OneWorker, Numbered
    <3>2. \A k \in Jobs : k # j => pc'[k] # "starting"
      BY <1>10, AvatarAssumption
      DEF LeaseSpawns, Unlocked, Safe, TypeOK, MutexHeld
    <3>3. \A k \in Jobs : serving'[k] # pid' /\ serving'[k] \notin alive'
      BY <1>10, <3>1 DEF LeaseSpawns, TypeOK
    <3> QED
      BY <1>10, <3>2, <3>3
      DEF LeaseSpawns, TypeOK, Numbered, StartsAlone, PlacedAsChosen, Lessees
  <2> QED
    BY <2>1, <2>2, <2>3, <2>4 DEF Safe
<1>11. ASSUME LeaseFails(j) PROVE Safe'
  <2>1. UNCHANGED <<pid, card, alive>> \/ (Unlocked /\ KillSucceeds)
    BY <1>11, KillFailsIdle DEF LeaseFails
  <2> QED
    BY <1>11, <2>1, OutsideSafe DEF LeaseFails, Asking, Finish, Places, Leased
<1>12. ASSUME LeaseChecks(j) PROVE Safe'
  <2>1. LeasesCounted'
    BY <1>12, SameLessees
    DEF LeaseChecks, Unlocked, Safe, TypeOK, Lessees, Leased
  <2>2. Rest'
    BY <1>12, AvatarAssumption
    DEF LeaseChecks, Unlocked, Safe, TypeOK, Lessees, Leased, Seated,
        OneWorker, MutexHeld, Numbered, StartsAlone, PlacedAsChosen
  <2> QED
    BY <2>1, <2>2 DEF Safe
<1>13. ASSUME LeaseWaits(j) PROVE Safe'
  <2>1. LeasesCounted'
    BY <1>13, SameLessees DEF LeaseWaits, Goto, Safe, TypeOK, Lessees, Leased
  <2>2. Rest'
    BY <1>13, AvatarAssumption
    DEF LeaseWaits, Goto, Safe, TypeOK, Lessees, Leased, Seated, OneWorker,
        MutexHeld, Numbered, StartsAlone, PlacedAsChosen
  <2> QED
    BY <2>1, <2>2 DEF Safe
<1>14. ASSUME LeaseTimesOut(j) PROVE Safe'
  <2>1. LeasesCounted'
    BY <1>14, SameLessees
    DEF LeaseTimesOut, Goto, Safe, TypeOK, Lessees, Leased
  <2>2. Rest'
    BY <1>14, AvatarAssumption
    DEF LeaseTimesOut, Goto, Safe, TypeOK, Lessees, Leased, Seated,
        OneWorker, MutexHeld, Numbered, StartsAlone, PlacedAsChosen
  <2> QED
    BY <2>1, <2>2 DEF Safe
<1>15. ASSUME LeaseGivesUp(j) PROVE Safe'
  BY <1>15, OutsideSafe DEF LeaseGivesUp, Finish, Places, Leased
<1>16. ASSUME StartupReady(j) PROVE Safe'
  <2>1. LeasesCounted'
    <3>1. j \notin Lessees /\ Lessees' = Lessees \cup {j}
      BY <1>16 DEF StartupReady, Lease, Lessees, Leased, TypeOK
    <3> QED
      BY <1>16, <3>1, LeaseCounted DEF StartupReady, Lease, Safe
  <2>2. Rest'
    BY <1>16, AvatarAssumption
    DEF StartupReady, Lease, Safe, TypeOK, Lessees, Leased, Seated,
        OneWorker, MutexHeld, Numbered, StartsAlone, PlacedAsChosen
  <2> QED
    BY <2>1, <2>2 DEF Safe
<1>17. ASSUME StartupFails(j) PROVE Safe'
  <2>1. /\ pc' = [pc EXCEPT ![j] = "done"] /\ mutex' = Free
        /\ UNCHANGED <<target, serving, seat, leases, born>>
    BY <1>17 DEF StartupFails, Finish
  <2>2. LeasesCounted'
    BY <1>17, <2>1, SameLessees
    DEF StartupFails, Safe, TypeOK, Lessees, Leased
  <2>3. \A k \in Jobs : pc'[k] \notin {"starting", "checked"}
    BY <1>17, <2>1 DEF StartupFails, Safe, MutexHeld, TypeOK
  <2>4. UNCHANGED <<pid, card, alive>> \/ alive' = {}
    <3>1. CASE pid \notin alive /\ UNCHANGED <<card, alive>>
      BY <3>1 DEF Safe, OneWorker
    <3>2. CASE KillSucceeds
      BY <3>2 DEF KillSucceeds, Safe, OneWorker
    <3>3. CASE KillFails
      BY <3>3, KillFailsIdle
    <3> QED
      BY <1>17, <3>1, <3>2, <3>3 DEF StartupFails
  <2>5. OneWorker' /\ Numbered'
    <3>1. pid' = 0 \/ pid' = pid
      BY <1>17, <2>4, KillFailsIdle DEF StartupFails, KillSucceeds, Clear
    <3>2. Seated' = Seated
      BY <2>1 DEF Seated
    <3>3. OneWorker'
      BY <2>4 DEF Safe, OneWorker
    <3> QED
      BY <2>1, <2>4, <3>1, <3>2, <3>3 DEF Safe, TypeOK, Numbered
  <2>6. MutexHeld' /\ StartsAlone'
    BY <2>1, <2>3, AvatarAssumption DEF MutexHeld, StartsAlone
  <2>7. PlacedAsChosen'
    BY <1>17, <2>1, <2>4 DEF StartupFails, Safe, TypeOK, PlacedAsChosen
  <2> QED
    BY <2>2, <2>5, <2>6, <2>7 DEF Safe
<1>18. ASSUME ChildTakes(j) PROVE Safe'
  <2>1. LeasesCounted'
    BY <1>18, SameLessees DEF ChildTakes, Goto, Safe, TypeOK, Lessees, Leased
  <2>2. Rest'
    BY <1>18, AvatarAssumption
    DEF ChildTakes, Goto, Safe, TypeOK, Lessees, Leased, Seated, OneWorker,
        MutexHeld, Numbered, StartsAlone, PlacedAsChosen
  <2> QED
    BY <2>1, <2>2 DEF Safe
<1>19. ASSUME Answer(j) PROVE Safe'
  <2>1. LeasesCounted'
    BY <1>19, SameLessees DEF Answer, Finish, Safe, TypeOK, Lessees, Leased
  <2>2. Rest'
    <3>1. OneWorker' /\ Numbered'
      BY <1>19, AvatarAssumption
      DEF Answer, Finish, Safe, TypeOK, Seated, OneWorker, Numbered
    <3>2. MutexHeld'
      BY <1>19, AvatarAssumption
      DEF Answer, Finish, Safe, TypeOK, MutexHeld
    <3>3. StartsAlone' /\ PlacedAsChosen'
      BY <1>19, AvatarAssumption
      DEF Answer, Finish, Safe, TypeOK, Lessees, Leased, StartsAlone,
          PlacedAsChosen
    <3> QED
      BY <3>1, <3>2, <3>3
  <2> QED
    BY <2>1, <2>2 DEF Safe
<1>20. ASSUME DropLease(j) PROVE Safe'
  <2>1. LeasesCounted'
    <3>1. j \in Lessees /\ Lessees' = Lessees \ {j}
      BY <1>20 DEF DropLease, Goto, Lessees, Leased, TypeOK
    <3> QED
      BY <1>20, <3>1, LeaseCounted DEF DropLease, Safe
  <2>2. Rest'
    BY <1>20, AvatarAssumption
    DEF DropLease, Goto, Safe, TypeOK, Lessees, Leased, Seated, OneWorker,
        MutexHeld, Numbered, StartsAlone, PlacedAsChosen
  <2> QED
    BY <2>1, <2>2 DEF Safe
<1>21. ASSUME NotifyAll(j) PROVE Safe'
  <2>1. LeasesCounted'
    BY <1>21, SameLessees DEF NotifyAll, Goto, Safe, TypeOK, Lessees, Leased
  <2>2. Rest'
    BY <1>21, AvatarAssumption
    DEF NotifyAll, Goto, Safe, TypeOK, Lessees, Leased, Seated, OneWorker,
        MutexHeld, Numbered, StartsAlone, PlacedAsChosen
  <2> QED
    BY <2>1, <2>2 DEF Safe
<1> QED
  BY <1>1, <1>2, <1>3, <1>4, <1>5, <1>6, <1>7, <1>8, <1>9, <1>10, <1>11,
     <1>12, <1>13, <1>14, <1>15, <1>16, <1>17, <1>18, <1>19, <1>20, <1>21
  DEF JobStep

(* Every step keeps the types and the safety invariant. *)
LEMMA StepSafe ==
    ASSUME TypeOK /\ Safe, [Next]_vars
    PROVE  (TypeOK /\ Safe)'
<1>1. ASSUME NEW j \in Jobs, JobStep(j) \/ Cancel(j) PROVE (TypeOK /\ Safe)'
  BY <1>1, JobType, JobSafe DEF Safe
<1>2. CASE \/ WatchStep \/ UnloadKills \/ Drain \/ Load \/ Unload
           \/ ChildDies \/ Reap
  BY <1>2, OfficeType, OfficeSafe
<1>3. CASE UNCHANGED vars
  BY <1>3
  DEF vars, jobVars, workerVars, Safe, TypeOK, LeasesCounted, LeasesAreExact,
      Lessees, Seated, OneWorker, MutexHeld, Numbered, StartsAlone,
      PlacedAsChosen
<1> QED
  BY <1>1, <1>2, <1>3 DEF Next

(* The safety invariant holds throughout. *)
LEMMA Invariance == Spec => [](TypeOK /\ Safe)
BY InitSafe, StepSafe, PTL DEF Spec

(* Every variable stays in its type: no thread leaves the phases of submit, *)
(* run_proxy, the watchdog and the admin calls, and leases_ never goes      *)
(* below zero.                                                              *)
THEOREM TypeCorrect == Spec => []TypeOK
BY Invariance, PTL

(* At most one GPU process lives, and pid_ names it, whatever fails.        *)
THEOREM WorkerIsUnique == Spec => []OneWorker
<1>1. TypeOK /\ Safe => OneWorker
  BY DEF Safe
<1> QED
  BY <1>1, Invariance, PTL

(* leases_ is the number of jobs that hold the worker, although it is       *)
(* discounted without mx_.                                                  *)
THEOREM LeasesExact == Spec => []LeasesAreExact
<1>1. TypeOK /\ Safe => LeasesAreExact
  BY DEF Safe, LeasesCounted
<1> QED
  BY <1>1, Invariance, PTL

(* A job renders on the card that was chosen for it, or its worker is dead. *)
THEOREM JobsArePlaced == Spec => []PlacedAsChosen
<1>1. TypeOK /\ Safe => PlacedAsChosen
  BY DEF Safe
<1> QED
  BY <1>1, Invariance, PTL

(* A relocation happens when nobody leases a worker that lives.             *)
LEMMA SpawnSparesLeases ==
    ASSUME TypeOK, Safe, NEW j \in Jobs, MayPlace(j), ~FitsRequest(j),
           NEW k \in Lessees
    PROVE  serving[k] \notin alive
<1>1. leases > 0
  BY LeaseHeld DEF Safe
<1> QED
  BY <1>1
  DEF MayPlace, FitsRequest, Resident, Safe, TypeOK, OneWorker, Numbered,
      Lessees

(* Only the watchdog and an unload take a worker from a job: a relocation,  *)
(* the reclaim of a floor check and a failed start never do.                *)
THEOREM ReclaimIsSafe == Spec => ReclaimSparesLeases
<1> DEFINE Taken(k) == /\ pc[k] \in Leased /\ serving[k] \in alive
                       /\ serving[k] \notin alive' /\ pid' # pid
<1>1. ASSUME TypeOK, Safe, [Next]_vars, NEW k \in Jobs, Taken(k)
      PROVE  watch = "killing" \/ apc = "killing"
  <2> USE DEF jobVars, workerVars
  <2>1. k \in Lessees /\ serving[k] \in alive /\ pid' # pid /\ alive' # alive
    BY <1>1 DEF Lessees
  <2>2. leases > 0
    BY <1>1, <2>1, LeaseHeld DEF Safe
  <2>3. ASSUME NEW j \in Jobs, JobStep(j) \/ Cancel(j) PROVE FALSE
    <3>1. \/ FloorReclaims(j) \/ FloorRefuses(j) \/ LeaseSpawns(j)
          \/ LeaseFails(j) \/ StartupFails(j)
      BY <2>1, <2>3
      DEF JobStep, Cancel, Resolve, Admit, Enqueue, Begin, FloorFits,
          LeaseReuses, LeaseChecks, LeaseWaits, LeaseTimesOut, LeaseGivesUp,
          StartupReady, ChildTakes, Answer, DropLease, NotifyAll
    <3>2. CASE FloorReclaims(j)
      BY <2>2, <3>2 DEF FloorReclaims, Reclaimable
    <3>3. CASE FloorRefuses(j)
      BY <2>1, <2>2, <3>3, KillFailsIdle DEF FloorRefuses, Reclaimable
    <3>4. CASE LeaseSpawns(j) \/ LeaseFails(j)
      BY <1>1, <2>1, <3>4, SpawnSparesLeases DEF LeaseSpawns, LeaseFails
    <3>5. CASE StartupFails(j)
      BY <1>1, <2>1, <3>5 DEF StartupFails, Safe, StartsAlone, OneWorker
    <3> QED
      BY <3>1, <3>2, <3>3, <3>4, <3>5
  <2>4. CASE WatchKills \/ UnloadKills
    BY <2>4 DEF WatchKills, UnloadKills
  <2>5. CASE \/ WatchLooks \/ WatchCounts \/ Drain \/ Load \/ Unload
             \/ UNCHANGED vars
    BY <2>1, <2>5 DEF WatchLooks, WatchCounts, Drain, Load, Unload, vars
  <2>6. CASE ChildDies
    BY <2>1, <2>6 DEF ChildDies
  <2>7. CASE Reap
    BY <2>1, <2>7 DEF Reap
  <2> QED
    BY <1>1, <2>3, <2>4, <2>5, <2>6, <2>7 DEF Next, WatchStep
<1>2. TypeOK /\ Safe /\ [Next]_vars =>
        [\A j \in Jobs :
           /\ pc[j] \in Leased /\ serving[j] \in alive
           /\ serving[j] \notin alive' /\ pid' # pid
           => watch = "killing" \/ apc = "killing"]_vars
  BY <1>1
<1> QED
  BY <1>2, InitSafe, StepSafe, PTL DEF Spec, ReclaimSparesLeases

-----------------------------------------------------------------------------
(* AvatarServer implements JobVerdict.                                      *)

(* Where a job has its verdict already.                                     *)
Over == {"answered", "notifying", "done"}

Unended == \A j \in Jobs : pc[j] \notin Over => outcome[j] = "none"

(* A job that is in the table has been accepted.                            *)
Accepted == \A j \in kept : pc[j] \notin Submitting

Promised == Unended /\ Accepted

(* What happens between two promises ...                                    *)
Quiet ==
    /\ \A j \in Jobs : /\ pc'[j] \in Submitting <=> pc[j] \in Submitting
                       /\ pc'[j] \in Over <=> pc[j] \in Over
    /\ UNCHANGED <<outcome, token, kept>>

(* ... and what gives a job its verdict.                                    *)
Ended(j) ==
    /\ pc[j] \notin Over \cup Submitting
    /\ kept' \subseteq kept
    /\ \E to \in {"answered", "done"}, o \in Ends :
         /\ pc' = [pc EXCEPT ![j] = to]
         /\ outcome' = [outcome EXCEPT ![j] = o]
         /\ o = "cancelled" => Contract!MayCancel(j)
    /\ UNCHANGED token

LEMMA FinishEnds ==
    ASSUME NEW j \in Jobs, NEW o \in Ends, NEW to \in {"answered", "done"},
           Finish(j, o, to), pc[j] \notin Over \cup Submitting,
           o = "cancelled" => Contract!MayCancel(j)
    PROVE  Ended(j)
<1>1. /\ kept' \subseteq kept /\ UNCHANGED token
      /\ pc' = [pc EXCEPT ![j] = to]
      /\ outcome' = [outcome EXCEPT ![j] = o]
  BY DEF Finish
<1> QED
  BY <1>1 DEF Ended

(* One thread that stays on its side of acceptance and verdict is quiet.    *)
LEMMA MoveIsQuiet ==
    ASSUME TypeOK, NEW j \in Jobs, NEW to, pc' = [pc EXCEPT ![j] = to],
           to \in Submitting <=> pc[j] \in Submitting,
           to \in Over <=> pc[j] \in Over,
           UNCHANGED <<outcome, token, kept>>
    PROVE  Quiet
BY DEF TypeOK, Quiet

(* A job is cancelled on its own token or, when it retargets, on that of a  *)
(* job that does not.                                                       *)
LEMMA ChildMayCancel ==
    ASSUME NEW j \in Jobs, ChildCancels(j), pc[j] \notin Submitting
    PROVE  Contract!MayCancel(j)
BY DEF ChildCancels, Contract!MayCancel

(* What a job's thread does is quiet, accepts the job or ends it.           *)
LEMMA JobPromise ==
    ASSUME TypeOK, Promised, NEW j \in Jobs, JobStep(j), ~Enqueue(j)
    PROVE  Quiet \/ Ended(j)
<1> USE DEF jobVars, workerVars
<1>1. CASE Resolve(j) \/ Admit(j)
  <2>1. PICK to \in Submitting : pc[j] \in Submitting /\ pc' = [pc EXCEPT ![j] = to]
    BY <1>1 DEF Resolve, Admit, Goto, Submitting
  <2>2. UNCHANGED <<outcome, token, kept>>
    BY <1>1 DEF Resolve, Admit
  <2> QED
    BY <2>1, <2>2, MoveIsQuiet DEF Submitting, Over
<1>2. CASE Begin(j)
  <2>1. CASE Finish(j, "cancelled", "done") /\ j \in token
    BY <1>2, <2>1, FinishEnds
    DEF Begin, Ends, Over, Submitting, Contract!MayCancel
  <2>2. CASE \E to \in {"recheck", "asking"} :
               /\ pc' = [pc EXCEPT ![j] = to]
               /\ UNCHANGED <<outcome, token, kept>>
    BY <1>2, <2>2, MoveIsQuiet DEF Begin, Over, Submitting
  <2> QED
    BY <1>2, <2>1, <2>2 DEF Begin
<1>3. CASE FloorFits(j) \/ FloorReclaims(j) \/ FloorRefuses(j)
  <2>1. pc[j] \in {"floor", "recheck"} /\ (FloorPassed(j) \/ FloorMissed(j))
    BY <1>3 DEF FloorFits, FloorReclaims, FloorRefuses
  <2>2. CASE FloorPassed(j)
    <3>1. /\ pc' = [pc EXCEPT ![j] = IF pc[j] = "floor" THEN "admitted" ELSE "asking"]
          /\ UNCHANGED <<outcome, token, kept>>
      BY <2>2 DEF FloorPassed
    <3> QED
      BY <2>1, <3>1, MoveIsQuiet DEF Over, Submitting
  <2>3. CASE pc[j] = "recheck" /\ Finish(j, "failed", "done")
    BY <2>3, FinishEnds DEF Ends, Over, Submitting
  <2>4. CASE Goto(j, "floor", "refused") /\ UNCHANGED <<outcome, token, kept>>
    BY <2>4, MoveIsQuiet DEF Goto, Over, Submitting
  <2> QED
    BY <2>1, <2>2, <2>3, <2>4 DEF FloorMissed
<1>4. CASE LeaseFails(j) \/ LeaseGivesUp(j) \/ StartupFails(j)
  <2>1. pc[j] \in {"asking", "woken", "late", "starting"} /\ Finish(j, "failed", "done")
    BY <1>4 DEF LeaseFails, LeaseGivesUp, StartupFails, Asking
  <2> QED
    BY <2>1, FinishEnds DEF Ends, Over, Submitting
<1>5. CASE \/ LeaseReuses(j) \/ LeaseSpawns(j) \/ LeaseChecks(j) \/ LeaseWaits(j)
           \/ LeaseTimesOut(j) \/ StartupReady(j) \/ ChildTakes(j)
  <2>1. PICK to \in {"posting", "starting", "checked", "waiting", "late", "rendering"} :
          pc' = [pc EXCEPT ![j] = to]
    BY <1>5
    DEF LeaseReuses, LeaseSpawns, LeaseChecks, LeaseWaits, LeaseTimesOut,
        StartupReady, ChildTakes, Lease, Goto
  <2>2. pc[j] \in {"asking", "woken", "late", "checked", "waiting", "starting",
                   "posting"}
    BY <1>5
    DEF LeaseReuses, LeaseSpawns, LeaseChecks, LeaseWaits, LeaseTimesOut,
        StartupReady, ChildTakes, Goto, Asking
  <2>3. UNCHANGED <<outcome, token, kept>>
    BY <1>5
    DEF LeaseReuses, LeaseSpawns, LeaseChecks, LeaseWaits, LeaseTimesOut,
        StartupReady, ChildTakes, Lease
  <2> QED
    BY <2>1, <2>2, <2>3, MoveIsQuiet DEF Over, Submitting
<1>6. CASE Answer(j)
  <2>1. PICK o \in Ends : /\ Finish(j, o, "answered")
                          /\ o = "cancelled" => ChildCancels(j) \/ j \in token
    BY <1>6 DEF Answer, BrokenVerdict, Ends
  <2>2. pc[j] \in {"posting", "rendering"}
    BY <1>6 DEF Answer
  <2>3. o = "cancelled" => Contract!MayCancel(j)
    BY <2>1, <2>2, ChildMayCancel DEF Submitting, Contract!MayCancel
  <2> QED
    BY <2>1, <2>2, <2>3, FinishEnds DEF Over, Submitting
<1>7. CASE DropLease(j)
  <2>1. /\ pc[j] = "answered" /\ pc' = [pc EXCEPT ![j] = "notifying"]
        /\ UNCHANGED <<outcome, token, kept>>
    BY <1>7 DEF DropLease, Goto
  <2> QED
    BY <2>1, MoveIsQuiet DEF Over, Submitting
<1>8. CASE NotifyAll(j)
  BY <1>8 DEF NotifyAll, Quiet, Over, Submitting
<1> QED
  BY <1>1, <1>2, <1>3, <1>4, <1>5, <1>6, <1>7, <1>8 DEF JobStep

(* What a client sees of one job makes what it sees of all.                 *)
LEMMA SeenUpdate ==
    ASSUME NEW j \in Jobs, NEW s, Seen'[j] = s,
           \A k \in Jobs \ {j} : Seen'[k] = Seen[k]
    PROVE  Seen' = [Seen EXCEPT ![j] = s]
<1>1. \E F \in {Seen} : F = [k \in Jobs |-> F[k]]
  BY DEF Seen
<1>2. \E F \in {Seen'} : F = [k \in Jobs |-> F[k]]
  BY DEF Seen
<1> DEFINE F == [Seen EXCEPT ![j] = s]
<1>3. F = [k \in Jobs |-> F[k]] /\ \A k \in Jobs : F[k] = Seen'[k]
  BY <1>1
<1> QED
  BY <1>2, <1>3

LEMMA QuietRefines ==
    ASSUME TypeOK, Promised, Quiet
    PROVE  Promised' /\ UNCHANGED Contract!vars
<1>1. Promised'
  BY DEF Quiet, Promised, Unended, Accepted, TypeOK
<1>2. Seen' = Seen
  BY DEF Quiet, Seen
<1>3. {j \in Retargets : pc[j] \notin Submitting}'
        = {j \in Retargets : pc[j] \notin Submitting}
  BY AvatarAssumption DEF Quiet
<1> QED
  BY <1>1, <1>2, <1>3 DEF Contract!vars, Quiet

LEMMA EndedRefines ==
    ASSUME TypeOK, Promised, NEW j \in Jobs, Ended(j)
    PROVE  Promised' /\ Contract!Next
<1>1. PICK to \in {"answered", "done"}, o \in Ends :
        /\ pc' = [pc EXCEPT ![j] = to]
        /\ outcome' = [outcome EXCEPT ![j] = o]
        /\ o = "cancelled" => Contract!MayCancel(j)
  BY DEF Ended
<1>2. /\ pc[j] \notin Over \cup Submitting
      /\ kept' \subseteq kept /\ UNCHANGED token
  BY DEF Ended
<1>3. /\ pc'[j] = to /\ outcome'[j] = o /\ to \notin Submitting
      /\ \A k \in Jobs \ {j} : pc'[k] = pc[k] /\ outcome'[k] = outcome[k]
  BY <1>1 DEF TypeOK, Submitting
<1>4. Promised'
  <2>1. Unended'
    BY <1>1, <1>3 DEF Promised, Unended, Over
  <2>2. Accepted'
    BY <1>2, <1>3 DEF Promised, Accepted, TypeOK
  <2> QED
    BY <2>1, <2>2 DEF Promised
<1>5. Seen[j] = "live"
  BY <1>2 DEF Seen, Promised, Unended
<1>6. Seen' = [Seen EXCEPT ![j] = o]
  <2>1. Seen'[j] = o
    BY <1>3 DEF Seen, Ends
  <2>2. \A k \in Jobs \ {j} : Seen'[k] = Seen[k]
    BY <1>3 DEF Seen
  <2> QED
    BY <2>1, <2>2, SeenUpdate
<1>7. {k \in Retargets : pc[k] \notin Submitting}'
        = {k \in Retargets : pc[k] \notin Submitting}
  BY <1>2, <1>3, AvatarAssumption
<1>8. Contract!End(j)
  BY <1>1, <1>2, <1>5, <1>6, <1>7 DEF Contract!End, Contract!Verdicts, Ends
<1> QED
  BY <1>4, <1>8 DEF Contract!Next

(* The record of a job is the promise.                                      *)
LEMMA EnqueueRefines ==
    ASSUME TypeOK, Promised, NEW j \in Jobs, Enqueue(j)
    PROVE  Promised' /\ Contract!Next
<1>1. /\ pc[j] = "admitted" /\ pc' = [pc EXCEPT ![j] = "queued"]
      /\ kept' = kept \cup {j}
      /\ UNCHANGED <<token, outcome>>
  BY DEF Enqueue, Goto
<1>2. /\ pc'[j] = "queued" /\ pc'[j] \notin Submitting /\ pc[j] \in Submitting
      /\ \A k \in Jobs \ {j} : pc'[k] = pc[k]
  BY <1>1 DEF TypeOK, Submitting
<1>3. outcome[j] = "none"
  BY <1>1 DEF Promised, Unended, Over
<1>4. Promised'
  <2>1. Unended'
    BY <1>1, <1>2, <1>3 DEF Promised, Unended
  <2>2. Accepted'
    BY <1>1, <1>2 DEF Promised, Accepted, TypeOK
  <2> QED
    BY <2>1, <2>2 DEF Promised
<1>5. Seen[j] = "none" /\ Seen' = [Seen EXCEPT ![j] = "live"]
  <2>1. Seen[j] = "none" /\ Seen'[j] = "live"
    BY <1>1, <1>2, <1>3 DEF Seen
  <2>2. \A k \in Jobs \ {j} : Seen'[k] = Seen[k]
    BY <1>1, <1>2 DEF Seen
  <2> QED
    BY <2>1, <2>2, SeenUpdate
<1> DEFINE Beside == {k \in Retargets : pc[k] \notin Submitting}
<1>6. Beside' \in {Beside, Beside \cup {j}}
  BY <1>2, AvatarAssumption
<1>7. Contract!Accept(j)
  BY <1>1, <1>5, <1>6 DEF Contract!Accept
<1> QED
  BY <1>4, <1>7 DEF Contract!Next

(* A client cancels one job, a forced unload all that are live.             *)
LEMMA AskRefines ==
    ASSUME TypeOK, Promised, NEW S \in SUBSET Live, token' = token \cup S,
           UNCHANGED <<pc, outcome, kept>>
    PROVE  Promised' /\ Contract!Next
<1>1. Promised' /\ Seen' = Seen
  BY DEF Promised, Unended, Accepted, Seen
<1>2. S \in SUBSET {j \in Jobs : Seen[j] = "live"}
  BY DEF Live, Seen, Promised, Accepted, TypeOK
<1>3. Contract!Ask
  BY <1>1, <1>2 DEF Contract!Ask
<1> QED
  BY <1>1, <1>3 DEF Contract!Next

LEMMA StepRefines ==
    ASSUME TypeOK, Promised, [Next]_vars
    PROVE  Promised' /\ [Contract!Next]_Contract!vars
<1> USE DEF jobVars, workerVars
<1>1. ASSUME NEW j \in Jobs, JobStep(j)
      PROVE  Promised' /\ [Contract!Next]_Contract!vars
  BY <1>1, JobPromise, EnqueueRefines, QuietRefines, EndedRefines
<1>2. ASSUME NEW j \in Jobs, Cancel(j)
      PROVE  Promised' /\ Contract!Next
  <2>1. /\ {j} \in SUBSET Live /\ token' = token \cup {j}
        /\ UNCHANGED <<pc, outcome, kept>>
    BY <1>2 DEF Cancel
  <2> QED
    BY <2>1, AskRefines
<1>3. ASSUME Unload
      PROVE  Promised' /\ [Contract!Next]_Contract!vars
  <2>1. UNCHANGED <<pc, outcome, kept>>
    BY <1>3 DEF Unload
  <2>2. \E S \in {{}, Live} : token' = token \cup S
    BY <1>3 DEF Unload
  <2>3. PICK S \in SUBSET Live : token' = token \cup S
    BY <2>2
  <2> QED
    BY <2>1, <2>3, AskRefines
<1>4. CASE \/ WatchStep \/ UnloadKills \/ Drain \/ Load \/ ChildDies \/ Reap
           \/ UNCHANGED vars
  <2>1. UNCHANGED <<pc, outcome, token, kept>>
    BY <1>4
    DEF WatchStep, WatchLooks, WatchCounts, WatchKills, UnloadKills, Drain,
        Load, ChildDies, Reap, vars
  <2> QED
    BY <2>1, QuietRefines DEF Quiet
<1> QED
  BY <1>1, <1>2, <1>3, <1>4 DEF Next

LEMMA InitRefines == Init => Promised /\ Contract!Init
<1> SUFFICES ASSUME Init PROVE Promised /\ Contract!Init
  OBVIOUS
<1>1. \A j \in Jobs : pc[j] \in Submitting /\ outcome[j] = "none"
  BY DEF Init, Submitting
<1>2. Promised
  BY <1>1 DEF Init, Promised, Unended, Accepted
<1>3. Seen = [j \in Jobs |-> "none"]
  BY <1>1 DEF Seen
<1>4. {j \in Retargets : pc[j] \notin Submitting} = {} /\ token = {}
  BY <1>1, AvatarAssumption DEF Init
<1> QED
  BY <1>2, <1>3, <1>4 DEF Contract!Init

(* Through the relay, the floor checks, the lease and its time limit, and   *)
(* whoever kills the worker: one verdict per job, and none is cancelled     *)
(* that nobody cancelled.                                                   *)
THEOREM Refinement == Spec => KeepsContract
<1>1. TypeOK /\ Promised /\ [Next]_vars
        => Promised' /\ [Contract!Next]_Contract!vars
  BY StepRefines
<1> QED
  BY <1>1, Invariance, InitRefines, PTL
  DEF Spec, KeepsContract, Contract!Spec
=============================================================================
