--------------------------- MODULE DrainFlagProofs ---------------------------
(***************************************************************************)
(* What the two atomics of the drain switch guarantee without a lock, for  *)
(* any number of gates, drains and readers, any drain_max_seconds() and    *)
(* any horizon.                                                            *)
(*                                                                         *)
(* The guarantee lasts while it is calm: until a thread that is still to   *)
(* store on behalf of an earlier drain meets drain() between its own two   *)
(* stores. Until then whoever clears the stamp does it under a lowered     *)
(* flag that nobody is about to raise, and whoever heals has read the      *)
(* stamp of the drain that is up. With one gate that drains once, it is    *)
(* calm for ever.                                                          *)
(***************************************************************************)
EXTENDS DrainFlag, TLAPS

-----------------------------------------------------------------------------
LEMMA InitType == Init => TypeOK
<1> SUFFICES ASSUME Init PROVE TypeOK
  OBVIOUS
<1>1. draining \in BOOLEAN
  BY DEF Init
<1>2. /\ startedAt \in 0..Horizon /\ now \in 1..Horizon
      /\ seen \in [Readers -> 0..Horizon]
      /\ calls \in [Admins -> 0..MaxCalls] /\ drains \in [Admins -> 0..MaxDrains]
  BY DrainFlagAssumption DEF Init
<1>3. /\ pc \in [Threads -> {"idle", "stamped", "lowered", "flag_seen",
                             "stamp_seen", "healing", "healed"}]
      /\ calm \in BOOLEAN
  BY DEF Init
<1> QED
  BY <1>1, <1>2, <1>3 DEF TypeOK

(* An admin's call counts against its bounds. *)
LEMMA BeginType ==
    ASSUME TypeOK, NEW t \in Admins, Begin(t)
    PROVE  calls' \in [Admins -> 0..MaxCalls] /\ now \in 1..Horizon
BY DrainFlagAssumption DEF TypeOK, Begin

LEMMA StepType == TypeOK /\ [Next]_vars => TypeOK'
<1> SUFFICES ASSUME TypeOK, [Next]_vars PROVE TypeOK'
  OBVIOUS
<1> DEFINE PCs == {"idle", "stamped", "lowered", "flag_seen",
                   "stamp_seen", "healing", "healed"}
<1>1. draining' \in BOOLEAN
  <2>1. draining' = draining \/ draining' = TRUE \/ draining' = FALSE
    BY DEF Next, Step, vars, core, AdminStep, ReaderStep, DrainStamp, DrainRaise, ClearFlag,
           ClearStamp, ReadFlag, ReadStamp, Compare, HealFlag, HealStamp, Tick
  <2> QED
    BY <2>1 DEF TypeOK
<1>2. pc' \in [Threads -> PCs]
  <2>1. ASSUME NEW t \in Threads, NEW from \in PCs, NEW to \in PCs, Goto(t, from, to)
        PROVE  pc' \in [Threads -> PCs]
    BY <2>1 DEF Goto, TypeOK
  <2>2. ASSUME NEW t \in Admins, AdminStep(t) PROVE pc' \in [Threads -> PCs]
    BY <2>1, <2>2
    DEF AdminStep, DrainStamp, DrainRaise, ClearFlag, ClearStamp, Threads
  <2>3. ASSUME NEW t \in Readers, ReaderStep(t) PROVE pc' \in [Threads -> PCs]
    <3>1. Goto(t, "idle", "idle") \/ Goto(t, "idle", "flag_seen")
          \/ Goto(t, "flag_seen", "stamp_seen") \/ Goto(t, "stamp_seen", "healing")
          \/ Goto(t, "stamp_seen", "idle") \/ Goto(t, "healing", "healed")
          \/ Goto(t, "healed", "idle")
      BY <2>3
      DEF ReaderStep, ReadFlag, ReadStamp, Compare, HealFlag, HealStamp
    <3> QED
      BY <2>1, <3>1 DEF Threads
  <2>4. CASE UNCHANGED pc
    BY <2>4 DEF TypeOK
  <2> QED
    BY <2>2, <2>3, <2>4 DEF Next, Step, Tick, vars, core
<1>3. /\ startedAt' \in 0..Horizon /\ now' \in 1..Horizon
      /\ seen' \in [Readers -> 0..Horizon]
      /\ calls' \in [Admins -> 0..MaxCalls] /\ drains' \in [Admins -> 0..MaxDrains]
  <2>1. ASSUME NEW t \in Admins, AdminStep(t)
        PROVE  /\ startedAt' \in 0..Horizon /\ now' = now /\ seen' = seen
               /\ calls' \in [Admins -> 0..MaxCalls]
               /\ drains' \in [Admins -> 0..MaxDrains]
    <3>1. CASE DrainStamp(t)
      <4>1. /\ startedAt' = now /\ UNCHANGED <<now, seen>>
            /\ calls' \in [Admins -> 0..MaxCalls] /\ now \in 1..Horizon
        BY <3>1, BeginType DEF DrainStamp, BeginDrain
      <4>2. drains' \in [Admins -> 0..MaxDrains]
        BY <3>1, DrainFlagAssumption DEF DrainStamp, BeginDrain, TypeOK
      <4> QED
        BY <4>1, <4>2
    <3>2. CASE ClearFlag(t)
      BY <3>2, BeginType DEF ClearFlag, TypeOK
    <3>3. CASE DrainRaise(t) \/ ClearStamp(t)
      BY <3>3, DrainFlagAssumption DEF DrainRaise, ClearStamp, TypeOK
    <3> QED
      BY <2>1, <3>1, <3>2, <3>3 DEF AdminStep
  <2>2. ASSUME NEW t \in Readers, ReaderStep(t)
        PROVE  /\ startedAt' \in 0..Horizon /\ now' = now
               /\ seen' \in [Readers -> 0..Horizon]
               /\ UNCHANGED <<calls, drains>>
    BY <2>2, DrainFlagAssumption
    DEF ReaderStep, ReadFlag, ReadStamp, Compare, HealFlag, HealStamp, TypeOK
  <2>3. CASE Tick
    BY <2>3, DrainFlagAssumption DEF Tick, TypeOK
  <2>4. CASE UNCHANGED vars
    BY <2>4 DEF vars, core, TypeOK
  <2> QED
    BY <2>1, <2>2, <2>3, <2>4 DEF Next, Step, TypeOK
<1>4. calm' \in BOOLEAN
  <2>1. calm' = (calm /\ ~Overlap') \/ calm' = calm
    BY DEF Next, vars
  <2>2. calm \in BOOLEAN
    BY DEF TypeOK
  <2> QED
    BY <2>1, <2>2
<1> QED
  BY <1>1, <1>2, <1>3, <1>4 DEF TypeOK

-----------------------------------------------------------------------------
(* The flag is up with its stamp, and while drain() is between its stores   *)
(* nobody is late.                                                          *)
UpStamped ==
    /\ draining => startedAt > 0
    /\ \A t \in Admins : pc[t] = "stamped" => /\ startedAt > 0
                                             /\ \A u \in Threads : ~Late(u)

(* Whoever is to clear the stamp does it under a lowered flag.              *)
ClearsLowered == \A u \in Threads : pc[u] \in {"lowered", "healed"} => ~draining

(* Whoever heals a raised flag holds its stamp, and that is old.            *)
HealsSeen ==
    \A u \in Readers :
       /\ pc[u] \in {"stamp_seen", "healing"} /\ draining => seen[u] \in {0, startedAt}
       /\ pc[u] = "healing" => seen[u] > 0 /\ now - seen[u] >= DrainMax

Stamped == UpStamped /\ ClearsLowered /\ HealsSeen

LEMMA InitStamped == Init => Stamped
BY DEF Init, Stamped, UpStamped, ClearsLowered, HealsSeen, Late, Threads

LEMMA AdminStamped ==
    ASSUME TypeOK, Stamped, NEW a \in Admins, AdminStep(a),
           \A t \in Admins, u \in Threads : pc'[t] = "stamped" => ~Late(u)'
    PROVE  Stamped'
<1>1. a \in Threads /\ a \notin Readers /\ Readers \subseteq Threads
      /\ Admins \subseteq Threads
  BY DrainFlagAssumption DEF Threads
<1>2. /\ \A u \in Threads : u # a => pc'[u] = pc[u]
      /\ now' = now /\ seen' = seen
  BY <1>1
  DEF AdminStep, DrainStamp, DrainRaise, ClearFlag, ClearStamp, Goto, TypeOK
<1>3. CASE DrainStamp(a)
  <2>1. pc'[a] = "stamped" /\ startedAt' = now /\ draining' = draining /\ now > 0
    BY <1>1, <1>3 DEF DrainStamp, Goto, TypeOK
  <2>2. \A u \in Threads : ~Late(u)'
    BY <1>1, <2>1
  <2>3. UpStamped'
    BY <2>1, <2>2 DEF UpStamped
  <2>4. ClearsLowered'
    BY <2>2 DEF ClearsLowered, Late
  <2>5. HealsSeen'
    BY <1>1, <2>2 DEF HealsSeen, Late
  <2> QED
    BY <2>3, <2>4, <2>5 DEF Stamped
<1>4. CASE DrainRaise(a)
  <2>1. /\ pc[a] = "stamped" /\ pc'[a] = "idle" /\ startedAt' = startedAt
        /\ startedAt > 0 /\ \A u \in Threads : ~Late(u)
    BY <1>1, <1>4 DEF DrainRaise, Goto, TypeOK, Stamped, UpStamped
  <2>2. \A u \in Threads : ~Late(u)'
    BY <1>1, <1>2, <2>1 DEF Late
  <2>3. UpStamped'
    BY <2>1, <2>2 DEF UpStamped
  <2>4. ClearsLowered'
    BY <2>2 DEF ClearsLowered, Late
  <2>5. HealsSeen'
    BY <1>1, <2>2 DEF HealsSeen, Late
  <2> QED
    BY <2>3, <2>4, <2>5 DEF Stamped
<1>5. CASE ClearFlag(a)
  <2>1. pc'[a] = "lowered" /\ draining' = FALSE /\ startedAt' = startedAt
    BY <1>1, <1>5 DEF ClearFlag, Goto, TypeOK
  <2>2. \A t \in Admins : pc'[t] # "stamped"
    BY <1>1, <2>1 DEF Late
  <2> QED
    BY <1>1, <1>2, <2>1, <2>2 DEF Stamped, UpStamped, ClearsLowered, HealsSeen
<1>6. CASE ClearStamp(a)
  <2>1. /\ pc[a] = "lowered" /\ pc'[a] = "idle" /\ draining' = draining
        /\ startedAt' = 0
    BY <1>1, <1>6 DEF ClearStamp, Goto, TypeOK
  <2>2. ~draining /\ \A t \in Admins : pc[t] # "stamped"
    BY <1>1, <2>1 DEF Stamped, UpStamped, ClearsLowered, Late
  <2>3. \A t \in Admins : pc'[t] # "stamped"
    BY <1>1, <1>2, <2>1, <2>2
  <2> QED
    BY <1>1, <1>2, <2>1, <2>2, <2>3 DEF Stamped, UpStamped, ClearsLowered, HealsSeen
<1> QED
  BY <1>3, <1>4, <1>5, <1>6 DEF AdminStep

LEMMA ReaderStamped ==
    ASSUME TypeOK, Stamped, NEW r \in Readers, ReaderStep(r),
           \A t \in Admins, u \in Threads : pc'[t] = "stamped" => ~Late(u)'
    PROVE  Stamped'
<1>1. /\ r \in Threads /\ Readers \subseteq Threads /\ Admins \subseteq Threads
      /\ \A t \in Admins : t # r
  BY DrainFlagAssumption DEF Threads
<1>2. /\ \A u \in Threads : u # r => pc'[u] = pc[u]
      /\ \A u \in Readers : u # r => seen'[u] = seen[u]
      /\ now' = now
  BY <1>1
  DEF ReaderStep, ReadFlag, ReadStamp, Compare, HealFlag, HealStamp, Goto, TypeOK
<1>3. \A t \in Admins : pc'[t] = pc[t]
  BY <1>1, <1>2
<1>4. CASE ReadFlag(r)
  <2>1. /\ pc'[r] \in {"idle", "flag_seen"}
        /\ UNCHANGED <<draining, startedAt, seen>>
    BY <1>1, <1>4 DEF ReadFlag, Goto, TypeOK
  <2> QED
    BY <1>1, <1>2, <1>3, <2>1 DEF Stamped, UpStamped, ClearsLowered, HealsSeen
<1>5. CASE ReadStamp(r)
  <2>1. /\ pc'[r] = "stamp_seen" /\ seen'[r] = startedAt
        /\ UNCHANGED <<draining, startedAt>>
    BY <1>1, <1>5 DEF ReadStamp, Goto, TypeOK
  <2> QED
    BY <1>1, <1>2, <1>3, <2>1 DEF Stamped, UpStamped, ClearsLowered, HealsSeen
<1>6. CASE Compare(r)
  <2>1. /\ pc[r] = "stamp_seen" /\ UNCHANGED <<draining, startedAt, seen>>
        /\ \/ pc'[r] = "idle"
           \/ pc'[r] = "healing" /\ seen[r] > 0 /\ now - seen[r] >= DrainMax
    BY <1>1, <1>6 DEF Compare, Goto, Expired, TypeOK
  <2> QED
    BY <1>1, <1>2, <1>3, <2>1 DEF Stamped, UpStamped, ClearsLowered, HealsSeen
<1>7. CASE HealFlag(r)
  <2>1. /\ pc[r] = "healing" /\ pc'[r] = "healed" /\ draining' = FALSE
        /\ UNCHANGED <<startedAt, seen>>
    BY <1>1, <1>7 DEF HealFlag, Goto, TypeOK
  <2> QED
    BY <1>1, <1>2, <1>3, <2>1 DEF Stamped, UpStamped, ClearsLowered, HealsSeen
<1>8. CASE HealStamp(r)
  <2>1. /\ pc[r] = "healed" /\ pc'[r] = "idle" /\ startedAt' = 0
        /\ UNCHANGED <<draining, seen>>
    BY <1>1, <1>8 DEF HealStamp, Goto, TypeOK
  <2>2. ~draining /\ \A t \in Admins : pc[t] # "stamped"
    BY <1>1, <2>1 DEF Stamped, UpStamped, ClearsLowered, Late
  <2> QED
    BY <1>1, <1>2, <1>3, <2>1, <2>2 DEF Stamped, UpStamped, ClearsLowered, HealsSeen
<1> QED
  BY <1>4, <1>5, <1>6, <1>7, <1>8 DEF ReaderStep

(* Once it is not calm any more it never is again; until then the above     *)
(* holds.                                                                   *)
Inv == TypeOK /\ (calm => Stamped)

LEMMA InitInv == Init => Inv
BY InitType, InitStamped DEF Inv

LEMMA StepInv == Inv /\ [Next]_vars => Inv'
<1> SUFFICES ASSUME Inv, [Next]_vars, calm' PROVE Stamped'
  BY StepType DEF Inv
<1>1. TypeOK
  BY DEF Inv
<1>2. CASE UNCHANGED vars
  <2>1. Stamped
    BY <1>2 DEF Inv, vars
  <2> QED
    BY <1>2, <2>1 DEF vars, core, Stamped, UpStamped, ClearsLowered, HealsSeen, Late
<1>3. CASE Next
  <2>1. /\ Stamped
        /\ \A t \in Admins, u \in Threads : pc'[t] = "stamped" => ~Late(u)'
    BY <1>3 DEF Inv, Next, Overlap
  <2>2. CASE \E t \in Admins : AdminStep(t)
    BY <1>1, <2>1, <2>2, AdminStamped
  <2>3. CASE \E t \in Readers : ReaderStep(t)
    BY <1>1, <2>1, <2>3, ReaderStamped
  <2>4. CASE Tick
    <3>1. now' = now + 1 /\ UNCHANGED <<draining, startedAt, pc, seen>>
      BY <2>4 DEF Tick
    <3>2. \A t \in Readers : seen[t] \in Nat /\ now \in Nat /\ DrainMax \in Nat
      BY <1>1, DrainFlagAssumption DEF TypeOK
    <3>3. UpStamped' /\ ClearsLowered'
      BY <2>1, <3>1 DEF Stamped, UpStamped, ClearsLowered, Late
    <3>4. HealsSeen'
      BY <2>1, <3>1, <3>2 DEF Stamped, HealsSeen
    <3> QED
      BY <3>3, <3>4 DEF Stamped
  <2> QED
    BY <1>3, <2>2, <2>3, <2>4 DEF Next, Step
<1> QED
  BY <1>2, <1>3

-----------------------------------------------------------------------------
(* One admin, and at most one drain of its own. *)
OneGate(a) == Admins = {a} /\ MaxDrains \in {0, 1}

(* Then the flag comes up once: nobody but the admin moves before, and none *)
(* that moves later meets a drain().                                        *)
UpOnce(a) ==
    /\ pc[a] = "stamped" => /\ drains[a] = 1 /\ ~draining
                            /\ \A t \in Readers : pc[t] = "idle"
    /\ draining => drains[a] = 1
    /\ \A t \in Readers : pc[t] # "idle" => drains[a] = 1

LEMMA UpOnceIsCalm ==
    ASSUME NEW a, OneGate(a), TypeOK, UpOnce(a) PROVE ~Overlap
<1> SUFFICES ASSUME NEW t \in Admins, NEW u \in Threads, pc[t] = "stamped", Late(u)
             PROVE  FALSE
  BY DEF Overlap
<1>1. t = a /\ (u = a \/ u \in Readers)
  BY DEF OneGate, Threads
<1> QED
  BY <1>1 DEF Late, UpOnce

LEMMA InitUpOnce == ASSUME NEW a, OneGate(a), Init PROVE UpOnce(a)
BY DEF Init, UpOnce, OneGate, Threads

LEMMA StepUpOnce ==
    ASSUME NEW a, OneGate(a), TypeOK, UpOnce(a), [Next]_vars
    PROVE  UpOnce(a)'
<1>1. a \in Admins /\ a \in Threads /\ a \notin Readers /\ Readers \subseteq Threads
  BY DrainFlagAssumption DEF OneGate, Threads
<1>2. CASE AdminStep(a)
  <2>1. \A t \in Readers : pc'[t] = pc[t]
    BY <1>1, <1>2
    DEF AdminStep, DrainStamp, DrainRaise, ClearFlag, ClearStamp, Goto, TypeOK
  <2>2. CASE DrainStamp(a)
    <3>1. drains[a] = 0 /\ drains'[a] = 1 /\ draining' = draining
      BY <1>1, <2>2 DEF DrainStamp, BeginDrain, OneGate, TypeOK
    <3> QED
      BY <2>1, <3>1 DEF UpOnce
  <2>3. CASE DrainRaise(a) \/ ClearFlag(a) \/ ClearStamp(a)
    <3>1. /\ pc'[a] # "stamped" /\ drains' = drains
          /\ draining' => draining \/ pc[a] = "stamped"
      BY <1>1, <2>3 DEF DrainRaise, ClearFlag, ClearStamp, Goto, TypeOK
    <3> QED
      BY <2>1, <3>1 DEF UpOnce
  <2> QED
    BY <1>2, <2>2, <2>3 DEF AdminStep
<1>3. ASSUME NEW r \in Readers, ReaderStep(r) PROVE UpOnce(a)'
  <2>1. /\ \A t \in Threads : t # r => pc'[t] = pc[t]
        /\ draining' => draining
        /\ drains' = drains
        /\ pc[r] = "idle" => draining \/ pc'[r] = "idle"
    BY <1>1, <1>3
    DEF ReaderStep, ReadFlag, ReadStamp, Compare, HealFlag, HealStamp, Goto, TypeOK
  <2>2. pc'[a] = pc[a]
    BY <1>1, <1>3, <2>1
  <2>3. ASSUME pc[a] = "stamped" PROVE pc'[r] = "idle"
    <3>1. pc[r] = "idle"
      BY <1>3, <2>3 DEF UpOnce
    <3> QED
      BY <1>1, <1>3, <2>1, <2>3, <3>1 DEF UpOnce
  <2> QED
    BY <1>1, <1>3, <2>1, <2>2, <2>3 DEF UpOnce
<1>4. CASE Tick \/ UNCHANGED vars
  BY <1>4 DEF Tick, vars, core, UpOnce
<1> QED
  BY <1>2, <1>3, <1>4 DEF Next, Step, OneGate

-----------------------------------------------------------------------------
(* Every variable of the switch keeps to its values. *)
THEOREM TypeCorrect == Spec => []TypeOK
<1> QED
  BY InitType, StepType, PTL DEF Spec

LEMMA InvHolds == Spec => []Inv
<1> QED
  BY InitInv, StepInv, PTL DEF Spec

(* However many gates drain and clear and however many requests read and    *)
(* heal the switch, a raised drain has its start time until a late store    *)
(* has met a drain(): draining() can age it and the service cannot be       *)
(* wedged at 503.                                                           *)
THEOREM DrainIsStamped == Spec => []RaisedDrainIsStamped
<1>1. Inv => RaisedDrainIsStamped
  BY DEF Inv, Stamped, UpStamped, RaisedDrainIsStamped
<1> QED
  BY <1>1, InvHolds, PTL

(* The self-heal cuts no drain short of drain_max_seconds(), though the     *)
(* reader compares a stamp it loaded earlier with a clock that moves on.    *)
THEOREM HealsOld == Spec => HealsOnlyOldDrains
<1> DEFINE Old == \A t \in Readers : calm /\ HealFlag(t) /\ draining
                                        => now - startedAt >= DrainMax
<1>1. Inv => [Old]_vars
  BY DEF Inv, Stamped, HealsSeen, HealFlag, Goto
<1> QED
  BY <1>1, InvHolds, PTL DEF HealsOnlyOldDrains

(* One gate that drains once never meets a late store of its own or of a    *)
(* reader: no later call or heal can raise the flag again.                  *)
THEOREM OneGateIsCalm == ASSUME NEW a, OneGate(a) PROVE Spec => []calm
<1> DEFINE I == TypeOK /\ UpOnce(a) /\ calm
<1>1. Init => I
  BY InitType, InitUpOnce DEF Init
<1>2. I /\ [Next]_vars => I'
  <2> SUFFICES ASSUME I, [Next]_vars PROVE I'
    OBVIOUS
  <2>1. TypeOK' /\ UpOnce(a)'
    BY StepType, StepUpOnce
  <2>2. ~Overlap'
    BY <2>1, UpOnceIsCalm, PTL
  <2>3. calm'
    BY <2>2 DEF Next, vars
  <2> QED
    BY <2>1, <2>3
<1> QED
  BY <1>1, <1>2, PTL DEF Spec
=============================================================================
