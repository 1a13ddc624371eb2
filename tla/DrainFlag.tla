------------------------------ MODULE DrainFlag ------------------------------
(***************************************************************************)
(* The drain switch of the parent process: two independent atomics,        *)
(* draining_ and drain_started_at_, written by drain(), reopen() and       *)
(* unload() and both read and written by draining(), which lowers an       *)
(* abandoned drain by itself (examples/server/worker_supervisor.cpp).      *)
(*                                                                         *)
(* No lock covers the pair, so every load and store is a step of its own.  *)
(***************************************************************************)
EXTENDS Naturals

CONSTANTS Admins,     (* threads that serve /v1/admin/{drain,load,unload}   *)
          Readers,    (* threads that serve proxied requests and /health    *)
          Calls,      (* the switch operations the admins issue             *)
          MaxCalls,   (* bound: calls per admin                             *)
          MaxDrains,  (* bound: the drains among them                       *)
          DrainMax,   (* drain_max_seconds(), in clock ticks                *)
          Horizon     (* bound: the last clock value                        *)

ASSUME DrainFlagAssumption ==
    /\ Admins \cap Readers = {}
    /\ Calls \subseteq {"drain", "clear"}
    /\ MaxCalls \in Nat /\ MaxDrains \in Nat
    /\ DrainMax \in Nat \ {0}
    /\ Horizon \in Nat /\ Horizon > DrainMax

VARIABLES draining,   (* the atomic draining_                               *)
          startedAt,  (* the atomic drain_started_at_; 0 is "not draining"  *)
          now,        (* time(nullptr)                                      *)
          pc,         (* where each thread is                               *)
          seen,       (* draining()'s local `started`                       *)
          calls,      (* calls each admin has issued                        *)
          drains,     (* and the drains among them                          *)
          calm        (* history: no late store has met a drain so far      *)

core == <<draining, startedAt, now, pc, seen, calls, drains>>
vars == <<core, calm>>

Threads == Admins \cup Readers

Init ==
    /\ draining = FALSE
    /\ startedAt = 0
    /\ now = 1
    /\ pc = [t \in Threads |-> "idle"]
    /\ seen = [t \in Readers |-> 0]
    /\ calls = [t \in Admins |-> 0]
    /\ drains = [t \in Admins |-> 0]
    /\ calm = TRUE

Goto(t, from, to) ==
    /\ pc[t] = from
    /\ pc' = [pc EXCEPT ![t] = to]

(* An admin that still has DrainMax ticks ahead of it takes its next call. *)
Begin(t) ==
    /\ calls[t] < MaxCalls
    /\ now + DrainMax <= Horizon
    /\ calls' = [calls EXCEPT ![t] = @ + 1]

BeginDrain(t) ==
    /\ "drain" \in Calls
    /\ drains[t] < MaxDrains
    /\ drains' = [drains EXCEPT ![t] = @ + 1]
    /\ Begin(t)

-----------------------------------------------------------------------------
(* Slip: drain() forgets the stamp. *)
BugNoStamp(t) ==
    /\ BeginDrain(t)
    /\ Goto(t, "idle", "stamped")
    /\ UNCHANGED <<draining, startedAt, now, seen>>

(* drain(): the stamp first, the flag second. *)
DrainStamp(t) ==
    /\ BeginDrain(t)
    /\ Goto(t, "idle", "stamped")
    /\ startedAt' = now
    /\ UNCHANGED <<draining, now, seen>>

DrainRaise(t) ==
    /\ Goto(t, "stamped", "idle")
    /\ draining' = TRUE
    /\ UNCHANGED <<startedAt, now, seen, calls, drains>>

(* Slip: reopen() clears the stamp first. *)
BugStampFirst(t) ==
    /\ "clear" \in Calls
    /\ Begin(t)
    /\ Goto(t, "idle", "lowered")
    /\ startedAt' = 0
    /\ UNCHANGED <<draining, now, seen, drains>>

(* reopen(), and the tail of unload(): the flag first, the stamp second. *)
ClearFlag(t) ==
    /\ "clear" \in Calls
    /\ Begin(t)
    /\ Goto(t, "idle", "lowered")
    /\ draining' = FALSE
    /\ UNCHANGED <<startedAt, now, seen, drains>>

ClearStamp(t) ==
    /\ Goto(t, "lowered", "idle")
    /\ startedAt' = 0
    /\ UNCHANGED <<draining, now, seen, calls, drains>>

-----------------------------------------------------------------------------
(* draining(): load the flag, load the stamp, compare with the clock, and  *)
(* lower a drain that is too old. *)
ReadFlag(t) ==
    /\ Goto(t, "idle", IF draining THEN "flag_seen" ELSE "idle")
    /\ UNCHANGED <<draining, startedAt, now, seen, calls, drains>>

ReadStamp(t) ==
    /\ Goto(t, "flag_seen", "stamp_seen")
    /\ seen' = [seen EXCEPT ![t] = startedAt]
    /\ UNCHANGED <<draining, startedAt, now, calls, drains>>

(* Slip: any stamp counts as too old. *)
BugAlwaysExpired(t) == seen[t] > 0

(* Slip: no drain is ever too old. *)
BugNeverExpired(t) == seen[t] > 0 /\ now - seen[t] > Horizon

Expired(t) == seen[t] > 0 /\ now - seen[t] >= DrainMax

Compare(t) ==
    /\ Goto(t, "stamp_seen", IF Expired(t) THEN "healing" ELSE "idle")
    /\ UNCHANGED <<draining, startedAt, now, seen, calls, drains>>

HealFlag(t) ==
    /\ Goto(t, "healing", "healed")
    /\ draining' = FALSE
    /\ UNCHANGED <<startedAt, now, seen, calls, drains>>

HealStamp(t) ==
    /\ Goto(t, "healed", "idle")
    /\ startedAt' = 0
    /\ UNCHANGED <<draining, now, seen, calls, drains>>

Tick ==
    /\ now < Horizon
    /\ now' = now + 1
    /\ UNCHANGED <<draining, startedAt, pc, seen, calls, drains>>

-----------------------------------------------------------------------------
AdminStep(t) == DrainStamp(t) \/ DrainRaise(t) \/ ClearFlag(t) \/ ClearStamp(t)

ReaderStep(t) ==
    ReadFlag(t) \/ ReadStamp(t) \/ Compare(t) \/ HealFlag(t) \/ HealStamp(t)

Step ==
    \/ \E t \in Admins : AdminStep(t)
    \/ \E t \in Readers : ReaderStep(t)
    \/ Tick

(* A thread that is still to lower the flag, or to clear the stamp, on      *)
(* behalf of an earlier drain: it has lowered the flag, or it has found a   *)
(* stamp too old, or it holds a stamp that is no longer the current one.    *)
Late(u) ==
    \/ pc[u] \in {"lowered", "healing", "healed"}
    \/ u \in Readers /\ pc[u] = "stamp_seen" /\ seen[u] \notin {0, startedAt}

(* ... while drain() is between its two stores.                             *)
Overlap == \E t \in Admins, u \in Threads : pc[t] = "stamped" /\ Late(u)

Next == Step /\ calm' = (calm /\ ~Overlap')

(* A thread inside a call finishes it; requests keep arriving (the gate     *)
(* polls /health, whose handler calls draining()); the clock advances.  No  *)
(* admin is obliged to call anything.                                       *)
Fairness ==
    /\ \A t \in Admins : WF_core(DrainRaise(t)) /\ WF_core(ClearStamp(t))
    /\ \A t \in Readers : WF_core(ReaderStep(t))
    /\ WF_core(Tick)

Spec == Init /\ [][Next]_vars /\ Fairness

-----------------------------------------------------------------------------
(* Every variable keeps to its values.                                      *)
TypeOK ==
    /\ draining \in BOOLEAN
    /\ startedAt \in 0..Horizon
    /\ now \in 1..Horizon
    /\ pc \in [Threads -> {"idle", "stamped", "lowered", "flag_seen",
                           "stamp_seen", "healing", "healed"}]
    /\ seen \in [Readers -> 0..Horizon]
    /\ calls \in [Admins -> 0..MaxCalls]
    /\ drains \in [Admins -> 0..MaxDrains]
    /\ calm \in BOOLEAN

(* A raised flag carries its start time, so that draining() can age it:     *)
(* a raised flag without one would never be lowered by the self-heal, and   *)
(* the service would answer 503 to every generation until somebody calls    *)
(* /v1/admin/load (the wedge the comment above drain_max_seconds() is       *)
(* about). It takes a late store inside a drain() to lose the stamp.        *)
RaisedDrainIsStamped == calm /\ draining => startedAt > 0

(* The self-heal lowers only a drain that has been up for drain_max_seconds *)
(* ("a legitimately slow handover is never cut short"): the flag a reader   *)
(* lowers is not one an admin raised a moment ago.                          *)
HealsOnlyOldDrains ==
    [][\A t \in Readers : calm /\ HealFlag(t) /\ draining
                              => now - startedAt >= DrainMax]_vars

(* A drain nobody follows up (the gate died) does not last: the flag comes  *)
(* down by itself, however often other gates drain and clear in between.    *)
AbandonedDrainHeals == calm /\ draining ~> ~calm \/ ~draining
=============================================================================
