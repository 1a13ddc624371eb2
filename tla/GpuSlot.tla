------------------------------ MODULE GpuSlot ------------------------------
(***************************************************************************)
(* What the supervisor promises of the card that its generation requests   *)
(* share: one process at a time has it, started for a request and for the  *)
(* variant of that request; work goes to a process that serves its         *)
(* variant; the process changes its variant only while it has no work; and *)
(* when it stops, its work stops with it, and nobody else's.               *)
(*                                                                         *)
(* An abstract specification; WorkerSupervisor is shown to implement it.   *)
(* VariantResidency relies on it: there a request is routed in one step,   *)
(* and only an idle child is given another variant.                        *)
(***************************************************************************)
CONSTANTS Requests, Processes, Variants

VARIABLES resident, (* the processes that run, each with what it serves     *)
          work,     (* the requests they have, each with what it is due     *)
          placing   (* the request for which the card is being arranged     *)

vars == <<resident, work, placing>>

Init == resident = {} /\ work = {} /\ placing = {}

(* A request comes to be placed, or its turn is over.                       *)
Place ==
    /\ \/ placing = {} /\ \E r \in Requests : placing' = {r}
       \/ placing' = {}
    /\ UNCHANGED <<resident, work>>

Start ==
    /\ resident = {} /\ placing # {}
    /\ \E c \in Processes \X Variants : resident' = {c}
    /\ UNCHANGED <<work, placing>>

(* The process gets the request that it was started for, or that found it   *)
(* at hand.                                                                 *)
Give ==
    /\ \E c \in resident, r \in Requests :
         /\ placing \in {{}, {r}}
         /\ work' = work \cup {<<r, c[2]>>}
    /\ placing' = {}
    /\ UNCHANGED resident

(* The process serves another variant, and has the request that needs it.   *)
Swap ==
    /\ work = {}
    /\ \E c \in resident, v \in Variants, r \in placing :
         /\ resident' = {<<c[1], v>>}
         /\ work' = {<<r, v>>}
    /\ placing' = {}

End ==
    /\ \E w \in work : work' = work \ {w}
    /\ UNCHANGED <<resident, placing>>

(* A crash, a kill by request or a kill to make room: the turn of the       *)
(* request it is killed for may end with it.                                *)
Stop ==
    /\ resident # {} /\ resident' = {}
    /\ work' = {}
    /\ placing' \in {placing, {}}

Next == Place \/ Start \/ Give \/ Swap \/ End \/ Stop

Spec == Init /\ [][Next]_vars
=============================================================================
