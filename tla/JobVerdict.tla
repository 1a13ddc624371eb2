----------------------------- MODULE JobVerdict -----------------------------
(***************************************************************************)
(* What the avatar service promises of a job that it accepts, whichever    *)
(* process the stages run in: it is given one verdict, which stands, and   *)
(* it is not called cancelled unless somebody asked for that.  The request *)
(* must have been for this very job, with one exception: a retarget runs   *)
(* beside the job on the card and reads that job's token.                  *)
(*                                                                         *)
(* An abstract specification.  AvatarEngine, the process that owns the     *)
(* CUDA context, and AvatarServer, its CUDA-free parent, implement it.     *)
(***************************************************************************)
CONSTANT Jobs

VARIABLES state,     (* "none" until a job is accepted, "live" until it     *)
                     (* ends, and then its verdict                          *)
          retargets, (* the accepted jobs that use no card                  *)
          asked      (* the jobs that were to be cancelled                  *)

vars == <<state, retargets, asked>>

Verdicts == {"completed", "failed", "cancelled"}

Init ==
    /\ state = [j \in Jobs |-> "none"]
    /\ retargets = {}
    /\ asked = {}

Accept(j) ==
    /\ state[j] = "none"
    /\ state' = [state EXCEPT ![j] = "live"]
    /\ retargets' \in {retargets, retargets \cup {j}}
    /\ UNCHANGED asked

(* A client asks for one job, a forced unload for all of them.              *)
Ask ==
    /\ \E S \in SUBSET {j \in Jobs : state[j] = "live"} : asked' = asked \cup S
    /\ UNCHANGED <<state, retargets>>

MayCancel(j) ==
    \/ j \in asked
    \/ j \in retargets /\ asked \ retargets # {}

End(j) ==
    /\ state[j] = "live"
    /\ \E v \in Verdicts :
         /\ v = "cancelled" => MayCancel(j)
         /\ state' = [state EXCEPT ![j] = v]
    /\ UNCHANGED <<retargets, asked>>

Next == Ask \/ \E j \in Jobs : Accept(j) \/ End(j)

Spec == Init /\ [][Next]_vars
=============================================================================
