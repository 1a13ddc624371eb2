------------------------- MODULE MCWorkerSupervisor -------------------------
(* WorkerSupervisor on small sets; the requests and polls are symmetric     *)
(* (no expression distinguishes two of them).                               *)
EXTENDS WorkerSupervisor, TLC

RequestSymmetry == Permutations(Requests)
=============================================================================
