---------------------------- MODULE MCGpuSharing ----------------------------
EXTENDS GpuSharing, TLC

(* Jobs are interchangeable: the queue orders them, their names do not.     *)
Symmetry == Permutations(Jobs)
=============================================================================
