---------------------------- MODULE MCDrainFlag ----------------------------
(* DrainFlag on small sets of threads: the .cfg files give the values.     *)
EXTENDS DrainFlag
=============================================================================
