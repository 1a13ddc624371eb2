--------------------------- MODULE MCAvatarServer ---------------------------
EXTENDS AvatarServer, TLC

CONSTANTS rig, retarget, c1, c2

(* A rig that names the second card or leaves the choice to the server, and *)
(* a retarget that names none.                                              *)
MCJobs == {rig, retarget}
MCHeavy == {rig}
MCRetargets == {retarget}
MCWants == (rig :> {NoCard, c2}) @@ (retarget :> {NoCard})
=============================================================================
