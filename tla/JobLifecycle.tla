---------------------------- MODULE JobLifecycle ----------------------------
(***************************************************************************)
(* What the asynchronous generation API promises of a job, whatever the    *)
(* threads behind it do: an accepted job waits its turn, at most one job   *)
(* is rendered at a time and in the order of acceptance, a job ends once,  *)
(* and only the record of an ended job is dropped, first to "expired"      *)
(* (410) and then to "unknown" (404).                                      *)
(*                                                                         *)
(* An abstract specification; JobManager is shown to implement it.         *)
(***************************************************************************)
EXTENDS Naturals, Sequences, SequencesExt

CONSTANTS Jobs,        (* the jobs clients may submit                       *)
          MaxPending   (* jobs that may wait or run at a time               *)

VARIABLES waiting,     (* accepted jobs, in the order of acceptance         *)
          running,     (* the jobs being rendered                           *)
          outcome,     (* how each job ended, "none" if it has not          *)
          record       (* what the API says of a job it is asked about      *)

vars == <<waiting, running, outcome, record>>

Outcomes == {"completed", "failed", "cancelled"}

Init ==
    /\ waiting = <<>>
    /\ running = {}
    /\ outcome = [j \in Jobs |-> "none"]
    /\ record = [j \in Jobs |-> "unknown"]

(* Housekeeping any step may do on the side: records of ended jobs age.     *)
Aged(j) ==
    CASE record[j] = "known" /\ outcome[j] # "none" -> {"known", "expired"}
      [] record[j] = "expired"                      -> {"expired", "unknown"}
      [] OTHER                                      -> {record[j]}

KeepRecords(S) == \A j \in S : record'[j] \in Aged(j)

(* The jobs that wait, and the one that runs.                               *)
Unended == Len(waiting) + IF running = {} THEN 0 ELSE 1

Accept(j) ==
    /\ record[j] = "unknown" /\ outcome[j] = "none"
    /\ Unended < MaxPending
    /\ waiting' = Append(waiting, j)
    /\ record'[j] = "known"
    /\ KeepRecords(Jobs \ {j})
    /\ UNCHANGED <<running, outcome>>

Start ==
    /\ waiting # <<>>
    /\ running = {}
    /\ running' = {Head(waiting)}
    /\ waiting' = Tail(waiting)
    /\ KeepRecords(Jobs)
    /\ UNCHANGED outcome

End ==
    /\ \E j \in running, o \in Outcomes :
         /\ outcome' = [outcome EXCEPT ![j] = o]
         /\ running' = running \ {j}
    /\ KeepRecords(Jobs)
    /\ UNCHANGED waiting

(* A job is cancelled before its turn ...                                   *)
Withdraw ==
    /\ \E i \in DOMAIN waiting :
         /\ waiting' = RemoveAt(waiting, i)
         /\ outcome' = [outcome EXCEPT ![waiting[i]] = "cancelled"]
    /\ KeepRecords(Jobs)
    /\ UNCHANGED running

(* ... or all that wait are.                                                *)
WithdrawAll ==
    /\ waiting # <<>> /\ waiting' = <<>>
    /\ outcome' = [j \in Jobs |-> IF j \in ToSet(waiting) THEN "cancelled"
                                                        ELSE outcome[j]]
    /\ KeepRecords(Jobs)
    /\ UNCHANGED running

Tidy ==
    /\ KeepRecords(Jobs)
    /\ UNCHANGED <<waiting, running, outcome>>

Next ==
    /\ record' \in [Jobs -> {"unknown", "known", "expired"}]
    /\ \/ \E j \in Jobs : Accept(j)
       \/ Start
       \/ End
       \/ Withdraw
       \/ WithdrawAll
       \/ Tidy

Spec == Init /\ [][Next]_vars
=============================================================================
