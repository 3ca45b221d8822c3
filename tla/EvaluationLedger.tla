--------------------------- MODULE EvaluationLedger ---------------------------
(***************************************************************************)
(* What run_taskgraph_evaluation promises about the finished samples,      *)
(* whatever its process does in between: a success, once a line of the     *)
(* output file, stays that line, and its sample is not finished a second   *)
(* time.  Failed attempts, crashes and restarts are stuttering steps.      *)
(***************************************************************************)
EXTENDS Naturals

CONSTANT Ids     \* the sample ids of the dataset

VARIABLE ledger  \* the success rows, as pairs <<line number, id>>

Init == ledger = {}

\* One sample is finished, on a line after every earlier success and not for
\* the second time; the earlier successes stay.
Complete ==
    /\ ledger \subseteq ledger'
    /\ \A new \in ledger' \ ledger :
          /\ new[2] \in Ids
          /\ ledger' = ledger \cup {new}
          /\ \A old \in ledger : old[1] < new[1] /\ old[2] # new[2]

Spec == Init /\ [][Complete]_ledger
===============================================================================
