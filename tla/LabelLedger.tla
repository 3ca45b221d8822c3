----------------------------- MODULE LabelLedger -----------------------------
(***************************************************************************)
(* What taskgraph_lab/generation promises about its output files: a sample *)
(* is recorded once, as generated or as failed, a generated sample may get *)
(* one label after that, neither is ever taken back, repeated or replaced, *)
(* and a run that says it is finished leaves no sample open, however often *)
(* the command is interrupted, killed and run again.                       *)
(***************************************************************************)
CONSTANT Samples
VARIABLES entry, finished

ledger == <<entry, finished>>

Labels == {"valid", "repaired", "rejected"}
Failures == {"api_failed", "processing_failed"}

Init == entry = [s \in Samples |-> "open"] /\ finished = FALSE

\* The sample's row of the raw output.
Record(s) ==
    /\ ~finished
    /\ entry[s] = "open"
    /\ \E status \in Failures \cup {"generated"} : entry' = [entry EXCEPT ![s] = status]
    /\ UNCHANGED finished

\* The sample's row of one of the three label files.
Label(s) ==
    /\ ~finished
    /\ entry[s] = "generated"
    /\ \E label \in Labels : entry' = [entry EXCEPT ![s] = label]
    /\ UNCHANGED finished

\* A run ends with its report.
Finish ==
    /\ ~finished
    /\ \A s \in Samples : entry[s] # "open"
    /\ finished' = TRUE
    /\ UNCHANGED entry

\* Another run.
Reopen == finished /\ finished' = FALSE /\ UNCHANGED entry

Next == Finish \/ Reopen \/ \E s \in Samples : Record(s) \/ Label(s)

Spec == Init /\ [][Next]_ledger
=============================================================================
