---------------------------- MODULE MCMergerSweep ----------------------------
(* Small instances of MergerSweep for TLC. *)
EXTENDS MergerSweep

\* A candidate the guards reject and one they accept: the first accepted one is selected.
MCScores == {0, 1}
=============================================================================
