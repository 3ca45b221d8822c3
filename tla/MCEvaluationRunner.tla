-------------------------- MODULE MCEvaluationRunner --------------------------
(* TLC instance of EvaluationRunner: two or three samples, evaluated in an   *)
(* order that is not the registry's.                                         *)
EXTENDS EvaluationRunner

MCDataset == <<2, 1>>
MCDatasetOfThree == <<2, 3, 1>>
MCRoute == [q \in Ids |-> IF q = 2 THEN "TASKGRAPH_UHR" ELSE "DIRECT_VLM"]
===============================================================================
