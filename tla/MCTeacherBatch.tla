--------------------------- MODULE MCTeacherBatch ---------------------------
(* Small instances of TeacherBatch for TLC. *)
EXTENDS TeacherBatch

\* The first three samples share a request; with the last one, they need two.
MCCost == [s \in 1 .. 4 |-> IF s = 4 THEN 2 ELSE 1]
=============================================================================
