------------------------- MODULE MCTeacherGeneration -------------------------
(* Small instances of TeacherGeneration for TLC. *)
EXTENDS TeacherGeneration

\* One thread with every option, two threads without review, an input with a bad line.
MCSettings ==
    {[concurrency |-> 1, repair |-> TRUE, review |-> TRUE, bad |-> 0],
     [concurrency |-> 2, repair |-> FALSE, review |-> FALSE, bad |-> 0],
     [concurrency |-> 1, repair |-> FALSE, review |-> FALSE, bad |-> 2]}
=============================================================================
