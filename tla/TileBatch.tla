------------------------------- MODULE TileBatch -------------------------------
(***************************************************************************)
(* What a tiled prediction promises: no tile of the image is predicted     *)
(* twice, the call returns only when all of them have been predicted, and  *)
(* it raises otherwise.  How tiles are prepared, by which lane each is     *)
(* predicted and when their files disappear are stuttering steps.          *)
(***************************************************************************)
EXTENDS Naturals

CONSTANT Tiles       \* the indices of the tiles

VARIABLES answers,   \* the predictions, as pairs <<place, tile>>
          outcome    \* "running", "returned" or "raised"

Init ==
    /\ answers = {}
    /\ outcome = "running"

\* One more tile is predicted, and it was not before.
PredictTile ==
    /\ outcome = "running"
    /\ \E new \in answers' :
          /\ answers' = answers \cup {new}
          /\ new[2] \in Tiles
          /\ \A old \in answers : old[2] # new[2]
    /\ UNCHANGED outcome

Return ==
    /\ outcome = "running"
    /\ \A t \in Tiles : \E a \in answers : a[2] = t
    /\ outcome' = "returned"
    /\ UNCHANGED answers

Raise ==
    /\ outcome = "running"
    /\ outcome' = "raised"
    /\ UNCHANGED answers

Next == PredictTile \/ Return \/ Raise

Spec == Init /\ [][Next]_<<answers, outcome>>
===============================================================================
