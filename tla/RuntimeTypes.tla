---------------------------- MODULE RuntimeTypes ----------------------------
\* The typed values of a graph run (taskgraph/runtime_types.py), reduced to
\* what the consumers of a value look at: its class, for a set how many members
\* it has (2 stands for any number above one), and for a SELECT result its
\* status and the class of what was selected. ScalarFloat, Evidence and
\* EvidenceSet are left out: no operator produces them.
EXTENDS Naturals

SelectStatus == {"OK", "EMPTY", "AMBIGUOUS", "UNRESOLVED", "ERROR"}

SetTypes == {"EntitySet", "RegionSet"}

RuntimeType ==
  SetTypes \cup
  {"ImageRef", "Region", "Entity", "SelectResult", "ScalarInt", "Boolean",
   "Label", "LabelSet", "RouteContext", "Answer", "ChoiceScoreResult"}

\* For a score the payload is the answer type it was computed for.
Payload == RuntimeType \cup {"CHOICE_SINGLE", "CHOICE_MULTI"}

RuntimeObject ==
  [type : RuntimeType, payload : Payload, size : 0..2, status : SelectStatus]

Plain(t) == [type |-> t, payload |-> t, size |-> 1, status |-> "OK"]
SetOf(t, n) == [type |-> t, payload |-> t, size |-> n, status |-> "OK"]
SelectResult(t, n, s) ==
  [type |-> "SelectResult", payload |-> t, size |-> n, status |-> s]
Score(answer) ==
  [type |-> "ChoiceScoreResult", payload |-> answer, size |-> 1, status |-> "OK"]

EmptySet(v) == v.type \in SetTypes /\ v.size = 0

\* unwrap_select_result: what it raises for, and what it returns otherwise.
\* A policy says whether an empty selection, a tied one, and one of more than a
\* single object may be consumed.
Refused(v, policy) ==
  /\ v.type = "SelectResult"
  /\ \/ v.status \in {"UNRESOLVED", "ERROR"}
     \/ v.status = "EMPTY" /\ ~policy.empty
     \/ v.status = "AMBIGUOUS" /\ ~policy.ambiguous
     \/ /\ v.status # "EMPTY"
        /\ policy.single
        /\ v.payload \in SetTypes
        /\ v.size # 1

Member(t) == IF t = "EntitySet" THEN "Entity" ELSE "Region"

Unwrapped(v, policy) ==
  IF v.type # "SelectResult" THEN v
  ELSE IF policy.single /\ v.status # "EMPTY" THEN Plain(Member(v.payload))
  ELSE SetOf(v.payload, v.size)
=============================================================================
