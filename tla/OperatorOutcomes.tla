-------------------------- MODULE OperatorOutcomes --------------------------
\* What the operators may return for the inputs they receive
\* (taskgraph/operators.py). The detectors, the language model and the geometry
\* of the image decide between the members of these sets.
EXTENDS GraphContracts

\* SelectExecutor.execute on materialized candidates: an empty candidate set
\* gives EMPTY; otherwise the selection is decided, tied or found undecidable.
\* Images that differ (UNRESOLVED) and candidate ids that are not unique (ERROR)
\* are reported for any candidates.
SetTypeOf(c) == IF c.type = "EntitySet" THEN "EntitySet" ELSE "RegionSet"

Selections(c) ==
  LET undecided == {SelectResult(SetTypeOf(c), 0, s) : s \in {"UNRESOLVED", "ERROR"}}
      empty == {SelectResult(SetTypeOf(c), 0, "EMPTY")}
      decided == {SelectResult(c.type, n, "OK") : n \in 1..c.size}
      tied == {SelectResult(c.type, n, "AMBIGUOUS") : n \in 2..c.size}
      subregion == {SelectResult("Region", 1, "OK")}
  IN undecided \cup empty \cup
     IF EmptySet(c) THEN {} ELSE decided \cup tied \cup subregion

\* SemanticExecutor: a fused node scores the options of the question; a node
\* whose visual evidence is empty answers in free text, which is a Label for
\* two of the operators and an Answer for the others.
EmptyEvidence(received) ==
  \E role \in DOMAIN received : \E v \in received[role] : EmptySet(v)

FreeText(op) ==
  Plain(IF op \in {"ATTRIBUTE", "CLASSIFY"} THEN "Label" ELSE "Answer")

Perceptive ==
  {"ATTRIBUTE", "CLASSIFY", "MULTILABEL_CLASSIFY", "RELATION", "MOTION"}

Decision(op) ==
  CASE op = "MOTION" -> Plain("Boolean")
    [] op = "MULTILABEL_CLASSIFY" -> Plain("LabelSet")
    [] op \in {"ATTRIBUTE", "CLASSIFY", "RELATION"} -> Plain("Label")
    [] OTHER -> FreeText(op)

Semantic == Perceptive \cup {"VLM_REASON", "ROUTE_REASON", "MATCH_CHOICE"}

\* The values a node may return. answer is the answer type of a fused node and
\* "none" for any other node; the frozen route path always scores one choice.
Outputs(op, received, answer) ==
  CASE op \in {"REGION", "REGION_FROM_BBOX"} -> {Plain("Region")}
    [] op = "FIND_MARKER" -> {SetOf("RegionSet", n) : n \in 0..2}
    [] op = "LOCATE" -> {SetOf("EntitySet", n) : n \in 0..2}
    [] op = "SELECT" -> UNION {Selections(c) : c \in received.candidates}
    [] op = "GROUP" -> received.entities
    [] op \in {"COUNT", "ABS_DIFF"} -> {Plain("ScalarInt")}
    [] op = "BUILD_ROUTE_CONTEXT" ->
         IF EmptyEvidence(received) THEN {} ELSE {Plain("RouteContext")}
    [] op \in Semantic ->
         IF answer # "none" THEN {Score(answer)}
         ELSE IF op = "ROUTE_REASON" THEN {Score("CHOICE_SINGLE")}
         ELSE IF op \in Perceptive /\ EmptyEvidence(received) THEN {FreeText(op)}
         ELSE {Decision(op)}

\* Whether a call may raise: all but grouping and subtraction read images or
\* call a model.
MayRaise(op) == op \notin {"GROUP", "ABS_DIFF"}
=============================================================================
