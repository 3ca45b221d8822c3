--------------------------- MODULE GraphContracts ---------------------------
\* The input and output contracts of the operators (taskgraph/contracts.py) and
\* the policy by which each input role consumes a SELECT result
\* (CapabilityRouter in taskgraph/executor.py).
EXTENDS RuntimeTypes

OperatorName ==
  {"REGION", "REGION_FROM_BBOX", "FIND_MARKER", "LOCATE", "SELECT", "GROUP",
   "COUNT", "ATTRIBUTE", "CLASSIFY", "MULTILABEL_CLASSIFY", "MOTION",
   "RELATION", "ABS_DIFF", "VLM_REASON", "BUILD_ROUTE_CONTEXT",
   "ROUTE_REASON", "MATCH_CHOICE"}

VisualScope == {"ImageRef", "Region"}
EntityOrRegion == {"Entity", "EntitySet", "Region"}

\* The roles of an operator, each with the classes it accepts.
InputContract(op) ==
  LET selected == EntityOrRegion \cup {"SelectResult"}
      pictured == {"ImageRef", "Region", "RegionSet", "Entity", "SelectResult"}
      moving == selected \cup {"ImageRef"}
  IN CASE op = "SELECT" ->
            [candidates |-> {"EntitySet", "Region", "RegionSet", "SelectResult"},
             reference |-> selected \cup {"RegionSet"},
             scope |-> VisualScope \cup {"SelectResult"}]
       [] op = "GROUP" -> [entities |-> {"EntitySet", "SelectResult"}]
       [] op = "COUNT" ->
            [image |-> VisualScope \cup {"RegionSet"},
             entities |-> {"EntitySet", "SelectResult"}]
       [] op = "ATTRIBUTE" -> [entity |-> selected]
       [] op \in {"CLASSIFY", "MULTILABEL_CLASSIFY"} -> [source |-> pictured]
       [] op = "MOTION" ->
            [source |-> moving, before |-> moving, after |-> moving]
       [] op = "RELATION" ->
            [subject |-> selected \cup {"RegionSet"},
             reference |-> selected \cup {"RegionSet"}]
       [] op = "ABS_DIFF" -> [a |-> {"ScalarInt"}, b |-> {"ScalarInt"}]
       [] op = "VLM_REASON" -> [image |-> VisualScope, evidence |-> RuntimeType]
       [] op = "BUILD_ROUTE_CONTEXT" ->
            [image |-> VisualScope, start |-> selected, goal |-> selected]
       [] op = "ROUTE_REASON" -> [context |-> {"RouteContext"}]
       [] op = "MATCH_CHOICE" ->
            [value |-> {"ScalarInt", "Boolean", "Label", "LabelSet", "Answer",
                        "ChoiceScoreResult"}]
       [] OTHER -> [image |-> VisualScope]

\* The sets of roles a node of the operator may fill.
RoleSets(op) ==
  CASE op = "SELECT" ->
         {{"candidates"} \cup more : more \in SUBSET {"reference", "scope"}}
    [] op = "COUNT" -> {{"image"}, {"entities"}}
    [] op = "MOTION" -> {{"source"}, {"before", "after"}}
    [] op = "VLM_REASON" -> (SUBSET {"image", "evidence"}) \ {{}}
    [] OTHER -> {DOMAIN InputContract(op)}

AllowsList(op, role) == op = "VLM_REASON" /\ role = "evidence"

-----------------------------------------------------------------------------
\* The roles with a SELECT policy, and what the policy of each lets through.
\* <<"final", "sources">> is the policy of the final sources.

VisualRoles ==
  {<<"REGION", "image">>, <<"REGION_FROM_BBOX", "image">>,
   <<"FIND_MARKER", "image">>, <<"LOCATE", "image">>, <<"COUNT", "image">>,
   <<"VLM_REASON", "image">>, <<"BUILD_ROUTE_CONTEXT", "image">>,
   <<"SELECT", "scope">>, <<"MOTION", "source">>, <<"MOTION", "before">>,
   <<"MOTION", "after">>}

SemanticRoles ==
  {<<"ATTRIBUTE", "entity">>, <<"CLASSIFY", "source">>,
   <<"MULTILABEL_CLASSIFY", "source">>}

RelationRoles == {<<"RELATION", "subject">>, <<"RELATION", "reference">>}

AllowEmpty ==
  SemanticRoles \cup RelationRoles \cup
  {<<"SELECT", "candidates">>, <<"GROUP", "entities">>, <<"COUNT", "entities">>}

AllowAmbiguous ==
  RelationRoles \cup
  {<<"SELECT", "reference">>, <<"BUILD_ROUTE_CONTEXT", "start">>,
   <<"BUILD_ROUTE_CONTEXT", "goal">>}

RequireSingle == VisualRoles \cup SemanticRoles

\* Mutant: the evidence of VLM_REASON has no policy.
GuardedWithoutEvidence ==
  AllowEmpty \cup AllowAmbiguous \cup RequireSingle \cup {<<"final", "sources">>}

Guarded ==
  AllowEmpty \cup AllowAmbiguous \cup RequireSingle \cup
  {<<"VLM_REASON", "evidence">>, <<"final", "sources">>}

Policy(op, role) ==
  [empty |-> <<op, role>> \in AllowEmpty,
   single |-> <<op, role>> \in RequireSingle,
   ambiguous |-> <<op, role>> \in AllowAmbiguous]

\* _materialize_select_inputs for one value.
Refuses(op, role, v) ==
  <<op, role>> \in Guarded /\ Refused(v, Policy(op, role))

Materialized(op, role, v) ==
  IF <<op, role>> \in Guarded THEN Unwrapped(v, Policy(op, role)) ELSE v

-----------------------------------------------------------------------------
\* validate_runtime_output: the classes an operator may produce. The operators
\* without an entry are not restricted.
OutputContract(op, fused) ==
  LET normal ==
        CASE op \in {"ATTRIBUTE", "CLASSIFY", "RELATION"} -> {"Label"}
          [] op = "MULTILABEL_CLASSIFY" -> {"LabelSet"}
          [] op = "MOTION" -> {"Boolean"}
          [] op \in {"VLM_REASON", "MATCH_CHOICE"} -> {"Answer"}
          [] op = "ROUTE_REASON" -> {"ChoiceScoreResult"}
          [] OTHER -> RuntimeType
  IN IF fused /\ normal # RuntimeType THEN {"ChoiceScoreResult"} ELSE normal
=============================================================================
