---------------------------- MODULE GraphExecutor ----------------------------
\* One run of a task graph: the graph as the loader accepts it
\* (taskgraph/schema.py), the plan that fuses the final choice into a node
\* (execution_plan.py), the nodes executed in order over an append-only store
\* (executor.py, store.py), and the answer taken from the final sources, or from
\* the images when the sources of a choice question cannot be used (runtime.py).
\*
\* A node is named by its position and an image by an element of Images: the
\* loader refuses two nodes of one name and gives the images names of their own.
EXTENDS OperatorOutcomes, Sequences, FiniteSets

CONSTANTS
  Images,       \* the images of the request, which are also the graph's inputs
  Ops,          \* the operators a graph may use
  Fallbacks,    \* the operators bound to a second provider
  Answers,      \* the answer types a graph may ask for
  Options,      \* what the options of a question may be
  Fusion,       \* final_vlm_choice_fusion.mode
  ForbidNonFeature, \* choice.forbid_non_feature_options
  MaxNodes,     \* bound: nodes of a graph
  MaxRoles,     \* bound: roles a node fills
  MaxRefs       \* bound: references of a role

Choice == {"CHOICE_SINGLE", "CHOICE_MULTI"}

ASSUME ConstantsAssumption ==
  /\ Images # {} /\ Images \cap Nat = {}
  /\ Ops \subseteq OperatorName /\ Fallbacks \subseteq Ops
  /\ Answers \subseteq Choice \cup {"FREE_FORM"}
  /\ Options \subseteq {"none", "features", "non_feature"}
  /\ Fusion \in {"auto", "off"} /\ ForbidNonFeature \in BOOLEAN
  /\ MaxNodes \in Nat /\ MaxRoles \in Nat /\ MaxRefs \in Nat

VARIABLES
  nodes,     \* the accepted nodes
  final,     \* the final sources, the answer type and the options
  phase,     \* "plan", "primary", "fallback", "final", "images", "answered", "failed"
  store,     \* the value of each reference that has one
  trace,     \* one record per node that was executed or failed
  cause,     \* why the run failed
  retained,  \* whether the error that ended the run carries the trace
  evidence   \* what the answer was asked of: "none", "sources" or "images"

vars == <<nodes, final, phase, store, trace, cause, retained, evidence>>

References(n) == UNION {n.inputs[role] : role \in DOMAIN n.inputs}

Known == Images \cup DOMAIN nodes

\* The roles of a node and the references it gives them, as far as the loader
\* checks them: every role set is one of the contract, every reference is an
\* image or a node before it, and only evidence takes a list.
NodeOf(op, roles) ==
  {[op |-> op, inputs |-> inputs] :
     inputs \in {f \in [roles -> (SUBSET Known) \ {{}}] :
                   \A role \in roles :
                     Cardinality(f[role]) <=
                       (IF AllowsList(op, role) THEN MaxRefs ELSE 1)}}

\* ExecutionPlan.build: the node that answers the question itself.
FusionOperators == Semantic

Consumers(i) == {j \in DOMAIN nodes : i \in References(nodes[j])}

\* Mutant: the plan does not count the consumers of the node.
FusedWithConsumers(i) ==
  /\ Fusion = "auto"
  /\ nodes[i].op \in FusionOperators
  /\ final.answer \in Choice
  /\ final.sources = {i}
  /\ final.options # "none"

Fused(i) ==
  /\ Fusion = "auto"
  /\ nodes[i].op \in FusionOperators
  /\ final.answer \in Choice
  /\ final.sources = {i}
  /\ Consumers(i) = {}
  /\ final.options # "none"

\* The node a run is at, and what the router gives it.
Pos == Len(trace) + 1
Node == nodes[Pos]
Received ==
  [role \in DOMAIN Node.inputs |->
     {Materialized(Node.op, role, store[x]) : x \in Node.inputs[role]}]

\* _materialize_select_inputs and validate_runtime_inputs raise.
Rejected ==
  \E role \in DOMAIN Node.inputs : \E x \in Node.inputs[role] :
    \/ Refuses(Node.op, role, store[x])
    \/ Materialized(Node.op, role, store[x]).type
         \notin InputContract(Node.op)[role]

Unavailable == ~(References(Node) \subseteq DOMAIN store)

\* What the provider of the node may return, and what the output contract lets
\* through. Without options the route path has nothing to score and raises.
Produced ==
  IF Node.op = "ROUTE_REASON" /\ final.options = "none" THEN {}
  ELSE Outputs(Node.op, Received, IF Fused(Pos) THEN final.answer ELSE "none")
Accepted == {v \in Produced : v.type \in OutputContract(Node.op, Fused(Pos))}

Failures ==
  {why \in {"provider", "output_contract"} :
     \/ why = "provider" /\ MayRaise(Node.op)
     \/ why = "output_contract" /\ Accepted # Produced}

\* Mutant: the value of a node is not stored.
PutNothing(v) == store

Put(v) == [x \in DOMAIN store \cup {Pos} |-> IF x = Pos THEN v ELSE store[x]]

Traced(failed) ==
  Append(trace, [op |-> Node.op, fused |-> Fused(Pos), failed |-> failed])

FailWith(why, carries) ==
  /\ phase' = "failed" /\ cause' = why /\ retained' = carries

Running == phase \in {"primary", "fallback"}

-----------------------------------------------------------------------------
Init ==
  /\ nodes = <<>>
  /\ final = [sources |-> {}, answer |-> "FREE_FORM", options |-> "none"]
  /\ phase = "plan"
  /\ store = [x \in Images |-> Plain("ImageRef")]
  /\ trace = <<>>
  /\ cause = "none" /\ retained = FALSE /\ evidence = "none"

\* The loader accepts one more node of the graph.
AddNode ==
  /\ phase = "plan" /\ Len(nodes) < MaxNodes
  /\ \E op \in Ops : \E roles \in RoleSets(op) :
       /\ Cardinality(roles) <= MaxRoles
       /\ \E n \in NodeOf(op, roles) : nodes' = Append(nodes, n)
  /\ UNCHANGED <<final, phase, store, trace, cause, retained, evidence>>

\* The final block is accepted, its sources being nodes, and the run starts.
Close ==
  /\ phase = "plan" /\ nodes # <<>>
  /\ \E sources \in (SUBSET DOMAIN nodes) \ {{}}, answer \in Answers,
        options \in Options :
       final' = [sources |-> sources, answer |-> answer, options |-> options]
  /\ phase' = "primary"
  /\ UNCHANGED <<nodes, store, trace, cause, retained, evidence>>

\* A node is refused before its provider is called. A reference without a value
\* raises outside the handler that keeps the trace.
RefuseNode ==
  /\ phase = "primary"
  /\ IF Unavailable
     THEN FailWith("missing_ref", FALSE) /\ UNCHANGED trace
     ELSE Rejected /\ FailWith("input_contract", TRUE) /\ trace' = Traced(TRUE)
  /\ UNCHANGED <<nodes, final, store, evidence>>

\* Mutant: the run ends before its last node.
ExecuteEarly ==
  /\ Running /\ ~Unavailable /\ ~Rejected
  /\ \E v \in Accepted : store' = Put(v)
  /\ trace' = Traced(FALSE)
  /\ phase' = IF Pos + 1 >= Len(nodes) THEN "final" ELSE "primary"
  /\ UNCHANGED <<nodes, final, cause, retained, evidence>>

\* The provider, or the fallback provider, returns a value the contract accepts.
Execute ==
  /\ Running /\ ~Unavailable /\ ~Rejected
  /\ \E v \in Accepted : store' = Put(v)
  /\ trace' = Traced(FALSE)
  /\ phase' = IF Pos = Len(nodes) THEN "final" ELSE "primary"
  /\ UNCHANGED <<nodes, final, cause, retained, evidence>>

\* The provider raises, or its value is refused, and there is a second one.
TryFallback ==
  /\ phase = "primary" /\ ~Unavailable /\ ~Rejected
  /\ Failures # {} /\ Node.op \in Fallbacks
  /\ phase' = "fallback"
  /\ UNCHANGED <<nodes, final, store, trace, cause, retained, evidence>>

FailNode ==
  /\ Running /\ ~Unavailable /\ ~Rejected
  /\ phase = "fallback" \/ Node.op \notin Fallbacks
  /\ \E why \in Failures : FailWith(why, TRUE)
  /\ trace' = Traced(TRUE)
  /\ UNCHANGED <<nodes, final, store, evidence>>

-----------------------------------------------------------------------------
\* The answer. A score computed by a node is used as it is when it is the only
\* source, was computed for the answer type of the graph and scores no option
\* that the resolver has removed.
ChoiceRequested == final.answer \in Choice

ScoreRefused ==
  \E s \in final.sources :
    /\ store[s].type = "ChoiceScoreResult"
    /\ \/ final.sources # {s}
       \/ store[s].payload # final.answer
       \/ /\ ForbidNonFeature /\ final.options = "non_feature"
          /\ final.answer = "CHOICE_SINGLE"

SoleScore ==
  \E s \in final.sources :
    final.sources = {s} /\ store[s].type = "ChoiceScoreResult"

SourcesRefused == \E s \in final.sources : Refuses("final", "sources", store[s])

\* What taking the answer from the sources may raise: a missing reference, the
\* refusal of a SELECT result, a ValueError, or another error of the model.
SourceErrors ==
  IF ~(final.sources \subseteq DOMAIN store) THEN {"missing_ref"}
  ELSE IF SourcesRefused THEN {"select"}
  ELSE IF ~ChoiceRequested THEN {}
  ELSE IF final.options = "none" \/ ScoreRefused THEN {"value"}
  ELSE IF SoleScore THEN {}
  ELSE {"value", "model"}

Answerable == SourceErrors \in {{}, {"value", "model"}}

\* Mutant: the refusal of a SELECT result is not among the tolerated errors.
TolerableValue == {"value"}

Tolerable == {"select", "value"}

AnswerFromSources ==
  /\ phase = "final" /\ Answerable
  /\ phase' = "answered" /\ evidence' = "sources"
  /\ UNCHANGED <<nodes, final, store, trace, cause, retained>>

FallBackToImages ==
  /\ phase = "final" /\ ChoiceRequested
  /\ SourceErrors \cap Tolerable # {}
  /\ phase' = "images" /\ evidence' = "images"
  /\ UNCHANGED <<nodes, final, store, trace, cause, retained>>

FailFinal ==
  /\ phase = "final"
  /\ \E why \in SourceErrors :
       /\ ~ChoiceRequested \/ why \notin Tolerable
       /\ FailWith(why, TRUE)
  /\ UNCHANGED <<nodes, final, store, trace, evidence>>

AnswerFromImages ==
  /\ phase = "images" /\ final.options # "none"
  /\ phase' = "answered"
  /\ UNCHANGED <<nodes, final, store, trace, cause, retained, evidence>>

\* An error of the second attempt leaves the handler without the trace.
FailImages ==
  /\ phase = "images"
  /\ \E why \in IF final.options = "none" THEN {"value"} ELSE {"value", "model"} :
       FailWith(why, FALSE)
  /\ UNCHANGED <<nodes, final, store, trace, evidence>>

Next ==
  \/ AddNode \/ Close
  \/ RefuseNode \/ Execute \/ TryFallback \/ FailNode
  \/ AnswerFromSources \/ FallBackToImages \/ FailFinal
  \/ AnswerFromImages \/ FailImages

Spec == Init /\ [][Next]_vars

-----------------------------------------------------------------------------
Ran == {i \in DOMAIN trace : ~trace[i].failed}

\* The type invariant. The store holds the images and exactly the nodes that
\* ran, and nothing is executed past the last node.
TypeOK ==
  /\ Len(nodes) <= MaxNodes /\ \A i \in DOMAIN nodes : nodes[i].op \in Ops
  /\ final.sources \subseteq DOMAIN nodes
  /\ final.answer \in Answers \cup {"FREE_FORM"}
  /\ final.options \in Options \cup {"none"}
  /\ phase \in {"plan", "primary", "fallback", "final", "images", "answered",
                "failed"}
  /\ store \in [Images \cup Ran -> RuntimeObject]
  /\ Len(trace) <= Len(nodes)
  /\ \A i \in DOMAIN trace :
       trace[i] \in [op : Ops, fused : BOOLEAN, failed : BOOLEAN]
  /\ cause \in {"none", "missing_ref", "input_contract", "provider",
                "output_contract", "select", "value", "model"}
  /\ retained \in BOOLEAN
  /\ evidence \in {"none", "sources", "images"}

\* No run of an accepted graph meets a reference without a value, neither in a
\* node nor in the final sources: such an error would leave no trace.
RefsAvailable == cause # "missing_ref"

\* A selection that could not be decided reaches no operator that ran, and no
\* answer is taken from one.
Undecided(x) == store[x].status \in {"UNRESOLVED", "ERROR"}

UnsafeNeverFlows ==
  /\ \A i \in Ran : \A x \in References(nodes[i]) : ~Undecided(x)
  /\ evidence = "sources" =>
       \A s \in final.sources : ~Undecided(s) /\ store[s].status = "OK"

\* The score by which a fused node replaces its ordinary output is read by no
\* other node: a node reads scores of the route path only.
OverrideUnobserved ==
  \A i \in Ran : \A x \in References(nodes[i]) :
    store[x].type = "ChoiceScoreResult" => nodes[x].op = "ROUTE_REASON"

\* A choice question whose nodes all ran is given up only by the choice model,
\* and never for what the final sources hold.
ChoiceSurvivesEvidence ==
  phase = "failed" /\ ChoiceRequested /\ Ran = DOMAIN nodes =>
    cause = "model" \/ evidence = "images"

\* A run evaluates the graph as DagRun promises.
Deps == [i \in DOMAIN nodes |-> References(nodes[i]) \ Images]
Result == IF phase \in {"answered", "failed"} THEN phase ELSE "none"

Dag == INSTANCE DagRun WITH deps <- Deps, valued <- Ran, result <- Result
DagSpec == Dag!Spec

\* An empty selection by itself fails no attribute, class or relation: the router
\* lets it in, and what the operator then answers is accepted.
EmptySelectionTolerated ==
  cause \in {"input_contract", "output_contract"} =>
    LET n == nodes[Len(trace)]
    IN n.op \in {"ATTRIBUTE", "CLASSIFY", "MULTILABEL_CLASSIFY", "RELATION"} =>
         \E x \in References(n) :
           ~(store[x].type = "SelectResult" /\ store[x].status = "EMPTY")
=============================================================================
