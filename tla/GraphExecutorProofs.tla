------------------------ MODULE GraphExecutorProofs ------------------------
(***************************************************************************)
(* Theorems about GraphExecutor, for every set of images, operators and    *)
(* fallbacks, every kind of question and graphs of any size.               *)
(***************************************************************************)
EXTENDS GraphExecutor, SequenceTheorems, TLAPS

\* What an operator may select, and the values a store can hold: only a SELECT
\* result has a status other than OK, and it holds one of the selectable classes.
Selectable == SetTypes \cup {"Region"}

Sound(v) ==
  /\ v \in RuntimeObject
  /\ v.type = "SelectResult" => v.payload \in Selectable
  /\ v.type # "SelectResult" => v.status = "OK"

AcceptedBy(op, role, v) ==
  /\ ~Refuses(op, role, v)
  /\ Materialized(op, role, v).type \in InputContract(op)[role]

-----------------------------------------------------------------------------
LEMMA PlainSound ==
  ASSUME NEW t \in RuntimeType \ {"SelectResult"}
  PROVE  Sound(Plain(t)) /\ Plain(t).type = t
BY DEF Sound, Plain, RuntimeObject, RuntimeType, Payload, SelectStatus, SetTypes

LEMMA SetOfSound ==
  ASSUME NEW t \in Selectable, NEW n \in 0..2
  PROVE  Sound(SetOf(t, n)) /\ SetOf(t, n).type = t
BY DEF Sound, SetOf, RuntimeObject, RuntimeType, Payload, SelectStatus, SetTypes,
       Selectable

LEMMA SelectResultSound ==
  ASSUME NEW t \in Selectable, NEW n \in 0..2, NEW s \in SelectStatus
  PROVE  Sound(SelectResult(t, n, s)) /\ SelectResult(t, n, s).type = "SelectResult"
BY DEF Sound, SelectResult, RuntimeObject, RuntimeType, Payload, SetTypes,
       Selectable

LEMMA ScoreSound ==
  ASSUME NEW answer \in Choice
  PROVE  Sound(Score(answer)) /\ Score(answer).type = "ChoiceScoreResult"
BY DEF Sound, Score, RuntimeObject, RuntimeType, Payload, SelectStatus, SetTypes,
       Choice

\* Whatever the policy, an unwrapped value is a plain value.
LEMMA UnwrappedSound ==
  ASSUME NEW v, Sound(v), NEW p
  PROVE  Sound(Unwrapped(v, p)) /\ Unwrapped(v, p).type # "SelectResult"
<1>1. CASE v.type # "SelectResult"
  BY <1>1 DEF Unwrapped
<1>2. CASE v.type = "SelectResult"
  <2>1. v.payload \in Selectable /\ v.size \in 0..2
    BY <1>2 DEF Sound, RuntimeObject
  <2>2. Member(v.payload) \in {"Entity", "Region"}
    BY DEF Member
  <2>3. Sound(Plain(Member(v.payload))) /\ Plain(Member(v.payload)).type # "SelectResult"
    BY <2>2, PlainSound DEF RuntimeType
  <2>4. Sound(SetOf(v.payload, v.size)) /\ SetOf(v.payload, v.size).type # "SelectResult"
    BY <2>1, SetOfSound DEF Selectable, SetTypes
  <2>5. QED
    BY <1>2, <2>3, <2>4 DEF Unwrapped
<1>3. QED
  BY <1>1, <1>2

LEMMA MaterializedSound ==
  ASSUME NEW v, Sound(v), NEW op, NEW role
  PROVE  /\ Sound(Materialized(op, role, v))
         /\ <<op, role>> \in Guarded => Materialized(op, role, v).type # "SelectResult"
BY UnwrappedSound DEF Materialized

\* Every role that accepts a SELECT result has a policy for it.
LEMMA SelectRolesGuarded ==
  ASSUME NEW op \in OperatorName, NEW role \in DOMAIN InputContract(op),
         "SelectResult" \in InputContract(op)[role]
  PROVE  <<op, role>> \in Guarded
BY DEF InputContract, OperatorName, Guarded, AllowEmpty, AllowAmbiguous,
       RequireSingle, SemanticRoles, RelationRoles, VisualRoles, EntityOrRegion,
       VisualScope

LEMMA RolesInContract ==
  ASSUME NEW op \in OperatorName, NEW roles \in RoleSets(op)
  PROVE  roles \subseteq DOMAIN InputContract(op)
<1>1. CASE op = "SELECT"
  BY <1>1 DEF RoleSets, InputContract
<1>2. CASE op = "COUNT"
  BY <1>2 DEF RoleSets, InputContract
<1>3. CASE op = "MOTION"
  BY <1>3 DEF RoleSets, InputContract
<1>4. CASE op = "VLM_REASON"
  BY <1>4 DEF RoleSets, InputContract
<1>5. CASE op \notin {"SELECT", "COUNT", "MOTION", "VLM_REASON"}
  BY <1>5 DEF RoleSets
<1>6. QED
  BY <1>1, <1>2, <1>3, <1>4, <1>5

\* What the router lets through carries a decided selection, if any.
LEMMA AcceptedDecided ==
  ASSUME NEW op \in OperatorName, NEW role \in DOMAIN InputContract(op),
         NEW v, Sound(v), AcceptedBy(op, role, v)
  PROVE  v.status \notin {"UNRESOLVED", "ERROR"}
<1>1. CASE v.type # "SelectResult"
  BY <1>1 DEF Sound
<1>2. CASE v.type = "SelectResult" /\ <<op, role>> \in Guarded
  BY <1>2 DEF AcceptedBy, Refuses, Refused
<1>3. CASE v.type = "SelectResult" /\ <<op, role>> \notin Guarded
  <2>1. "SelectResult" \in InputContract(op)[role]
    BY <1>3 DEF AcceptedBy, Materialized
  <2>2. QED
    BY <1>3, <2>1, SelectRolesGuarded
<1>4. QED
  BY <1>1, <1>2, <1>3

LEMMA SelectionsSound ==
  ASSUME NEW c, Sound(c), c.type \in Selectable, NEW v \in Selections(c)
  PROVE  Sound(v) /\ v.type = "SelectResult"
<1>1. SetTypeOf(c) \in Selectable
  BY DEF SetTypeOf, Selectable, SetTypes
<1>2. c.size \in 0..2
  BY DEF Sound, RuntimeObject
<1>3. \E t \in Selectable, n \in 0..2, s \in SelectStatus : v = SelectResult(t, n, s)
  <2>1. CASE \E s \in {"UNRESOLVED", "ERROR", "EMPTY"} : v = SelectResult(SetTypeOf(c), 0, s)
    BY <1>1, <2>1 DEF SelectStatus
  <2>2. CASE \E n \in 1..c.size, s \in {"OK", "AMBIGUOUS"} : v = SelectResult(c.type, n, s)
    BY <1>2, <2>2 DEF SelectStatus
  <2>3. CASE v = SelectResult("Region", 1, "OK")
    BY <2>3 DEF SelectStatus, Selectable
  <2>4. QED
    BY <1>2, <2>1, <2>2, <2>3 DEF Selections
<1>4. QED
  BY <1>3, SelectResultSound

\* What an operator returns for accepted inputs is sound, and a score only comes
\* from a fused node or from the route path.
LEMMA OutputsSound ==
  ASSUME NEW op \in OperatorName, NEW received,
         DOMAIN received \in RoleSets(op),
         \A role \in DOMAIN received : \A w \in received[role] :
           /\ Sound(w) /\ w.type \in InputContract(op)[role]
           /\ <<op, role>> \in Guarded => w.type # "SelectResult",
         NEW answer \in Choice \cup {"none"},
         NEW v \in Outputs(op, received, answer)
  PROVE  /\ Sound(v)
         /\ v.type = "ChoiceScoreResult" => answer # "none" \/ op = "ROUTE_REASON"
<1>1. CASE op \in {"REGION", "REGION_FROM_BBOX", "COUNT", "ABS_DIFF", "BUILD_ROUTE_CONTEXT"}
  <2>1. \E t \in {"Region", "ScalarInt", "RouteContext"} : v = Plain(t)
    BY <1>1 DEF Outputs, Semantic, Perceptive
  <2>2. QED
    BY <2>1, PlainSound DEF RuntimeType
<1>2. CASE op \in {"FIND_MARKER", "LOCATE"}
  <2>1. \E t \in Selectable, n \in 0..2 : v = SetOf(t, n)
    BY <1>2 DEF Outputs, Semantic, Perceptive, Selectable, SetTypes
  <2>2. QED
    BY <2>1, SetOfSound DEF Selectable, SetTypes
<1>3. CASE op = "SELECT"
  <2>1. "candidates" \in DOMAIN received
    BY <1>3 DEF RoleSets
  <2>2. PICK c \in received.candidates : v \in Selections(c)
    BY <1>3 DEF Outputs, Semantic, Perceptive
  <2>3. <<"SELECT", "candidates">> \in Guarded
    BY DEF Guarded, AllowEmpty
  <2>4. Sound(c) /\ c.type \in InputContract("SELECT")["candidates"] /\ c.type # "SelectResult"
    BY <1>3, <2>1, <2>2, <2>3
  <2>5. c.type \in Selectable
    BY <2>4 DEF InputContract, Selectable, SetTypes
  <2>6. QED
    BY <2>2, <2>4, <2>5, SelectionsSound
<1>4. CASE op = "GROUP"
  <2>1. DOMAIN received = {"entities"}
    BY <1>4 DEF RoleSets, InputContract
  <2>2. v \in received.entities
    BY <1>4 DEF Outputs, Semantic, Perceptive
  <2>3. Sound(v) /\ v.type \in InputContract("GROUP")["entities"]
    BY <1>4, <2>1, <2>2
  <2>4. QED
    BY <2>3 DEF InputContract
<1>5. CASE op \in Semantic
  <2>1. CASE answer # "none"
    <3>1. v = Score(answer)
      BY <1>5, <2>1 DEF Outputs, Semantic, Perceptive
    <3>2. QED
      BY <2>1, <3>1, ScoreSound
  <2>2. CASE answer = "none" /\ op = "ROUTE_REASON"
    <3>1. v = Score("CHOICE_SINGLE")
      BY <1>5, <2>2 DEF Outputs, Semantic, Perceptive
    <3>2. QED
      BY <2>2, <3>1, ScoreSound DEF Choice
  <2>3. CASE answer = "none" /\ op # "ROUTE_REASON"
    <3>1. v \in {FreeText(op), Decision(op)}
      BY <1>5, <2>3 DEF Outputs, Semantic, Perceptive
    <3>2. \E t \in {"Label", "LabelSet", "Boolean", "Answer"} : v = Plain(t)
      BY <3>1 DEF FreeText, Decision
    <3>3. QED
      BY <3>2, PlainSound DEF RuntimeType
  <2>4. QED
    BY <2>1, <2>2, <2>3
<1>6. QED
  BY <1>1, <1>2, <1>3, <1>4, <1>5 DEF OperatorName, Semantic, Perceptive

-----------------------------------------------------------------------------
\* The inductive invariant. Nodes read images and earlier nodes; a run that has
\* not failed has a value for exactly the nodes behind it, so no reference is
\* ever missing; and every value is one the operators can produce.
NodeSet ==
  UNION {[op : {op}, inputs : UNION {[roles -> SUBSET (Images \cup Nat)] :
                                       roles \in RoleSets(op)}] : op \in Ops}

TraceRecord == [op : Ops, fused : BOOLEAN, failed : BOOLEAN]

SoundValue == {v \in RuntimeObject : Sound(v)}

GraphOK ==
  /\ nodes \in Seq(NodeSet) /\ Len(nodes) <= MaxNodes
  /\ \A i \in DOMAIN nodes : References(nodes[i]) \subseteq Images \cup 1..(i - 1)

FinalOK ==
  /\ final.sources \subseteq DOMAIN nodes
  /\ final.answer \in Answers \cup {"FREE_FORM"}
  /\ final.options \in Options \cup {"none"}

PhaseOK ==
  /\ phase \in {"plan", "primary", "fallback", "final", "images", "answered",
                "failed"}
  /\ phase = "plan" => trace = <<>>
  /\ phase # "plan" => nodes # <<>>
  /\ phase \in {"primary", "fallback"} => Len(trace) < Len(nodes)
  /\ phase \in {"final", "images", "answered"} => Len(trace) = Len(nodes)

TraceOK ==
  /\ trace \in Seq(TraceRecord) /\ Len(trace) <= Len(nodes)
  /\ phase # "failed" => \A i \in DOMAIN trace : ~trace[i].failed
  /\ \A i \in Ran : 1..(i - 1) \subseteq Ran

StoreOK ==
  /\ store \in [Images \cup Ran -> SoundValue]
  /\ \A x \in Images : store[x].type = "ImageRef"

OutcomeOK ==
  /\ cause \in {"none", "input_contract", "provider", "output_contract", "select",
                "value", "model"}
  /\ retained \in BOOLEAN
  /\ evidence \in {"none", "sources", "images"}
  /\ evidence = "sources" => phase = "answered"

ScoresOK ==
  \A x \in Ran :
    store[x].type = "ChoiceScoreResult" => nodes[x].op = "ROUTE_REASON" \/ Fused(x)

GraphInv ==
  GraphOK /\ FinalOK /\ PhaseOK /\ TraceOK /\ StoreOK /\ OutcomeOK /\ ScoresOK
  /\ UnsafeNeverFlows

LEMMA NodeFacts ==
  ASSUME NEW n \in NodeSet
  PROVE  n.op \in Ops /\ n.op \in OperatorName /\ DOMAIN n.inputs \in RoleSets(n.op)
<1>1. PICK op \in Ops : \E roles \in RoleSets(op) :
        n \in [op : {op}, inputs : [roles -> SUBSET (Images \cup Nat)]]
  BY DEF NodeSet
<1>2. n.op = op /\ DOMAIN n.inputs \in RoleSets(op)
  BY <1>1
<1>3. QED
  BY <1>1, <1>2, ConstantsAssumption

\* A node of a run that has not failed has all it reads, and only it is added.
LEMMA RunningFacts ==
  ASSUME GraphInv, Running
  PROVE  /\ Pos \in DOMAIN nodes /\ Node \in NodeSet
         /\ Ran = DOMAIN trace /\ DOMAIN trace = 1..(Pos - 1)
         /\ DOMAIN store = Images \cup 1..(Pos - 1)
         /\ References(Node) \subseteq DOMAIN store
         /\ Pos \notin DOMAIN store
<1>1. Len(trace) \in Nat /\ Len(nodes) \in Nat /\ DOMAIN trace = 1..Len(trace)
      /\ DOMAIN nodes = 1..Len(nodes)
  BY DEF GraphInv, GraphOK, TraceOK
<1>2. Len(trace) < Len(nodes)
  BY DEF GraphInv, PhaseOK, Running
<1>3. Pos \in DOMAIN nodes /\ Pos \in Nat
  BY <1>1, <1>2 DEF Pos
<1>4. Node \in NodeSet
  BY <1>3 DEF GraphInv, GraphOK, Node
<1>5. Ran = DOMAIN trace
  BY DEF Ran, GraphInv, TraceOK, Running
<1>6. DOMAIN trace = 1..(Pos - 1)
  BY <1>1 DEF Pos
<1>7. DOMAIN store = Images \cup 1..(Pos - 1)
  BY <1>5, <1>6 DEF GraphInv, StoreOK
<1>8. References(Node) \subseteq Images \cup 1..(Pos - 1)
  BY <1>3 DEF GraphInv, GraphOK, Node
<1>9. Pos \notin Images
  BY <1>3, ConstantsAssumption
<1>10. Pos \notin 1..(Pos - 1)
  BY <1>3
<1>11. QED
  BY <1>3, <1>4, <1>5, <1>6, <1>7, <1>8, <1>9, <1>10

\* The inputs of a node that is not refused, and the value it gets.
LEMMA AcceptedInputs ==
  ASSUME GraphInv, Running, ~Rejected,
         NEW role \in DOMAIN Node.inputs, NEW x \in Node.inputs[role]
  PROVE  /\ x \in DOMAIN store /\ Sound(store[x])
         /\ role \in DOMAIN InputContract(Node.op)
         /\ AcceptedBy(Node.op, role, store[x])
<1>1. Node \in NodeSet /\ References(Node) \subseteq DOMAIN store
  BY RunningFacts
<1>2. x \in DOMAIN store
  BY <1>1 DEF References
<1>3. Sound(store[x])
  BY <1>2 DEF GraphInv, StoreOK, SoundValue
<1>4. role \in DOMAIN InputContract(Node.op)
  BY <1>1, NodeFacts, RolesInContract
<1>5. AcceptedBy(Node.op, role, store[x])
  BY DEF Rejected, AcceptedBy
<1>6. QED
  BY <1>2, <1>3, <1>4, <1>5

LEMMA AcceptedValue ==
  ASSUME GraphInv, Running, ~Rejected, NEW v \in Accepted
  PROVE  /\ v \in SoundValue
         /\ v.type = "ChoiceScoreResult" => Node.op = "ROUTE_REASON" \/ Fused(Pos)
<1> DEFINE answer == IF Fused(Pos) THEN final.answer ELSE "none"
<1>1. v \in Outputs(Node.op, Received, answer)
  BY DEF Accepted, Produced
<1>2. answer \in Choice \cup {"none"}
  BY DEF Fused
<1>3. Node.op \in OperatorName /\ DOMAIN Node.inputs \in RoleSets(Node.op)
  BY RunningFacts, NodeFacts
<1>4. DOMAIN Received = DOMAIN Node.inputs
  BY DEF Received
<1>5. ASSUME NEW role \in DOMAIN Received, NEW w \in Received[role]
      PROVE  /\ Sound(w) /\ w.type \in InputContract(Node.op)[role]
             /\ <<Node.op, role>> \in Guarded => w.type # "SelectResult"
  <2>1. PICK x \in Node.inputs[role] : w = Materialized(Node.op, role, store[x])
    BY <1>4, <1>5 DEF Received
  <2>2. Sound(store[x]) /\ AcceptedBy(Node.op, role, store[x])
    BY <1>4, <1>5, <2>1, AcceptedInputs
  <2>3. QED
    BY <2>1, <2>2, MaterializedSound DEF AcceptedBy
<1> HIDE DEF answer
<1>6. Sound(v) /\ (v.type = "ChoiceScoreResult" => answer # "none" \/ Node.op = "ROUTE_REASON")
  BY <1>1, <1>2, <1>3, <1>4, <1>5, OutputsSound
<1>7. v \in SoundValue
  BY <1>6 DEF Sound, SoundValue
<1>8. answer # "none" => Fused(Pos)
  BY DEF answer
<1>9. QED
  BY <1>6, <1>7, <1>8

-----------------------------------------------------------------------------
LEMMA GraphInitially == Init => GraphInv
<1> SUFFICES ASSUME Init PROVE GraphInv
  OBVIOUS
<1>1. Ran = {} /\ DOMAIN nodes = {} /\ DOMAIN trace = {} /\ Len(nodes) = 0 /\ Len(trace) = 0
  BY DEF Init, Ran
<1>2. GraphOK
  BY <1>1, ConstantsAssumption DEF Init, GraphOK
<1>3. StoreOK
  <2>1. Plain("ImageRef") \in SoundValue /\ Plain("ImageRef").type = "ImageRef"
    BY PlainSound DEF RuntimeType, SoundValue, Sound
  <2>2. QED
    BY <1>1, <2>1 DEF Init, StoreOK
<1>4. FinalOK /\ PhaseOK /\ TraceOK /\ OutcomeOK
  <2>1. FinalOK
    BY <1>1 DEF Init, FinalOK
  <2>2. PhaseOK
    BY <1>1 DEF Init, PhaseOK
  <2>3. TraceOK
    BY <1>1 DEF Init, TraceOK
  <2>4. OutcomeOK
    BY DEF Init, OutcomeOK
  <2>5. QED
    BY <2>1, <2>2, <2>3, <2>4
<1>5. ScoresOK /\ UnsafeNeverFlows
  BY <1>1 DEF Init, ScoresOK, UnsafeNeverFlows
<1>6. QED
  BY <1>2, <1>3, <1>4, <1>5 DEF GraphInv

\* Before a run starts nothing has been executed.
LEMMA PlanFacts ==
  ASSUME GraphInv, phase = "plan"
  PROVE  trace = <<>> /\ Ran = {} /\ evidence # "sources"
BY DEF GraphInv, PhaseOK, OutcomeOK, Ran

LEMMA NodeOfFacts ==
  ASSUME NEW op \in Ops, NEW roles \in RoleSets(op), NEW n \in NodeOf(op, roles),
         nodes \in Seq(NodeSet)
  PROVE  n \in NodeSet /\ References(n) \subseteq Images \cup DOMAIN nodes
<1>1. PICK inputs \in [roles -> (SUBSET Known) \ {{}}] :
        n = [op |-> op, inputs |-> inputs]
  BY DEF NodeOf
<1>2. Known \subseteq Images \cup Nat
  BY DEF Known
<1>3. inputs \in [roles -> SUBSET (Images \cup Nat)]
  BY <1>1, <1>2
<1>4. n \in [op : {op}, inputs : [roles -> SUBSET (Images \cup Nat)]]
  BY <1>1, <1>3
<1>5. n \in NodeSet
  BY <1>4 DEF NodeSet
<1>6. References(n) \subseteq Known
  BY <1>1 DEF References
<1>7. QED
  BY <1>5, <1>6 DEF Known

LEMMA AddNodeStep == ASSUME GraphInv, AddNode PROVE GraphInv'
<1>1. phase = "plan" /\ Len(nodes) < MaxNodes
      /\ UNCHANGED <<final, phase, store, trace, cause, retained, evidence>>
  BY DEF AddNode
<1>2. nodes \in Seq(NodeSet)
  BY DEF GraphInv, GraphOK
<1>3. PICK n \in NodeSet : /\ References(n) \subseteq Images \cup DOMAIN nodes
                           /\ nodes' = Append(nodes, n)
  BY <1>2, NodeOfFacts DEF AddNode
<1>4. /\ nodes' \in Seq(NodeSet) /\ Len(nodes') = Len(nodes) + 1
      /\ \A i \in 1..Len(nodes) : nodes'[i] = nodes[i]
      /\ nodes'[Len(nodes) + 1] = n
      /\ DOMAIN nodes = 1..Len(nodes) /\ DOMAIN nodes' = 1..(Len(nodes) + 1)
      /\ Len(nodes) \in Nat
  BY <1>2, <1>3
<1>5. GraphOK'
  <2>1. Len(nodes') <= MaxNodes
    BY <1>1, <1>4, ConstantsAssumption
  <2>2. ASSUME NEW i \in DOMAIN nodes'
        PROVE  References(nodes'[i]) \subseteq Images \cup 1..(i - 1)
    <3>1. CASE i \in DOMAIN nodes
      BY <1>4, <3>1 DEF GraphInv, GraphOK
    <3>2. CASE i = Len(nodes) + 1
      <4>1. 1..(i - 1) = DOMAIN nodes
        BY <1>4, <3>2
      <4>2. QED
        BY <1>3, <1>4, <3>2, <4>1
    <3>3. QED
      BY <1>4, <3>1, <3>2
  <2>3. QED
    BY <1>4, <2>1, <2>2 DEF GraphOK, References
<1>6. FinalOK'
  BY <1>1, <1>4 DEF GraphInv, FinalOK
<1>7. trace = <<>> /\ Ran = {} /\ Ran' = Ran /\ evidence # "sources"
  BY <1>1, PlanFacts DEF Ran
<1>8. PhaseOK' /\ TraceOK'
  BY <1>1, <1>4, <1>7 DEF GraphInv, PhaseOK, TraceOK
<1>9. StoreOK' /\ OutcomeOK'
  BY <1>1, <1>7 DEF GraphInv, StoreOK, OutcomeOK
<1>10. ScoresOK' /\ UnsafeNeverFlows'
  BY <1>1, <1>7 DEF ScoresOK, UnsafeNeverFlows
<1>11. QED
  BY <1>5, <1>6, <1>8, <1>9, <1>10 DEF GraphInv

LEMMA CloseStep == ASSUME GraphInv, Close PROVE GraphInv'
<1>1. /\ phase = "plan" /\ phase' = "primary" /\ nodes # <<>>
      /\ UNCHANGED <<nodes, store, trace, cause, retained, evidence>>
  BY DEF Close
<1>2. trace = <<>> /\ Ran = {} /\ Ran' = Ran /\ evidence # "sources"
  BY <1>1, PlanFacts DEF Ran
<1>3. GraphOK'
  BY <1>1 DEF GraphInv, GraphOK
<1>4. FinalOK'
  BY <1>1 DEF Close, FinalOK
<1>5. PhaseOK' /\ TraceOK'
  <2>1. Len(nodes) \in Nat /\ Len(nodes) # 0
    BY <1>1 DEF GraphInv, GraphOK
  <2>2. Len(trace) = 0
    BY <1>2
  <2>3. QED
    BY <1>1, <1>2, <2>1, <2>2 DEF GraphInv, PhaseOK, TraceOK
<1>6. StoreOK' /\ OutcomeOK'
  BY <1>1, <1>2 DEF GraphInv, StoreOK, OutcomeOK
<1>7. ScoresOK' /\ UnsafeNeverFlows'
  BY <1>1, <1>2 DEF ScoresOK, UnsafeNeverFlows
<1>8. QED
  BY <1>3, <1>4, <1>5, <1>6, <1>7 DEF GraphInv

\* Appending the record of a node to the trace.
LEMMA TracedFacts ==
  ASSUME GraphInv, Running, NEW failed \in BOOLEAN, trace' = Traced(failed)
  PROVE  /\ trace' \in Seq(TraceRecord) /\ Len(trace') = Pos
         /\ DOMAIN trace' = 1..Pos
         /\ Ran' = IF failed THEN Ran ELSE Ran \cup {Pos}
<1>1. trace \in Seq(TraceRecord) /\ Len(trace) \in Nat /\ Pos = Len(trace) + 1
  BY DEF GraphInv, TraceOK, Pos
<1>2. Node.op \in Ops /\ Ran = DOMAIN trace
  BY RunningFacts, NodeFacts
<1>3. [op |-> Node.op, fused |-> Fused(Pos), failed |-> failed] \in TraceRecord
  <2>1. Fused(Pos) \in BOOLEAN
    BY DEF Fused
  <2>2. QED
    BY <1>2, <2>1 DEF TraceRecord
<1>4. /\ trace' \in Seq(TraceRecord) /\ Len(trace') = Pos /\ DOMAIN trace' = 1..Pos
      /\ \A i \in 1..(Pos - 1) : trace'[i] = trace[i]
      /\ trace'[Pos].failed = failed
      /\ DOMAIN trace = 1..(Pos - 1)
  BY <1>1, <1>3 DEF Traced
<1>5. \A i \in DOMAIN trace : ~trace[i].failed
  BY <1>2 DEF Ran
<1>6. 1..Pos = (1..(Pos - 1)) \cup {Pos}
  BY <1>1
<1>7. Ran' = {i \in 1..Pos : ~trace'[i].failed}
  BY <1>4 DEF Ran
<1>8. Ran' = IF failed THEN Ran ELSE Ran \cup {Pos}
  BY <1>1, <1>2, <1>4, <1>5, <1>6, <1>7
<1>9. QED
  BY <1>4, <1>8

\* A failure changes neither the graph nor the store.
LEMMA FailureStep ==
  ASSUME GraphInv, phase # "plan", phase' = "failed", evidence # "sources",
         UNCHANGED <<nodes, final, store, evidence>>,
         trace' \in Seq(TraceRecord), Len(trace') <= Len(nodes), Ran' = Ran,
         cause' \in {"input_contract", "provider", "output_contract", "select",
                     "value", "model"},
         retained' \in BOOLEAN
  PROVE  GraphInv'
<1>1. GraphOK' /\ FinalOK'
  BY DEF GraphInv, GraphOK, FinalOK
<1>2. PhaseOK' /\ TraceOK'
  BY DEF GraphInv, PhaseOK, TraceOK
<1>3. StoreOK' /\ OutcomeOK'
  BY DEF GraphInv, StoreOK, OutcomeOK
<1>4. \A i : Fused(i)' = Fused(i)
  BY DEF Fused, Consumers, References
<1>5. ScoresOK'
  BY <1>4 DEF GraphInv, ScoresOK
<1>6. UnsafeNeverFlows'
  BY DEF GraphInv, UnsafeNeverFlows, Undecided, References
<1>7. QED
  BY <1>1, <1>2, <1>3, <1>5, <1>6 DEF GraphInv

LEMMA RefuseNodeStep == ASSUME GraphInv, RefuseNode PROVE GraphInv'
<1>1. Running /\ ~Unavailable
  BY RunningFacts DEF RefuseNode, Running, Unavailable
<1>2. trace' = Traced(TRUE) /\ phase' = "failed" /\ cause' = "input_contract"
      /\ retained' = TRUE /\ UNCHANGED <<nodes, final, store, evidence>>
  BY <1>1 DEF RefuseNode, FailWith
<1>3. trace' \in Seq(TraceRecord) /\ Len(trace') = Pos /\ Ran' = Ran
  BY <1>1, <1>2, TracedFacts
<1>4. Pos <= Len(nodes)
  BY <1>1, RunningFacts DEF GraphInv, GraphOK
<1>5. phase # "plan" /\ evidence # "sources"
  BY <1>1 DEF Running, GraphInv, OutcomeOK
<1>6. QED
  BY <1>2, <1>3, <1>4, <1>5, FailureStep

LEMMA FailNodeStep == ASSUME GraphInv, FailNode PROVE GraphInv'
<1>1. Running
  BY DEF FailNode
<1>2. trace' = Traced(TRUE) /\ phase' = "failed" /\ cause' \in {"provider", "output_contract"}
      /\ retained' = TRUE /\ UNCHANGED <<nodes, final, store, evidence>>
  BY DEF FailNode, FailWith, Failures
<1>3. trace' \in Seq(TraceRecord) /\ Len(trace') = Pos /\ Ran' = Ran
  BY <1>1, <1>2, TracedFacts
<1>4. Pos <= Len(nodes)
  BY <1>1, RunningFacts DEF GraphInv, GraphOK
<1>5. phase # "plan" /\ evidence # "sources"
  BY <1>1 DEF Running, GraphInv, OutcomeOK
<1>6. QED
  BY <1>2, <1>3, <1>4, <1>5, FailureStep

LEMMA TryFallbackStep == ASSUME GraphInv, TryFallback PROVE GraphInv'
<1>1. phase = "primary" /\ phase' = "fallback"
      /\ UNCHANGED <<nodes, final, store, trace, cause, retained, evidence>>
  BY DEF TryFallback
<1>2. Ran' = Ran /\ \A i : Fused(i)' = Fused(i)
  BY <1>1 DEF Ran, Fused, Consumers, References
<1>3. GraphOK' /\ FinalOK'
  BY <1>1 DEF GraphInv, GraphOK, FinalOK, References
<1>4. PhaseOK' /\ TraceOK'
  BY <1>1, <1>2 DEF GraphInv, PhaseOK, TraceOK
<1>5. StoreOK' /\ OutcomeOK'
  BY <1>1, <1>2 DEF GraphInv, StoreOK, OutcomeOK
<1>6. ScoresOK'
  BY <1>1, <1>2 DEF GraphInv, ScoresOK
<1>7. UnsafeNeverFlows'
  BY <1>1, <1>2 DEF GraphInv, UnsafeNeverFlows, Undecided, References
<1>8. QED
  BY <1>3, <1>4, <1>5, <1>6, <1>7 DEF GraphInv

LEMMA ExecuteStep == ASSUME GraphInv, Execute PROVE GraphInv'
<1>1. Running /\ ~Rejected /\ trace' = Traced(FALSE)
      /\ phase' = (IF Pos = Len(nodes) THEN "final" ELSE "primary")
      /\ UNCHANGED <<nodes, final, cause, retained, evidence>>
  BY DEF Execute
<1>2. PICK v \in Accepted : store' = Put(v)
  BY DEF Execute
<1>3. /\ v \in SoundValue
      /\ v.type = "ChoiceScoreResult" => Node.op = "ROUTE_REASON" \/ Fused(Pos)
  BY <1>1, AcceptedValue
<1>4. /\ Pos \in DOMAIN nodes /\ Node \in NodeSet /\ Ran = 1..(Pos - 1)
      /\ DOMAIN store = Images \cup 1..(Pos - 1)
      /\ References(Node) \subseteq DOMAIN store /\ Pos \notin DOMAIN store
  BY <1>1, RunningFacts
<1>5. trace' \in Seq(TraceRecord) /\ Len(trace') = Pos /\ DOMAIN trace' = 1..Pos
      /\ Ran' = Ran \cup {Pos}
  BY <1>1, TracedFacts
<1>6. DOMAIN nodes = 1..Len(nodes) /\ Len(nodes) \in Nat /\ Pos \in 1..Len(nodes)
  BY <1>4 DEF GraphInv, GraphOK
<1>7. /\ DOMAIN store' = DOMAIN store \cup {Pos} /\ store'[Pos] = v
      /\ \A x \in DOMAIN store : store'[x] = store[x]
  BY <1>2, <1>4 DEF Put
<1>8. GraphOK' /\ FinalOK'
  BY <1>1 DEF GraphInv, GraphOK, FinalOK, References
<1>9. PhaseOK'
  <2>1. Pos \in Nat /\ (Pos = Len(nodes) \/ (Pos < Len(nodes) /\ Pos # Len(nodes)))
    <3>1. \A n \in Nat : \A p \in 1..n : p \in Nat /\ (p = n \/ (p < n /\ p # n))
      OBVIOUS
    <3>2. Len(nodes) \in Nat /\ Pos \in 1..Len(nodes)
      BY <1>6
    <3>3. QED
      BY <3>1, <3>2
  <2>2. nodes' # <<>>
    BY <1>1, <1>4
  <2>3. CASE Pos = Len(nodes)
    <3>1. phase' = "final"
      BY <1>1, <2>3
    <3>2. Len(trace') = Len(nodes')
      BY <1>1, <1>5, <2>3
    <3>3. QED
      BY <2>2, <3>1, <3>2 DEF PhaseOK
  <2>4. CASE Pos < Len(nodes) /\ Pos # Len(nodes)
    <3>1. phase' = "primary"
      BY <1>1, <2>4
    <3>2. Len(trace') < Len(nodes')
      BY <1>1, <1>5, <2>4
    <3>3. QED
      BY <2>2, <3>1, <3>2 DEF PhaseOK
  <2>5. QED
    BY <2>1, <2>3, <2>4
<1>10. TraceOK'
  <2>1. Ran' = DOMAIN trace'
    BY <1>4, <1>5, <1>6
  <2>2. \A i \in DOMAIN trace' : ~trace'[i].failed
    BY <2>1 DEF Ran
  <2>3. Len(trace') <= Len(nodes')
    <3>1. \A n \in Nat : \A p \in 1..n : p <= n
      OBVIOUS
    <3>2. QED
      BY <1>1, <1>5, <1>6, <3>1
  <2>4. \A i \in Ran' : 1..(i - 1) \subseteq Ran'
    BY <1>4, <1>5, <1>6
  <2>5. QED
    BY <1>5, <2>2, <2>3, <2>4 DEF TraceOK
<1>11. StoreOK'
  <2>1. store' \in [Images \cup Ran' -> SoundValue]
    BY <1>2, <1>3, <1>4, <1>5 DEF Put, GraphInv, StoreOK
  <2>2. \A x \in Images : store'[x].type = "ImageRef"
    BY <1>4, <1>7 DEF GraphInv, StoreOK
  <2>3. QED
    BY <2>1, <2>2 DEF StoreOK
<1>12. OutcomeOK'
  BY <1>1 DEF GraphInv, OutcomeOK, Running
<1>13. ScoresOK'
  <2>1. \A i : Fused(i)' = Fused(i)
    BY <1>1 DEF Fused, Consumers, References
  <2>2. \A x \in Ran : store'[x] = store[x]
    BY <1>4, <1>7
  <2>3. QED
    BY <1>1, <1>3, <1>5, <1>7, <2>1, <2>2 DEF GraphInv, ScoresOK, Node
<1>14. UnsafeNeverFlows'
  <2>1. ASSUME NEW i \in Ran', NEW x \in References(nodes[i])
        PROVE  x \in DOMAIN store /\ ~Undecided(x)
    <3>1. CASE i \in Ran
      <4>1. References(nodes[i]) \subseteq Images \cup 1..(i - 1)
        BY <1>4, <1>6, <3>1 DEF GraphInv, GraphOK
      <4>2. 1..(i - 1) \subseteq 1..(Pos - 1)
        BY <1>4, <1>6, <3>1
      <4>3. QED
        BY <1>4, <2>1, <3>1, <4>1, <4>2 DEF GraphInv, UnsafeNeverFlows
    <3>2. CASE i = Pos
      <4>1. PICK role \in DOMAIN Node.inputs : x \in Node.inputs[role]
        BY <2>1, <3>2 DEF References, Node
      <4>2. /\ x \in DOMAIN store /\ Sound(store[x])
            /\ role \in DOMAIN InputContract(Node.op)
            /\ AcceptedBy(Node.op, role, store[x])
        BY <1>1, <4>1, AcceptedInputs
      <4>3. Node.op \in OperatorName
        BY <1>4, NodeFacts
      <4>4. QED
        BY <4>2, <4>3, AcceptedDecided DEF Undecided
    <3>3. QED
      BY <1>5, <3>1, <3>2
  <2>2. \A i \in Ran' : \A x \in References(nodes'[i]) : ~Undecided(x)'
    BY <1>1, <1>7, <2>1 DEF Undecided
  <2>3. evidence' # "sources"
    BY <1>1 DEF GraphInv, OutcomeOK, Running
  <2>4. QED
    BY <2>2, <2>3 DEF UnsafeNeverFlows, References
<1>15. QED
  BY <1>8, <1>9, <1>10, <1>11, <1>12, <1>13, <1>14 DEF GraphInv

\* Once every node ran, the final sources have their values.
LEMMA FinalFacts ==
  ASSUME GraphInv, phase \in {"final", "images", "answered"}
  PROVE  /\ Ran = DOMAIN nodes /\ final.sources \subseteq DOMAIN store
         /\ SourceErrors \subseteq {"select", "value", "model"}
<1>1. Len(trace) = Len(nodes) /\ trace \in Seq(TraceRecord) /\ nodes \in Seq(NodeSet)
  BY DEF GraphInv, PhaseOK, TraceOK, GraphOK
<1>2. DOMAIN trace = DOMAIN nodes
  BY <1>1
<1>3. Ran = DOMAIN nodes
  BY <1>2 DEF Ran, GraphInv, TraceOK
<1>4. final.sources \subseteq DOMAIN store
  BY <1>3 DEF GraphInv, FinalOK, StoreOK
<1>5. SourceErrors \subseteq {"select", "value", "model"}
  BY <1>4 DEF SourceErrors
<1>6. QED
  BY <1>3, <1>4, <1>5

LEMMA AnsweringStep ==
  ASSUME GraphInv, phase \in {"final", "images"}, phase' \in {"images", "answered"},
         UNCHANGED <<nodes, final, store, trace, cause, retained>>,
         evidence' \in {"none", "sources", "images"},
         evidence' = "sources" =>
           phase' = "answered" /\ \A s \in final.sources : store[s].status = "OK"
  PROVE  GraphInv'
<1>1. Ran' = Ran /\ \A i : Fused(i)' = Fused(i)
  BY DEF Ran, Fused, Consumers, References
<1>2. GraphOK' /\ FinalOK'
  BY DEF GraphInv, GraphOK, FinalOK, References
<1>3. PhaseOK' /\ TraceOK'
  BY <1>1 DEF GraphInv, PhaseOK, TraceOK
<1>4. StoreOK' /\ OutcomeOK'
  BY <1>1 DEF GraphInv, StoreOK, OutcomeOK
<1>5. ScoresOK'
  BY <1>1 DEF GraphInv, ScoresOK
<1>6. UnsafeNeverFlows'
  <2>1. (\A i \in Ran : \A x \in References(nodes[i]) : ~Undecided(x))'
    BY <1>1 DEF GraphInv, UnsafeNeverFlows, Undecided, References
  <2>2. evidence' = "sources" =>
          \A s \in final'.sources : ~Undecided(s)' /\ store'[s].status = "OK"
    BY DEF Undecided
  <2>3. QED
    BY <2>1, <2>2 DEF UnsafeNeverFlows
<1>7. QED
  BY <1>2, <1>3, <1>4, <1>5, <1>6 DEF GraphInv

\* The final sources let only decided selections through.
LEMMA SourcesDecided ==
  ASSUME GraphInv, phase = "final", Answerable, NEW s \in final.sources
  PROVE  store[s].status = "OK"
<1>1. final.sources \subseteq DOMAIN store
  BY FinalFacts
<1>2. Sound(store[s])
  BY <1>1 DEF GraphInv, StoreOK, SoundValue
<1>3. ~SourcesRefused
  BY <1>1 DEF Answerable, SourceErrors
<1>4. ~Refused(store[s], Policy("final", "sources"))
  BY <1>3 DEF SourcesRefused, Refuses, Guarded
<1>5. ~Policy("final", "sources").empty /\ ~Policy("final", "sources").ambiguous
  BY DEF Policy, AllowEmpty, AllowAmbiguous, SemanticRoles, RelationRoles
<1>6. store[s].status \in SelectStatus
  BY <1>2 DEF Sound, RuntimeObject
<1>7. QED
  BY <1>2, <1>4, <1>5, <1>6 DEF Sound, Refused, SelectStatus

LEMMA AnswerSteps ==
  ASSUME GraphInv, AnswerFromSources \/ FallBackToImages \/ AnswerFromImages
  PROVE  GraphInv'
<1>1. CASE AnswerFromSources
  <2>1. \A s \in final.sources : store[s].status = "OK"
    BY <1>1, SourcesDecided DEF AnswerFromSources
  <2>2. QED
    BY <1>1, <2>1, AnsweringStep DEF AnswerFromSources
<1>2. CASE FallBackToImages
  BY <1>2, AnsweringStep DEF FallBackToImages
<1>3. CASE AnswerFromImages
  <2>1. evidence \in {"none", "sources", "images"} /\ evidence # "sources"
    BY <1>3 DEF GraphInv, OutcomeOK, AnswerFromImages
  <2>2. QED
    BY <1>3, <2>1, AnsweringStep DEF AnswerFromImages
<1>4. QED
  BY <1>1, <1>2, <1>3

LEMMA FailSteps == ASSUME GraphInv, FailFinal \/ FailImages PROVE GraphInv'
<1>1. phase \in {"final", "images"}
  BY DEF FailFinal, FailImages
<1>2. /\ phase' = "failed" /\ retained' \in BOOLEAN
      /\ cause' \in {"select", "value", "model"}
      /\ UNCHANGED <<nodes, final, store, trace, evidence>>
  <2>1. CASE FailFinal
    BY <2>1, FinalFacts DEF FailFinal, FailWith
  <2>2. CASE FailImages
    BY <2>2 DEF FailImages, FailWith
  <2>3. QED
    BY <2>1, <2>2
<1>3. trace' \in Seq(TraceRecord) /\ Len(trace') <= Len(nodes) /\ Ran' = Ran
  BY <1>2 DEF GraphInv, TraceOK, Ran
<1>4. evidence # "sources"
  BY <1>1 DEF GraphInv, OutcomeOK
<1>5. QED
  BY <1>1, <1>2, <1>3, <1>4, FailureStep

LEMMA GraphStutter == ASSUME GraphInv, UNCHANGED vars PROVE GraphInv'
<1>1. Ran' = Ran /\ \A i : Fused(i)' = Fused(i)
  BY DEF vars, Ran, Fused, Consumers, References
<1>2. GraphOK' /\ FinalOK'
  BY DEF vars, GraphInv, GraphOK, FinalOK, References
<1>3. PhaseOK' /\ TraceOK'
  BY <1>1 DEF vars, GraphInv, PhaseOK, TraceOK
<1>4. StoreOK' /\ OutcomeOK'
  BY <1>1 DEF vars, GraphInv, StoreOK, OutcomeOK
<1>5. ScoresOK'
  BY <1>1 DEF vars, GraphInv, ScoresOK
<1>6. UnsafeNeverFlows'
  BY <1>1 DEF vars, GraphInv, UnsafeNeverFlows, Undecided, References
<1>7. QED
  BY <1>2, <1>3, <1>4, <1>5, <1>6 DEF GraphInv

\* GraphInv holds in every state of every run.
THEOREM GraphInvariant == Spec => []GraphInv
<1>1. Init => GraphInv
  BY GraphInitially
<1>2. GraphInv /\ [Next]_vars => GraphInv'
  BY AddNodeStep, CloseStep, RefuseNodeStep, ExecuteStep, TryFallbackStep, FailNodeStep,
     AnswerSteps, FailSteps, GraphStutter DEF Next
<1>3. QED
  BY <1>1, <1>2, PTL DEF Spec

-----------------------------------------------------------------------------
\* Every run of an accepted graph finds the value of every reference: the loader's
\* check of the order is enough for the executor's store.
THEOREM GraphRefsAvailable == Spec => []RefsAvailable
<1>1. GraphInv => RefsAvailable
  BY DEF GraphInv, OutcomeOK, RefsAvailable
<1>2. QED
  BY <1>1, GraphInvariant, PTL

\* A selection that could not be decided flows into no operator and no answer,
\* whichever contracts and policies the roles on its way have.
THEOREM GraphUnsafeNeverFlows == Spec => []UnsafeNeverFlows
<1>1. GraphInv => UnsafeNeverFlows
  BY DEF GraphInv
<1>2. QED
  BY <1>1, GraphInvariant, PTL

LEMMA ValuedReferences ==
  ASSUME GraphInv, NEW i \in Ran, NEW x \in References(nodes[i])
  PROVE  x \in Images \cup Ran /\ i \in DOMAIN nodes
<1>1. DOMAIN trace = 1..Len(trace) /\ DOMAIN nodes = 1..Len(nodes)
      /\ Len(trace) \in Nat /\ Len(nodes) \in Nat /\ Len(trace) <= Len(nodes)
  BY DEF GraphInv, GraphOK, TraceOK
<1>2. i \in DOMAIN nodes
  BY <1>1 DEF Ran
<1>3. x \in Images \cup 1..(i - 1)
  BY <1>2 DEF GraphInv, GraphOK
<1>4. 1..(i - 1) \subseteq Ran
  BY DEF GraphInv, TraceOK
<1>5. QED
  BY <1>2, <1>3, <1>4

\* No node reads the score that replaces the output of a fused node.
THEOREM GraphOverrideUnobserved == Spec => []OverrideUnobserved
<1>1. ASSUME GraphInv PROVE OverrideUnobserved
  <2>1. SUFFICES ASSUME NEW i \in Ran, NEW x \in References(nodes[i]),
                        store[x].type = "ChoiceScoreResult"
                 PROVE  nodes[x].op = "ROUTE_REASON"
    BY DEF OverrideUnobserved
  <2>2. x \in Images \cup Ran /\ i \in DOMAIN nodes
    BY <1>1, ValuedReferences
  <2>3. x \in Ran
    BY <1>1, <2>1, <2>2 DEF GraphInv, StoreOK
  <2>4. i \in Consumers(x)
    BY <2>1, <2>2 DEF Consumers
  <2>5. ~Fused(x)
    BY <2>4 DEF Fused
  <2>6. QED
    BY <1>1, <2>1, <2>3, <2>5 DEF GraphInv, ScoresOK
<1>2. QED
  BY <1>1, GraphInvariant, PTL

\* The type invariant: the store holds the images and exactly the nodes that ran,
\* each with a value of the runtime types.
THEOREM GraphTypes == Spec => []TypeOK
<1>1. ASSUME GraphInv PROVE TypeOK
  <2>1. nodes \in Seq(NodeSet) /\ Len(nodes) <= MaxNodes
    BY <1>1 DEF GraphInv, GraphOK
  <2>2. \A j \in DOMAIN nodes : nodes[j].op \in Ops
    BY <2>1, NodeFacts
  <2>3. final.sources \subseteq DOMAIN nodes /\ final.answer \in Answers \cup {"FREE_FORM"}
        /\ final.options \in Options \cup {"none"}
    BY <1>1 DEF GraphInv, FinalOK
  <2>4. phase \in {"plan", "primary", "fallback", "final", "images", "answered",
                   "failed"}
    BY <1>1 DEF GraphInv, PhaseOK
  <2>5. store \in [Images \cup Ran -> RuntimeObject]
    BY <1>1 DEF GraphInv, StoreOK, SoundValue
  <2>6. Len(trace) <= Len(nodes)
        /\ \A j \in DOMAIN trace :
             trace[j] \in [op : Ops, fused : BOOLEAN, failed : BOOLEAN]
    <3>1. trace \in Seq(TraceRecord) /\ Len(trace) <= Len(nodes)
      BY <1>1 DEF GraphInv, TraceOK
    <3>2. \A j \in DOMAIN trace : trace[j] \in TraceRecord
      BY <3>1
    <3>3. QED
      BY <3>1, <3>2 DEF TraceRecord
  <2>7. /\ cause \in {"none", "missing_ref", "input_contract", "provider",
                      "output_contract", "select", "value", "model"}
        /\ retained \in BOOLEAN /\ evidence \in {"none", "sources", "images"}
    BY <1>1 DEF GraphInv, OutcomeOK
  <2>8. QED
    BY <2>1, <2>2, <2>3, <2>4, <2>5, <2>6, <2>7 DEF TypeOK
<1>2. QED
  BY <1>1, GraphInvariant, PTL

-----------------------------------------------------------------------------
\* What a choice is answered from. The images are asked once, after the final
\* sources were refused, and nothing that decided it changes any more.
EvidenceInv ==
  /\ phase \in {"plan", "primary", "fallback", "final"} => evidence = "none"
  /\ phase = "images" => evidence = "images"
  /\ ChoiceSurvivesEvidence

\* A node that is refused or fails leaves the graph unfinished.
LEMMA NodeFailureUnfinished ==
  ASSUME GraphInv, RefuseNode \/ FailNode
  PROVE  Running /\ Ran' # DOMAIN nodes'
<1>1. Running /\ ~Unavailable
  <2>1. Running
    BY DEF RefuseNode, FailNode, Running
  <2>2. QED
    BY <2>1, RunningFacts DEF Unavailable
<1>2. trace' = Traced(TRUE) /\ nodes' = nodes
  BY <1>1 DEF RefuseNode, FailNode
<1>3. Ran' = Ran
  BY <1>1, <1>2, TracedFacts
<1>4. Pos \in DOMAIN nodes /\ Pos \notin Ran
  <2>1. Pos \in DOMAIN nodes /\ Ran = 1..(Pos - 1) /\ Len(trace) \in Nat
    BY <1>1, RunningFacts DEF GraphInv, TraceOK
  <2>2. QED
    BY <2>1 DEF Pos
<1>5. QED
  BY <1>1, <1>2, <1>3, <1>4

LEMMA EvidenceInitially == Init => EvidenceInv
BY DEF Init, EvidenceInv, ChoiceSurvivesEvidence

LEMMA EvidenceStep ==
  ASSUME GraphInv, EvidenceInv, [Next]_vars
  PROVE  EvidenceInv'
<1> USE DEF EvidenceInv
<1>1. CASE AddNode \/ Close
  BY <1>1 DEF AddNode, Close, ChoiceSurvivesEvidence
<1>2. CASE RefuseNode \/ FailNode
  <2>1. Running /\ Ran' # DOMAIN nodes'
    BY <1>2, NodeFailureUnfinished
  <2>2. phase' = "failed" /\ evidence' = evidence /\ evidence = "none"
    BY <1>2, <2>1 DEF RefuseNode, FailNode, FailWith, Running
  <2>3. QED
    BY <2>1, <2>2 DEF ChoiceSurvivesEvidence
<1>3. CASE Execute \/ TryFallback
  <2>1. /\ phase \in {"primary", "fallback"} /\ phase' \in {"primary", "fallback", "final"}
        /\ evidence' = evidence
    BY <1>3 DEF Execute, TryFallback, Running
  <2>2. QED
    BY <2>1 DEF ChoiceSurvivesEvidence
<1>4. CASE AnswerFromSources
  BY <1>4 DEF AnswerFromSources, ChoiceSurvivesEvidence
<1>5. CASE FallBackToImages
  <2>1. phase' = "images" /\ evidence' = "images"
    BY <1>5 DEF FallBackToImages
  <2>2. QED
    BY <2>1 DEF ChoiceSurvivesEvidence
<1>6. CASE FailFinal
  <2>1. phase = "final" /\ phase' = "failed" /\ evidence' = "none"
        /\ UNCHANGED final
    BY <1>6 DEF FailFinal, FailWith
  <2>2. ChoiceRequested => cause' = "model"
    BY <1>6, <2>1, FinalFacts DEF FailFinal, FailWith, Tolerable
  <2>3. QED
    BY <2>1, <2>2 DEF ChoiceSurvivesEvidence, ChoiceRequested
<1>7. CASE AnswerFromImages \/ FailImages
  <2>1. /\ phase = "images" /\ phase' \in {"answered", "failed"}
        /\ evidence' = "images"
    BY <1>7 DEF AnswerFromImages, FailImages, FailWith
  <2>2. QED
    BY <2>1 DEF ChoiceSurvivesEvidence
<1>8. CASE UNCHANGED vars
  <2>1. Ran' = Ran
    BY <1>8 DEF vars, Ran
  <2>2. QED
    BY <1>8, <2>1 DEF vars, ChoiceSurvivesEvidence, ChoiceRequested
<1>9. QED
  BY <1>1, <1>2, <1>3, <1>4, <1>5, <1>6, <1>7, <1>8 DEF Next

THEOREM EvidenceInvariant == Spec => [](GraphInv /\ EvidenceInv)
<1>1. Init => GraphInv /\ EvidenceInv
  BY GraphInitially, EvidenceInitially
<1>2. EvidenceInv /\ GraphInv /\ [Next]_vars => EvidenceInv'
  BY EvidenceStep
<1>3. QED
  BY <1>1, <1>2, GraphInvariant, PTL DEF Spec

\* A choice question whose nodes all ran fails only when the choice model does.
THEOREM GraphChoiceSurvives == Spec => []ChoiceSurvivesEvidence
<1>1. EvidenceInv => ChoiceSurvivesEvidence
  BY DEF EvidenceInv
<1>2. QED
  BY <1>1, EvidenceInvariant, PTL

-----------------------------------------------------------------------------
\* A run implements DagRun: the initial states map to its initial state, and every
\* step to one of its steps or to a stutter.
LEMMA DagStutter ==
  ASSUME UNCHANGED <<Deps, Ran, Result>>
  PROVE  [Dag!Next]_(<<Deps, Ran, Result>>)
OBVIOUS

LEMMA AddNodeExtends ==
  ASSUME GraphInv, AddNode PROVE [Dag!Next]_(<<Deps, Ran, Result>>)
<1>1. phase = "plan" /\ phase' = "plan" /\ trace' = trace
  BY DEF AddNode
<1>2. Ran = {} /\ Ran' = {}
  BY <1>1, PlanFacts DEF Ran
<1>3. nodes \in Seq(NodeSet)
  BY DEF GraphInv, GraphOK
<1>4. PICK n \in NodeSet : /\ References(n) \subseteq Images \cup DOMAIN nodes
                           /\ nodes' = Append(nodes, n)
  BY <1>3, NodeOfFacts DEF AddNode
<1>5. /\ Len(nodes) \in Nat /\ DOMAIN nodes = 1..Len(nodes)
      /\ DOMAIN nodes' = 1..(Len(nodes) + 1)
      /\ \A i \in 1..Len(nodes) : nodes'[i] = nodes[i]
      /\ nodes'[Len(nodes) + 1] = n
  BY <1>3, <1>4
<1>6. Deps \in Seq(SUBSET UNION {References(m) : m \in NodeSet})
  <2>1. \A i \in 1..Len(nodes) :
          References(nodes[i]) \ Images \in SUBSET UNION {References(m) : m \in NodeSet}
    BY <1>3
  <2>2. QED
    BY <1>5, <2>1, IsASeq DEF Deps
<1>7. Len(Deps) = Len(nodes)
  BY <1>5, <1>6 DEF Deps
<1>8. Deps' = Append(Deps, References(n) \ Images)
  BY <1>5, <1>6, <1>7 DEF Deps, References
<1>9. References(n) \ Images \subseteq DOMAIN Deps
  BY <1>4 DEF Deps
<1>10. Result = "none" /\ Result' = Result
  BY <1>1 DEF Result
<1>11. Dag!Extend
  BY <1>2, <1>8, <1>9, <1>10 DEF Dag!Extend
<1>12. QED
  BY <1>11 DEF Dag!Next

LEMMA ExecuteEvaluates ==
  ASSUME GraphInv, Execute PROVE [Dag!Next]_(<<Deps, Ran, Result>>)
<1>1. Running /\ trace' = Traced(FALSE) /\ phase' \in {"final", "primary"}
      /\ nodes' = nodes
  BY DEF Execute
<1>2. /\ Pos \in DOMAIN nodes /\ Ran = 1..(Pos - 1)
      /\ DOMAIN store = Images \cup 1..(Pos - 1)
      /\ References(Node) \subseteq DOMAIN store /\ Pos \notin DOMAIN store
  BY <1>1, RunningFacts
<1>3. Ran' = Ran \cup {Pos}
  BY <1>1, TracedFacts
<1>4. Deps' = Deps /\ DOMAIN Deps = DOMAIN nodes
  BY <1>1 DEF Deps, References
<1>5. Deps[Pos] \subseteq Ran
  BY <1>2 DEF Deps, Node
<1>6. Result = "none" /\ Result' = "none"
  BY <1>1 DEF Result, Running
<1>7. Dag!Evaluate
  BY <1>2, <1>3, <1>4, <1>5, <1>6 DEF Dag!Evaluate
<1>8. QED
  BY <1>7 DEF Dag!Next

LEMMA FailureFails ==
  ASSUME GraphInv, RefuseNode \/ FailNode \/ FailFinal \/ FailImages
  PROVE  [Dag!Next]_(<<Deps, Ran, Result>>)
<1>1. phase' = "failed" /\ nodes' = nodes /\ phase \notin {"answered", "failed"}
  BY DEF RefuseNode, FailNode, FailFinal, FailImages, FailWith, Running
<1>2. Ran' = Ran
  <2>1. CASE RefuseNode
    <3>1. Running /\ ~Unavailable
      BY <2>1, RunningFacts DEF RefuseNode, Running, Unavailable
    <3>2. QED
      BY <2>1, <3>1, TracedFacts DEF RefuseNode
  <2>2. CASE FailNode
    BY <2>2, TracedFacts DEF FailNode
  <2>3. CASE FailFinal \/ FailImages
    BY <2>3 DEF FailFinal, FailImages, Ran
  <2>4. QED
    BY <2>1, <2>2, <2>3
<1>3. Deps' = Deps
  BY <1>1 DEF Deps, References
<1>4. Result = "none" /\ Result' = "failed"
  BY <1>1 DEF Result
<1>5. Dag!Fail
  BY <1>2, <1>3, <1>4 DEF Dag!Fail
<1>6. QED
  BY <1>5 DEF Dag!Next

LEMMA AnswerAnswers ==
  ASSUME GraphInv, AnswerFromSources \/ AnswerFromImages
  PROVE  [Dag!Next]_(<<Deps, Ran, Result>>)
<1>1. phase \in {"final", "images"} /\ phase' = "answered" /\ UNCHANGED <<nodes, trace>>
  BY DEF AnswerFromSources, AnswerFromImages
<1>2. Deps' = Deps /\ Ran' = Ran /\ DOMAIN Deps = DOMAIN nodes
  BY <1>1 DEF Deps, Ran, References
<1>3. Ran = DOMAIN nodes
  BY <1>1, FinalFacts
<1>4. Deps # <<>>
  <2>1. nodes \in Seq(NodeSet) /\ nodes # <<>>
    BY <1>1 DEF GraphInv, GraphOK, PhaseOK
  <2>2. DOMAIN nodes # {}
    BY <2>1
  <2>3. QED
    BY <1>2, <2>2
<1>5. Result = "none" /\ Result' = "answered"
  BY <1>1 DEF Result
<1>6. Dag!Answer
  BY <1>2, <1>3, <1>4, <1>5 DEF Dag!Answer
<1>7. QED
  BY <1>6 DEF Dag!Next

LEMMA OtherStutters ==
  ASSUME GraphInv, Close \/ TryFallback \/ FallBackToImages \/ UNCHANGED vars
  PROVE  [Dag!Next]_(<<Deps, Ran, Result>>)
<1>1. nodes' = nodes /\ trace' = trace
  BY DEF Close, TryFallback, FallBackToImages, vars
<1>2. Deps' = Deps /\ Ran' = Ran
  BY <1>1 DEF Deps, Ran, References
<1>3. Result' = Result
  BY DEF Result, Close, TryFallback, FallBackToImages, vars
<1>4. QED
  BY <1>2, <1>3, DagStutter

\* Every run of a graph is a run of DagRun: a node gets its value once, never before
\* the nodes it reads, and an answer is given only after all of them.
THEOREM GraphRunsDag == Spec => DagSpec
<1>1. Init => Dag!Init
  <2>1. SUFFICES ASSUME Init PROVE Dag!Init
    OBVIOUS
  <2>2. Deps = <<>>
    BY <2>1 DEF Init, Deps
  <2>3. Ran = {} /\ Result = "none"
    BY <2>1 DEF Init, Ran, Result
  <2>4. QED
    BY <2>2, <2>3 DEF Dag!Init
<1>2. GraphInv /\ [Next]_vars => [Dag!Next]_(<<Deps, Ran, Result>>)
  BY AddNodeExtends, ExecuteEvaluates, FailureFails, AnswerAnswers, OtherStutters DEF Next
<1>3. QED
  BY <1>1, <1>2, GraphInvariant, PTL DEF Spec, DagSpec, Dag!Spec
=============================================================================
