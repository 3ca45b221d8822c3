------------------------------- MODULE DagRun -------------------------------
\* What a graph run promises: the nodes of an acyclic graph get a value each, a
\* node never before the nodes it reads, and an answer is given only when every
\* node has its value. A run that cannot go on fails.
EXTENDS Naturals, Sequences

VARIABLES
  deps,    \* the nodes each node reads, in the order of the nodes
  valued,  \* the nodes that have a value
  result   \* "none", "answered" or "failed"

Init == deps = <<>> /\ valued = {} /\ result = "none"

Extend ==
  /\ result = "none" /\ valued = {}
  /\ \E d \in SUBSET (DOMAIN deps) : deps' = Append(deps, d)
  /\ UNCHANGED <<valued, result>>

Evaluate ==
  /\ result = "none"
  /\ \E n \in DOMAIN deps \ valued :
       deps[n] \subseteq valued /\ valued' = valued \cup {n}
  /\ UNCHANGED <<deps, result>>

Answer ==
  /\ result = "none" /\ deps # <<>> /\ valued = DOMAIN deps
  /\ result' = "answered"
  /\ UNCHANGED <<deps, valued>>

Fail == result = "none" /\ result' = "failed" /\ UNCHANGED <<deps, valued>>

Next == Extend \/ Evaluate \/ Answer \/ Fail

Spec == Init /\ [][Next]_<<deps, valued, result>>
=============================================================================
