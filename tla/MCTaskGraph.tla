--------------------------- MODULE MCTaskGraph ---------------------------
(* Instances of TaskGraph for TLC: every valid plan over a few nodes.       *)
EXTENDS TaskGraph

CONSTANTS NodeCount, WorkerNames, AttemptLimits

MCNode == 1..NodeCount
MCRank == [n \in MCNode |-> n]

\* Every acyclic graph over all nodes, with every placement on the workers and
\* the same attempt limit for all nodes.
AllPlans ==
  {p \in [nodes  : {MCNode},
          inputs : [MCNode -> SUBSET MCNode],
          worker : [MCNode -> WorkerNames],
          max    : {[n \in MCNode |-> k] : k \in AttemptLimits}] : Acyclic(p)}

\* One plan of every two that differ only in which worker is which: workers are
\* interchangeable to the commander.
PlansUpToNames == {p \in AllPlans : p.worker[1] = CHOOSE w \in WorkerNames : TRUE}

\* Every acyclic graph over any nonempty set of the nodes, so that the graph of a second
\* command may lack nodes of the first.
PartialPlans ==
  {p \in [nodes  : SUBSET MCNode \ {{}},
          inputs : [MCNode -> SUBSET MCNode],
          worker : [MCNode -> WorkerNames],
          max    : {[n \in MCNode |-> k] : k \in AttemptLimits}] :
     /\ \A n \in MCNode : p.inputs[n] \subseteq p.nodes
     /\ \A n \in MCNode \ p.nodes : /\ p.inputs[n] = {}
                                    /\ p.worker[n] = CHOOSE w \in WorkerNames : TRUE
     /\ Acyclic(p)}
=============================================================================
