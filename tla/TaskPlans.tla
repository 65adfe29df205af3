----------------------------- MODULE TaskPlans -----------------------------
(***************************************************************************)
(* The task graphs that the planner hands to the commander: what they are  *)
(* made of, and what makes one valid.  TaskGraph assumes valid plans,      *)
(* GraphPlanning makes them.                                               *)
(*                                                                         *)
(* Code: TaskGraph and TaskNode in core/protocol/task_graph.rs, built in   *)
(* agent/commander/task_graph.rs.                                          *)
(***************************************************************************)
EXTENDS Naturals

CONSTANTS
  Node,     \* task node ids
  Worker    \* the workers "worker.<role>" a node may name

MaxU8 == 255

\* No cycle: every nonempty set of nodes has one without an input in the set.
NoCycle(nodes, inputs) ==
  \A S \in SUBSET nodes : S # {} => \E n \in S : inputs[n] \cap S = {}

Acyclic(p) == NoCycle(p.nodes, p.inputs)

Plan == [nodes  : SUBSET Node,
         inputs : [Node -> SUBSET Node],
         worker : [Node -> Worker],
         max    : [Node -> 1..MaxU8]]

\* What validate_task_graph_rules and the builtin plans guarantee of a graph.
ValidPlan(p) ==
  /\ p \in Plan
  /\ p.nodes # {}
  /\ \A n \in p.nodes : p.inputs[n] \subseteq p.nodes
  /\ Acyclic(p)
=============================================================================
