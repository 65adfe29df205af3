-------------------------- MODULE TaskGraphPromise --------------------------
(***************************************************************************)
(* What a task graph promises its user, with no commander, queue or        *)
(* worker: every node is judged at most max times, only over passed        *)
(* inputs; a node that uses its tries up fails and takes exactly the nodes *)
(* behind it along; and the answer comes with the last verdict, in the     *)
(* same step.                                                              *)
(***************************************************************************)
EXTENDS Naturals, FiniteSets

CONSTANTS Node, Plans

VARIABLES
  plan,      \* the accepted graph, a member of Plans
  verdict,   \* verdict[n]: absent, open, passed, failed or skipped
  tries,     \* tries[n]: how often node n was judged and sent back
  answered   \* was the command answered

vars == <<plan, verdict, tries, answered>>

Open(v) == \E n \in Node : v[n] = "open"

Init ==
  /\ plan \in Plans
  /\ verdict = [n \in Node |-> "absent"]
  /\ tries = [n \in Node |-> 0]
  /\ answered = FALSE

Accept ==
  /\ \A n \in Node : verdict[n] = "absent"
  /\ plan' \in Plans
  /\ verdict' = [n \in Node |-> IF n \in plan'.nodes THEN "open" ELSE "absent"]
  /\ UNCHANGED <<tries, answered>>

\* Node n may be judged: it is open and all it builds on has passed.
Judgeable(n) ==
  /\ n \in plan.nodes /\ verdict[n] = "open"
  /\ \A m \in plan.inputs[n] : verdict[m] = "passed"

Pass(n) ==
  /\ Judgeable(n)
  /\ verdict' = [verdict EXCEPT ![n] = "passed"]
  /\ answered' = ~Open(verdict')
  /\ UNCHANGED <<plan, tries>>

SendBack(n) ==
  /\ Judgeable(n)
  /\ tries[n] + 1 < plan.max[n]
  /\ tries' = [tries EXCEPT ![n] = @ + 1]
  /\ UNCHANGED <<plan, verdict, answered>>

\* The nodes lost with n are those with a lost input: verdict' is the one
\* function that says so of itself (the graph has no cycle).
Fail(n) ==
  /\ Judgeable(n)
  /\ tries[n] + 1 = plan.max[n]
  /\ verdict'[n] = "failed"
  /\ DOMAIN verdict' = Node
  /\ \A m \in Node \ {n} :
       verdict'[m] = IF /\ m \in plan.nodes /\ verdict[m] = "open"
                        /\ \E i \in plan.inputs[m] : verdict'[i] \in {"failed", "skipped"}
                     THEN "skipped" ELSE verdict[m]
  /\ answered' = ~Open(verdict')
  /\ UNCHANGED <<plan, tries>>

Next == Accept \/ \E n \in Node : Pass(n) \/ SendBack(n) \/ Fail(n)

Spec == Init /\ [][Next]_vars
=============================================================================
