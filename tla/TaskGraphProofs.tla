-------------------------- MODULE TaskGraphProofs --------------------------
(***************************************************************************)
(* Theorems about TaskGraph for every set of plans, nodes and workers and  *)
(* every number of commands and crashes.  From the bar on, when a session  *)
(* serves one command, the way AgentSession uses its runtime: the states   *)
(* of the commander agree with what is in the queues, and TaskGraph        *)
(* implements TaskGraphPromise.                                            *)
(***************************************************************************)
EXTENDS TaskGraph, FiniteSetTheorems, WellFoundedInduction, TLAPS

\* AttemptsBounded and OneRunningPerWorker of any runtime (p, st, att).
Bounded(p, st, att) ==
  \A n \in p.nodes :
    /\ att[n] <= p.max[n]
    /\ st[n] = "Pending" => att[n] < p.max[n]
    /\ st[n] = "Running" => att[n] >= 1
    /\ st[n] = "Failed" => Tries(att, n) = p.max[n]

Exclusive(p, st) ==
  \A m, n \in p.nodes :
    st[m] = "Running" /\ st[n] = "Running" /\ p.worker[m] = p.worker[n] => m = n

\* The inductive invariant: types, the two properties and what an active graph
\* owes to its number.
IInv ==
  /\ TypeOK
  /\ Bounded(plan, state, attempts)
  /\ Exclusive(plan, state)
  /\ active => graph \in 1..MaxCommands

----------------------------------------------------------------------------
(* Lemmas about the operators of TaskGraphRuntime                          *)

\* One more attempt below a limit still fits the u8 of the code.
LEMMA AttemptFits ==
  ASSUME NEW a \in 0..MaxU8, NEW b \in 1..MaxU8
  PROVE  a \in Nat /\ b \in Nat /\ b >= 1 /\ (a < b => a + 1 \in 1..MaxU8)
BY DEF MaxU8

\* What PlanAssumption says of one plan.
LEMMA PlanIsTyped ==
  ASSUME NEW p \in Plans
  PROVE  /\ p \in Plan
         /\ p.nodes \in SUBSET Node
         /\ p.inputs \in [Node -> SUBSET Node]
         /\ p.worker \in [Node -> Worker]
         /\ p.max \in [Node -> 1..MaxU8]
         /\ \A n \in p.nodes : p.inputs[n] \subseteq p.nodes
         /\ p.nodes # {}
BY PlansAreValid DEF PlanAssumption, ValidPlan, Plan

\* Skipping changes pending nodes to skipped ones and nothing else.
LEMMA SkipKeepsTypes ==
  ASSUME NEW p \in Plans, NEW st \in [Node -> NodeState]
  PROVE  /\ SkipBlocked(p, st) \in [Node -> NodeState]
         /\ \A n \in Node : \/ SkipBlocked(p, st)[n] = st[n]
                            \/ st[n] = "Pending" /\ SkipBlocked(p, st)[n] = "Skipped"
<1>1. \A n \in Blocked(p, st) : st[n] = "Pending"
  BY DEF Blocked, Pending
<1>2. QED
  BY <1>1 DEF SkipBlocked, NodeState, Terminal

\* What the verdict on a node does to it and to the others.
LEMMA AfterReportShape ==
  ASSUME NEW p \in Plans, NEW st \in [Node -> NodeState],
         NEW att \in [Node -> 0..MaxU8], NEW n \in Node, NEW passed \in BOOLEAN
  PROVE  LET new == AfterReport(p, st, att, n, passed)
         IN  /\ new \in [Node -> NodeState]
             /\ n \in p.nodes => \/ new[n] = "Passed"
                                 \/ new[n] = "Pending" /\ Tries(att, n) < p.max[n]
                                 \/ new[n] = "Failed" /\ ~(Tries(att, n) < p.max[n])
             /\ \A m \in Node \ {n} : \/ new[m] = st[m]
                                      \/ st[m] = "Pending" /\ new[m] = "Skipped"
             /\ \A m \in p.nodes : new[m] = "Running" => st[m] = "Running"
<1> DEFINE new == AfterReport(p, st, att, n, passed)
           failed == [st EXCEPT ![n] = "Failed"]
<1>0. p.nodes \subseteq Node
  BY PlanIsTyped
<1>1. failed \in [Node -> NodeState]
  BY DEF NodeState, Terminal
<1>2. CASE n \notin p.nodes
  BY <1>0, <1>1, <1>2 DEF AfterReport
<1>3. CASE n \in p.nodes /\ passed
  BY <1>0, <1>3 DEF AfterReport, NodeState, Terminal
<1>4. CASE n \in p.nodes /\ ~passed /\ Tries(att, n) < p.max[n]
  BY <1>0, <1>4 DEF AfterReport, NodeState, Terminal
<1>5. CASE n \in p.nodes /\ ~passed /\ ~(Tries(att, n) < p.max[n])
  <2>1. new = SkipBlocked(p, failed)
    BY <1>5 DEF AfterReport
  <2>2. /\ SkipBlocked(p, failed) \in [Node -> NodeState]
        /\ \A m \in Node : \/ SkipBlocked(p, failed)[m] = failed[m]
                           \/ failed[m] = "Pending" /\ SkipBlocked(p, failed)[m] = "Skipped"
    BY <1>1, SkipKeepsTypes
  <2>3. failed[n] = "Failed" /\ \A m \in Node \ {n} : failed[m] = st[m]
    OBVIOUS
  <2>4. QED
    BY <1>0, <1>5, <2>1, <2>2, <2>3
<1>6. QED
  BY <1>2, <1>3, <1>4, <1>5

\* A verdict starts no attempt, and sends back only a node with an attempt left.
LEMMA AfterReportKeepsBounds ==
  ASSUME NEW p \in Plans, NEW st \in [Node -> NodeState],
         NEW att \in [Node -> 0..MaxU8], NEW n \in Node, NEW passed \in BOOLEAN,
         Bounded(p, st, att), Exclusive(p, st)
  PROVE  LET new == AfterReport(p, st, att, n, passed)
         IN  Bounded(p, new, att) /\ Exclusive(p, new)
<1> DEFINE new == AfterReport(p, st, att, n, passed)
<1> HIDE DEF new
<1>1. /\ n \in p.nodes => \/ new[n] = "Passed"
                          \/ new[n] = "Pending" /\ Tries(att, n) < p.max[n]
                          \/ new[n] = "Failed" /\ ~(Tries(att, n) < p.max[n])
      /\ \A m \in Node \ {n} : \/ new[m] = st[m]
                               \/ st[m] = "Pending" /\ new[m] = "Skipped"
      /\ \A m \in p.nodes : new[m] = "Running" => st[m] = "Running"
  BY AfterReportShape DEF new
<1>2. p.nodes \subseteq Node /\ p.max \in [Node -> 1..MaxU8]
  BY PlanIsTyped
<1>3. Bounded(p, new, att)
  <2> SUFFICES ASSUME NEW m \in p.nodes
               PROVE  /\ att[m] <= p.max[m]
                      /\ new[m] = "Pending" => att[m] < p.max[m]
                      /\ new[m] = "Running" => att[m] >= 1
                      /\ new[m] = "Failed" => Tries(att, m) = p.max[m]
    BY DEF Bounded
  <2>1. m \in Node /\ att[m] \in Nat /\ p.max[m] \in Nat /\ p.max[m] >= 1
    BY <1>2 DEF MaxU8
  <2>2. /\ att[m] <= p.max[m]
        /\ st[m] = "Pending" => att[m] < p.max[m]
        /\ st[m] = "Running" => att[m] >= 1
        /\ st[m] = "Failed" => Tries(att, m) = p.max[m]
    BY DEF Bounded
  <2>3. CASE m = n
    <3>1. /\ Tries(att, n) < p.max[n] => att[n] < p.max[n]
          /\ ~(Tries(att, n) < p.max[n]) => Tries(att, n) = p.max[n]
      BY <2>1, <2>2, <2>3 DEF Tries
    <3>2. QED
      BY <1>1, <2>2, <2>3, <3>1
  <2>4. CASE m # n
    BY <1>1, <2>1, <2>2, <2>4
  <2>5. QED
    BY <2>3, <2>4
<1>4. Exclusive(p, new)
  BY <1>1, <1>2 DEF Exclusive
<1>5. QED
  BY <1>3, <1>4 DEF new

\* Rework instructions are kept for nodes.
LEMMA AfterReworkIsTyped ==
  ASSUME NEW p \in Plans, NEW rw \in SUBSET Node, NEW att, NEW n \in Node, NEW passed
  PROVE  AfterRework(p, rw, att, n, passed) \in SUBSET Node
BY DEF AfterRework

----------------------------------------------------------------------------
\* Scheduling keeps types and both properties, whoever listens.
LEMMA ScheduleKeeps ==
  ASSUME NEW p \in Plans, NEW g \in 1..MaxCommands,
         NEW st \in [Node -> NodeState], NEW att \in [Node -> 0..MaxU8],
         NEW rep \in SUBSET Node, NEW rw \in SUBSET Node,
         Bounded(p, st, att), Exclusive(p, st),
         mailbox \in [Worker -> Seq(Assignment \cup {Shutdown})],
         answers \in Seq(1..MaxCommands),
         Schedule(p, g, st, att, rep, rw)
  PROVE  /\ plan' = p /\ graph' = g /\ active' \in BOOLEAN
         /\ reported' = rep /\ rework' = rw
         /\ state' \in [Node -> NodeState]
         /\ attempts' \in [Node -> 0..MaxU8]
         /\ mailbox' \in [Worker -> Seq(Assignment \cup {Shutdown})]
         /\ answers' \in Seq(1..MaxCommands)
         /\ Bounded(p, state', attempts')
         /\ Exclusive(p, state')
<1> DEFINE sendTo == {n \in ReadyNodes(p, st) : Listening(p.worker[n])}
           msg(n) == BuildAssignment(p, n, g, att, rep, rw)
<1>1. /\ p.nodes \in SUBSET Node /\ p.inputs \in [Node -> SUBSET Node]
      /\ p.worker \in [Node -> Worker] /\ p.max \in [Node -> 1..MaxU8]
  BY PlanIsTyped
<1>0. plan' = p /\ graph' = g /\ reported' = rep /\ rework' = rw
  BY DEF Schedule
<1>2. CASE IsFinished(st) /\ state' = st /\ attempts' = att /\ active' = FALSE
           /\ answers' = Append(answers, g) /\ mailbox' = mailbox
  <2>1. answers' \in Seq(1..MaxCommands)
    BY <1>2
  <2>2. Bounded(p, state', attempts') /\ Exclusive(p, state')
    BY <1>2
  <2>3. QED
    BY <1>0, <1>2, <2>1, <2>2
<1>3. CASE /\ active' = TRUE
           /\ state' = [n \in Node |-> IF n \in sendTo THEN "Running" ELSE st[n]]
           /\ attempts' = [n \in Node |-> IF n \in sendTo THEN att[n] + 1 ELSE att[n]]
           /\ mailbox' = [w \in Worker |->
                IF \E n \in sendTo : p.worker[n] = w
                THEN LET n == CHOOSE n \in sendTo : p.worker[n] = w
                     IN  Append(mailbox[w], msg(n))
                ELSE mailbox[w]]
           /\ answers' = answers
  <2>1. \A n \in sendTo : /\ n \in p.nodes /\ st[n] = "Pending"
                          /\ att[n] < p.max[n] /\ att[n] + 1 \in 1..MaxU8
    <3> SUFFICES ASSUME NEW n \in sendTo
                 PROVE  /\ n \in p.nodes /\ st[n] = "Pending"
                        /\ att[n] < p.max[n] /\ att[n] + 1 \in 1..MaxU8
      OBVIOUS
    <3>1. n \in p.nodes /\ st[n] = "Pending"
      BY DEF ReadyNodes, Unblocked, Pending
    <3>2. att[n] < p.max[n]
      BY <3>1 DEF Bounded
    <3>3. att[n] \in 0..MaxU8 /\ p.max[n] \in 1..MaxU8
      BY <1>1, <3>1
    <3>4. att[n] + 1 \in 1..MaxU8
      BY <3>2, <3>3, AttemptFits
    <3>5. QED
      BY <3>1, <3>2, <3>4
  <2>2. \A m, n \in sendTo : p.worker[m] = p.worker[n] => m = n
    <3> SUFFICES ASSUME NEW m \in sendTo, NEW n \in sendTo, p.worker[m] = p.worker[n]
                 PROVE  m = n
      OBVIOUS
    <3>1. m \in Unblocked(p, st) /\ n \in Unblocked(p, st) /\ m \in Node /\ n \in Node
      BY <1>1 DEF ReadyNodes, Unblocked, Pending
    <3>2. Rank[m] <= Rank[n] /\ Rank[n] <= Rank[m]
      BY <3>1 DEF ReadyNodes
    <3>3. QED
      BY <3>1, <3>2, RankIsInjective
  <2>3. \A m \in p.nodes, n \in sendTo : st[m] = "Running" => p.worker[m] # p.worker[n]
    BY DEF ReadyNodes, Running
  <2>4. state' \in [Node -> NodeState]
    BY <1>3 DEF NodeState
  <2>5. attempts' \in [Node -> 0..MaxU8]
    BY <1>3, <2>1 DEF MaxU8
  <2>6. Bounded(p, state', attempts')
    <3> SUFFICES ASSUME NEW n \in p.nodes
                 PROVE  /\ attempts'[n] <= p.max[n]
                        /\ state'[n] = "Pending" => attempts'[n] < p.max[n]
                        /\ state'[n] = "Running" => attempts'[n] >= 1
                        /\ state'[n] = "Failed" => Tries(attempts', n) = p.max[n]
      BY DEF Bounded
    <3>1. n \in Node /\ att[n] \in 0..MaxU8 /\ p.max[n] \in 1..MaxU8
      BY <1>1
    <3>2. CASE n \in sendTo
      <4>1. state'[n] = "Running" /\ attempts'[n] = att[n] + 1 /\ att[n] < p.max[n]
        BY <1>3, <2>1, <3>1, <3>2
      <4>2. att[n] \in Nat /\ p.max[n] \in Nat
        BY <3>1, AttemptFits
      <4>3. attempts'[n] <= p.max[n] /\ attempts'[n] >= 1
        BY <4>1, <4>2
      <4>4. QED
        BY <4>1, <4>3
    <3>3. CASE n \notin sendTo
      <4>1. state'[n] = st[n] /\ attempts'[n] = att[n]
        BY <1>3, <3>1, <3>3
      <4>2. QED
        BY <4>1 DEF Bounded, Tries
    <3>4. QED
      BY <3>2, <3>3
  <2>7. Exclusive(p, state')
    <3> SUFFICES ASSUME NEW m \in p.nodes, NEW n \in p.nodes,
                        state'[m] = "Running", state'[n] = "Running",
                        p.worker[m] = p.worker[n]
                 PROVE  m = n
      BY DEF Exclusive
    <3>1. /\ m \in sendTo \/ st[m] = "Running"
          /\ n \in sendTo \/ st[n] = "Running"
      BY <1>1, <1>3
    <3>2. QED
      BY <2>2, <2>3, <3>1 DEF Exclusive
  <2>8. mailbox' \in [Worker -> Seq(Assignment \cup {Shutdown})]
    <3>1. \A n \in sendTo : msg(n) \in Assignment
      <4> SUFFICES ASSUME NEW n \in sendTo PROVE msg(n) \in Assignment
        OBVIOUS
      <4>1. n \in Node /\ att[n] + 1 \in 1..MaxU8 /\ p.inputs[n] \cap rep \in SUBSET Node
        BY <1>1, <2>1
      <4>2. (n \in rw) \in BOOLEAN
        OBVIOUS
      <4>3. QED
        BY <4>1, <4>2 DEF BuildAssignment, Assignment
    <3> HIDE DEF msg, sendTo
    <3>2. ASSUME NEW w \in Worker, NEW n \in sendTo
          PROVE  Append(mailbox[w], msg(n)) \in Seq(Assignment \cup {Shutdown})
      BY <3>1
    <3>3. QED
      BY <1>3, <3>2
  <2>9. QED
    BY <1>0, <1>3, <2>4, <2>5, <2>6, <2>7, <2>8
<1>4. QED
  BY <1>2, <1>3 DEF Schedule

----------------------------------------------------------------------------
(* The invariant is inductive                                              *)

Messages == Report \cup Command \cup {Shutdown}
Mail     == Assignment \cup {Shutdown}

\* At the start no node has been dispatched.
LEMMA InitEstablishes == Init => IInv
<1> SUFFICES ASSUME Init PROVE IInv
  OBVIOUS
<1>1. plan \in Plans
  BY PlansExist DEF Init
<1>2. TypeOK
  <2>1. state \in [Node -> NodeState]
    BY DEF Init, NodeState
  <2>2. attempts \in [Node -> 0..MaxU8]
    BY DEF Init, MaxU8
  <2>3. graph \in 0..MaxCommands /\ sent \in 0..MaxCommands
    BY BoundsAreNat DEF Init
  <2>4. inbox \in Seq(Messages) /\ answers \in Seq(1..MaxCommands)
    BY DEF Init
  <2>5. mailbox \in [Worker -> Seq(Mail)] /\ task \in [Worker -> Assignment \cup {NoTask}]
    BY DEF Init
  <2>6. /\ reported \subseteq Node /\ rework \subseteq Node
        /\ active \in BOOLEAN /\ commanderUp \in BOOLEAN /\ stopping \in BOOLEAN
        /\ worker \in [Worker -> {"up", "down", "crashed"}]
    BY DEF Init
  <2>7. QED
    BY <1>1, <2>1, <2>2, <2>3, <2>4, <2>5, <2>6 DEF TypeOK, Messages, Mail
<1>3. Bounded(plan, state, attempts) /\ Exclusive(plan, state)
  <2>1. plan.nodes \subseteq Node /\ plan.max \in [Node -> 1..MaxU8]
    BY <1>1, PlanIsTyped
  <2>2. \A n \in plan.nodes : state[n] = "Absent" /\ attempts[n] = 0
                              /\ plan.max[n] \in Nat
    BY <2>1, AttemptFits DEF Init
  <2>3. QED
    BY <2>2 DEF Bounded, Exclusive
<1>4. QED
  BY <1>2, <1>3 DEF IInv, Init

\* A message read from the inbox is typed, and so is what remains.
LEMMA InboxHead ==
  ASSUME IInv, inbox # <<>>
  PROVE  /\ Head(inbox) \in Messages /\ Tail(inbox) \in Seq(Messages)
         /\ Head(inbox).kind = "report" => Head(inbox) \in Report
         /\ Head(inbox).kind = "command" => Head(inbox) \in Command
<1>1. inbox \in Seq(Messages)
  BY DEF IInv, TypeOK, Messages
<1>2. Head(inbox) \in Messages /\ Tail(inbox) \in Seq(Messages)
  BY <1>1
<1>3. \A m \in Messages : /\ m.kind = "report" => m \in Report
                          /\ m.kind = "command" => m \in Command
  BY DEF Messages, Report, Command, Shutdown
<1>4. QED
  BY <1>2, <1>3

\* A command, with planning and first assignments, keeps the invariant.
LEMMA CommandKeeps == IInv /\ HandleCommand => IInv'
<1> SUFFICES ASSUME IInv, HandleCommand PROVE IInv'
  OBVIOUS
<1>1. inbox' = Tail(inbox) /\ UNCHANGED <<commanderUp, task, worker, sent, stopping>>
  BY DEF HandleCommand, hostVars
<1>2. Tail(inbox) \in Seq(Messages) /\ Head(inbox).graph \in 1..MaxCommands
  BY InboxHead DEF HandleCommand, Command
<1>3. PICK p \in Plans :
        Schedule(p, Head(inbox).graph,
                 [n \in Node |-> IF n \in p.nodes THEN "Pending" ELSE "Absent"],
                 [n \in Node |-> 0], {}, {})
  BY DEF HandleCommand
<1> DEFINE g == Head(inbox).graph
           st == [n \in Node |-> IF n \in p.nodes THEN "Pending" ELSE "Absent"]
           att == [n \in Node |-> 0]
<1>4. st \in [Node -> NodeState] /\ att \in [Node -> 0..MaxU8]
  BY DEF NodeState, MaxU8
<1>5. p.nodes \subseteq Node /\ p.max \in [Node -> 1..MaxU8]
  BY PlanIsTyped
<1>6. \A n \in p.nodes : /\ st[n] = "Pending" /\ att[n] = 0
                         /\ p.max[n] \in Nat /\ p.max[n] >= 1
  BY <1>5, AttemptFits, <1>4
<1> HIDE DEF st, att, g
<1>7. Bounded(p, st, att) /\ Exclusive(p, st)
  BY <1>6 DEF Bounded, Exclusive
<1>8. /\ mailbox \in [Worker -> Seq(Assignment \cup {Shutdown})]
      /\ answers \in Seq(1..MaxCommands)
  BY DEF IInv, TypeOK
<1>9. /\ plan' = p /\ graph' = g /\ active' \in BOOLEAN
      /\ reported' = {} /\ rework' = {}
      /\ state' \in [Node -> NodeState]
      /\ attempts' \in [Node -> 0..MaxU8]
      /\ mailbox' \in [Worker -> Seq(Assignment \cup {Shutdown})]
      /\ answers' \in Seq(1..MaxCommands)
      /\ Bounded(p, state', attempts')
      /\ Exclusive(p, state')
  <2>1. Schedule(p, g, st, att, {}, {}) /\ g \in 1..MaxCommands
    BY <1>2, <1>3 DEF st, att, g
  <2>2. {} \in SUBSET Node
    OBVIOUS
  <2>3. QED
    BY <1>4, <1>7, <1>8, <2>1, <2>2, ScheduleKeeps
<1>10. graph' \in 0..MaxCommands /\ graph' \in 1..MaxCommands
  BY <1>2, <1>9, BoundsAreNat DEF g
<1>11. TypeOK'
  BY <1>1, <1>2, <1>9, <1>10 DEF IInv, TypeOK, Messages
<1>12. QED
  BY <1>9, <1>10, <1>11 DEF IInv

\* A report, judged and followed by scheduling, keeps the invariant, also when it
\* is of an earlier graph.
LEMMA ReportKeeps == IInv /\ HandleReport => IInv'
<1> SUFFICES ASSUME IInv, HandleReport PROVE IInv'
  OBVIOUS
<1> DEFINE r == Head(inbox)
<1>1. inbox' = Tail(inbox) /\ UNCHANGED <<commanderUp, task, worker, sent, stopping>>
  BY DEF HandleReport, hostVars
<1>2. Tail(inbox) \in Seq(Messages) /\ r.node \in Node
  BY InboxHead DEF HandleReport, Report
<1>3. PICK passed \in BOOLEAN :
        Schedule(plan, graph, AfterReport(plan, state, attempts, r.node, passed),
                 attempts, reported \cup {r.node},
                 AfterRework(plan, rework, attempts, r.node, passed))
  BY DEF HandleReport
<1> DEFINE st == AfterReport(plan, state, attempts, r.node, passed)
           rw == AfterRework(plan, rework, attempts, r.node, passed)
           rep == reported \cup {r.node}
<1>4. /\ plan \in Plans /\ state \in [Node -> NodeState] /\ attempts \in [Node -> 0..MaxU8]
      /\ Bounded(plan, state, attempts) /\ Exclusive(plan, state)
      /\ mailbox \in [Worker -> Seq(Assignment \cup {Shutdown})]
      /\ answers \in Seq(1..MaxCommands)
      /\ reported \in SUBSET Node /\ rework \in SUBSET Node
  BY DEF IInv, TypeOK
<1>5. graph \in 1..MaxCommands
  BY DEF IInv, HandleReport
<1>6. st \in [Node -> NodeState]
  BY <1>2, <1>4, AfterReportShape
<1>7. Bounded(plan, st, attempts) /\ Exclusive(plan, st)
  BY <1>2, <1>4, AfterReportKeepsBounds
<1>8. rw \in SUBSET Node /\ rep \in SUBSET Node
  BY <1>2, <1>4, AfterReworkIsTyped
<1>9. Schedule(plan, graph, st, attempts, rep, rw)
  BY <1>3
<1> HIDE DEF st, rw, rep
<1>10. /\ plan' = plan /\ graph' = graph /\ active' \in BOOLEAN
       /\ reported' = rep /\ rework' = rw
       /\ state' \in [Node -> NodeState]
       /\ attempts' \in [Node -> 0..MaxU8]
       /\ mailbox' \in [Worker -> Seq(Assignment \cup {Shutdown})]
       /\ answers' \in Seq(1..MaxCommands)
       /\ Bounded(plan, state', attempts')
       /\ Exclusive(plan, state')
  BY <1>4, <1>5, <1>6, <1>7, <1>8, <1>9, ScheduleKeeps
<1>11. graph' \in 0..MaxCommands /\ graph' \in 1..MaxCommands
  BY <1>5, <1>10, BoundsAreNat
<1>12. TypeOK'
  BY <1>1, <1>2, <1>4, <1>8, <1>10, <1>11 DEF IInv, TypeOK, Messages
<1>13. QED
  BY <1>4, <1>10, <1>11, <1>12 DEF IInv

\* The steps of workers and host leave the runtime alone.
LEMMA RuntimeUntouched ==
  ASSUME IInv, TypeOK', UNCHANGED runtimeVars, UNCHANGED <<active, graph>>
  PROVE  IInv'
BY DEF IInv, runtimeVars

\* Workers touch only channels and their own tasks.
LEMMA WorkerKeeps ==
  ASSUME IInv, NEW w \in Worker, WorkerStep(w) \/ WorkerCrashes(w)
  PROVE  IInv'
<1>1. /\ mailbox \in [Worker -> Seq(Mail)] /\ task \in [Worker -> Assignment \cup {NoTask}]
      /\ worker \in [Worker -> {"up", "down", "crashed"}] /\ inbox \in Seq(Messages)
  BY DEF IInv, TypeOK, Mail, Messages
<1>2. CASE TakeAssignment(w)
  <2>1. mailbox[w] \in Seq(Mail) /\ mailbox[w] # <<>>
    BY <1>1, <1>2 DEF TakeAssignment
  <2>2. Tail(mailbox[w]) \in Seq(Mail) /\ Head(mailbox[w]) \in Mail
    BY <2>1
  <2>3. Head(mailbox[w]) \in Assignment
    <3>1. Head(mailbox[w]).kind = "assignment"
      BY <1>2 DEF TakeAssignment
    <3>2. QED
      BY <2>2, <3>1 DEF Mail, Shutdown
  <2>4. /\ mailbox' \in [Worker -> Seq(Mail)]
        /\ task' \in [Worker -> Assignment \cup {NoTask}]
    BY <1>1, <1>2, <2>2, <2>3 DEF TakeAssignment
  <2>5. TypeOK'
    BY <1>2, <2>4 DEF IInv, TypeOK, TakeAssignment, runtimeVars, commanderVars, hostVars, Mail
  <2>6. QED
    BY <1>2, <2>5, RuntimeUntouched DEF TakeAssignment, commanderVars
<1>3. ASSUME NEW status \in {"Completed", "Failed"}, SendReport(w, status)
      PROVE  IInv'
  <2>1. task[w] \in Assignment
    BY <1>1, <1>3 DEF SendReport
  <2>2. [kind |-> "report", graph |-> task[w].graph, node |-> task[w].node,
         worker |-> w, status |-> status] \in Report
    BY <2>1 DEF Assignment, Report
  <2>3. inbox' \in Seq(Messages)
    BY <1>1, <1>3, <2>2 DEF SendReport, Messages
  <2>4. task' \in [Worker -> Assignment \cup {NoTask}]
    BY <1>1, <1>3 DEF SendReport
  <2>5. TypeOK'
    BY <1>3, <2>3, <2>4 DEF IInv, TypeOK, SendReport, runtimeVars, hostVars, Messages
  <2>6. QED
    BY <1>3, <2>5, RuntimeUntouched DEF SendReport
<1>4. CASE WorkerStops(w)
  <2>1. /\ mailbox' \in [Worker -> Seq(Mail)]
        /\ worker' \in [Worker -> {"up", "down", "crashed"}]
    BY <1>1, <1>4 DEF WorkerStops
  <2>2. TypeOK'
    BY <1>4, <2>1 DEF IInv, TypeOK, WorkerStops, runtimeVars, commanderVars, hostVars, Mail
  <2>3. QED
    BY <1>4, <2>2, RuntimeUntouched DEF WorkerStops, commanderVars
<1>5. CASE WorkerCrashes(w)
  <2>1. /\ mailbox' \in [Worker -> Seq(Mail)]
        /\ worker' \in [Worker -> {"up", "down", "crashed"}]
        /\ task' \in [Worker -> Assignment \cup {NoTask}]
    BY <1>1, <1>5 DEF WorkerCrashes
  <2>2. TypeOK'
    BY <1>5, <2>1 DEF IInv, TypeOK, WorkerCrashes, runtimeVars, commanderVars, hostVars, Mail
  <2>3. QED
    BY <1>5, <2>2, RuntimeUntouched DEF WorkerCrashes, commanderVars
<1>6. QED
  BY <1>2, <1>3, <1>4, <1>5 DEF WorkerStep

\* The host sends commands and shuts down.
LEMMA HostKeeps ==
  ASSUME IInv, SendCommand \/ StopSession
  PROVE  IInv'
<1>1. inbox \in Seq(Messages) /\ mailbox \in [Worker -> Seq(Mail)] /\ sent \in 0..MaxCommands
  BY DEF IInv, TypeOK, Mail, Messages
<1>2. CASE SendCommand
  <2>1. sent + 1 \in 1..MaxCommands /\ sent' \in 0..MaxCommands
    BY <1>1, <1>2, BoundsAreNat DEF SendCommand
  <2>2. inbox' \in Seq(Messages)
    BY <1>1, <1>2, <2>1 DEF SendCommand, Messages, Command
  <2>3. TypeOK'
    BY <1>2, <2>1, <2>2
       DEF IInv, TypeOK, SendCommand, runtimeVars, workerVars, Messages
  <2>4. QED
    BY <1>2, <2>3, RuntimeUntouched DEF SendCommand
<1>3. CASE StopSession
  <2>1. inbox' \in Seq(Messages) /\ mailbox' \in [Worker -> Seq(Mail)]
    BY <1>1, <1>3 DEF StopSession, Messages, Mail
  <2>2. TypeOK'
    BY <1>3, <2>1 DEF IInv, TypeOK, StopSession, runtimeVars, Messages, Mail
  <2>3. QED
    BY <1>3, <2>2, RuntimeUntouched DEF StopSession
<1>4. QED
  BY <1>2, <1>3

\* Every step keeps the invariant.
LEMMA NextKeeps == IInv /\ [Next]_vars => IInv'
<1> SUFFICES ASSUME IInv, [Next]_vars PROVE IInv'
  OBVIOUS
<1>1. CASE HandleCommand
  BY <1>1, CommandKeeps
<1>2. CASE HandleReport
  BY <1>2, ReportKeeps
<1>3. CASE DropReport
  <2>1. TypeOK'
    <3>1. inbox' \in Seq(Messages)
      BY <1>3, InboxHead DEF DropReport
    <3>2. QED
      BY <1>3, <3>1
         DEF IInv, TypeOK, DropReport, runtimeVars, workerVars, hostVars, Messages
  <2>2. QED
    BY <1>3, <2>1, RuntimeUntouched DEF DropReport
<1>4. CASE CommanderStops
  <2>1. TypeOK'
    <3>0. << >> \in Seq(Messages)
      OBVIOUS
    <3>1. inbox' \in Seq(Messages) /\ commanderUp' \in BOOLEAN
      BY <1>4, <3>0 DEF CommanderStops
    <3>2. QED
      BY <1>4, <3>1
         DEF IInv, TypeOK, CommanderStops, runtimeVars, workerVars, hostVars, Messages
  <2>2. QED
    BY <1>4, <2>1, RuntimeUntouched DEF CommanderStops
<1>5. CASE \E w \in Worker : WorkerStep(w) \/ WorkerCrashes(w)
  BY <1>5, WorkerKeeps
<1>6. CASE SendCommand \/ StopSession
  BY <1>6, HostKeeps
<1>7. CASE UNCHANGED vars
  BY <1>7 DEF vars, runtimeVars, commanderVars, workerVars, hostVars, IInv, TypeOK
<1>8. QED
  BY <1>1, <1>2, <1>3, <1>4, <1>5, <1>6, <1>7 DEF Next, CommanderStep

----------------------------------------------------------------------------
(* Answers                                                                 *)

\* The commands still in an inbox are for graphs after g, in order; the host
\* has sent k.
Ahead(box, g, k) ==
  /\ \A i \in DOMAIN box : box[i].kind = "command" => g < box[i].graph /\ box[i].graph <= k
  /\ \A i, j \in DOMAIN box :
       i < j /\ box[i].kind = "command" /\ box[j].kind = "command" => box[i].graph < box[j].graph

Increasing(ans) == \A i, j \in DOMAIN ans : i < j => ans[i] < ans[j]

\* What is said of the graphs up to g, of which only the last may be active.
Settled(ans, g, act, st) ==
  /\ \A i \in DOMAIN ans : ans[i] <= g /\ (act => ans[i] # g)
  /\ Increasing(ans)
  /\ g > 0 /\ ~act => (\E i \in DOMAIN ans : ans[i] = g) /\ IsFinished(st)

\* The inductive invariant of the answers, on top of TypeOK.
AnswersInv == Ahead(inbox, graph, sent) /\ Settled(answers, graph, active, state) /\ graph <= sent

LEMMA AheadOfTail ==
  ASSUME NEW box \in Seq(Messages), box # <<>>, NEW g \in Nat, NEW k \in Nat, Ahead(box, g, k)
  PROVE  /\ Ahead(Tail(box), g, k)
         /\ Head(box).kind = "command" =>
              /\ Ahead(Tail(box), Head(box).graph, k)
              /\ g < Head(box).graph /\ Head(box).graph <= k
<1> DEFINE t == Tail(box)
<1>1. /\ \A i \in DOMAIN t : i + 1 \in DOMAIN box /\ t[i] = box[i + 1] /\ 1 < i + 1
      /\ 1 \in DOMAIN box /\ Head(box) = box[1] /\ DOMAIN t \subseteq Nat
  OBVIOUS
<1> HIDE DEF t
<1>2. Ahead(t, g, k)
  <2>1. \A i \in DOMAIN t : t[i].kind = "command" => g < t[i].graph /\ t[i].graph <= k
    BY <1>1 DEF Ahead
  <2>2. ASSUME NEW i \in DOMAIN t, NEW j \in DOMAIN t, i < j,
               t[i].kind = "command", t[j].kind = "command"
        PROVE  t[i].graph < t[j].graph
    <3>1. i + 1 \in DOMAIN box /\ j + 1 \in DOMAIN box /\ i + 1 < j + 1
      BY <1>1, <2>2
    <3> QED  BY <1>1, <2>2, <3>1 DEF Ahead
  <2> QED  BY <2>1, <2>2 DEF Ahead
<1>3. ASSUME Head(box).kind = "command"
      PROVE  Ahead(t, Head(box).graph, k) /\ g < Head(box).graph /\ Head(box).graph <= k
  BY <1>1, <1>3 DEF Ahead
<1> QED  BY <1>2, <1>3 DEF t

LEMMA AheadOfMore ==
  ASSUME NEW box \in Seq(Messages), NEW g \in Nat, NEW k \in Nat, NEW m \in Messages, NEW l \in Nat,
         Ahead(box, g, k), k <= l, g <= k, m.kind = "command" => m.graph = l /\ l = k + 1
  PROVE  Ahead(Append(box, m), g, l)
<1> DEFINE t == Append(box, m)
<1>1. /\ \A i \in DOMAIN t : \/ i \in DOMAIN box /\ t[i] = box[i] /\ i < Len(box) + 1
                             \/ i = Len(box) + 1 /\ t[i] = m
      /\ DOMAIN t \subseteq Nat /\ Len(box) \in Nat /\ \A i \in DOMAIN box : i <= Len(box)
  OBVIOUS
<1> HIDE DEF t
<1>2. \A i \in DOMAIN box : box[i].kind = "command" => box[i].graph \in Nat
  BY DEF Messages, Command, Report, Shutdown
<1>3. ASSUME NEW i \in DOMAIN t, t[i].kind = "command" PROVE g < t[i].graph /\ t[i].graph <= l
  BY <1>1, <1>2, <1>3 DEF Ahead
<1>4. ASSUME NEW i \in DOMAIN t, NEW j \in DOMAIN t, i < j,
             t[i].kind = "command", t[j].kind = "command"
      PROVE  t[i].graph < t[j].graph
  <2>1. i \in DOMAIN box /\ t[i] = box[i]
    BY <1>1, <1>4
  <2>2. CASE j \in DOMAIN box /\ t[j] = box[j]
    BY <1>4, <2>1, <2>2 DEF Ahead
  <2>3. CASE t[j] = m
    BY <1>2, <1>4, <2>1, <2>3 DEF Ahead
  <2> QED  BY <1>1, <2>2, <2>3
<1>5. Ahead(t, g, l)
  BY <1>3, <1>4 DEF Ahead
<1> QED  BY <1>5 DEF t

\* finish_task_graph: the answer of a graph that was not answered comes last.
LEMMA AnswerComesLast ==
  ASSUME NEW ans \in Seq(Nat), NEW g \in Nat, NEW st, Increasing(ans),
         \A i \in DOMAIN ans : ans[i] < g, IsFinished(st)
  PROVE  Settled(Append(ans, g), g, FALSE, st)
<1> DEFINE t == Append(ans, g)
<1>1. /\ \A i \in DOMAIN t : \/ i \in DOMAIN ans /\ t[i] = ans[i] /\ i < Len(ans) + 1
                             \/ i = Len(ans) + 1 /\ t[i] = g
      /\ DOMAIN t \subseteq Nat /\ Len(ans) \in Nat /\ \A i \in DOMAIN ans : i <= Len(ans)
      /\ Len(ans) + 1 \in DOMAIN t /\ t[Len(ans) + 1] = g
  OBVIOUS
<1> HIDE DEF t
<1>2. Increasing(t)
  BY <1>1 DEF Increasing
<1>3. \A i \in DOMAIN t : t[i] <= g
  BY <1>1
<1>4. Settled(t, g, FALSE, st)
  BY <1>1, <1>2, <1>3 DEF Settled
<1> QED  BY <1>4 DEF t

\* Scheduling graph g, none of whose answers was sent, ends with its answer last or
\* with the graph active.
LEMMA ScheduleSettles ==
  ASSUME TypeOK, NEW p, NEW g \in 1..MaxCommands, NEW st, NEW att, NEW rep, NEW rw,
         Increasing(answers), \A i \in DOMAIN answers : answers[i] < g,
         Schedule(p, g, st, att, rep, rw)
  PROVE  Settled(answers', graph', active', state') /\ graph' = g
<1>1. graph' = g /\ g \in Nat /\ answers \in Seq(Nat) /\ MaxCommands \in Nat
  BY BoundsAreNat DEF Schedule, TypeOK
<1>2. CASE IsFinished(st)
  <2>1. active' = FALSE /\ answers' = Append(answers, g) /\ state' = st
    BY <1>2 DEF Schedule
  <2> QED  BY <1>1, <1>2, <2>1, AnswerComesLast
<1>3. CASE ~IsFinished(st)
  <2>1. active' = TRUE /\ answers' = answers
    BY <1>3 DEF Schedule
  <2>2. \A i \in DOMAIN answers : answers[i] \in Nat
    BY <1>1
  <2>3. Settled(answers, g, TRUE, state')
    BY <1>1, <2>2 DEF Settled
  <2> QED  BY <1>1, <2>1, <2>3
<1> QED  BY <1>2, <1>3

LEMMA AnswersKept ==
  ASSUME IInv, AnswersInv, [Next]_vars
  PROVE  AnswersInv'
<1> USE DEF AnswersInv
<1>0. TypeOK /\ (active => graph \in 1..MaxCommands)
  BY DEF IInv
<1>1. /\ inbox \in Seq(Messages) /\ graph \in Nat /\ sent \in Nat /\ MaxCommands \in Nat
      /\ answers \in Seq(1..MaxCommands) /\ graph <= MaxCommands /\ sent <= MaxCommands
  BY <1>0, BoundsAreNat DEF TypeOK, Messages
<1>2. \A i \in DOMAIN answers : answers[i] \in Nat
  BY <1>1
<1>3. Ahead(<<>>, graph, sent)
  BY DEF Ahead
<1>4. CASE HandleCommand
  <2> DEFINE g == Head(inbox).graph
  <2>1. /\ inbox # <<>> /\ Head(inbox).kind = "command" /\ inbox' = Tail(inbox) /\ sent' = sent
        /\ \E p, st, att, rep, rw : Schedule(p, g, st, att, rep, rw)
    BY <1>4 DEF HandleCommand, hostVars
  <2>2. Head(inbox) \in Messages
    BY <1>1, <2>1
  <2>3. g \in 1..MaxCommands
    BY <2>1, <2>2 DEF Messages, Command, Report, Shutdown
  <2>4. graph < g /\ g <= sent /\ Ahead(Tail(inbox), g, sent)
    BY <1>1, <2>1, AheadOfTail
  <2> HIDE DEF g
  <2>5. Increasing(answers) /\ \A i \in DOMAIN answers : answers[i] < g
    BY <1>1, <1>2, <2>3, <2>4 DEF Settled
  <2>6. Settled(answers', graph', active', state') /\ graph' = g
    BY <1>0, <2>1, <2>3, <2>5, ScheduleSettles
  <2> QED  BY <2>1, <2>4, <2>6
<1>5. CASE HandleReport
  <2>1. /\ inbox # <<>> /\ Head(inbox).kind = "report" /\ inbox' = Tail(inbox) /\ sent' = sent
        /\ active /\ \E p, st, att, rep, rw : Schedule(p, graph, st, att, rep, rw)
    BY <1>5 DEF HandleReport, hostVars
  <2>2. Ahead(Tail(inbox), graph, sent)
    BY <1>1, <2>1, AheadOfTail
  <2>3. Increasing(answers) /\ \A i \in DOMAIN answers : answers[i] < graph
    BY <1>1, <1>2, <2>1 DEF Settled
  <2>4. Settled(answers', graph', active', state') /\ graph' = graph
    BY <1>0, <2>1, <2>3, ScheduleSettles
  <2> QED  BY <2>1, <2>2, <2>4
<1>6. CASE DropReport
  <2>1. /\ inbox # <<>> /\ inbox' = Tail(inbox)
        /\ UNCHANGED <<sent, answers, graph, active, state>>
    BY <1>6 DEF DropReport, hostVars, runtimeVars
  <2>2. Ahead(Tail(inbox), graph, sent)
    BY <1>1, <2>1, AheadOfTail
  <2> QED  BY <2>1, <2>2
<1>7. CASE CommanderStops
  BY <1>3, <1>7 DEF CommanderStops, hostVars, runtimeVars
<1>8. ASSUME NEW w \in Worker, WorkerStep(w) \/ WorkerCrashes(w) PROVE AnswersInv'
  <2>1. UNCHANGED <<sent, answers, graph, active, state>>
    BY <1>8 DEF WorkerStep, TakeAssignment, SendReport, WorkerStops, WorkerCrashes, hostVars,
                runtimeVars, commanderVars
  <2>2. ASSUME NEW status \in {"Completed", "Failed"}, SendReport(w, status)
        PROVE  Ahead(inbox', graph, sent)
    <3>1. task[w] \in Assignment
      BY <1>0, <2>2 DEF SendReport, TypeOK
    <3> DEFINE m == [kind |-> "report", graph |-> task[w].graph, node |-> task[w].node,
                     worker |-> w, status |-> status]
    <3>2. m \in Messages /\ m.kind # "command"
      BY <3>1 DEF Assignment, Report, Messages
    <3>3. inbox' = Append(inbox, m) \/ inbox' = inbox
      BY <2>2 DEF SendReport
    <3> HIDE DEF m
    <3>4. Ahead(Append(inbox, m), graph, sent)
      BY <1>1, <3>2, AheadOfMore
    <3> QED  BY <3>3, <3>4
  <2>3. CASE inbox' = inbox
    BY <2>1, <2>3
  <2>4. CASE inbox' # inbox
    BY <1>8, <2>1, <2>2, <2>4 DEF WorkerStep, TakeAssignment, WorkerStops, WorkerCrashes, commanderVars
  <2> QED  BY <2>3, <2>4
<1>9. CASE SendCommand
  <2> DEFINE m == [kind |-> "command", graph |-> sent + 1]
  <2>1. /\ sent' = sent + 1 /\ sent + 1 \in 1..MaxCommands /\ inbox' = Append(inbox, m)
        /\ UNCHANGED <<answers, graph, active, state>>
    BY <1>1, <1>9 DEF SendCommand, runtimeVars
  <2>2. m \in Messages /\ m.graph = sent + 1
    BY <2>1 DEF Messages, Command
  <2> HIDE DEF m
  <2>3. Ahead(Append(inbox, m), graph, sent + 1)
    BY <1>1, <2>2, AheadOfMore
  <2> QED  BY <1>1, <2>1, <2>3
<1>10. CASE StopSession
  <2>1. inbox' = Append(inbox, Shutdown) /\ UNCHANGED <<sent, answers, graph, active, state>>
    BY <1>10 DEF StopSession, runtimeVars
  <2>2. Shutdown \in Messages /\ Shutdown.kind # "command"
    BY DEF Messages, Shutdown
  <2>3. Ahead(Append(inbox, Shutdown), graph, sent)
    BY <1>1, <2>2, AheadOfMore
  <2> QED  BY <2>1, <2>3
<1>11. CASE UNCHANGED vars
  BY <1>11 DEF vars, runtimeVars, commanderVars, hostVars
<1> QED  BY <1>4, <1>5, <1>6, <1>7, <1>8, <1>9, <1>10, <1>11 DEF Next, CommanderStep

----------------------------------------------------------------------------
(* Theorems                                                                *)

\* The invariant holds in every reachable state, whatever the plans and bounds.
THEOREM Invariance == Spec => []IInv
<1>1. Init => IInv
  BY InitEstablishes
<1>2. IInv /\ [Next]_vars => IInv'
  BY NextKeeps
<1>3. QED
  BY <1>1, <1>2, PTL DEF Spec

\* Every variable keeps its type; in particular an attempt count, a u8 in the
\* code, never exceeds 255 and build_assignment's attempt + 1 does not overflow.
THEOREM TypeCorrect == Spec => []TypeOK
<1>1. IInv => TypeOK
  BY DEF IInv
<1>2. QED
  BY <1>1, Invariance, PTL

\* No node is dispatched more often than its max_attempts, and none fails with
\* attempts left, for any number of commands, stale reports and panics.
THEOREM AttemptsAreBounded == Spec => []AttemptsBounded
<1>1. IInv => AttemptsBounded
  BY DEF IInv, Bounded, AttemptsBounded
<1>2. QED
  BY <1>1, Invariance, PTL

\* Two nodes of one role never run at the same time, for any number of
\* commands, stale reports and panics.
THEOREM WorkersAreExclusive == Spec => []OneRunningPerWorker
<1>1. IInv => OneRunningPerWorker
  BY DEF IInv, Exclusive, OneRunningPerWorker
<1>2. QED
  BY <1>1, Invariance, PTL

\* What is said of the answers holds in every reachable state.
THEOREM AnswersInvariance == Spec => []AnswersInv
<1>1. Init => AnswersInv
  BY DEF Init, AnswersInv, Ahead, Settled, Increasing
<1>2. IInv /\ AnswersInv /\ [Next]_vars => AnswersInv'
  BY AnswersKept
<1> QED  BY <1>1, <1>2, Invariance, PTL DEF Spec

\* finish_task_graph is reached once for every graph: an active graph is not yet
\* answered, one that is no longer active was answered last and with no node left
\* open, for any number of commands and whatever reports come late.
THEOREM AnswersAreFinal == Spec => []AnswerWhenFinished
<1>1. IInv /\ AnswersInv => AnswerWhenFinished
  <2> SUFFICES ASSUME IInv, AnswersInv, graph > 0 PROVE
         /\ active <=> graph \notin {answers[i] : i \in DOMAIN answers}
         /\ ~active => \A n \in Node : state[n] \in Terminal \cup {"Absent"}
         /\ \A i, j \in DOMAIN answers : i < j => answers[i] < answers[j]
    BY DEF AnswerWhenFinished
  <2>1. active => graph \notin {answers[i] : i \in DOMAIN answers}
    BY DEF AnswersInv, Settled
  <2>2. ~active => graph \in {answers[i] : i \in DOMAIN answers}
    BY DEF AnswersInv, Settled
  <2>3. ~active => \A n \in Node : state[n] \in Terminal \cup {"Absent"}
    BY DEF AnswersInv, Settled, IsFinished, IInv, TypeOK, NodeState, Terminal
  <2>4. \A i, j \in DOMAIN answers : i < j => answers[i] < answers[j]
    BY DEF AnswersInv, Settled, Increasing
  <2> QED  BY <2>1, <2>2, <2>3, <2>4
<1> QED  BY <1>1, Invariance, AnswersInvariance, PTL

----------------------------------------------------------------------------
(* ONE COMMAND.  The invariant                                             *)

\* SkippedIffBlocked of any runtime.
Sound(p, st) ==
  \A n \in p.nodes :
    /\ st[n] = "Skipped" <=> \E m \in p.inputs[n] : st[m] \in {"Failed", "Skipped"}
    /\ st[n] \in {"Running", "Passed", "Failed"} => \A m \in p.inputs[n] : st[m] = "Passed"

\* What is kept beside the states: the reports of the passed nodes, and a rework
\* instruction for the pending nodes that were sent back, whose inputs have passed.
Noted(p, st, att, rep, rw) ==
  \A n \in p.nodes :
    /\ st[n] = "Passed" => n \in rep
    /\ st[n] = "Pending" => (n \in rw <=> att[n] >= 1)
    /\ st[n] = "Pending" /\ att[n] >= 1 => \A m \in p.inputs[n] : st[m] = "Passed"

\* The states of a graph that was planned; before it there are none.
Shaped(p, st) == \A n \in Node : st[n] = "Absent" <=> n \notin p.nodes

Runtime(p, st, att, rep, rw) == Sound(p, st) /\ Noted(p, st, att, rep, rw) /\ Shaped(p, st)

\* Given for any runtime.
GivenBy(p, st, att, a) ==
  /\ a.inputs = p.inputs[a.node]
  /\ \A m \in p.inputs[a.node] : st[m] = "Passed"
  /\ a.attempt = att[a.node]
  /\ a.rework <=> a.attempt > 1

\* The worker w may hold a: its node runs, and has what it needs.
Due(p, st, att, a, w) ==
  /\ a.node \in p.nodes /\ p.worker[a.node] = w /\ st[a.node] = "Running"
  /\ GivenBy(p, st, att, a)

Assigned(box) == {i \in DOMAIN box : box[i].kind = "assignment"}
Reports(inb, w) == {i \in DOMAIN inb : inb[i].kind = "report" /\ inb[i].worker = w}

\* A worker with mailbox box and task t has one thing under way at most.
Alone(box, t, inb, w) ==
  /\ \A i, j \in Assigned(box) : i = j
  /\ \A i, j \in Reports(inb, w) : i = j
  /\ t # NoTask => Assigned(box) = {}
  /\ Reports(inb, w) # {} => t = NoTask /\ Assigned(box) = {}

\* Everything under way is about a running node.
AllDue(p, st, att, box, t, inb, w) ==
  /\ \A i \in Assigned(box) : Due(p, st, att, box[i], w)
  /\ t # NoTask => Due(p, st, att, t, w)
  /\ \A i \in Reports(inb, w) : /\ inb[i].node \in p.nodes /\ p.worker[inb[i].node] = w
                                /\ st[inb[i].node] = "Running"

\* Node n is under way at a worker with mailbox box and task t.
UnderWay(box, t, inb, w, n) ==
  \/ t # NoTask /\ t.node = n
  \/ \E i \in Assigned(box) : box[i].node = n
  \/ \E i \in Reports(inb, w) : inb[i].node = n

\* The queues agree with the states, for workers that listen (up) to a commander
\* that does.
Agrees(p, st, att, box, t, inb, w, up) ==
  /\ Alone(box, t, inb, w)
  /\ AllDue(p, st, att, box, t, inb, w)
  /\ up => \A n \in p.nodes : st[n] = "Running" /\ p.worker[n] = w => UnderWay(box, t, inb, w, n)

AllAgree(p, st, att, box, t, inb, up) ==
  \A w \in Worker : Agrees(p, st, att, box[w], t[w], inb, w, up[w])

Up == [w \in Worker |-> commanderUp /\ Listening(w)]

\* No graph was planned yet.
Fresh == state = [n \in Node |-> "Absent"] /\ attempts = [n \in Node |-> 0] /\ answers = <<>>

\* The inductive invariant, on top of IInv and AnswersInv.
OneInv ==
  /\ graph = 0 => Fresh
  /\ graph > 0 => Runtime(plan, state, attempts, reported, rework)
  /\ AllAgree(plan, state, attempts, mailbox, task, inbox, Up)

----------------------------------------------------------------------------
(* What a verdict does to the runtime                                      *)

\* skip_blocked_descendants ends with exactly the nodes that have an input which is
\* lost or blocked.
LEMMA BlockedIsFixpoint ==
  ASSUME NEW p \in Plans, NEW st
  PROVE  /\ Blocked(p, st) \subseteq Pending(p, st)
         /\ \A n \in Pending(p, st) :
              n \in Blocked(p, st) <=> p.inputs[n] \cap (Lost(st) \cup Blocked(p, st)) # {}
<1> DEFINE B == Blocked(p, st)
           P == Pending(p, st)
           C == {n \in B : p.inputs[n] \cap (Lost(st) \cup B) # {}}
<1>1. B \subseteq P
  BY DEF Blocked
<1>2. \A n \in P : (\A D \in SUBSET P : ClosedUnderSkip(p, st, D) => n \in D) <=> n \in B
  BY DEF Blocked
<1>3. \A D \in SUBSET P :
        ClosedUnderSkip(p, st, D) <=> \A n \in P : p.inputs[n] \cap (Lost(st) \cup D) # {} => n \in D
  BY DEF ClosedUnderSkip
<1> HIDE DEF B, P
<1>4. ASSUME NEW n \in P, p.inputs[n] \cap (Lost(st) \cup B) # {}
      PROVE  n \in B
  <2> SUFFICES ASSUME NEW D \in SUBSET P, ClosedUnderSkip(p, st, D) PROVE n \in D
    BY <1>2
  <2>1. B \subseteq D
    BY <1>1, <1>2
  <2> QED  BY <1>3, <1>4, <2>1
<1>5. C \in SUBSET P /\ C \subseteq B
  BY <1>1
<1>6. \A n \in P : p.inputs[n] \cap (Lost(st) \cup C) # {} => n \in C
  BY <1>4, <1>5
<1>7. B \subseteq C
  <2>1. ClosedUnderSkip(p, st, C)
    BY <1>3, <1>5, <1>6
  <2> HIDE DEF C
  <2> QED  BY <1>1, <1>2, <1>5, <2>1
<1> QED  BY <1>1, <1>4, <1>7 DEF B, P

\* The nodes lost with a failed node: SkippedIffBlocked holds again at once.
LEMMA FailureKeepsSound ==
  ASSUME NEW p \in Plans, NEW st \in [Node -> NodeState], NEW n \in p.nodes,
         st[n] = "Running", Sound(p, st), Shaped(p, st)
  PROVE  Sound(p, SkipBlocked(p, [st EXCEPT ![n] = "Failed"]))
<1> DEFINE failed == [st EXCEPT ![n] = "Failed"]
           B      == Blocked(p, failed)
           new    == SkipBlocked(p, failed)
<1>1. /\ p.nodes \subseteq Node
      /\ \A m \in p.nodes : p.inputs[m] \subseteq p.nodes /\ p.inputs[m] \in SUBSET Node
  BY PlanIsTyped
<1>2. failed[n] = "Failed" /\ \A m \in Node \ {n} : failed[m] = st[m]
  BY <1>1
<1>3. /\ B \subseteq Pending(p, failed)
      /\ \A m \in Pending(p, failed) : m \in B <=> p.inputs[m] \cap (Lost(failed) \cup B) # {}
  BY BlockedIsFixpoint
<1>4. \A m \in Node : new[m] = IF m \in B THEN "Skipped" ELSE failed[m]
  BY DEF SkipBlocked
<1>5. /\ \A m \in Pending(p, failed) : m \in p.nodes /\ st[m] = "Pending"
      /\ \A m \in p.nodes : st[m] = "Pending" => m \in Pending(p, failed)
      /\ \A m \in Node : m \in Lost(failed) <=> m = n \/ st[m] \in {"Failed", "Skipped"}
  BY <1>1, <1>2 DEF Pending, Lost
<1> HIDE DEF failed, B, new
<1>6. \A m \in Node : new[m] \in {"Failed", "Skipped"} <=> m \in Lost(failed) \cup B
  BY <1>2, <1>4, <1>5
<1> SUFFICES ASSUME NEW m \in p.nodes
             PROVE  /\ new[m] = "Skipped" <=> \E k \in p.inputs[m] : new[k] \in {"Failed", "Skipped"}
                    /\ new[m] \in {"Running", "Passed", "Failed"} =>
                         \A k \in p.inputs[m] : new[k] = "Passed"
  BY DEF Sound, new, failed
<1>7. /\ st[m] = "Skipped" <=> \E k \in p.inputs[m] : st[k] \in {"Failed", "Skipped"}
      /\ st[m] \in {"Running", "Passed", "Failed"} => \A k \in p.inputs[m] : st[k] = "Passed"
      /\ m \in Node /\ st[m] \in NodeState /\ st[m] # "Absent"
  BY <1>1 DEF Sound, Shaped
<1>8. \A k \in p.inputs[m] : k \in Node
  BY <1>1
<1>9. CASE st[m] = "Pending"
  <2>1. m \in Pending(p, failed) /\ m # n
    BY <1>5, <1>9
  <2>2. m \in B <=> \E k \in p.inputs[m] : new[k] \in {"Failed", "Skipped"}
    BY <1>3, <1>6, <1>8, <2>1
  <2> QED  BY <1>2, <1>4, <1>7, <1>9, <2>1, <2>2
<1>10. CASE st[m] = "Skipped"
  <2>1. PICK k \in p.inputs[m] : st[k] \in {"Failed", "Skipped"}
    BY <1>7, <1>10
  <2>2. new[k] \in {"Failed", "Skipped"} /\ m # n
    BY <1>5, <1>6, <1>8, <1>10, <2>1
  <2>3. m \notin B
    BY <1>3, <1>5, <1>10
  <2> QED  BY <1>2, <1>4, <1>7, <1>10, <2>1, <2>2, <2>3
<1>11. CASE st[m] \in {"Running", "Passed", "Failed"}
  <2>1. \A k \in p.inputs[m] : k # n /\ st[k] = "Passed" /\ k \notin B
    BY <1>3, <1>5, <1>7, <1>11
  <2>2. \A k \in p.inputs[m] : new[k] = "Passed"
    BY <1>2, <1>4, <1>8, <2>1
  <2>3. m \notin B
    BY <1>3, <1>5, <1>11
  <2>4. new[m] # "Skipped"
    BY <1>2, <1>4, <1>7, <1>11, <2>3
  <2> QED  BY <2>2, <2>4
<1> QED  BY <1>7, <1>9, <1>10, <1>11 DEF NodeState, Terminal

\* apply_report on a running node keeps the runtime in order.
LEMMA VerdictKeepsRuntime ==
  ASSUME NEW p \in Plans, NEW st \in [Node -> NodeState], NEW att \in [Node -> 0..MaxU8],
         NEW rep \in SUBSET Node, NEW rw \in SUBSET Node,
         NEW n \in p.nodes, st[n] = "Running", NEW passed \in BOOLEAN,
         Bounded(p, st, att), Runtime(p, st, att, rep, rw)
  PROVE  Runtime(p, AfterReport(p, st, att, n, passed), att, rep \cup {n},
                 AfterRework(p, rw, att, n, passed))
<1> DEFINE new == AfterReport(p, st, att, n, passed)
           nrw == AfterRework(p, rw, att, n, passed)
<1>1. /\ p.nodes \subseteq Node /\ n \in Node
      /\ \A m \in p.nodes : p.inputs[m] \subseteq p.nodes /\ p.inputs[m] \in SUBSET Node
  BY PlanIsTyped
<1>2. /\ new \in [Node -> NodeState]
      /\ \/ new[n] = "Passed"
         \/ new[n] = "Pending" /\ Tries(att, n) < p.max[n]
         \/ new[n] = "Failed" /\ ~(Tries(att, n) < p.max[n])
      /\ \A m \in Node \ {n} : \/ new[m] = st[m]
                               \/ st[m] = "Pending" /\ new[m] = "Skipped"
  BY <1>1, AfterReportShape
<1>3. /\ \A m \in p.nodes : m # n => (m \in nrw <=> m \in rw)
      /\ new[n] = "Pending" => n \in nrw
  <2>1. CASE passed
    BY <1>1, <2>1 DEF AfterReport, AfterRework
  <2>2. CASE ~passed /\ Tries(att, n) < p.max[n]
    BY <1>1, <2>2 DEF AfterReport, AfterRework
  <2>3. CASE ~passed /\ ~(Tries(att, n) < p.max[n])
    BY <1>2, <2>3 DEF AfterRework
  <2> QED  BY <2>1, <2>2, <2>3
<1>4. att[n] >= 1
  BY DEF Bounded
<1>5. Sound(p, new)
  <2>1. CASE passed
    <3>1. new[n] = "Passed" /\ \A m \in Node \ {n} : new[m] = st[m]
      BY <1>1, <2>1 DEF AfterReport
    <3> HIDE DEF new
    <3> QED  BY <1>1, <3>1 DEF Sound, Runtime
  <2>2. CASE ~passed /\ Tries(att, n) < p.max[n]
    <3>1. new[n] = "Pending" /\ \A m \in Node \ {n} : new[m] = st[m]
      BY <1>1, <2>2 DEF AfterReport
    <3> HIDE DEF new
    <3>2. SUFFICES ASSUME NEW m \in p.nodes
                   PROVE  /\ new[m] = "Skipped" <=> \E k \in p.inputs[m] : new[k] \in {"Failed", "Skipped"}
                          /\ new[m] \in {"Running", "Passed", "Failed"} =>
                               \A k \in p.inputs[m] : new[k] = "Passed"
      BY DEF Sound
    <3>3. /\ st[m] = "Skipped" <=> \E k \in p.inputs[m] : st[k] \in {"Failed", "Skipped"}
          /\ st[m] \in {"Running", "Passed", "Failed"} => \A k \in p.inputs[m] : st[k] = "Passed"
      BY DEF Sound, Runtime
    <3>4. \A k \in p.inputs[m] : k \in Node
      BY <1>1
    <3>5. \A k \in p.inputs[m] : new[k] \in {"Failed", "Skipped"} <=> st[k] \in {"Failed", "Skipped"}
      BY <3>1, <3>4
    <3>6. new[m] \in {"Running", "Passed", "Failed"} =>
            m # n /\ \A k \in p.inputs[m] : k # n /\ new[k] = "Passed"
      BY <1>1, <3>1, <3>3, <3>4
    <3> QED  BY <1>1, <3>1, <3>3, <3>5, <3>6
  <2>3. CASE ~passed /\ ~(Tries(att, n) < p.max[n])
    <3>1. new = SkipBlocked(p, [st EXCEPT ![n] = "Failed"])
      BY <2>3 DEF AfterReport
    <3> QED  BY <3>1, FailureKeepsSound DEF Runtime
  <2> QED  BY <2>1, <2>2, <2>3
<1> HIDE DEF new, nrw
<1>6. Noted(p, new, att, rep \cup {n}, nrw)
  <2>1. \A m \in p.nodes : /\ new[m] = "Passed" => m \in rep \cup {n}
                           /\ new[m] = "Pending" => (m \in nrw <=> att[m] >= 1)
    BY <1>1, <1>2, <1>3, <1>4 DEF Noted, Runtime
  <2>2. ASSUME NEW m \in p.nodes, new[m] = "Pending", att[m] >= 1
        PROVE  \A k \in p.inputs[m] : new[k] = "Passed"
    <3>1. m = n \/ st[m] = "Pending"
      BY <1>1, <1>2, <2>2
    <3>2. \A k \in p.inputs[m] : st[k] = "Passed" /\ k \in Node
      BY <1>1, <2>2, <3>1 DEF Noted, Sound, Runtime
    <3> QED  BY <1>2, <3>2
  <2> QED  BY <2>1, <2>2 DEF Noted
<1>7. Shaped(p, new)
  BY <1>1, <1>2 DEF Shaped, Runtime
<1> QED  BY <1>5, <1>6, <1>7 DEF Runtime, new, nrw

----------------------------------------------------------------------------
(* What sending and receiving does to the agreement of one worker          *)

Idle(box, t, inb, w) == Assigned(box) = {} /\ t = NoTask /\ Reports(inb, w) = {}

Quiet(p, st, w) == \A n \in p.nodes : p.worker[n] = w => st[n] # "Running"

\* A worker none of whose nodes runs has nothing under way,
LEMMA QuietIsIdle ==
  ASSUME NEW p, NEW st, NEW att, NEW box, NEW t, NEW inb, NEW w, NEW up,
         Agrees(p, st, att, box, t, inb, w, up), Quiet(p, st, w)
  PROVE  Idle(box, t, inb, w)
<1>1. AllDue(p, st, att, box, t, inb, w)
  BY DEF Agrees
<1> QED  BY <1>1 DEF Quiet, Idle, AllDue, Due

\* and the other way round.
LEMMA IdleAgrees ==
  ASSUME NEW p, NEW st, NEW att, NEW box, NEW t, NEW inb, NEW w, NEW up,
         Idle(box, t, inb, w), Quiet(p, st, w)
  PROVE  Agrees(p, st, att, box, t, inb, w, up)
<1>1. Alone(box, t, inb, w)
  BY DEF Idle, Alone
<1>2. AllDue(p, st, att, box, t, inb, w)
  BY DEF Idle, AllDue
<1> QED  BY <1>1, <1>2 DEF Agrees, Quiet

\* Who agrees goes on to agree when the same of its nodes run, at the same attempt,
\* and no node loses its verdict.
LEMMA AgreesThroughout ==
  ASSUME NEW p \in Plans, NEW st, NEW att, NEW new, NEW natt, NEW box, NEW t, NEW inb, NEW w, NEW up,
         Agrees(p, st, att, box, t, inb, w, up),
         \A n \in p.nodes : p.worker[n] = w =>
            /\ new[n] = "Running" <=> st[n] = "Running"
            /\ st[n] = "Running" => natt[n] = att[n],
         \A n \in p.nodes : st[n] = "Passed" => new[n] = "Passed"
  PROVE  Agrees(p, new, natt, box, t, inb, w, up)
<1>1. \A n \in p.nodes : p.inputs[n] \subseteq p.nodes
  BY PlanIsTyped
<1>2. ASSUME NEW a, Due(p, st, att, a, w) PROVE Due(p, new, natt, a, w)
  BY <1>1, <1>2 DEF Due, GivenBy
<1>3. AllDue(p, new, natt, box, t, inb, w)
  BY <1>2 DEF Agrees, AllDue
<1>4. up => \A n \in p.nodes : new[n] = "Running" /\ p.worker[n] = w => UnderWay(box, t, inb, w, n)
  BY DEF Agrees
<1> QED  BY <1>3, <1>4 DEF Agrees

\* A message that is not a report of the worker may leave the inbox,
LEMMA AgreesOfTail ==
  ASSUME NEW p, NEW st, NEW att, NEW box, NEW t, NEW inb \in Seq(Messages), NEW w, NEW up,
         Agrees(p, st, att, box, t, inb, w, up),
         inb # <<>>, ~(Head(inb).kind = "report" /\ Head(inb).worker = w)
  PROVE  Agrees(p, st, att, box, t, Tail(inb), w, up)
<1> DEFINE rest == Tail(inb)
<1>1. /\ \A i \in DOMAIN rest : i + 1 \in DOMAIN inb /\ rest[i] = inb[i + 1] /\ i \in Nat
      /\ \A i \in DOMAIN inb : i = 1 \/ (i - 1 \in DOMAIN rest /\ rest[i - 1] = inb[i] /\ i \in Nat)
      /\ inb[1] = Head(inb)
  OBVIOUS
<1> HIDE DEF rest
<1>2. \A i \in Reports(rest, w) : i + 1 \in Reports(inb, w) /\ rest[i] = inb[i + 1] /\ i \in Nat
  BY <1>1 DEF Reports
<1>3. \A i \in Reports(inb, w) : i - 1 \in Reports(rest, w) /\ rest[i - 1] = inb[i]
  BY <1>1 DEF Reports
<1>4. Alone(box, t, rest, w)
  <2>1. \A i, j \in Reports(rest, w) : i = j
    BY <1>2 DEF Agrees, Alone
  <2>2. Reports(rest, w) # {} => Reports(inb, w) # {}
    BY <1>2
  <2> QED  BY <2>1, <2>2 DEF Agrees, Alone
<1>5. AllDue(p, st, att, box, t, rest, w)
  BY <1>2 DEF Agrees, AllDue
<1>6. \A n : UnderWay(box, t, inb, w, n) => UnderWay(box, t, rest, w, n)
  BY <1>3 DEF UnderWay
<1>7. Agrees(p, st, att, box, t, rest, w, up)
  BY <1>4, <1>5, <1>6 DEF Agrees
<1> QED  BY <1>7 DEF rest

\* and come into it.
LEMMA AgreesOfMore ==
  ASSUME NEW p, NEW st, NEW att, NEW box, NEW t, NEW inb \in Seq(Messages), NEW w, NEW up,
         NEW m \in Messages,
         Agrees(p, st, att, box, t, inb, w, up), ~(m.kind = "report" /\ m.worker = w)
  PROVE  Agrees(p, st, att, box, t, Append(inb, m), w, up)
<1> DEFINE more == Append(inb, m)
<1>1. /\ \A i \in DOMAIN more : (i \in DOMAIN inb /\ more[i] = inb[i]) \/ more[i] = m
      /\ \A i \in DOMAIN inb : i \in DOMAIN more /\ more[i] = inb[i]
  OBVIOUS
<1> HIDE DEF more
<1>2. Reports(more, w) = Reports(inb, w)
  BY <1>1 DEF Reports
<1>3. \A i \in Reports(inb, w) : more[i] = inb[i]
  BY <1>1 DEF Reports
<1>4. Agrees(p, st, att, box, t, more, w, up)
  BY <1>2, <1>3 DEF Agrees, Alone, AllDue, UnderWay
<1> QED  BY <1>4 DEF more

\* A shutdown may come into a mailbox.
LEMMA AgreesOfShutdown ==
  ASSUME NEW p, NEW st, NEW att, NEW box \in Seq(Mail), NEW t, NEW inb, NEW w, NEW up,
         Agrees(p, st, att, box, t, inb, w, up)
  PROVE  Agrees(p, st, att, Append(box, Shutdown), t, inb, w, up)
<1> DEFINE more == Append(box, Shutdown)
<1>0. Shutdown.kind # "assignment" /\ Shutdown \in Mail
  BY DEF Shutdown, Mail
<1>1. /\ \A i \in DOMAIN more : (i \in DOMAIN box /\ more[i] = box[i]) \/ more[i] = Shutdown
      /\ \A i \in DOMAIN box : i \in DOMAIN more /\ more[i] = box[i]
  BY <1>0
<1> HIDE DEF more
<1>2. Assigned(more) = Assigned(box)
  BY <1>0, <1>1 DEF Assigned
<1>3. \A i \in Assigned(box) : more[i] = box[i]
  BY <1>1 DEF Assigned
<1>4. Agrees(p, st, att, more, t, inb, w, up)
  BY <1>2, <1>3 DEF Agrees, Alone, AllDue, UnderWay
<1> QED  BY <1>4 DEF more

\* An assignment is the only thing under way at a worker that had nothing.
LEMMA AgreesOfAssignment ==
  ASSUME NEW p, NEW st, NEW att, NEW box \in Seq(Mail), NEW t, NEW inb, NEW w, NEW up,
         NEW a \in Assignment, Idle(box, t, inb, w), Due(p, st, att, a, w), Exclusive(p, st)
  PROVE  Agrees(p, st, att, Append(box, a), t, inb, w, up)
<1> DEFINE more == Append(box, a)
           new  == Len(box) + 1
<1>0. a.kind = "assignment" /\ a \in Mail
  BY DEF Assignment, Mail
<1>1. /\ \A i \in DOMAIN more : (i \in DOMAIN box /\ more[i] = box[i]) \/ i = new
      /\ new \in DOMAIN more /\ more[new] = a
  BY <1>0
<1> HIDE DEF more, new
<1>2. Assigned(more) = {new}
  BY <1>0, <1>1 DEF Assigned, Idle
<1>3. Alone(more, t, inb, w)
  BY <1>2 DEF Alone, Idle
<1>4. AllDue(p, st, att, more, t, inb, w)
  BY <1>1, <1>2 DEF AllDue, Idle
<1>5. \A n \in p.nodes : st[n] = "Running" /\ p.worker[n] = w => UnderWay(more, t, inb, w, n)
  <2> SUFFICES ASSUME NEW n \in p.nodes, st[n] = "Running", p.worker[n] = w
               PROVE  UnderWay(more, t, inb, w, n)
    OBVIOUS
  <2>1. n = a.node
    BY DEF Due, Exclusive
  <2> QED  BY <1>1, <1>2, <2>1 DEF UnderWay
<1>6. Agrees(p, st, att, more, t, inb, w, up)
  BY <1>3, <1>4, <1>5 DEF Agrees
<1> QED  BY <1>6 DEF more

\* The worker takes its assignment.
LEMMA AgreesOfTaken ==
  ASSUME NEW p, NEW st, NEW att, NEW box \in Seq(Mail), NEW inb, NEW w, NEW up,
         Agrees(p, st, att, box, NoTask, inb, w, up), box # <<>>, Head(box).kind = "assignment"
  PROVE  Agrees(p, st, att, Tail(box), Head(box), inb, w, up)
<1> DEFINE rest == Tail(box)
           a    == Head(box)
<1>1. /\ \A i \in DOMAIN rest : i + 1 \in DOMAIN box /\ rest[i] = box[i + 1] /\ i \in Nat /\ i + 1 # 1
      /\ 1 \in DOMAIN box /\ box[1] = a
  OBVIOUS
<1> HIDE DEF rest, a
<1>2. a.kind = "assignment" /\ a # NoTask
  BY DEF a, NoTask
<1>3. 1 \in Assigned(box) /\ \A i \in Assigned(box) : i = 1
  BY <1>1, <1>2 DEF Agrees, Alone, Assigned
<1>4. Assigned(rest) = {}
  BY <1>1, <1>3 DEF Assigned
<1>5. Reports(inb, w) = {}
  BY <1>3 DEF Agrees, Alone
<1>6. Alone(rest, a, inb, w)
  BY <1>4, <1>5 DEF Alone
<1>7. Due(p, st, att, a, w)
  BY <1>1, <1>3 DEF Agrees, AllDue
<1>8. AllDue(p, st, att, rest, a, inb, w)
  BY <1>4, <1>5, <1>7 DEF AllDue
<1>9. \A n : UnderWay(box, NoTask, inb, w, n) => UnderWay(rest, a, inb, w, n)
  BY <1>1, <1>2, <1>3, <1>5 DEF UnderWay
<1>10. Agrees(p, st, att, rest, a, inb, w, up)
  BY <1>6, <1>8, <1>9 DEF Agrees
<1> QED  BY <1>10 DEF rest, a

\* Its report takes the place of the task.
LEMMA AgreesOfReport ==
  ASSUME NEW p, NEW st, NEW att, NEW box, NEW t, NEW inb \in Seq(Messages), NEW w, NEW up,
         NEW r \in Messages, Agrees(p, st, att, box, t, inb, w, up), t # NoTask,
         r.kind = "report", r.worker = w, r.node = t.node
  PROVE  Agrees(p, st, att, box, NoTask, Append(inb, r), w, up)
<1> DEFINE more == Append(inb, r)
           new  == Len(inb) + 1
<1>1. /\ \A i \in DOMAIN more : (i \in DOMAIN inb /\ more[i] = inb[i]) \/ i = new
      /\ new \in DOMAIN more /\ more[new] = r
  OBVIOUS
<1> HIDE DEF more, new
<1>2. Reports(inb, w) = {} /\ Assigned(box) = {} /\ Due(p, st, att, t, w)
  BY DEF Agrees, Alone, AllDue
<1>3. Reports(more, w) = {new}
  BY <1>1, <1>2 DEF Reports
<1>4. Alone(box, NoTask, more, w)
  BY <1>2, <1>3 DEF Alone
<1>5. AllDue(p, st, att, box, NoTask, more, w)
  BY <1>1, <1>2, <1>3 DEF AllDue, Due
<1>6. \A n : UnderWay(box, t, inb, w, n) => UnderWay(box, NoTask, more, w, n)
  BY <1>1, <1>2, <1>3 DEF UnderWay
<1>7. Agrees(p, st, att, box, NoTask, more, w, up)
  BY <1>4, <1>5, <1>6 DEF Agrees
<1> QED  BY <1>7 DEF more

\* Mailbox, task and inbox may be lost when nobody is left to wait for them.
LEMMA AgreesOfLoss ==
  ASSUME NEW p, NEW st, NEW att, NEW box, NEW t, NEW inb, NEW w, NEW up,
         Agrees(p, st, att, box, t, inb, w, up)
  PROVE  /\ Agrees(p, st, att, <<>>, NoTask, inb, w, FALSE)
         /\ Agrees(p, st, att, box, NoTask, inb, w, FALSE)
         /\ Agrees(p, st, att, box, t, <<>>, w, FALSE)
<1>1. Assigned(<<>>) = {} /\ Reports(<<>>, w) = {}
  BY DEF Assigned, Reports
<1> QED  BY <1>1 DEF Agrees, Alone, AllDue

----------------------------------------------------------------------------
(* What the commander does to the agreement                                *)

\* A report that is received is of a running node, the only thing its worker had
\* under way.
LEMMA HeadIsDue ==
  ASSUME NEW p \in Plans, NEW st, NEW att, NEW box, NEW t, NEW inb \in Seq(Messages), NEW up,
         AllAgree(p, st, att, box, t, inb, up), inb # <<>>, Head(inb).kind = "report"
  PROVE  /\ Head(inb).worker \in Worker /\ Head(inb).node \in p.nodes
         /\ p.worker[Head(inb).node] = Head(inb).worker
         /\ st[Head(inb).node] = "Running"
         /\ LET w == Head(inb).worker IN Idle(box[w], t[w], Tail(inb), w)
<1> DEFINE w    == Head(inb).worker
           rest == Tail(inb)
<1>1. /\ \A i \in DOMAIN rest : i + 1 \in DOMAIN inb /\ rest[i] = inb[i + 1] /\ i \in Nat /\ i + 1 # 1
      /\ 1 \in DOMAIN inb /\ inb[1] = Head(inb) /\ Head(inb) \in Messages
  OBVIOUS
<1>2. w \in Worker
  BY <1>1 DEF Messages, Report, Command, Shutdown
<1>3. 1 \in Reports(inb, w)
  BY <1>1 DEF Reports
<1> HIDE DEF w, rest
<1>4. Agrees(p, st, att, box[w], t[w], inb, w, up[w])
  BY <1>2 DEF AllAgree
<1>5. /\ inb[1].node \in p.nodes /\ p.worker[inb[1].node] = w /\ st[inb[1].node] = "Running"
      /\ \A i \in Reports(inb, w) : i = 1
      /\ t[w] = NoTask /\ Assigned(box[w]) = {}
  BY <1>3, <1>4 DEF Agrees, AllDue, Alone
<1>6. Reports(rest, w) = {}
  <2> SUFFICES ASSUME NEW i \in Reports(rest, w) PROVE FALSE
    OBVIOUS
  <2>1. i + 1 \in Reports(inb, w) /\ i + 1 # 1
    BY <1>1 DEF Reports
  <2> QED  BY <1>5, <2>1
<1>7. Idle(box[w], t[w], rest, w)
  BY <1>5, <1>6 DEF Idle
<1> QED  BY <1>1, <1>2, <1>5, <1>7 DEF w, rest

\* The verdict on the node of that report leaves the queues in agreement.
LEMMA VerdictKeepsAgreement ==
  ASSUME NEW p \in Plans, NEW st \in [Node -> NodeState], NEW att \in [Node -> 0..MaxU8],
         NEW box, NEW t, NEW inb \in Seq(Messages), NEW up, NEW passed \in BOOLEAN,
         Exclusive(p, st), AllAgree(p, st, att, box, t, inb, up),
         inb # <<>>, Head(inb).kind = "report"
  PROVE  AllAgree(p, AfterReport(p, st, att, Head(inb).node, passed), att, box, t, Tail(inb), up)
<1> DEFINE n   == Head(inb).node
           w   == Head(inb).worker
           new == AfterReport(p, st, att, n, passed)
<1>1. /\ w \in Worker /\ n \in p.nodes /\ p.worker[n] = w /\ st[n] = "Running"
      /\ Idle(box[w], t[w], Tail(inb), w)
  BY HeadIsDue
<1>2. p.nodes \subseteq Node
  BY PlanIsTyped
<1> HIDE DEF n, w
<1>3. /\ new[n] # "Running"
      /\ \A m \in Node \ {n} : \/ new[m] = st[m]
                               \/ st[m] = "Pending" /\ new[m] = "Skipped"
  <2>1. n \in Node
    BY <1>1, <1>2
  <2>2. /\ \/ new[n] = "Passed"
           \/ new[n] = "Pending" /\ Tries(att, n) < p.max[n]
           \/ new[n] = "Failed" /\ ~(Tries(att, n) < p.max[n])
        /\ \A m \in Node \ {n} : \/ new[m] = st[m]
                                 \/ st[m] = "Pending" /\ new[m] = "Skipped"
    BY <1>1, <2>1, AfterReportShape
  <2> HIDE DEF new
  <2> QED  BY <2>2
<1> HIDE DEF new
<1>4. Quiet(p, new, w)
  BY <1>1, <1>2, <1>3 DEF Quiet, Exclusive
<1>5. Agrees(p, new, att, box[w], t[w], Tail(inb), w, up[w])
  BY <1>1, <1>4, IdleAgrees
<1>6. ASSUME NEW v \in Worker, v # w PROVE Agrees(p, new, att, box[v], t[v], Tail(inb), v, up[v])
  <2>1. Agrees(p, st, att, box[v], t[v], inb, v, up[v])
    BY DEF AllAgree
  <2>2. Agrees(p, st, att, box[v], t[v], Tail(inb), v, up[v])
    BY <1>6, <2>1, AgreesOfTail DEF w
  <2>3. \A m \in p.nodes : p.worker[m] = v => (new[m] = "Running" <=> st[m] = "Running")
    BY <1>1, <1>2, <1>3, <1>6
  <2>4. \A m \in p.nodes : st[m] = "Passed" => new[m] = "Passed"
    BY <1>1, <1>2, <1>3
  <2> QED  BY <2>2, <2>3, <2>4, AgreesThroughout
<1>7. AllAgree(p, new, att, box, t, Tail(inb), up)
  BY <1>5, <1>6 DEF AllAgree
<1> QED  BY <1>7 DEF new, n

\* dispatch_ready_task_graph_nodes: starting unblocked nodes keeps the runtime in order.
LEMMA StartKeepsRuntime ==
  ASSUME NEW p \in Plans, NEW st \in [Node -> NodeState], NEW att, NEW rep, NEW rw,
         NEW S \in SUBSET Unblocked(p, st), NEW new, NEW natt,
         new = [n \in Node |-> IF n \in S THEN "Running" ELSE st[n]],
         natt = [n \in Node |-> IF n \in S THEN att[n] + 1 ELSE att[n]],
         Runtime(p, st, att, rep, rw)
  PROVE  Runtime(p, new, natt, rep, rw)
<1>1. p.nodes \subseteq Node /\ \A m \in p.nodes : p.inputs[m] \subseteq p.nodes
  BY PlanIsTyped
<1>2. \A n \in S : /\ n \in p.nodes /\ st[n] = "Pending"
                   /\ \A m \in p.inputs[n] : st[m] = "Passed"
  BY DEF Unblocked, Pending
<1>3. \A m \in Node : /\ m \in S => new[m] = "Running"
                      /\ m \notin S => new[m] = st[m] /\ natt[m] = att[m]
  OBVIOUS
<1>4. \A m \in Node : /\ new[m] \in {"Failed", "Skipped"} <=> st[m] \in {"Failed", "Skipped"}
                      /\ new[m] = "Passed" <=> st[m] = "Passed"
                      /\ new[m] = "Skipped" <=> st[m] = "Skipped"
                      /\ new[m] = "Absent" <=> st[m] = "Absent"
                      /\ new[m] = "Pending" => st[m] = "Pending" /\ natt[m] = att[m]
  BY <1>1, <1>2, <1>3
<1>5. Sound(p, new)
  <2> SUFFICES ASSUME NEW m \in p.nodes
               PROVE  /\ new[m] = "Skipped" <=> \E k \in p.inputs[m] : new[k] \in {"Failed", "Skipped"}
                      /\ new[m] \in {"Running", "Passed", "Failed"} =>
                           \A k \in p.inputs[m] : new[k] = "Passed"
    BY DEF Sound
  <2>1. \A k \in p.inputs[m] : k \in Node
    BY <1>1
  <2>2. /\ st[m] = "Skipped" <=> \E k \in p.inputs[m] : st[k] \in {"Failed", "Skipped"}
        /\ st[m] \in {"Running", "Passed", "Failed"} => \A k \in p.inputs[m] : st[k] = "Passed"
    BY DEF Runtime, Sound
  <2>3. new[m] = "Skipped" <=> \E k \in p.inputs[m] : new[k] \in {"Failed", "Skipped"}
    BY <1>1, <1>4, <2>1, <2>2
  <2>4. new[m] \in {"Running", "Passed", "Failed"} => \A k \in p.inputs[m] : st[k] = "Passed"
    BY <1>1, <1>2, <1>3, <2>2
  <2> QED  BY <1>4, <2>1, <2>3, <2>4
<1>6. Noted(p, new, natt, rep, rw)
  <2>1. \A m \in p.nodes : m \in Node /\ \A k \in p.inputs[m] : k \in Node
    BY <1>1
  <2> QED  BY <1>4, <2>1 DEF Noted, Runtime
<1>7. Shaped(p, new)
  BY <1>4 DEF Shaped, Runtime
<1> QED  BY <1>5, <1>6, <1>7 DEF Runtime

\* schedule_task_graph_runtime: whoever gets an assignment has nothing else under way,
\* and the assignment is complete.
LEMMA ScheduleKeepsAgreement ==
  ASSUME NEW p \in Plans, NEW g \in 1..MaxCommands,
         NEW st \in [Node -> NodeState], NEW att \in [Node -> 0..MaxU8],
         NEW rep \in SUBSET Node, NEW rw \in SUBSET Node, NEW inb,
         Bounded(p, st, att), Exclusive(p, st), Runtime(p, st, att, rep, rw),
         mailbox \in [Worker -> Seq(Mail)], answers \in Seq(1..MaxCommands),
         AllAgree(p, st, att, mailbox, task, inb, Up),
         Schedule(p, g, st, att, rep, rw)
  PROVE  /\ Runtime(p, state', attempts', rep, rw)
         /\ AllAgree(p, state', attempts', mailbox', task, inb, Up)
<1> DEFINE sendTo == {n \in ReadyNodes(p, st) : Listening(p.worker[n])}
           msg(n) == BuildAssignment(p, n, g, att, rep, rw)
<1>1. /\ p.nodes \in SUBSET Node /\ p.inputs \in [Node -> SUBSET Node]
      /\ p.worker \in [Node -> Worker] /\ \A n \in p.nodes : p.inputs[n] \subseteq p.nodes
  BY PlanIsTyped
<1>2. CASE state' = st /\ attempts' = att /\ mailbox' = mailbox
  BY <1>2
<1>3. CASE /\ state' = [n \in Node |-> IF n \in sendTo THEN "Running" ELSE st[n]]
           /\ attempts' = [n \in Node |-> IF n \in sendTo THEN att[n] + 1 ELSE att[n]]
           /\ mailbox' = [w \in Worker |->
                IF \E n \in sendTo : p.worker[n] = w
                THEN LET n == CHOOSE n \in sendTo : p.worker[n] = w
                     IN  Append(mailbox[w], msg(n))
                ELSE mailbox[w]]
  <2>1. sendTo \in SUBSET Unblocked(p, st)
    BY DEF ReadyNodes
  <2>2. Runtime(p, state', attempts', rep, rw)
    BY <1>3, <2>1, StartKeepsRuntime
  <2>3. \A n \in sendTo : Quiet(p, st, p.worker[n])
    BY DEF ReadyNodes, Running, Quiet
  <2>4. /\ \A n \in sendTo : /\ n \in p.nodes /\ n \in Node /\ st[n] = "Pending"
                             /\ \A m \in p.inputs[n] : st[m] = "Passed"
    BY <1>1, <2>1 DEF Unblocked, Pending
  <2>5. Exclusive(p, state') /\ state' \in [Node -> NodeState] /\ attempts' \in [Node -> 0..MaxU8]
    BY ScheduleKeeps DEF Mail
  <2>6. ASSUME NEW n \in sendTo
        PROVE  msg(n) \in Assignment /\ Due(p, state', attempts', msg(n), p.worker[n])
    <3>1. \A m \in p.inputs[n] : m \in rep /\ state'[m] = "Passed"
      <4>1. \A m \in p.inputs[n] : m \in Node /\ m \in p.nodes /\ st[m] = "Passed" /\ m \notin sendTo
        BY <1>1, <2>4
      <4> QED  BY <1>3, <4>1 DEF Runtime, Noted
    <3>2. p.inputs[n] \cap rep = p.inputs[n] /\ p.inputs[n] \in SUBSET Node
      BY <1>1, <2>4, <3>1
    <3>3. state'[n] = "Running" /\ attempts'[n] = att[n] + 1 /\ att[n] \in Nat /\ n \in Node
      <4>1. n \in Node /\ att[n] \in 0..MaxU8
        BY <2>4
      <4>2. state'[n] = "Running" /\ attempts'[n] = att[n] + 1
        BY <1>3, <2>6, <4>1
      <4> QED  BY <4>1, <4>2
    <3>4. attempts'[n] \in 0..MaxU8
      BY <2>5, <3>3
    <3>5. att[n] + 1 \in 1..MaxU8
      <4>1. att[n] + 1 \in 0..MaxU8
        BY <3>3, <3>4
      <4> QED  BY <3>3, <4>1
    <3>6. n \in rw <=> att[n] >= 1
      BY <2>4 DEF Runtime, Noted
    <3>7. n \in rw <=> att[n] + 1 > 1
      BY <3>3, <3>6
    <3>8. msg(n) = [kind |-> "assignment", graph |-> g, node |-> n, attempt |-> att[n] + 1,
                    inputs |-> p.inputs[n], rework |-> n \in rw]
      BY <3>2 DEF BuildAssignment
    <3>9. (n \in rw) \in BOOLEAN
      OBVIOUS
    <3>10. msg(n) \in Assignment
      BY <3>2, <3>3, <3>5, <3>8, <3>9 DEF Assignment
    <3>11. GivenBy(p, state', attempts', msg(n))
      <4>1. msg(n).inputs = p.inputs[n] /\ msg(n).node = n /\ msg(n).attempt = att[n] + 1
        BY <3>8
      <4>2. msg(n).rework <=> n \in rw
        BY Zenon DEF BuildAssignment
      <4> HIDE DEF msg
      <4> QED  BY <3>1, <3>3, <3>7, <4>1, <4>2 DEF GivenBy
    <3> QED  BY <2>4, <3>3, <3>8, <3>10, <3>11 DEF Due
  <2> SUFFICES ASSUME NEW w \in Worker
               PROVE  Agrees(p, state', attempts', mailbox'[w], task[w], inb, w, Up[w])
    BY <2>2 DEF AllAgree
  <2>7. Agrees(p, st, att, mailbox[w], task[w], inb, w, Up[w])
    BY DEF AllAgree
  <2>8. CASE \E n \in sendTo : p.worker[n] = w
    <3>1. PICK n \in sendTo : p.worker[n] = w /\ mailbox'[w] = Append(mailbox[w], msg(n))
      BY <1>3, <2>8
    <3>2. Idle(mailbox[w], task[w], inb, w)
      BY <2>3, <2>7, <3>1, QuietIsIdle
    <3>3. mailbox[w] \in Seq(Mail)
      OBVIOUS
    <3> HIDE DEF msg, sendTo
    <3> QED  BY <2>5, <2>6, <3>1, <3>2, <3>3, AgreesOfAssignment
  <2>9. CASE ~\E n \in sendTo : p.worker[n] = w
    <3>1. mailbox'[w] = mailbox[w]
      BY <1>3, <2>9
    <3>2. \A n \in p.nodes : /\ n \in Node
                             /\ n \notin sendTo => state'[n] = st[n] /\ attempts'[n] = att[n]
      BY <1>1, <1>3
    <3>3. \A n \in p.nodes : p.worker[n] = w =>
            /\ state'[n] = "Running" <=> st[n] = "Running"
            /\ st[n] = "Running" => attempts'[n] = att[n]
      BY <2>9, <3>2
    <3>4. \A n \in p.nodes : st[n] = "Passed" => state'[n] = "Passed"
      BY <2>4, <3>2
    <3> HIDE DEF sendTo
    <3> QED  BY <2>7, <3>1, <3>3, <3>4, AgreesThroughout
  <2> QED  BY <2>8, <2>9
<1> QED  BY <1>2, <1>3 DEF Schedule

----------------------------------------------------------------------------
(* The invariant is inductive                                              *)

LEMMA OneInvInit == Init => OneInv
<1> SUFFICES ASSUME Init PROVE OneInv
  OBVIOUS
<1>1. plan \in Plans
  BY PlansExist DEF Init
<1>2. \A n \in plan.nodes : state[n] # "Running"
  BY <1>1, PlanIsTyped DEF Init
<1>3. \A w \in Worker : Quiet(plan, state, w)
  BY <1>2 DEF Quiet
<1>4. \A w \in Worker : Idle(mailbox[w], task[w], inbox, w)
  BY DEF Init, Idle, Assigned, Reports
<1>5. AllAgree(plan, state, attempts, mailbox, task, inbox, Up)
  BY <1>3, <1>4, IdleAgrees DEF AllAgree
<1>6. Fresh /\ graph = 0
  BY DEF Init, Fresh
<1> QED  BY <1>5, <1>6 DEF OneInv

\* TaskGraphRuntime::new: every node of the graph is pending.
LEMMA NewRuntime ==
  ASSUME NEW p \in Plans
  PROVE  Runtime(p, [n \in Node |-> IF n \in p.nodes THEN "Pending" ELSE "Absent"],
                 [n \in Node |-> 0], {}, {})
<1> DEFINE st  == [n \in Node |-> IF n \in p.nodes THEN "Pending" ELSE "Absent"]
           att == [n \in Node |-> 0]
<1>1. p.nodes \subseteq Node /\ \A n \in p.nodes : p.inputs[n] \subseteq p.nodes
  BY PlanIsTyped
<1>2. \A n \in p.nodes : st[n] = "Pending" /\ att[n] = 0
  BY <1>1
<1>3. Shaped(p, st)
  BY DEF Shaped
<1> HIDE DEF st, att
<1>4. Sound(p, st)
  <2>1. \A n \in p.nodes : \A m \in p.inputs[n] : st[m] = "Pending"
    BY <1>1, <1>2
  <2> QED  BY <1>2, <2>1 DEF Sound
<1>5. Noted(p, st, att, {}, {})
  BY <1>2 DEF Noted
<1>6. Runtime(p, st, att, {}, {})
  BY <1>3, <1>4, <1>5 DEF Runtime
<1> QED  BY <1>6 DEF st, att

\* A command is the first one: nothing is under way, and the new graph starts with
\* every node pending.
LEMMA CommandKeepsOne ==
  ASSUME MaxCommands = 1, IInv, AnswersInv, OneInv, HandleCommand
  PROVE  OneInv'
<1>1. /\ inbox \in Seq(Messages) /\ mailbox \in [Worker -> Seq(Mail)]
      /\ graph \in Nat /\ sent \in 0..1 /\ answers \in Seq(1..MaxCommands) /\ plan \in Plans
  BY BoundsAreNat DEF IInv, TypeOK, Mail, Messages
<1> DEFINE g == Head(inbox).graph
<1>2. /\ inbox # <<>> /\ Head(inbox).kind = "command" /\ inbox' = Tail(inbox)
      /\ UNCHANGED <<commanderUp, task, worker>>
  BY DEF HandleCommand
<1>3. g \in 1..MaxCommands
  BY <1>2, InboxHead DEF Command
<1>4. graph < g /\ g <= sent
  BY <1>1, <1>2, AheadOfTail DEF AnswersInv
<1>5. PICK p \in Plans :
        Schedule(p, g, [n \in Node |-> IF n \in p.nodes THEN "Pending" ELSE "Absent"],
                 [n \in Node |-> 0], {}, {})
  BY DEF HandleCommand
<1> DEFINE st  == [n \in Node |-> IF n \in p.nodes THEN "Pending" ELSE "Absent"]
           att == [n \in Node |-> 0]
<1>6. p.nodes \subseteq Node /\ \A n \in p.nodes : p.inputs[n] \subseteq p.nodes /\ p.max[n] \in 1..MaxU8
  BY PlanIsTyped
<1>7. \A n \in p.nodes : st[n] = "Pending" /\ att[n] = 0 /\ p.max[n] \in Nat /\ p.max[n] >= 1
  BY <1>6, AttemptFits
<1>8. st \in [Node -> NodeState] /\ att \in [Node -> 0..MaxU8]
  BY DEF NodeState, MaxU8
<1>9. \A n \in Node : st[n] = "Absent" <=> n \notin p.nodes
  OBVIOUS
<1>10. graph = 0 /\ g > 0
  BY <1>1, <1>3, <1>4
<1>11. Schedule(p, g, st, att, {}, {})
  BY <1>5
<1> HIDE DEF st, att, g
<1>12. Bounded(p, st, att) /\ Exclusive(p, st)
  BY <1>7 DEF Bounded, Exclusive
<1>13. Runtime(p, st, att, {}, {})
  BY NewRuntime DEF st, att
<1>14. AllAgree(p, st, att, mailbox, task, Tail(inbox), Up)
  <2> SUFFICES ASSUME NEW w \in Worker
               PROVE  Agrees(p, st, att, mailbox[w], task[w], Tail(inbox), w, Up[w])
    BY DEF AllAgree
  <2>1. Agrees(plan, state, attempts, mailbox[w], task[w], inbox, w, Up[w])
    BY DEF OneInv, AllAgree
  <2>2. Agrees(plan, state, attempts, mailbox[w], task[w], Tail(inbox), w, Up[w])
    BY <1>1, <1>2, <2>1, AgreesOfTail
  <2>3. Quiet(plan, state, w)
    <3>1. plan.nodes \subseteq Node
      BY <1>1, PlanIsTyped
    <3>2. \A n \in Node : state[n] = "Absent"
      BY <1>10 DEF OneInv, Fresh
    <3> QED  BY <3>1, <3>2 DEF Quiet
  <2>4. Idle(mailbox[w], task[w], Tail(inbox), w)
    BY <2>2, <2>3, QuietIsIdle
  <2>5. Quiet(p, st, w)
    BY <1>7 DEF Quiet
  <2> QED  BY <2>4, <2>5, IdleAgrees
<1>15. /\ Runtime(p, state', attempts', {}, {})
       /\ AllAgree(p, state', attempts', mailbox', task, Tail(inbox), Up)
  <2>1. {} \in SUBSET Node
    OBVIOUS
  <2> QED  BY <1>1, <1>3, <1>8, <1>11, <1>12, <1>13, <1>14, <2>1, ScheduleKeepsAgreement
<1>16. plan' = p /\ graph' = g /\ reported' = {} /\ rework' = {} /\ task' = task /\ Up' = Up
  BY <1>2, <1>11 DEF Schedule, Up, Listening
<1> QED  BY <1>2, <1>10, <1>15, <1>16 DEF OneInv

\* A report is judged, and its successors are started.
LEMMA ReportKeepsOne ==
  ASSUME IInv, OneInv, HandleReport
  PROVE  OneInv'
<1> DEFINE n == Head(inbox).node
<1>1. /\ inbox \in Seq(Messages) /\ mailbox \in [Worker -> Seq(Mail)]
      /\ answers \in Seq(1..MaxCommands) /\ plan \in Plans /\ state \in [Node -> NodeState]
      /\ attempts \in [Node -> 0..MaxU8] /\ reported \in SUBSET Node /\ rework \in SUBSET Node
      /\ Bounded(plan, state, attempts) /\ Exclusive(plan, state)
  BY DEF IInv, TypeOK, Mail, Messages
<1>2. /\ inbox # <<>> /\ Head(inbox).kind = "report" /\ inbox' = Tail(inbox)
      /\ UNCHANGED <<commanderUp, task, worker>>
  BY DEF HandleReport
<1>3. graph \in 1..MaxCommands /\ graph > 0
  BY DEF IInv, HandleReport
<1>4. PICK passed \in BOOLEAN :
        Schedule(plan, graph, AfterReport(plan, state, attempts, n, passed), attempts,
                 reported \cup {n}, AfterRework(plan, rework, attempts, n, passed))
  BY DEF HandleReport
<1> DEFINE st  == AfterReport(plan, state, attempts, n, passed)
           rw  == AfterRework(plan, rework, attempts, n, passed)
           rep == reported \cup {n}
<1>5. AllAgree(plan, state, attempts, mailbox, task, inbox, Up)
      /\ Runtime(plan, state, attempts, reported, rework)
  BY <1>3 DEF OneInv
<1>6. n \in plan.nodes /\ state[n] = "Running" /\ n \in Node
  BY <1>1, <1>2, <1>5, HeadIsDue, PlanIsTyped
<1>7. AllAgree(plan, st, attempts, mailbox, task, Tail(inbox), Up)
  BY <1>1, <1>2, <1>5, VerdictKeepsAgreement
<1> HIDE DEF n
<1>8. st \in [Node -> NodeState]
  BY <1>1, <1>6, AfterReportShape
<1>9. Bounded(plan, st, attempts) /\ Exclusive(plan, st)
  BY <1>1, <1>6, AfterReportKeepsBounds
<1>10. rep \in SUBSET Node /\ rw \in SUBSET Node
  BY <1>1, <1>6, AfterReworkIsTyped
<1>11. Runtime(plan, st, attempts, rep, rw)
  BY <1>1, <1>5, <1>6, VerdictKeepsRuntime
<1>12. Schedule(plan, graph, st, attempts, rep, rw)
  BY <1>4
<1> HIDE DEF st, rep, rw
<1>13. /\ Runtime(plan, state', attempts', rep, rw)
       /\ AllAgree(plan, state', attempts', mailbox', task, Tail(inbox), Up)
  BY <1>1, <1>3, <1>7, <1>8, <1>9, <1>10, <1>11, <1>12, ScheduleKeepsAgreement
<1>14. /\ plan' = plan /\ graph' = graph /\ reported' = rep /\ rework' = rw
       /\ task' = task /\ Up' = Up
  BY <1>2, <1>12 DEF Schedule, Up, Listening
<1> QED  BY <1>2, <1>3, <1>13, <1>14 DEF OneInv

\* With one command no report comes when the graph is over.
LEMMA NoReportIsDropped ==
  ASSUME IInv, AnswersInv, OneInv
  PROVE  ~DropReport
<1> SUFFICES ASSUME DropReport PROVE FALSE
  OBVIOUS
<1> DEFINE n == Head(inbox).node
<1>1. inbox \in Seq(Messages) /\ plan \in Plans /\ graph \in Nat
  BY BoundsAreNat DEF IInv, TypeOK, Messages
<1>2. inbox # <<>> /\ Head(inbox).kind = "report" /\ ~active
  BY DEF DropReport
<1>3. AllAgree(plan, state, attempts, mailbox, task, inbox, Up)
  BY DEF OneInv
<1>4. n \in plan.nodes /\ n \in Node /\ state[n] = "Running"
  BY <1>1, <1>2, <1>3, HeadIsDue, PlanIsTyped
<1>5. CASE graph = 0
  BY <1>4, <1>5 DEF OneInv, Fresh
<1>6. CASE graph > 0
  BY <1>2, <1>4, <1>6 DEF AnswersInv, Settled, IsFinished
<1> QED  BY <1>1, <1>5, <1>6

\* The other steps leave the runtime alone and change queues one by one.
LEMMA QueuesKeepOne ==
  ASSUME OneInv, UNCHANGED <<runtimeVars, graph, answers>>,
         \A w \in Worker : Agrees(plan, state, attempts, mailbox[w], task[w], inbox, w, Up[w]) =>
            Agrees(plan, state, attempts, mailbox'[w], task'[w], inbox', w, Up'[w])
  PROVE  OneInv'
<1>1. UNCHANGED <<plan, state, attempts, reported, rework, graph, answers>>
  BY DEF runtimeVars
<1>2. AllAgree(plan, state, attempts, mailbox', task', inbox', Up')
  BY DEF OneInv, AllAgree
<1>3. Fresh' <=> Fresh
  BY <1>1 DEF Fresh
<1> QED  BY <1>1, <1>2, <1>3 DEF OneInv

LEMMA WorkersKeepOne ==
  ASSUME IInv, OneInv, NEW w \in Worker, WorkerStep(w) \/ WorkerCrashes(w)
  PROVE  OneInv'
<1>1. /\ inbox \in Seq(Messages) /\ mailbox \in [Worker -> Seq(Mail)]
      /\ task \in [Worker -> Assignment \cup {NoTask}]
      /\ worker \in [Worker -> {"up", "down", "crashed"}]
  BY DEF IInv, TypeOK, Mail, Messages
<1>2. /\ UNCHANGED <<runtimeVars, graph, answers, commanderUp>>
      /\ \A v \in Worker \ {w} : mailbox'[v] = mailbox[v] /\ task'[v] = task[v] /\ worker'[v] = worker[v]
  BY <1>1 DEF WorkerStep, WorkerCrashes, TakeAssignment, SendReport, WorkerStops, commanderVars
<1>3. \A v \in Worker \ {w} : Up'[v] = Up[v]
  BY <1>2 DEF Up, Listening
<1> SUFFICES ASSUME NEW v \in Worker,
                    Agrees(plan, state, attempts, mailbox[v], task[v], inbox, v, Up[v])
             PROVE  Agrees(plan, state, attempts, mailbox'[v], task'[v], inbox', v, Up'[v])
  BY <1>2, QueuesKeepOne
<1>4. CASE TakeAssignment(w)
  <2>1. /\ task[w] = NoTask /\ mailbox[w] # <<>> /\ Head(mailbox[w]).kind = "assignment"
        /\ mailbox'[w] = Tail(mailbox[w]) /\ task'[w] = Head(mailbox[w]) /\ mailbox[w] \in Seq(Mail)
        /\ inbox' = inbox /\ Up'[w] = Up[w]
    BY <1>1, <1>4 DEF TakeAssignment, commanderVars, Up, Listening
  <2>2. CASE v = w
    <3>1. Agrees(plan, state, attempts, mailbox[w], NoTask, inbox, w, Up[w])
      BY <2>1, <2>2
    <3>2. Agrees(plan, state, attempts, Tail(mailbox[w]), Head(mailbox[w]), inbox, w, Up[w])
      BY <2>1, <3>1, AgreesOfTaken
    <3> QED  BY <2>1, <2>2, <3>2
  <2> QED  BY <1>2, <1>3, <2>1, <2>2
<1>5. ASSUME NEW status \in {"Completed", "Failed"}, SendReport(w, status)
      PROVE  Agrees(plan, state, attempts, mailbox'[v], task'[v], inbox', v, Up'[v])
  <2> DEFINE r == [kind |-> "report", graph |-> task[w].graph, node |-> task[w].node,
                   worker |-> w, status |-> status]
  <2>1. task[w] \in Assignment /\ task[w] # NoTask /\ Up' = Up /\ mailbox' = mailbox
    BY <1>1, <1>5 DEF SendReport, Up, Listening
  <2>2. /\ r \in Messages /\ r.kind = "report" /\ r.worker = w /\ r.node = task[w].node
    BY <2>1 DEF Assignment, Report, Messages
  <2>3. task'[w] = NoTask /\ inbox' = IF commanderUp THEN Append(inbox, r) ELSE inbox
    BY <1>1, <1>5 DEF SendReport
  <2> HIDE DEF r
  <2>4. CASE commanderUp /\ v = w
    BY <1>1, <2>1, <2>2, <2>3, <2>4, AgreesOfReport
  <2>5. CASE commanderUp /\ v # w
    <3>1. Agrees(plan, state, attempts, mailbox[v], task[v], Append(inbox, r), v, Up[v])
      BY <1>1, <2>2, <2>5, AgreesOfMore
    <3> QED  BY <1>2, <2>1, <2>3, <2>5, <3>1
  <2>6. CASE ~commanderUp /\ v = w
    <3>1. Up[w] = FALSE
      BY <2>6 DEF Up
    <3>2. Agrees(plan, state, attempts, mailbox[w], NoTask, inbox, w, FALSE)
      BY <2>6, AgreesOfLoss
    <3> QED  BY <2>1, <2>3, <2>6, <3>1, <3>2
  <2>7. CASE ~commanderUp /\ v # w
    BY <1>2, <2>1, <2>3, <2>7
  <2> QED  BY <2>4, <2>5, <2>6, <2>7
<1>6. CASE WorkerStops(w) \/ WorkerCrashes(w)
  <2>1. /\ mailbox'[w] = <<>> /\ inbox' = inbox /\ worker'[w] # "up" /\ task'[w] = NoTask
    BY <1>1, <1>6 DEF WorkerStops, WorkerCrashes, commanderVars
  <2>2. Up'[w] = FALSE
    BY <2>1 DEF Up, Listening
  <2>3. CASE v = w
    <3>1. Agrees(plan, state, attempts, <<>>, NoTask, inbox, w, FALSE)
      BY <2>3, AgreesOfLoss
    <3> QED  BY <2>1, <2>2, <2>3, <3>1
  <2> QED  BY <1>2, <1>3, <2>1, <2>3
<1> QED  BY <1>4, <1>5, <1>6 DEF WorkerStep

LEMMA OneInvKept ==
  ASSUME MaxCommands = 1, IInv, AnswersInv, OneInv, [Next]_vars
  PROVE  OneInv'
<1>1. /\ inbox \in Seq(Messages) /\ mailbox \in [Worker -> Seq(Mail)] /\ sent \in 0..MaxCommands
  BY DEF IInv, TypeOK, Mail, Messages
<1>2. CASE CommanderStops
  <2>1. /\ UNCHANGED <<runtimeVars, graph, answers, mailbox, task, worker>>
        /\ inbox' = <<>> /\ commanderUp' = FALSE
    BY <1>2 DEF CommanderStops, workerVars
  <2>2. \A w \in Worker : Up'[w] = FALSE
    BY <2>1 DEF Up
  <2>3. ASSUME NEW w \in Worker, Agrees(plan, state, attempts, mailbox[w], task[w], inbox, w, Up[w])
        PROVE  Agrees(plan, state, attempts, mailbox'[w], task'[w], inbox', w, Up'[w])
    <3>1. Agrees(plan, state, attempts, mailbox[w], task[w], <<>>, w, FALSE)
      BY <2>3, AgreesOfLoss
    <3> QED  BY <2>1, <2>2, <3>1
  <2> QED  BY <2>1, <2>3, QueuesKeepOne
<1>3. CASE SendCommand
  <2> DEFINE m == [kind |-> "command", graph |-> sent + 1]
  <2>1. /\ UNCHANGED <<runtimeVars, graph, answers, mailbox, task>> /\ Up' = Up
        /\ inbox' = Append(inbox, m) /\ sent + 1 \in 1..MaxCommands
    BY <1>1, <1>3, BoundsAreNat DEF SendCommand, workerVars, Up, Listening
  <2>2. m \in Messages /\ m.kind = "command"
    BY <2>1 DEF Messages, Command
  <2> HIDE DEF m
  <2>3. ASSUME NEW w \in Worker, Agrees(plan, state, attempts, mailbox[w], task[w], inbox, w, Up[w])
        PROVE  Agrees(plan, state, attempts, mailbox'[w], task'[w], inbox', w, Up'[w])
    <3>1. Agrees(plan, state, attempts, mailbox[w], task[w], Append(inbox, m), w, Up[w])
      BY <1>1, <2>2, <2>3, AgreesOfMore
    <3> QED  BY <2>1, <3>1
  <2> QED  BY <2>1, <2>3, QueuesKeepOne
<1>4. CASE StopSession
  <2>1. /\ UNCHANGED <<runtimeVars, graph, answers, task>> /\ Up' = Up
        /\ inbox' = Append(inbox, Shutdown)
        /\ \A w \in Worker : mailbox'[w] \in {Append(mailbox[w], Shutdown), mailbox[w]}
    BY <1>4 DEF StopSession, Up, Listening
  <2>2. Shutdown \in Messages /\ Shutdown.kind # "report"
    BY DEF Messages, Shutdown
  <2>3. ASSUME NEW w \in Worker, Agrees(plan, state, attempts, mailbox[w], task[w], inbox, w, Up[w])
        PROVE  Agrees(plan, state, attempts, mailbox'[w], task'[w], inbox', w, Up'[w])
    <3>1. Agrees(plan, state, attempts, mailbox[w], task[w], Append(inbox, Shutdown), w, Up[w])
      BY <1>1, <2>2, <2>3, AgreesOfMore
    <3>2. mailbox[w] \in Seq(Mail)
      BY <1>1
    <3>3. Agrees(plan, state, attempts, Append(mailbox[w], Shutdown), task[w],
                 Append(inbox, Shutdown), w, Up[w])
      BY <3>1, <3>2, AgreesOfShutdown
    <3> QED  BY <2>1, <3>1, <3>3
  <2> QED  BY <2>1, <2>3, QueuesKeepOne
<1>5. CASE UNCHANGED vars
  <2>1. UNCHANGED <<runtimeVars, graph, answers, mailbox, task, inbox>> /\ Up' = Up
    BY <1>5 DEF vars, commanderVars, workerVars, Up, Listening
  <2> QED  BY <2>1, QueuesKeepOne
<1> QED
  BY <1>2, <1>3, <1>4, <1>5, CommandKeepsOne, ReportKeepsOne, NoReportIsDropped, WorkersKeepOne
     DEF Next, CommanderStep

----------------------------------------------------------------------------
(* Theorems about the states and the queues                                *)

\* The invariant holds in every reachable state of a session with one command.
THEOREM OneInvariance == MaxCommands = 1 => (Spec => [](IInv /\ AnswersInv /\ OneInv))
<1> SUFFICES ASSUME MaxCommands = 1 PROVE Spec => [](IInv /\ AnswersInv /\ OneInv)
  OBVIOUS
<1>1. Init => OneInv
  BY OneInvInit
<1>2. IInv /\ AnswersInv /\ OneInv /\ [Next]_vars => OneInv'
  BY OneInvKept
<1> QED  BY <1>1, <1>2, Invariance, AnswersInvariance, PTL DEF Spec

\* build_assignment: whatever a worker works on or has in its mailbox names the report of
\* every input, all of them passed, the attempt the commander counts, and a rework
\* instruction exactly from the second attempt on.
THEOREM WorkersAreGivenAll == MaxCommands = 1 => (Spec => []AssignmentsAreComplete)
<1>1. IInv /\ AnswersInv /\ OneInv => AssignmentsAreComplete
  <2> SUFFICES ASSUME OneInv PROVE AssignmentsAreComplete
    OBVIOUS
  <2>1. \A w \in Worker : AllDue(plan, state, attempts, mailbox[w], task[w], inbox, w)
    BY DEF OneInv, AllAgree, Agrees
  <2>2. \A a, w : Due(plan, state, attempts, a, w) => Given(a)
    BY DEF Due, GivenBy, Given
  <2> QED  BY <2>1, <2>2 DEF AllDue, Assigned, AssignmentsAreComplete
<1> QED  BY <1>1, OneInvariance, PTL

\* skip_blocked_descendants: a node is skipped at once, along every path, and only when
\* an input is lost, and nothing runs or passes over a lost input.
THEOREM SkippedAreBlocked == MaxCommands = 1 => (Spec => []SkippedIffBlocked)
<1>1. IInv /\ AnswersInv /\ OneInv => SkippedIffBlocked
  <2> SUFFICES ASSUME IInv, OneInv PROVE SkippedIffBlocked
    OBVIOUS
  <2>1. plan \in Plans /\ graph \in Nat
    BY BoundsAreNat DEF IInv, TypeOK
  <2>2. CASE graph > 0
    BY <2>2 DEF OneInv, Runtime, Sound, SkippedIffBlocked
  <2>3. CASE graph = 0
    <3>1. \A n \in Node : state[n] = "Absent"
      BY <2>3 DEF OneInv, Fresh
    <3>2. \A n \in plan.nodes : n \in Node /\ \A m \in plan.inputs[n] : m \in Node
      BY <2>1, PlanIsTyped
    <3> QED  BY <3>1, <3>2 DEF SkippedIffBlocked
  <2> QED  BY <2>1, <2>2, <2>3
<1> QED  BY <1>1, OneInvariance, PTL

\* A node runs only in the active graph.
LEMMA RunningIsActive ==
  ASSUME IInv, AnswersInv, OneInv, NEW n \in Node, state[n] = "Running"
  PROVE  active /\ n \in plan.nodes
<1>1. graph \in Nat
  BY BoundsAreNat DEF IInv, TypeOK
<1>2. graph > 0
  BY <1>1 DEF OneInv, Fresh
<1> QED  BY <1>2 DEF AnswersInv, Settled, IsFinished, OneInv, Runtime, Shaped

\* The size of a set with one element at most.
LEMMA SizeOfOne ==
  ASSUME NEW S, \A x, y \in S : x = y
  PROVE  /\ Cardinality(S) \in {0, 1}
         /\ Cardinality(S) = 0 <=> S = {}
<1>1. CASE S = {}
  BY <1>1, FS_EmptySet
<1>2. CASE S # {}
  <2>1. PICK x : S = {x}
    BY <1>2
  <2>2. Cardinality({x}) = 1
    BY FS_Singleton
  <2>3. Cardinality(S) = 1
    BY <2>1, <2>2
  <2> QED  BY <1>2, <2>3
<1> QED  BY <1>1, <1>2

\* Whatever is about a node is at its worker, and the node runs.
LEMMA PlacesAreDue ==
  ASSUME IInv, OneInv, NEW n \in Node
  PROVE  /\ \A x \in MailPlaces(n) : /\ n \in plan.nodes /\ state[n] = "Running"
                                     /\ x = <<plan.worker[n], x[2]>>
                                     /\ x[2] \in Assigned(mailbox[plan.worker[n]])
         /\ \A v \in TaskPlaces(n) : /\ n \in plan.nodes /\ state[n] = "Running"
                                     /\ v = plan.worker[n] /\ task[v] # NoTask
         /\ \A i \in ReportPlaces(n) : /\ n \in plan.nodes /\ state[n] = "Running"
                                       /\ i \in Reports(inbox, plan.worker[n])
<1>1. \A w \in Worker : AllDue(plan, state, attempts, mailbox[w], task[w], inbox, w)
  BY DEF OneInv, AllAgree, Agrees
<1>2. ASSUME NEW x \in MailPlaces(n)
      PROVE  /\ n \in plan.nodes /\ state[n] = "Running"
             /\ x = <<plan.worker[n], x[2]>>
             /\ x[2] \in Assigned(mailbox[plan.worker[n]])
  <2>0. PICK w \in Worker : \E i \in DOMAIN mailbox[w] :
          x = <<w, i>> /\ mailbox[w][i].kind = "assignment" /\ mailbox[w][i].node = n
    BY DEF MailPlaces
  <2>1. PICK i \in DOMAIN mailbox[w] :
          x = <<w, i>> /\ mailbox[w][i].kind = "assignment" /\ mailbox[w][i].node = n
    BY <2>0
  <2>2. i \in Assigned(mailbox[w]) /\ Due(plan, state, attempts, mailbox[w][i], w)
    BY <1>1, <2>1 DEF AllDue, Assigned
  <2> QED  BY <2>1, <2>2 DEF Due
<1>3. ASSUME NEW v \in TaskPlaces(n)
      PROVE  n \in plan.nodes /\ state[n] = "Running" /\ v = plan.worker[n] /\ task[v] # NoTask
  BY <1>1 DEF TaskPlaces, AllDue, Due
<1>4. ASSUME NEW i \in ReportPlaces(n)
      PROVE  /\ n \in plan.nodes /\ state[n] = "Running" /\ i \in Reports(inbox, plan.worker[n])
  <2>1. i \in DOMAIN inbox /\ inbox[i].kind = "report" /\ inbox[i].node = n
    BY DEF ReportPlaces
  <2>2. inbox[i].worker \in Worker
    <3>1. inbox \in Seq(Messages)
      BY DEF IInv, TypeOK, Messages
    <3>2. inbox[i] \in Messages
      BY <2>1, <3>1
    <3> QED  BY <2>1, <3>2 DEF Messages, Report, Command, Shutdown
  <2>3. i \in Reports(inbox, inbox[i].worker)
    BY <2>1 DEF Reports
  <2> QED  BY <1>1, <2>1, <2>2, <2>3 DEF AllDue
<1> QED  BY <1>2, <1>3, <1>4

\* The commander waits for exactly what is under way: a running node has one assignment,
\* task or report in the system as long as its worker lives, and no other node has any.
THEOREM QueuesAgree == MaxCommands = 1 => (Spec => []RunningIffInFlight)
<1>1. IInv /\ AnswersInv /\ OneInv => RunningIffInFlight
  <2> SUFFICES ASSUME IInv, AnswersInv, OneInv, commanderUp, NEW n \in Node
               PROVE  IF active /\ state[n] = "Running"
                      THEN IF Listening(plan.worker[n]) THEN InFlight(n) = 1 ELSE InFlight(n) <= 1
                      ELSE InFlight(n) = 0
    BY DEF RunningIffInFlight
  <2> DEFINE M == MailPlaces(n)
             T == TaskPlaces(n)
             R == ReportPlaces(n)
             w == plan.worker[n]
  <2>1. CASE state[n] # "Running"
    <3>1. M = {} /\ T = {} /\ R = {}
      BY <2>1, PlacesAreDue
    <3> QED  BY <2>1, <3>1, FS_EmptySet DEF InFlight
  <2>2. CASE state[n] = "Running"
    <3>1. active /\ n \in plan.nodes
      BY <2>2, RunningIsActive
    <3>2. w \in Worker
      BY PlanIsTyped DEF IInv, TypeOK
    <3>3. Agrees(plan, state, attempts, mailbox[w], task[w], inbox, w, Up[w])
      BY <3>2 DEF OneInv, AllAgree
    <3>4. /\ \A x \in M : x = <<w, x[2]>> /\ x[2] \in Assigned(mailbox[w])
          /\ \A v \in T : v = w /\ task[w] # NoTask
          /\ \A i \in R : i \in Reports(inbox, w)
      BY PlacesAreDue
    <3>5. Listening(w) => M # {} \/ T # {} \/ R # {}
      <4> SUFFICES ASSUME Listening(w) PROVE M # {} \/ T # {} \/ R # {}
        OBVIOUS
      <4>1. UnderWay(mailbox[w], task[w], inbox, w, n)
        BY <2>2, <3>1, <3>2, <3>3 DEF Agrees, Up
      <4>2. task[w] # NoTask /\ task[w].node = n => w \in T
        BY <3>2 DEF TaskPlaces
      <4>3. \A i \in Assigned(mailbox[w]) : mailbox[w][i].node = n => <<w, i>> \in M
        BY <3>2 DEF Assigned, MailPlaces
      <4>4. \A i \in Reports(inbox, w) : inbox[i].node = n => i \in R
        BY DEF Reports, ReportPlaces
      <4> QED  BY <4>1, <4>2, <4>3, <4>4 DEF UnderWay
    <3>6. /\ \A i, j \in Assigned(mailbox[w]) : i = j
          /\ \A i, j \in Reports(inbox, w) : i = j
          /\ task[w] # NoTask => Assigned(mailbox[w]) = {} /\ Reports(inbox, w) = {}
          /\ Reports(inbox, w) # {} => Assigned(mailbox[w]) = {}
      BY <3>3 DEF Agrees, Alone
    <3> HIDE DEF M, T, R, w
    <3>7. /\ \A x, y \in M : x = y
          /\ \A x, y \in T : x = y
          /\ \A x, y \in R : x = y
      BY <3>4, <3>6
    <3>8. /\ T # {} => M = {} /\ R = {}
          /\ R # {} => M = {}
      BY <3>4, <3>6
    <3>9. /\ Cardinality(M) \in {0, 1} /\ (Cardinality(M) = 0 <=> M = {})
          /\ Cardinality(T) \in {0, 1} /\ (Cardinality(T) = 0 <=> T = {})
          /\ Cardinality(R) \in {0, 1} /\ (Cardinality(R) = 0 <=> R = {})
      BY <3>7, SizeOfOne
    <3>10. InFlight(n) = Cardinality(M) + Cardinality(T) + Cardinality(R)
      BY DEF InFlight, M, T, R
    <3>11. InFlight(n) \in {0, 1} /\ (Listening(w) => InFlight(n) = 1)
      BY <3>5, <3>8, <3>9, <3>10
    <3> QED  BY <2>2, <3>1, <3>11 DEF w
  <2> QED  BY <2>1, <2>2
<1> QED  BY <1>1, OneInvariance, PTL

----------------------------------------------------------------------------
(* The commander never waits for nothing                                   *)

\* A nonempty set of numbers has a least one.
LEMMA LeastExists ==
  ASSUME NEW S \in SUBSET Nat, S # {}
  PROVE  \E m \in S : \A k \in S : m <= k
<1> DEFINE U == {0..m : m \in S}
           R == StrictSubsetOrdering(Nat)
<1>1. U \subseteq FiniteSubsetsOf(Nat) /\ U # {}
  <2>1. ASSUME NEW m \in S PROVE 0..m \in FiniteSubsetsOf(Nat)
    <3>1. m \in Nat /\ m \in Int /\ 0 \in Int /\ 0..m \in SUBSET Nat
      OBVIOUS
    <3>2. IsFiniteSet(0..m)
      BY <3>1, FS_Interval
    <3> QED  BY <3>1, <3>2 DEF FiniteSubsetsOf
  <2>2. PICK m : m \in S
    OBVIOUS
  <2> QED  BY <2>1, <2>2
<1>2. IsWellFoundedOn(R, FiniteSubsetsOf(Nat))
  BY FS_StrictSubsetOrderingWellFounded
<1>3. PICK s \in U : \A x \in U : ~(<<x, s>> \in R)
  <2> HIDE DEF U, R
  <2> QED  BY <1>1, <1>2, WFMin
<1>4. PICK m \in S : s = 0..m
  OBVIOUS
<1>5. \A k \in S : ~(k < m)
  <2> SUFFICES ASSUME NEW k \in S, k < m PROVE FALSE
    OBVIOUS
  <2>1. k \in Nat /\ m \in Nat /\ 0..k \in U
    OBVIOUS
  <2>2. 0..k \subseteq 0..m /\ m \in 0..m /\ m \notin 0..k
    BY <2>1
  <2>3. <<0..k, 0..m>> \in R
    BY <2>1, <2>2 DEF StrictSubsetOrdering
  <2> QED  BY <1>3, <1>4, <2>1, <2>3
<1> QED  BY <1>5

\* ready_nodes: an unblocked node whose worker is free means one that is ready.
LEMMA FirstIsReady ==
  ASSUME NEW p \in Plans, NEW st, NEW n \in Unblocked(p, st), Running(p, st) = {}
  PROVE  \E m \in ReadyNodes(p, st) : p.worker[m] = p.worker[n]
<1> DEFINE C == {m \in Unblocked(p, st) : p.worker[m] = p.worker[n]}
           S == {Rank[m] : m \in C}
<1>1. C \subseteq Node /\ n \in C
  BY PlanIsTyped DEF Unblocked, Pending
<1>2. S \in SUBSET Nat /\ S # {}
  BY <1>1, RankIsInjective
<1>3. PICK r \in S : \A k \in S : r <= k
  BY <1>2, LeastExists
<1>4. PICK m \in C : r = Rank[m]
  OBVIOUS
<1>5. \A k \in Unblocked(p, st) : p.worker[k] = p.worker[m] => Rank[m] <= Rank[k]
  BY <1>3, <1>4
<1>6. m \in ReadyNodes(p, st)
  BY <1>5 DEF ReadyNodes
<1> QED  BY <1>6

\* NeverStalls of any runtime.
NotStalled(p, st) ==
  Running(p, st) # {} \/ \E n \in Unblocked(p, st) : ~Listening(p.worker[n])

\* A graph with an open node and none running has an unblocked node: the graph is acyclic
\* and nothing that is pending has a lost input.
LEMMA SomeIsUnblocked ==
  ASSUME NEW p \in Plans, NEW st \in [Node -> NodeState], NEW att, NEW rep, NEW rw,
         Runtime(p, st, att, rep, rw), ~IsFinished(st), Running(p, st) = {}
  PROVE  Unblocked(p, st) # {}
<1>1. p.nodes \subseteq Node /\ \A m \in p.nodes : p.inputs[m] \subseteq p.nodes
  BY PlanIsTyped
<1>2. PICK k \in Node : st[k] \in {"Pending", "Running"}
  BY DEF IsFinished
<1>3. k \in p.nodes /\ st[k] = "Pending"
  BY <1>2 DEF Running, Runtime, Shaped
<1> DEFINE S == Pending(p, st)
<1>4. S \in SUBSET p.nodes /\ S # {}
  BY <1>3 DEF Pending
<1>5. NoCycle(p.nodes, p.inputs)
  BY PlansAreValid DEF PlanAssumption, ValidPlan, Acyclic
<1>6. PICK n \in S : p.inputs[n] \cap S = {}
  <2> HIDE DEF S
  <2> QED  BY <1>4, <1>5 DEF NoCycle
<1>7. n \in p.nodes /\ st[n] = "Pending"
  BY DEF Pending
<1>8. ASSUME NEW m \in p.inputs[n] PROVE st[m] = "Passed"
  <2>1. m \in p.nodes /\ m \in Node
    BY <1>1, <1>7
  <2>2. st[m] # "Pending" /\ st[m] # "Running"
    BY <1>6, <2>1 DEF Pending, Running
  <2>3. st[m] \notin {"Failed", "Skipped"}
    BY <1>7 DEF Runtime, Sound
  <2>4. st[m] # "Absent"
    BY <2>1 DEF Runtime, Shaped
  <2> QED  BY <2>1, <2>2, <2>3, <2>4 DEF NodeState, Terminal
<1>9. n \in Unblocked(p, st)
  BY <1>8 DEF Unblocked
<1> QED  BY <1>9

\* schedule_task_graph_runtime leaves no graph active that has nothing under way, unless
\* a worker is gone.
LEMMA ScheduleNeverStalls ==
  ASSUME NEW p \in Plans, NEW g, NEW st \in [Node -> NodeState], NEW att, NEW rep, NEW rw,
         Runtime(p, st, att, rep, rw), Schedule(p, g, st, att, rep, rw), active'
  PROVE  NotStalled(p, state')
<1> DEFINE sendTo == {n \in ReadyNodes(p, st) : Listening(p.worker[n])}
<1>1. p.nodes \subseteq Node /\ \A m \in p.nodes : p.inputs[m] \subseteq p.nodes
  BY PlanIsTyped
<1>2. ~IsFinished(st) /\ state' = [n \in Node |-> IF n \in sendTo THEN "Running" ELSE st[n]]
  BY DEF Schedule
<1>3. CASE Running(p, st) # {}
  <2>1. PICK n \in p.nodes : st[n] = "Running"
    BY <1>3 DEF Running
  <2>2. state'[n] = "Running"
    BY <1>1, <1>2, <2>1
  <2> QED  BY <2>2 DEF NotStalled, Running
<1>4. CASE Running(p, st) = {} /\ sendTo # {}
  <2>1. PICK n \in sendTo : n \in p.nodes
    BY <1>4 DEF ReadyNodes, Unblocked, Pending
  <2>2. state'[n] = "Running"
    BY <1>1, <1>2, <2>1
  <2> QED  BY <2>1, <2>2 DEF NotStalled, Running
<1>5. CASE Running(p, st) = {} /\ sendTo = {}
  <2>1. PICK n : n \in Unblocked(p, st)
    BY <1>2, <1>5, SomeIsUnblocked
  <2>2. PICK m \in ReadyNodes(p, st) : p.worker[m] = p.worker[n]
    BY <1>5, <2>1, FirstIsReady
  <2>3. ~Listening(p.worker[m]) /\ m \in Unblocked(p, st)
    BY <1>5, <2>2 DEF ReadyNodes
  <2>4. \A k \in Node : state'[k] = st[k]
    BY <1>2, <1>5
  <2>5. m \in Unblocked(p, state')
    BY <1>1, <2>3, <2>4 DEF Unblocked, Pending
  <2> QED  BY <2>3, <2>5 DEF NotStalled
<1> QED  BY <1>3, <1>4, <1>5

\* The runtime that handle_task_graph_report hands to the scheduler.
LEMMA ReportSchedules ==
  ASSUME IInv, OneInv, HandleReport
  PROVE  \E st \in [Node -> NodeState], rep, rw \in SUBSET Node :
           /\ Runtime(plan, st, attempts, rep, rw)
           /\ Schedule(plan, graph, st, attempts, rep, rw)
<1> DEFINE n == Head(inbox).node
<1>1. /\ inbox \in Seq(Messages) /\ plan \in Plans /\ state \in [Node -> NodeState]
      /\ attempts \in [Node -> 0..MaxU8] /\ reported \in SUBSET Node /\ rework \in SUBSET Node
      /\ Bounded(plan, state, attempts)
  BY DEF IInv, TypeOK, Messages
<1>2. inbox # <<>> /\ Head(inbox).kind = "report" /\ graph > 0
  BY DEF HandleReport, IInv
<1>3. PICK passed \in BOOLEAN :
        Schedule(plan, graph, AfterReport(plan, state, attempts, n, passed), attempts,
                 reported \cup {n}, AfterRework(plan, rework, attempts, n, passed))
  BY DEF HandleReport
<1>4. AllAgree(plan, state, attempts, mailbox, task, inbox, Up)
      /\ Runtime(plan, state, attempts, reported, rework)
  BY <1>2 DEF OneInv
<1>5. n \in plan.nodes /\ state[n] = "Running" /\ n \in Node
  BY <1>1, <1>2, <1>4, HeadIsDue, PlanIsTyped
<1> HIDE DEF n
<1>6. AfterReport(plan, state, attempts, n, passed) \in [Node -> NodeState]
  BY <1>1, <1>5, AfterReportShape
<1>7. Runtime(plan, AfterReport(plan, state, attempts, n, passed), attempts, reported \cup {n},
              AfterRework(plan, rework, attempts, n, passed))
  BY <1>1, <1>4, <1>5, VerdictKeepsRuntime
<1>8. /\ reported \cup {n} \in SUBSET Node
      /\ AfterRework(plan, rework, attempts, n, passed) \in SUBSET Node
  BY <1>1, <1>5, AfterReworkIsTyped
<1> QED  BY <1>3, <1>6, <1>7, <1>8

\* An active graph has a node under way, unless an unblocked node waits for a worker that
\* is gone: the commander never waits for nothing.
THEOREM NothingStalls == MaxCommands = 1 => (Spec => []NeverStalls)
<1> SUFFICES ASSUME MaxCommands = 1 PROVE Spec => []NeverStalls
  OBVIOUS
<1>1. Init => NeverStalls
  BY DEF Init, NeverStalls
<1>2. ASSUME IInv, OneInv, NeverStalls, [Next]_vars PROVE NeverStalls'
  <2> SUFFICES ASSUME active', commanderUp' PROVE NotStalled(plan, state)'
    BY DEF NeverStalls, NotStalled
  <2>1. CASE HandleCommand
    <3>1. PICK p \in Plans :
            Schedule(p, Head(inbox).graph,
                     [n \in Node |-> IF n \in p.nodes THEN "Pending" ELSE "Absent"],
                     [n \in Node |-> 0], {}, {})
      BY <2>1 DEF HandleCommand
    <3>2. [n \in Node |-> IF n \in p.nodes THEN "Pending" ELSE "Absent"] \in [Node -> NodeState]
      BY DEF NodeState
    <3>3. NotStalled(p, state')
      BY <3>1, <3>2, NewRuntime, ScheduleNeverStalls
    <3>4. plan' = p /\ worker' = worker
      BY <2>1, <3>1 DEF HandleCommand, Schedule
    <3> QED  BY <3>3, <3>4 DEF NotStalled, Listening
  <2>2. CASE HandleReport
    <3>1. PICK st \in [Node -> NodeState], rep, rw \in SUBSET Node :
            /\ Runtime(plan, st, attempts, rep, rw)
            /\ Schedule(plan, graph, st, attempts, rep, rw)
      BY <1>2, <2>2, ReportSchedules
    <3>2. plan \in Plans
      BY <1>2 DEF IInv, TypeOK
    <3>3. NotStalled(plan, state')
      BY <3>1, <3>2, ScheduleNeverStalls
    <3>4. plan' = plan /\ worker' = worker
      BY <2>2, <3>1 DEF HandleReport, Schedule
    <3> QED  BY <3>3, <3>4 DEF NotStalled, Listening
  <2>3. CASE UNCHANGED <<plan, state, active>>
             /\ (commanderUp' => commanderUp) /\ \A w \in Worker : Listening(w)' => Listening(w)
    <3>1. NotStalled(plan, state)
      BY <1>2, <2>3 DEF NeverStalls, NotStalled
    <3>2. \A n \in Unblocked(plan, state) : plan.worker[n] \in Worker
      BY <1>2, PlanIsTyped DEF IInv, TypeOK, Unblocked, Pending
    <3> QED  BY <2>3, <3>1, <3>2 DEF NotStalled
  <2>4. ~HandleCommand /\ ~HandleReport =>
          /\ UNCHANGED <<plan, state, active>> /\ (commanderUp' => commanderUp)
          /\ \A w \in Worker : Listening(w)' => Listening(w)
    <3>1. worker \in [Worker -> {"up", "down", "crashed"}]
      BY <1>2 DEF IInv, TypeOK
    <3> QED
      BY <1>2, <3>1
         DEF Next, CommanderStep, DropReport, CommanderStops, WorkerStep, WorkerCrashes, SendReport,
             TakeAssignment, WorkerStops, SendCommand, StopSession, vars, runtimeVars,
             commanderVars, workerVars, Listening
  <2> QED  BY <2>1, <2>2, <2>3, <2>4
<1>3. IInv /\ AnswersInv /\ OneInv /\ NeverStalls /\ [Next]_vars => NeverStalls'
  BY <1>2
<1> QED  BY <1>1, <1>3, OneInvariance, PTL DEF Spec

----------------------------------------------------------------------------
(* Refinement of TaskGraphPromise                                          *)

\* What the promise sees of any runtime: the mapping of TaskGraph.
Verdict(st) ==
  [n \in Node |-> CASE st[n] = "Absent" -> "absent"
                    [] st[n] \in {"Pending", "Running"} -> "open"
                    [] st[n] = "Passed" -> "passed"
                    [] st[n] = "Failed" -> "failed"
                    [] st[n] = "Skipped" -> "skipped"]

SentBack(st, att) ==
  [n \in Node |-> IF st[n] = "Pending" THEN att[n]
                  ELSE IF att[n] = 0 THEN 0 ELSE att[n] - 1]

OpenIn(v) == \E n \in Node : v[n] = "open"

\* Node n is passed, sent back or failed: verdicts and tries go from (v, k) to (nv, nk).
Passes(n, v, k, nv, nk) == nv = [v EXCEPT ![n] = "passed"] /\ nk = k

SendsBack(p, n, v, k, nv, nk) ==
  /\ k[n] + 1 < p.max[n]
  /\ nk = [k EXCEPT ![n] = k[n] + 1]
  /\ nv = v

Fails(p, n, v, k, nv, nk) ==
  /\ k[n] + 1 = p.max[n]
  /\ nv[n] = "failed"
  /\ \A m \in Node \ {n} :
       nv[m] = IF /\ m \in p.nodes /\ v[m] = "open"
                  /\ \E i \in p.inputs[m] : nv[i] \in {"failed", "skipped"}
               THEN "skipped" ELSE v[m]
  /\ nk = k

LEMMA VerdictIs ==
  ASSUME NEW st \in [Node -> NodeState], NEW n \in Node
  PROVE  /\ Verdict(st)[n] = "absent" <=> st[n] = "Absent"
         /\ Verdict(st)[n] = "open" <=> st[n] \in {"Pending", "Running"}
         /\ Verdict(st)[n] = "passed" <=> st[n] = "Passed"
         /\ Verdict(st)[n] = "failed" <=> st[n] = "Failed"
         /\ Verdict(st)[n] = "skipped" <=> st[n] = "Skipped"
         /\ Verdict(st)[n] \in {"absent", "open", "passed", "failed", "skipped"}
<1>1. st[n] \in {"Absent", "Pending", "Running", "Passed", "Failed", "Skipped"}
  BY DEF NodeState, Terminal
<1>2. CASE st[n] = "Absent"
  BY <1>2 DEF Verdict
<1>3. CASE st[n] \in {"Pending", "Running"}
  BY <1>3 DEF Verdict
<1>4. CASE st[n] = "Passed"
  BY <1>4 DEF Verdict
<1>5. CASE st[n] = "Failed"
  BY <1>5 DEF Verdict
<1>6. CASE st[n] = "Skipped"
  BY <1>6 DEF Verdict
<1> QED  BY <1>1, <1>2, <1>3, <1>4, <1>5, <1>6

LEMMA VerdictIsTyped ==
  ASSUME NEW st \in [Node -> NodeState]
  PROVE  Verdict(st) \in [Node -> {"absent", "open", "passed", "failed", "skipped"}]
<1> DEFINE v(n) == CASE st[n] = "Absent" -> "absent"
                     [] st[n] \in {"Pending", "Running"} -> "open"
                     [] st[n] = "Passed" -> "passed"
                     [] st[n] = "Failed" -> "failed"
                     [] st[n] = "Skipped" -> "skipped"
<1>1. Verdict(st) = [n \in Node |-> v(n)]
  BY DEF Verdict
<1>2. \A n \in Node : v(n) \in {"absent", "open", "passed", "failed", "skipped"}
  <2>1. \A n \in Node : st[n] \in {"Absent", "Pending", "Running", "Passed", "Failed", "Skipped"}
    BY DEF NodeState, Terminal
  <2> QED  BY <2>1
<1> HIDE DEF v
<1> QED  BY <1>1, <1>2

\* The same state, or pending and running, is the same verdict.
LEMMA SameVerdict ==
  ASSUME NEW st \in [Node -> NodeState], NEW new \in [Node -> NodeState], NEW n \in Node,
         new[n] = st[n] \/ {new[n], st[n]} \subseteq {"Pending", "Running"}
  PROVE  Verdict(new)[n] = Verdict(st)[n]
BY VerdictIs

\* The actions of the promise, in the words of this module.
LEMMA AcceptIs ==
  Promise!Accept <=>
    /\ \A n \in Node : Verdict(state)[n] = "absent"
    /\ plan' \in Plans
    /\ Verdict(state') = [n \in Node |-> IF n \in plan'.nodes THEN "open" ELSE "absent"]
    /\ SentBack(state', attempts') = SentBack(state, attempts)
    /\ (answers' # <<>>) = (answers # <<>>)
BY Zenon DEF Promise!Accept, Verdict, SentBack

LEMMA JudgeableIs ==
  ASSUME NEW n
  PROVE  Promise!Judgeable(n) <=>
           /\ n \in plan.nodes /\ Verdict(state)[n] = "open"
           /\ \A m \in plan.inputs[n] : Verdict(state)[m] = "passed"
BY Zenon DEF Promise!Judgeable, Verdict

LEMMA PassIs ==
  ASSUME NEW n
  PROVE  Promise!Pass(n) <=>
           /\ Promise!Judgeable(n)
           /\ Passes(n, Verdict(state), SentBack(state, attempts),
                     Verdict(state'), SentBack(state', attempts'))
           /\ plan' = plan /\ (answers' # <<>>) = ~OpenIn(Verdict(state'))
BY Zenon DEF Promise!Pass, Promise!Open, OpenIn, Passes, Verdict, SentBack

LEMMA SendBackIs ==
  ASSUME NEW n
  PROVE  Promise!SendBack(n) <=>
           /\ Promise!Judgeable(n)
           /\ SendsBack(plan, n, Verdict(state), SentBack(state, attempts),
                        Verdict(state'), SentBack(state', attempts'))
           /\ plan' = plan /\ (answers' # <<>>) = (answers # <<>>)
BY Zenon DEF Promise!SendBack, SendsBack, Verdict, SentBack

LEMMA FailIs ==
  ASSUME NEW n
  PROVE  Promise!Fail(n) <=>
           /\ Promise!Judgeable(n)
           /\ Fails(plan, n, Verdict(state), SentBack(state, attempts),
                    Verdict(state'), SentBack(state', attempts'))
           /\ DOMAIN Verdict(state') = Node
           /\ plan' = plan /\ (answers' # <<>>) = ~OpenIn(Verdict(state'))
BY Zenon DEF Promise!Fail, Promise!Open, OpenIn, Fails, Verdict, SentBack

LEMMA CountIsNat == ASSUME NEW a \in 0..MaxU8 PROVE a \in Nat
BY DEF MaxU8

\* The promise does not see scheduling, but for the answer.
LEMMA ScheduleIsUnseen ==
  ASSUME NEW p \in Plans, NEW g \in Nat, NEW st \in [Node -> NodeState], NEW att \in [Node -> 0..MaxU8],
         NEW rep, NEW rw, answers \in Seq(Nat), Schedule(p, g, st, att, rep, rw)
  PROVE  /\ Verdict(state') = Verdict(st)
         /\ SentBack(state', attempts') = SentBack(st, att)
         /\ answers' # <<>> <=> answers # <<>> \/ ~OpenIn(Verdict(st))
<1> DEFINE sendTo == {n \in ReadyNodes(p, st) : Listening(p.worker[n])}
<1>1. OpenIn(Verdict(st)) <=> ~IsFinished(st)
  BY VerdictIs DEF OpenIn, IsFinished
<1>2. CASE IsFinished(st)
  <2>1. state' = st /\ attempts' = att /\ answers' = Append(answers, g)
    BY <1>2 DEF Schedule
  <2>2. answers' # <<>>
    BY <2>1
  <2> QED  BY <1>1, <1>2, <2>1, <2>2
<1>3. CASE ~IsFinished(st)
  <2>1. /\ state' = [n \in Node |-> IF n \in sendTo THEN "Running" ELSE st[n]]
        /\ attempts' = [n \in Node |-> IF n \in sendTo THEN att[n] + 1 ELSE att[n]]
        /\ answers' = answers
    BY <1>3 DEF Schedule
  <2>2. \A n \in sendTo : n \in Node /\ st[n] = "Pending"
    BY PlanIsTyped DEF ReadyNodes, Unblocked, Pending
  <2> HIDE DEF sendTo
  <2>3. state' \in [Node -> NodeState]
    BY <2>1 DEF NodeState
  <2>4. \A n \in Node : state'[n] = st[n] \/ {state'[n], st[n]} \subseteq {"Pending", "Running"}
    BY <2>1, <2>2
  <2>5. \A n \in Node : Verdict(state')[n] = Verdict(st)[n]
    BY <2>3, <2>4, SameVerdict
  <2>6. Verdict(state') = Verdict(st)
    BY <2>5 DEF Verdict
  <2>7. ASSUME NEW n \in Node PROVE SentBack(state', attempts')[n] = SentBack(st, att)[n]
    <3>1. att[n] \in Nat
      <4>1. att[n] \in 0..MaxU8
        OBVIOUS
      <4> QED  BY <4>1, CountIsNat
    <3>2. CASE n \in sendTo
      <4>1. state'[n] = "Running" /\ attempts'[n] = att[n] + 1 /\ st[n] = "Pending"
        BY <2>1, <2>2, <3>2
      <4>2. SentBack(state', attempts')[n] = att[n] + 1 - 1
        BY <3>1, <4>1 DEF SentBack
      <4> QED  BY <3>1, <4>1, <4>2 DEF SentBack
    <3>3. CASE n \notin sendTo
      BY <2>1, <3>3 DEF SentBack
    <3> QED  BY <3>2, <3>3
  <2>8. SentBack(state', attempts') = SentBack(st, att)
    BY <2>7 DEF SentBack
  <2> QED  BY <1>1, <1>3, <2>1, <2>6, <2>8
<1> QED  BY <1>2, <1>3

\* A verdict on a running node, as the promise sees it: passed, sent back, or failed with
\* the nodes behind it.
LEMMA VerdictIsSeen ==
  ASSUME NEW p \in Plans, NEW st \in [Node -> NodeState], NEW att \in [Node -> 0..MaxU8],
         NEW rep \in SUBSET Node, NEW rw \in SUBSET Node,
         NEW n \in p.nodes, st[n] = "Running", NEW passed \in BOOLEAN,
         Bounded(p, st, att), Runtime(p, st, att, rep, rw)
  PROVE  LET new == AfterReport(p, st, att, n, passed)
             v   == Verdict(st)
             k   == SentBack(st, att)
         IN  \/ Passes(n, v, k, Verdict(new), SentBack(new, att))
             \/ SendsBack(p, n, v, k, Verdict(new), SentBack(new, att))
             \/ Fails(p, n, v, k, Verdict(new), SentBack(new, att))
<1> DEFINE new == AfterReport(p, st, att, n, passed)
<1>1. /\ p.nodes \subseteq Node /\ n \in Node
      /\ \A m \in p.nodes : p.inputs[m] \subseteq p.nodes /\ p.inputs[m] \subseteq Node
  BY PlanIsTyped
<1>2. /\ new \in [Node -> NodeState]
      /\ \A m \in Node \ {n} : \/ new[m] = st[m]
                               \/ st[m] = "Pending" /\ new[m] = "Skipped"
  BY <1>1, AfterReportShape
<1>3. /\ att[n] \in Nat /\ p.max[n] \in Nat /\ att[n] >= 1 /\ att[n] <= p.max[n]
      /\ Tries(att, n) = att[n] /\ SentBack(st, att)[n] + 1 = att[n]
  <2>1. att[n] \in 0..MaxU8 /\ p.max[n] \in 1..MaxU8
    BY <1>1, PlanIsTyped
  <2>2. att[n] \in Nat /\ p.max[n] \in Nat
    BY <2>1, AttemptFits
  <2>3. att[n] >= 1 /\ att[n] <= p.max[n]
    BY DEF Bounded
  <2> QED  BY <1>1, <2>2, <2>3 DEF Tries, SentBack
<1>4. CASE passed
  <2>1. new = [st EXCEPT ![n] = "Passed"]
    BY <1>4 DEF AfterReport
  <2> HIDE DEF new
  <2>2. new[n] = "Passed" /\ \A m \in Node \ {n} : new[m] = st[m]
    BY <1>1, <2>1
  <2>3. Verdict(new)[n] = "passed" /\ \A m \in Node \ {n} : Verdict(new)[m] = Verdict(st)[m]
    BY <1>1, <1>2, <2>2, VerdictIs, SameVerdict
  <2>4. Verdict(new) = [Verdict(st) EXCEPT ![n] = "passed"]
    <3> QED  BY <1>1, <1>2, <2>3, VerdictIsTyped
  <2>5. \A m \in Node : SentBack(new, att)[m] = SentBack(st, att)[m]
    BY <1>1, <2>2 DEF SentBack
  <2>6. SentBack(new, att) = SentBack(st, att)
    BY <2>5 DEF SentBack
  <2> QED  BY <2>4, <2>6 DEF new, Passes
<1>5. CASE ~passed /\ att[n] < p.max[n]
  <2>1. new = [st EXCEPT ![n] = "Pending"]
    BY <1>3, <1>5 DEF AfterReport
  <2> HIDE DEF new
  <2>2. new[n] = "Pending" /\ \A m \in Node \ {n} : new[m] = st[m]
    BY <1>1, <2>1
  <2>3. \A m \in Node : Verdict(new)[m] = Verdict(st)[m]
    BY <1>1, <1>2, <2>2, SameVerdict
  <2>4. Verdict(new) = Verdict(st)
    BY <2>3 DEF Verdict
  <2>5. /\ SentBack(new, att)[n] = SentBack(st, att)[n] + 1
        /\ \A m \in Node \ {n} : SentBack(new, att)[m] = SentBack(st, att)[m]
    BY <1>1, <1>3, <2>2 DEF SentBack
  <2>6. SentBack(new, att) = [SentBack(st, att) EXCEPT ![n] = SentBack(st, att)[n] + 1]
    BY <1>1, <2>5 DEF SentBack
  <2> QED  BY <1>3, <1>5, <2>4, <2>6 DEF new, SendsBack
<1>6. CASE ~passed /\ ~(att[n] < p.max[n])
  <2>1. Runtime(p, new, att, rep \cup {n}, AfterRework(p, rw, att, n, passed))
    BY VerdictKeepsRuntime
  <2>2. new = SkipBlocked(p, [st EXCEPT ![n] = "Failed"])
    BY <1>3, <1>6 DEF AfterReport
  <2>3. new[n] = "Failed"
    <3> DEFINE failed == [st EXCEPT ![n] = "Failed"]
    <3>1. failed \in [Node -> NodeState] /\ failed[n] = "Failed" /\ new = SkipBlocked(p, failed)
      BY <1>1, <2>2 DEF NodeState, Terminal
    <3> HIDE DEF failed, new
    <3>2. \/ SkipBlocked(p, failed)[n] = failed[n]
          \/ failed[n] = "Pending" /\ SkipBlocked(p, failed)[n] = "Skipped"
      BY <1>1, <3>1, SkipKeepsTypes
    <3> QED  BY <3>1, <3>2
  <2> HIDE DEF new
  <2>4. ASSUME NEW m \in Node \ {n}
        PROVE  Verdict(new)[m] =
                 IF /\ m \in p.nodes /\ Verdict(st)[m] = "open"
                    /\ \E i \in p.inputs[m] : Verdict(new)[i] \in {"failed", "skipped"}
                 THEN "skipped" ELSE Verdict(st)[m]
    <3> DEFINE lost == \E i \in p.inputs[m] : Verdict(new)[i] \in {"failed", "skipped"}
    <3>1. m \in p.nodes => (lost <=> new[m] = "Skipped")
      <4>1. m \in p.nodes =>
              (new[m] = "Skipped" <=> \E i \in p.inputs[m] : new[i] \in {"Failed", "Skipped"})
        BY <2>1 DEF Runtime, Sound
      <4>2. \A i \in Node : Verdict(new)[i] \in {"failed", "skipped"} <=> new[i] \in {"Failed", "Skipped"}
        BY <1>2, VerdictIs
      <4> QED  BY <1>1, <4>1, <4>2
    <3> HIDE DEF lost
    <3>2. Verdict(st)[m] = "open" => m \in p.nodes
      BY VerdictIs DEF Runtime, Shaped
    <3>3. CASE new[m] = st[m]
      <4>1. Verdict(new)[m] = Verdict(st)[m]
        BY <1>2, <3>3, SameVerdict
      <4>2. ~(m \in p.nodes /\ Verdict(st)[m] = "open" /\ lost)
        BY <3>1, <3>3, VerdictIs
      <4> QED  BY <4>1, <4>2 DEF lost
    <3>4. CASE st[m] = "Pending" /\ new[m] = "Skipped"
      <4>1. Verdict(st)[m] = "open" /\ Verdict(new)[m] = "skipped"
        BY <1>2, <3>4, VerdictIs
      <4> QED  BY <3>1, <3>2, <3>4, <4>1 DEF lost
    <3> QED  BY <1>2, <3>3, <3>4
  <2>5. ASSUME NEW m \in Node PROVE SentBack(new, att)[m] = SentBack(st, att)[m]
    <3>1. CASE m = n \/ new[m] = st[m]
      BY <2>3, <3>1 DEF SentBack
    <3>2. CASE m # n /\ st[m] = "Pending" /\ new[m] = "Skipped"
      <4>1. m \in p.nodes
        BY <3>2 DEF Runtime, Shaped
      <4>2. \E i \in p.inputs[m] : new[i] \in {"Failed", "Skipped"}
        BY <2>1, <3>2, <4>1 DEF Runtime, Sound
      <4>3. PICK i \in p.inputs[m] : i \in Node /\ st[i] # "Passed"
        BY <1>1, <1>2, <4>1, <4>2
      <4>4. ~(att[m] >= 1)
        BY <3>2, <4>1, <4>3 DEF Runtime, Noted
      <4>5. att[m] = 0
        <5>1. att[m] \in 0..MaxU8
          OBVIOUS
        <5> QED  BY <4>4, <5>1, CountIsNat
      <4> QED  BY <3>2, <4>5 DEF SentBack
    <3> QED  BY <1>2, <3>1, <3>2
  <2>6. SentBack(new, att) = SentBack(st, att)
    BY <2>5 DEF SentBack
  <2>7. Verdict(new)[n] = "failed"
    BY <1>1, <1>2, <2>3, VerdictIs
  <2>8. SentBack(st, att)[n] + 1 = p.max[n]
    BY <1>3, <1>6
  <2> QED  BY <2>4, <2>6, <2>7, <2>8 DEF new, Fails
<1> QED  BY <1>3, <1>4, <1>5, <1>6

\* The first command is accepted.
LEMMA CommandIsAccepted ==
  ASSUME MaxCommands = 1, IInv, AnswersInv, OneInv, HandleCommand
  PROVE  Promise!Accept
<1>1. inbox \in Seq(Messages) /\ graph \in Nat /\ sent \in 0..1 /\ plan \in Plans
  BY BoundsAreNat DEF IInv, TypeOK, Messages
<1>2. inbox # <<>> /\ Head(inbox).kind = "command"
  BY DEF HandleCommand
<1> DEFINE g == Head(inbox).graph
<1>3. g \in 1..MaxCommands
  BY <1>2, InboxHead DEF Command
<1>4. graph < g /\ g <= sent
  BY <1>1, <1>2, AheadOfTail DEF AnswersInv
<1>5. PICK p \in Plans :
        Schedule(p, g, [n \in Node |-> IF n \in p.nodes THEN "Pending" ELSE "Absent"],
                 [n \in Node |-> 0], {}, {})
  BY DEF HandleCommand
<1> DEFINE st  == [n \in Node |-> IF n \in p.nodes THEN "Pending" ELSE "Absent"]
           att == [n \in Node |-> 0]
<1>6. Fresh /\ g \in Nat
  BY <1>1, <1>3, <1>4 DEF OneInv
<1>7. p.nodes \subseteq Node /\ p.nodes # {}
  BY PlanIsTyped
<1>8. /\ st \in [Node -> NodeState] /\ att \in [Node -> 0..MaxU8] /\ state \in [Node -> NodeState]
      /\ answers \in Seq(Nat)
  BY <1>6 DEF NodeState, MaxU8, Fresh
<1>9. \A n \in Node : st[n] = IF n \in p.nodes THEN "Pending" ELSE "Absent"
  OBVIOUS
<1>10. Schedule(p, g, st, att, {}, {}) /\ plan' = p
  BY <1>5 DEF Schedule
<1>11. SentBack(st, att) = SentBack(state, attempts)
  <2>1. \A n \in Node : SentBack(st, att)[n] = 0 /\ SentBack(state, attempts)[n] = 0
    BY <1>6 DEF SentBack, Fresh
  <2> QED  BY <2>1 DEF SentBack
<1> HIDE DEF st, att, g
<1>12. /\ Verdict(state') = Verdict(st)
       /\ SentBack(state', attempts') = SentBack(st, att)
       /\ answers' # <<>> <=> answers # <<>> \/ ~OpenIn(Verdict(st))
  BY <1>6, <1>8, <1>10, ScheduleIsUnseen
<1>13. \A n \in Node : Verdict(st)[n] = IF n \in p.nodes THEN "open" ELSE "absent"
  BY <1>8, <1>9, VerdictIs
<1>14. Verdict(st) = [n \in Node |-> IF n \in p.nodes THEN "open" ELSE "absent"]
  BY <1>8, <1>13, VerdictIsTyped
<1>15. OpenIn(Verdict(st))
  BY <1>7, <1>13 DEF OpenIn
<1>16. \A n \in Node : Verdict(state)[n] = "absent"
  BY <1>6, <1>8, VerdictIs DEF Fresh
<1>17. (answers' # <<>>) = (answers # <<>>)
  BY <1>12, <1>15
<1> QED  BY <1>10, <1>11, <1>12, <1>14, <1>16, <1>17, AcceptIs

\* A report is a verdict on a node that may be judged, and brings the answer exactly when
\* no node is left open.
LEMMA ReportIsJudged ==
  ASSUME MaxCommands = 1, IInv, AnswersInv, OneInv, HandleReport
  PROVE  \E n \in Node : Promise!Pass(n) \/ Promise!SendBack(n) \/ Promise!Fail(n)
<1>0. PICK n : n = Head(inbox).node
  OBVIOUS
<1>1. /\ inbox \in Seq(Messages) /\ plan \in Plans /\ state \in [Node -> NodeState]
      /\ attempts \in [Node -> 0..MaxU8] /\ reported \in SUBSET Node /\ rework \in SUBSET Node
      /\ Bounded(plan, state, attempts) /\ answers \in Seq(1..1)
  BY DEF IInv, TypeOK, Messages
<1>2. inbox # <<>> /\ Head(inbox).kind = "report" /\ active /\ graph = 1
  BY DEF HandleReport, IInv
<1>3. PICK passed \in BOOLEAN :
        Schedule(plan, graph, AfterReport(plan, state, attempts, n, passed), attempts,
                 reported \cup {n}, AfterRework(plan, rework, attempts, n, passed))
  BY <1>0 DEF HandleReport
<1>4. AllAgree(plan, state, attempts, mailbox, task, inbox, Up)
      /\ Runtime(plan, state, attempts, reported, rework)
  BY <1>2 DEF OneInv
<1>5. n \in plan.nodes /\ state[n] = "Running" /\ n \in Node
  BY <1>0, <1>1, <1>2, <1>4, HeadIsDue, PlanIsTyped
<1>6. answers = <<>>
  <2>1. \A i \in DOMAIN answers : answers[i] # 1
    BY <1>2 DEF AnswersInv, Settled
  <2>2. \A i \in DOMAIN answers : answers[i] = 1
    BY <1>1
  <2>3. DOMAIN answers = {}
    BY <2>1, <2>2
  <2> QED  BY <1>1, <2>3
<1> DEFINE new == AfterReport(plan, state, attempts, n, passed)
           rw  == AfterRework(plan, rework, attempts, n, passed)
           v   == Verdict(state)
           k   == SentBack(state, attempts)
           nv  == Verdict(new)
           nk  == SentBack(new, attempts)
<1>7. new \in [Node -> NodeState]
  BY <1>1, <1>5, AfterReportShape
<1>8. Passes(n, v, k, nv, nk) \/ SendsBack(plan, n, v, k, nv, nk) \/ Fails(plan, n, v, k, nv, nk)
  BY <1>1, <1>4, <1>5, VerdictIsSeen
<1>9. Schedule(plan, graph, new, attempts, reported \cup {n}, rw) /\ plan' = plan
  BY <1>3 DEF Schedule
<1> HIDE DEF new, rw
<1>10. /\ Verdict(state') = nv
       /\ SentBack(state', attempts') = nk
       /\ answers' # <<>> <=> ~OpenIn(nv)
  <2>1. answers \in Seq(Nat) /\ graph \in Nat
    BY <1>2, <1>6
  <2> QED  BY <1>1, <1>6, <1>7, <1>9, <2>1, ScheduleIsUnseen
<1>11. Promise!Judgeable(n)
  <2>1. \A m \in plan.inputs[n] : m \in Node /\ state[m] = "Passed"
    BY <1>1, <1>4, <1>5, PlanIsTyped DEF Runtime, Sound
  <2>2. Verdict(state)[n] = "open" /\ \A m \in plan.inputs[n] : Verdict(state)[m] = "passed"
    BY <1>1, <1>5, <2>1, VerdictIs
  <2> QED  BY <1>5, <2>2, JudgeableIs
<1>12. (answers' # <<>>) = ~OpenIn(Verdict(state'))
  BY <1>10
<1>13. DOMAIN Verdict(state') = Node
  BY <1>7, <1>10, VerdictIsTyped
<1>14. SendsBack(plan, n, v, k, nv, nk) => OpenIn(nv)
  BY <1>1, <1>5, VerdictIs DEF SendsBack, OpenIn
<1>15. CASE Passes(n, v, k, nv, nk)
  <2>1. Promise!Pass(n)
    BY <1>9, <1>10, <1>11, <1>12, <1>15, PassIs
  <2> QED  BY <1>5, <2>1
<1>16. CASE SendsBack(plan, n, v, k, nv, nk)
  <2>1. (answers' # <<>>) = (answers # <<>>)
    BY <1>6, <1>10, <1>14, <1>16
  <2>2. Promise!SendBack(n)
    BY <1>9, <1>10, <1>11, <1>16, <2>1, SendBackIs
  <2> QED  BY <1>5, <2>2
<1>17. CASE Fails(plan, n, v, k, nv, nk)
  <2>1. Promise!Fail(n)
    BY <1>9, <1>10, <1>11, <1>12, <1>13, <1>17, FailIs
  <2> QED  BY <1>5, <2>1
<1> QED  BY <1>8, <1>15, <1>16, <1>17

\* The task graph keeps its promise: every step of commander, workers and host accepts the
\* graph, judges a node whose inputs have passed, or changes nothing the promise speaks about.
THEOREM PromiseIsKept == MaxCommands = 1 => (Spec => KeepsPromise)
<1> SUFFICES ASSUME MaxCommands = 1 PROVE Spec => KeepsPromise
  OBVIOUS
<1>1. Init => Promise!Init
  <2> SUFFICES ASSUME Init PROVE Promise!Init
    OBVIOUS
  <2>1. plan \in Plans /\ answers = <<>>
    BY PlansExist DEF Init
  <2>2. Verdict(state) = [n \in Node |-> "absent"]
    BY DEF Init, Verdict
  <2>3. SentBack(state, attempts) = [n \in Node |-> 0]
    BY DEF Init, SentBack
  <2>4. (answers # <<>>) = FALSE
    BY <2>1
  <2> QED  BY <2>1, <2>2, <2>3, <2>4 DEF Promise!Init, Verdict, SentBack
<1>2. IInv /\ AnswersInv /\ OneInv /\ [Next]_vars => [Promise!Next]_(Promise!vars)
  <2> SUFFICES ASSUME IInv, AnswersInv, OneInv, [Next]_vars
               PROVE  Promise!Next \/ UNCHANGED Promise!vars
    OBVIOUS
  <2>1. CASE HandleCommand
    BY <2>1, CommandIsAccepted DEF Promise!Next
  <2>2. CASE HandleReport
    BY <2>2, ReportIsJudged DEF Promise!Next
  <2>3. CASE UNCHANGED <<plan, state, attempts, answers>>
    BY <2>3 DEF Promise!vars
  <2>4. ~HandleCommand /\ ~HandleReport => UNCHANGED <<plan, state, attempts, answers>>
    BY DEF Next, CommanderStep, DropReport, CommanderStops, WorkerStep, WorkerCrashes, SendReport,
           TakeAssignment, WorkerStops, SendCommand, StopSession, vars, runtimeVars, commanderVars
  <2> QED  BY <2>1, <2>2, <2>3, <2>4
<1> QED  BY <1>1, <1>2, OneInvariance, PTL DEF Spec, KeepsPromise, Promise!Spec
=============================================================================
