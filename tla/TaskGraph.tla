----------------------------- MODULE TaskGraph -----------------------------
(***************************************************************************)
(* The task-graph path of a session: the commander plans a graph of role   *)
(* nodes for a human command, dispatches every ready node to the worker of *)
(* its role, evaluates the report that comes back, reworks or fails the    *)
(* node, skips what a failure blocks, and answers the host when no node is *)
(* left open.  Commander, workers and host are tokio tasks joined by       *)
(* unbounded FIFO channels; one action here is what one task does between  *)
(* two receives.                                                           *)
(*                                                                         *)
(* Code: agent/commander/task_graph.rs (TaskGraphRuntime),                 *)
(* agent/commander/runner.rs (the graph part of Commander),                *)
(* agent/worker/runner.rs (mailbox side), session_runtime.rs (host side).  *)
(***************************************************************************)
EXTENDS Naturals, Sequences, FiniteSets, TaskPlans

CONSTANTS
  Plans,        \* the graphs plan_task_graph may return (keywords, rules)
  Rank,         \* Rank[n]: the position of n in graph.nodes
  MaxCommands,  \* bound: calls of run_until_complete on one SessionRuntime
  MaxCrashes    \* bound: worker tasks that panic

\* GraphPlanning shows it of the plans the code makes.
PlanAssumption == \A p \in Plans : ValidPlan(p)

ASSUME PlansAreValid == PlanAssumption
ASSUME PlansExist == Plans # {}
ASSUME RankIsInjective ==
  /\ Rank \in [Node -> Nat]
  /\ \A m, n \in Node : Rank[m] = Rank[n] => m = n
ASSUME BoundsAreNat == MaxCommands \in Nat /\ MaxCrashes \in Nat

VARIABLES
  \* TaskGraphRuntime of the graph planned last
  plan, state, attempts, reported, rework,
  \* the commander: is a graph active, its number, its inbox, the answers sent
  active, graph, inbox, commanderUp, answers,
  \* the workers: mailbox, the assignment worked on, is the task alive
  mailbox, task, worker,
  \* the host: commands sent, shutdown sent
  sent, stopping

runtimeVars   == <<plan, state, attempts, reported, rework>>
commanderVars == <<active, graph, inbox, commanderUp, answers>>
workerVars    == <<mailbox, task, worker>>
hostVars      == <<sent, stopping>>
vars == <<runtimeVars, commanderVars, workerVars, hostVars>>

Terminal == {"Passed", "Failed", "Skipped"}
\* "Absent": the node is not a key of TaskGraphRuntime.states.
NodeState == {"Absent", "Pending", "Running"} \cup Terminal

Assignment == [kind : {"assignment"}, graph : 1..MaxCommands, node : Node,
               attempt : 1..MaxU8, inputs : SUBSET Node, rework : BOOLEAN]
Report     == [kind : {"report"}, graph : 1..MaxCommands, node : Node,
               worker : Worker, status : {"Completed", "Failed"}]
Command    == [kind : {"command"}, graph : 1..MaxCommands]
Shutdown   == [kind |-> "shutdown"]
NoTask     == [kind |-> "none"]

----------------------------------------------------------------------------
(* TaskGraphRuntime.  An operator named Faulty... is the operator after it  *)
(* with a plausible bug; no specification uses it, and each property is    *)
(* violated when one of them takes the place of the original.              *)

Pending(p, st) == {n \in p.nodes : st[n] = "Pending"}
Running(p, st) == {n \in p.nodes : st[n] = "Running"}

FaultyUnblocked(p, st) ==   \* one passed input is enough
  {n \in Pending(p, st) :
     p.inputs[n] = {} \/ \E m \in p.inputs[n] : st[m] = "Passed"}

Unblocked(p, st) ==
  {n \in Pending(p, st) : \A m \in p.inputs[n] : st[m] = "Passed"}

FaultyReadyNodes(p, st) ==   \* busy workers forgotten
  {n \in Unblocked(p, st) :
     \A m \in Unblocked(p, st) : p.worker[m] = p.worker[n] => Rank[n] <= Rank[m]}

\* ready_nodes: the first unblocked node of every worker that runs no node.
ReadyNodes(p, st) ==
  LET busy == {p.worker[n] : n \in Running(p, st)}
  IN  {n \in Unblocked(p, st) :
         /\ p.worker[n] \notin busy
         /\ \A m \in Unblocked(p, st) :
               p.worker[m] = p.worker[n] => Rank[n] <= Rank[m]}

FaultyIsFinished(st) == \A n \in Node : st[n] # "Running"   \* Pending forgotten

IsFinished(st) == \A n \in Node : st[n] \notin {"Pending", "Running"}

Lost(st) == {n \in Node : st[n] \in {"Failed", "Skipped"}}

\* The sets of pending nodes the loop of skip_blocked_descendants can end with.
ClosedUnderSkip(p, st, B) ==
  \A n \in Pending(p, st) : p.inputs[n] \cap (Lost(st) \cup B) # {} => n \in B

FaultyBlocked(p, st) ==   \* only direct successors
  {n \in Pending(p, st) : p.inputs[n] \cap Lost(st) # {}}

Blocked(p, st) ==
  {n \in Pending(p, st) :
     \A B \in SUBSET Pending(p, st) : ClosedUnderSkip(p, st, B) => n \in B}

FaultySkipBlocked(p, st) ==   \* a failure aborts the whole graph
  [n \in Node |-> IF st[n] \in {"Pending", "Passed"} THEN "Skipped" ELSE st[n]]

SkipBlocked(p, st) ==
  [n \in Node |-> IF n \in Blocked(p, st) THEN "Skipped" ELSE st[n]]

\* attempts.get(..).unwrap_or(1): 0 stands for a node without an entry.
Tries(att, n) == IF att[n] = 0 THEN 1 ELSE att[n]

FaultyAfterReport(p, st, att, n, passed) ==   \* <= for <
  IF n \notin p.nodes
  THEN [st EXCEPT ![n] = "Failed"]
  ELSE IF passed
  THEN [st EXCEPT ![n] = "Passed"]
  ELSE IF Tries(att, n) <= p.max[n]
  THEN [st EXCEPT ![n] = "Pending"]
  ELSE SkipBlocked(p, [st EXCEPT ![n] = "Failed"])

FaultyAfterReportKeepsRunning(p, st, att, n, passed) ==   \* rework without a reset
  IF n \notin p.nodes
  THEN [st EXCEPT ![n] = "Failed"]
  ELSE IF passed
  THEN [st EXCEPT ![n] = "Passed"]
  ELSE IF Tries(att, n) < p.max[n]
  THEN st
  ELSE SkipBlocked(p, [st EXCEPT ![n] = "Failed"])

\* apply_report, the state of every node after the verdict on node n.
AfterReport(p, st, att, n, passed) ==
  IF n \notin p.nodes
  THEN [st EXCEPT ![n] = "Failed"]
  ELSE IF passed
  THEN [st EXCEPT ![n] = "Passed"]
  ELSE IF Tries(att, n) < p.max[n]
  THEN [st EXCEPT ![n] = "Pending"]
  ELSE SkipBlocked(p, [st EXCEPT ![n] = "Failed"])

\* apply_report, the nodes that hold a rework instruction afterwards.
AfterRework(p, rw, att, n, passed) ==
  IF n \notin p.nodes THEN rw
  ELSE IF passed THEN rw \ {n}
  ELSE IF Tries(att, n) < p.max[n] THEN rw \cup {n}
  ELSE rw

----------------------------------------------------------------------------
(* The commander                                                           *)

\* A send to an unbounded channel fails iff the receiver is gone.
Listening(w) == worker[w] = "up"

BuildAssignment(p, n, g, att, rep, rw) ==
  [kind |-> "assignment", graph |-> g, node |-> n, attempt |-> att[n] + 1,
   inputs |-> p.inputs[n] \cap rep, rework |-> n \in rw]

\* schedule_task_graph_runtime and finish_task_graph on the runtime
\* (p, st, att, rep, rw) of graph g.  A node whose dispatch fails stays
\* pending; nothing schedules again before the next report.
Schedule(p, g, st, att, rep, rw) ==
  LET sendTo == {n \in ReadyNodes(p, st) : Listening(p.worker[n])}
  IN  /\ plan' = p
      /\ graph' = g
      /\ reported' = rep
      /\ rework' = rw
      /\ \/ /\ IsFinished(st)
            /\ active' = FALSE
            /\ answers' = Append(answers, g)
            /\ state' = st
            /\ attempts' = att
            /\ UNCHANGED mailbox
         \/ /\ ~IsFinished(st)
            /\ active' = TRUE
            /\ state' = [n \in Node |-> IF n \in sendTo THEN "Running" ELSE st[n]]
            /\ attempts' = [n \in Node |-> IF n \in sendTo THEN att[n] + 1 ELSE att[n]]
            /\ mailbox' = [w \in Worker |->
                 IF \E n \in sendTo : p.worker[n] = w
                 THEN LET n == CHOOSE n \in sendTo : p.worker[n] = w
                      IN  Append(mailbox[w], BuildAssignment(p, n, g, att, rep, rw))
                 ELSE mailbox[w]]
            /\ UNCHANGED answers

\* handle_message(HumanCommand), on_human_command, step_thinking and
\* try_task_graph_route: what was active is dropped, a new graph is planned.
HandleCommand ==
  /\ commanderUp
  /\ inbox # <<>> /\ Head(inbox).kind = "command"
  /\ inbox' = Tail(inbox)
  /\ \E p \in Plans :
       Schedule(p, Head(inbox).graph,
                [n \in Node |-> IF n \in p.nodes THEN "Pending" ELSE "Absent"],
                [n \in Node |-> 0], {}, {})
  /\ UNCHANGED <<commanderUp, task, worker, hostVars>>

\* handle_task_graph_report without an active graph: only events.
DropReport ==
  /\ commanderUp
  /\ inbox # <<>> /\ Head(inbox).kind = "report"
  /\ ~active
  /\ inbox' = Tail(inbox)
  /\ UNCHANGED <<runtimeVars, active, graph, commanderUp, answers, workerVars, hostVars>>

\* handle_task_graph_report: evaluate_report reads the content, so the verdict
\* is free unless the worker reported failure; neither the graph id nor the
\* state of the node is looked at.
HandleReport ==
  /\ commanderUp
  /\ inbox # <<>> /\ Head(inbox).kind = "report"
  /\ active
  /\ inbox' = Tail(inbox)
  /\ LET r == Head(inbox)
     IN  \E passed \in BOOLEAN :
           /\ passed => r.status = "Completed"
           /\ Schedule(plan, graph,
                       AfterReport(plan, state, attempts, r.node, passed),
                       attempts, reported \cup {r.node},
                       AfterRework(plan, rework, attempts, r.node, passed))
  /\ UNCHANGED <<commanderUp, task, worker, hostVars>>

\* Control Shutdown: run() returns, the receiver and what it holds are dropped.
CommanderStops ==
  /\ commanderUp
  /\ inbox # <<>> /\ Head(inbox).kind = "shutdown"
  /\ commanderUp' = FALSE
  /\ inbox' = <<>>
  /\ UNCHANGED <<runtimeVars, active, graph, answers, workerVars, hostVars>>

----------------------------------------------------------------------------
(* Workers                                                                 *)

\* run, handle_message(WorkerAssignment), start_task.  A worker receives only
\* when its previous task is over.
TakeAssignment(w) ==
  /\ worker[w] = "up" /\ task[w] = NoTask
  /\ mailbox[w] # <<>> /\ Head(mailbox[w]).kind = "assignment"
  /\ task' = [task EXCEPT ![w] = Head(mailbox[w])]
  /\ mailbox' = [mailbox EXCEPT ![w] = Tail(@)]
  /\ UNCHANGED <<runtimeVars, commanderVars, worker, hostVars>>

\* handle_task_finished and handle_task_failed of an assignment.
SendReport(w, status) ==
  /\ worker[w] = "up" /\ task[w] # NoTask
  /\ task' = [task EXCEPT ![w] = NoTask]
  /\ inbox' = IF commanderUp
              THEN Append(inbox, [kind |-> "report", graph |-> task[w].graph,
                                  node |-> task[w].node, worker |-> w,
                                  status |-> status])
              ELSE inbox
  /\ UNCHANGED <<runtimeVars, active, graph, commanderUp, answers, mailbox, worker, hostVars>>

\* control:shutdown
WorkerStops(w) ==
  /\ worker[w] = "up" /\ task[w] = NoTask
  /\ mailbox[w] # <<>> /\ Head(mailbox[w]).kind = "shutdown"
  /\ worker' = [worker EXCEPT ![w] = "down"]
  /\ mailbox' = [mailbox EXCEPT ![w] = <<>>]
  /\ UNCHANGED <<runtimeVars, commanderVars, task, hostVars>>

Crashed == {w \in Worker : worker[w] = "crashed"}

\* The worker's tokio task panics (a Cognition or a skill did): the receiver is
\* dropped with what it holds, and nobody is told.
WorkerCrashes(w) ==
  /\ worker[w] = "up" /\ task[w] # NoTask
  /\ Cardinality(Crashed) < MaxCrashes
  /\ worker' = [worker EXCEPT ![w] = "crashed"]
  /\ mailbox' = [mailbox EXCEPT ![w] = <<>>]
  /\ task' = [task EXCEPT ![w] = NoTask]
  /\ UNCHANGED <<runtimeVars, commanderVars, hostVars>>

----------------------------------------------------------------------------
(* The host: run_until_complete and shutdown of SessionRuntime             *)

SendCommand ==
  /\ sent < MaxCommands /\ ~stopping
  /\ sent' = sent + 1
  /\ inbox' = Append(inbox, [kind |-> "command", graph |-> sent + 1])
  /\ UNCHANGED <<runtimeVars, active, graph, commanderUp, answers, workerVars, stopping>>

\* After an answer or when the response timeout is over, whichever comes first.
StopSession ==
  /\ sent > 0 /\ ~stopping
  /\ stopping' = TRUE
  /\ inbox' = Append(inbox, Shutdown)
  /\ mailbox' = [w \in Worker |-> IF Listening(w) THEN Append(mailbox[w], Shutdown)
                                                  ELSE mailbox[w]]
  /\ UNCHANGED <<runtimeVars, active, graph, commanderUp, answers, task, worker, sent>>

----------------------------------------------------------------------------
Init ==
  /\ plan = CHOOSE p \in Plans : TRUE   \* no meaning before the first command
  /\ state = [n \in Node |-> "Absent"]
  /\ attempts = [n \in Node |-> 0]
  /\ reported = {} /\ rework = {}
  /\ active = FALSE /\ graph = 0
  /\ inbox = <<>> /\ commanderUp = TRUE /\ answers = <<>>
  /\ mailbox = [w \in Worker |-> <<>>]
  /\ task = [w \in Worker |-> NoTask]
  /\ worker = [w \in Worker |-> "up"]
  /\ sent = 0 /\ stopping = FALSE

CommanderStep == HandleCommand \/ DropReport \/ HandleReport \/ CommanderStops

WorkerStep(w) ==
  \/ TakeAssignment(w)
  \/ \E status \in {"Completed", "Failed"} : SendReport(w, status)
  \/ WorkerStops(w)

Next ==
  \/ CommanderStep
  \/ \E w \in Worker : WorkerStep(w) \/ WorkerCrashes(w)
  \/ SendCommand
  \/ StopSession

Spec == Init /\ [][Next]_vars

\* tokio polls a task whose channel has a message.  The host owes nothing, nobody
\* has to crash, and nothing limits the cognition call of a worker.
Fairness ==
  /\ WF_vars(CommanderStep)
  /\ \A w \in Worker : WF_vars(TakeAssignment(w) \/ WorkerStops(w))

FairSpec == Spec /\ Fairness
----------------------------------------------------------------------------
(* Properties                                                              *)

TypeOK ==
  /\ plan \in Plans
  /\ state \in [Node -> NodeState]
  /\ attempts \in [Node -> 0..MaxU8]
  /\ reported \subseteq Node /\ rework \subseteq Node
  /\ active \in BOOLEAN /\ graph \in 0..MaxCommands
  /\ inbox \in Seq(Report \cup Command \cup {Shutdown})
  /\ commanderUp \in BOOLEAN
  /\ answers \in Seq(1..MaxCommands)
  /\ mailbox \in [Worker -> Seq(Assignment \cup {Shutdown})]
  /\ task \in [Worker -> Assignment \cup {NoTask}]
  /\ worker \in [Worker -> {"up", "down", "crashed"}]
  /\ sent \in 0..MaxCommands /\ stopping \in BOOLEAN

\* Whatever reports arrive, of this graph or of an earlier one: a node is never
\* dispatched more often than its max_attempts, a pending node has an attempt
\* left (so attempt + 1 cannot overflow its u8), and a node of the graph fails
\* only when its attempts are used up or a report came before any dispatch.
AttemptsBounded ==
  \A n \in plan.nodes :
    /\ attempts[n] <= plan.max[n]
    /\ state[n] = "Pending" => attempts[n] < plan.max[n]
    /\ state[n] = "Running" => attempts[n] >= 1
    /\ state[n] = "Failed" => Tries(attempts, n) = plan.max[n]

\* No two running nodes share a worker, whatever reports arrive (ready_nodes).
OneRunningPerWorker ==
  \A m, n \in plan.nodes :
    /\ state[m] = "Running" /\ state[n] = "Running"
    /\ plan.worker[m] = plan.worker[n]
    => m = n

\* Once the commander took a command, the graph is active or its answer was
\* sent; it is sent once, last of all answers, and with no node left open.
AnswerWhenFinished ==
  graph > 0 =>
    /\ active <=> graph \notin {answers[i] : i \in DOMAIN answers}
    /\ ~active => \A n \in Node : state[n] \in Terminal \cup {"Absent"}
    /\ \A i, j \in DOMAIN answers : i < j => answers[i] < answers[j]

\* The properties below are about a session that serves one command, the way
\* AgentSession uses its runtime.

MailPlaces(n) ==
  UNION {{<<w, i>> : i \in {j \in DOMAIN mailbox[w] :
                              /\ mailbox[w][j].kind = "assignment"
                              /\ mailbox[w][j].node = n}} : w \in Worker}
TaskPlaces(n) == {w \in Worker : task[w] # NoTask /\ task[w].node = n}
ReportPlaces(n) ==
  {i \in DOMAIN inbox : inbox[i].kind = "report" /\ inbox[i].node = n}

InFlight(n) ==
  Cardinality(MailPlaces(n)) + Cardinality(TaskPlaces(n)) + Cardinality(ReportPlaces(n))

\* The commander's view agrees with the queues: a running node has exactly one
\* assignment or report under way as long as its worker lives, and no other
\* node has any, in particular none after the answer.
RunningIffInFlight ==
  commanderUp =>
    \A n \in Node :
      IF active /\ state[n] = "Running"
      THEN IF Listening(plan.worker[n]) THEN InFlight(n) = 1 ELSE InFlight(n) <= 1
      ELSE InFlight(n) = 0

\* What a worker is given: the report of every input, all of them passed, and
\* the rework instruction exactly from the second attempt on.
Given(a) ==
  /\ a.inputs = plan.inputs[a.node]
  /\ \A m \in plan.inputs[a.node] : state[m] = "Passed"
  /\ a.attempt = attempts[a.node]
  /\ a.rework <=> a.attempt > 1

AssignmentsAreComplete ==
  /\ \A w \in Worker : task[w] # NoTask => Given(task[w])
  /\ \A w \in Worker : \A i \in DOMAIN mailbox[w] :
        mailbox[w][i].kind = "assignment" => Given(mailbox[w][i])

\* A node is skipped exactly when an input failed or was skipped, at once and
\* along every path, and no node runs or passes over a lost input.
SkippedIffBlocked ==
  \A n \in plan.nodes :
    /\ state[n] = "Skipped" <=> \E m \in plan.inputs[n] : state[m] \in {"Failed", "Skipped"}
    /\ state[n] \in {"Running", "Passed", "Failed"} =>
         \A m \in plan.inputs[n] : state[m] = "Passed"

\* An active graph always has a node under way, unless an unblocked node waits
\* for a worker that is gone: the commander never waits for nothing.
NeverStalls ==
  active /\ commanderUp =>
    \/ Running(plan, state) # {}
    \/ \E n \in Unblocked(plan, state) : ~Listening(plan.worker[n])

\* If every cognition call returns, a command is answered, unless a worker panics
\* or the host stops the session.
CallsReturn == \A w \in Worker : []<>(task[w] = NoTask)

CommandIsAnswered ==
  CallsReturn => (sent > 0 ~> answers # <<>> \/ Crashed # {} \/ stopping)
----------------------------------------------------------------------------
(* Refinement of TaskGraphPromise: a running node is an open one whose     *)
(* attempt under way is not judged yet.                                    *)

Promise == INSTANCE TaskGraphPromise WITH
  verdict  <- [n \in Node |-> CASE state[n] = "Absent" -> "absent"
                               [] state[n] \in {"Pending", "Running"} -> "open"
                               [] state[n] = "Passed" -> "passed"
                               [] state[n] = "Failed" -> "failed"
                               [] state[n] = "Skipped" -> "skipped"],
  tries    <- [n \in Node |-> IF state[n] = "Pending" THEN attempts[n]
                             ELSE IF attempts[n] = 0 THEN 0 ELSE attempts[n] - 1],
  answered <- answers # <<>>

\* With one command, every step of commander, workers and host is a step of
\* the promise or changes nothing it speaks about.
KeepsPromise == Promise!Spec
=============================================================================
