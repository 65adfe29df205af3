--------------------------- MODULE Collaboration ---------------------------
(***************************************************************************)
(* The route of a human command that is not planned as a task graph: the   *)
(* commander replies itself or gives the task to one worker.  If that is   *)
(* the primary role of the route, the supporting roles get a task each     *)
(* after the primary finished, and the answer is synthesized when the last *)
(* of them has.  A session serves one command.                             *)
(*                                                                         *)
(* Code: agent/commander/runner.rs (step_thinking, try_fast_route and the  *)
(* collaboration handlers), roles/collaboration.rs, roles/router.rs, the   *)
(* "task:start:" path of agent/worker/runner.rs.                           *)
(***************************************************************************)
EXTENDS Naturals, Sequences, FiniteSets

CONSTANTS
  Worker,      \* the registered workers
  MaxCrashes   \* bound: worker tasks that panic

ASSUME CrashBound == MaxCrashes \in Nat

VARIABLES
  active, pending, completed, outputs,   \* the collaboration state of Commander
  inbox, commanderUp, answers,           \* its channels
  mailbox, task, worker,                 \* the workers
  sent, stopping                         \* the host

collaborationVars == <<active, pending, completed, outputs>>
workerVars        == <<mailbox, task, worker>>
hostVars          == <<sent, stopping>>
vars == <<collaborationVars, inbox, commanderUp, answers, workerVars, hostVars>>

NoPlan == [primary |-> "none", support |-> {}]

MaxRoles == 3

\* route and from_route: the support roles of a route differ from the primary
\* role and from one another, and all are registered workers.
RoleRoute == {r \in [primary : Worker, support : SUBSET Worker] :
                r.primary \notin r.support /\ Cardinality(r.support) < MaxRoles}

\* What the host may be told: a reply of the commander itself, a dispatch that
\* failed, a worker's failure or output, or the synthesis of contributions.
Reply(kind, w) == [kind |-> kind, worker |-> w, from |-> {}]

Nobody == "nobody"   \* the target of a cognition output that no worker has

----------------------------------------------------------------------------
(* The commander                                                           *)

Listening(w) == w \in Worker /\ worker[w] = "up"

Deliver(ws) ==
  mailbox' = [w \in Worker |-> IF w \in ws THEN Append(mailbox[w], "task") ELSE mailbox[w]]

Receives(kind) == commanderUp /\ inbox # <<>> /\ Head(inbox).kind = kind

FaultyCommanderReplies ==   \* an intent that starts no task is only logged
  /\ Receives("command")
  /\ inbox' = Tail(inbox)
  /\ UNCHANGED <<collaborationVars, answers, commanderUp, workerVars, hostVars>>

\* step_thinking: cognition failed, or its intent starts no task.
CommanderReplies ==
  /\ Receives("command")
  /\ inbox' = Tail(inbox)
  /\ answers' = Append(answers, Reply("reply", Nobody))
  /\ UNCHANGED <<collaborationVars, commanderUp, workerVars, hostVars>>

\* step_thinking and try_fast_route: prepare_collaboration, then
\* dispatch_task_to_worker.  The fast route and an intent without a target take
\* the primary worker of the route.
DispatchTask ==
  /\ Receives("command")
  /\ inbox' = Tail(inbox)
  /\ \E route \in RoleRoute, target \in Worker \cup {Nobody} :
       /\ active' = IF target = route.primary /\ route.support # {} THEN route ELSE active
       /\ IF Listening(target)
          THEN Deliver({target}) /\ UNCHANGED answers
          ELSE answers' = Append(answers, Reply("undelivered", target)) /\ UNCHANGED mailbox
  /\ UNCHANGED <<pending, completed, outputs, commanderUp, task, worker, hostVars>>

\* send_collaboration_done: the contributions of the primary worker and of the
\* completed support workers, or what the primary alone has to say.
Done(out) ==
  /\ answers' = Append(answers, [kind |-> "synthesis", worker |-> active.primary,
                                 from |-> out])
  /\ active' = NoPlan
  /\ pending' = {} /\ completed' = {} /\ outputs' = {}

\* handle_collaboration_worker_finished of the primary worker and
\* dispatch_support_workers: who cannot be reached is not waited for.
PrimaryFinished ==
  /\ Receives("finished")
  /\ inbox' = Tail(inbox)
  /\ LET w == Head(inbox).worker
         reached == {s \in active.support : Listening(s)}
     IN  /\ active # NoPlan /\ w = active.primary
         /\ Deliver(reached)
         /\ IF reached = {}
            THEN Done(outputs \cup {w})
            ELSE /\ pending' = reached
                 /\ outputs' = outputs \cup {w}
                 /\ UNCHANGED <<active, completed, answers>>
  /\ UNCHANGED <<commanderUp, task, worker, hostVars>>

FaultySupportFinished ==   \* the first support worker is enough
  /\ Receives("finished")
  /\ inbox' = Tail(inbox)
  /\ LET w == Head(inbox).worker
     IN  active # NoPlan /\ w # active.primary /\ w \in pending /\ Done(outputs \cup {w})
  /\ UNCHANGED <<commanderUp, workerVars, hostVars>>

FaultySupportKept ==   \* the worker is not taken from the pending ones
  /\ Receives("finished")
  /\ inbox' = Tail(inbox)
  /\ LET w == Head(inbox).worker
     IN  /\ active # NoPlan /\ w # active.primary /\ w \in pending
         /\ completed' = completed \cup {w}
         /\ outputs' = outputs \cup {w}
  /\ UNCHANGED <<active, pending, answers, commanderUp, workerVars, hostVars>>

\* handle_collaboration_worker_finished of a pending support worker.
SupportFinished ==
  /\ Receives("finished")
  /\ inbox' = Tail(inbox)
  /\ LET w == Head(inbox).worker
     IN  /\ active # NoPlan /\ w # active.primary /\ w \in pending
         /\ IF pending = {w}
            THEN Done(outputs \cup {w})
            ELSE /\ pending' = pending \ {w}
                 /\ completed' = completed \cup {w}
                 /\ outputs' = outputs \cup {w}
                 /\ UNCHANGED <<active, answers>>
  /\ UNCHANGED <<commanderUp, workerVars, hostVars>>

\* WorkerReportFinished of a worker that is on its own.
SoloFinished ==
  /\ Receives("finished")
  /\ inbox' = Tail(inbox)
  /\ LET w == Head(inbox).worker
     IN  /\ active = NoPlan \/ (w # active.primary /\ w \notin pending)
         /\ answers' = Append(answers, Reply("output", w))
  /\ UNCHANGED <<collaborationVars, commanderUp, workerVars, hostVars>>

FaultyWorkerFailed ==   \* the failed worker is taken from the pending ones
  /\ Receives("failed")
  /\ inbox' = Tail(inbox)
  /\ answers' = Append(answers, Reply("failure", Head(inbox).worker))
  /\ pending' = pending \ {Head(inbox).worker}
  /\ UNCHANGED <<active, completed, outputs, commanderUp, workerVars, hostVars>>

FaultyFailureDropped ==   \* only an event
  /\ Receives("failed")
  /\ inbox' = Tail(inbox)
  /\ UNCHANGED <<collaborationVars, answers, commanderUp, workerVars, hostVars>>

\* WorkerReportFailed: the host is told at once and the collaboration is left as
\* it is: its pending workers are still waited for.
WorkerFailed ==
  /\ Receives("failed")
  /\ inbox' = Tail(inbox)
  /\ answers' = Append(answers, Reply("failure", Head(inbox).worker))
  /\ UNCHANGED <<collaborationVars, commanderUp, workerVars, hostVars>>

CommanderStops ==
  /\ Receives("shutdown")
  /\ commanderUp' = FALSE
  /\ inbox' = <<>>
  /\ UNCHANGED <<collaborationVars, answers, workerVars, hostVars>>

----------------------------------------------------------------------------
(* Workers and host                                                        *)

TakeTask(w) ==
  /\ worker[w] = "up" /\ ~task[w]
  /\ mailbox[w] # <<>> /\ Head(mailbox[w]) = "task"
  /\ mailbox' = [mailbox EXCEPT ![w] = Tail(@)]
  /\ task' = [task EXCEPT ![w] = TRUE]
  /\ UNCHANGED <<collaborationVars, inbox, commanderUp, answers, worker, hostVars>>

\* handle_task_finished and handle_task_failed of a task without assignment.
Report(w, kind) ==
  /\ worker[w] = "up" /\ task[w]
  /\ task' = [task EXCEPT ![w] = FALSE]
  /\ inbox' = IF commanderUp THEN Append(inbox, [kind |-> kind, worker |-> w]) ELSE inbox
  /\ UNCHANGED <<collaborationVars, commanderUp, answers, mailbox, worker, hostVars>>

WorkerStops(w) ==
  /\ worker[w] = "up" /\ ~task[w]
  /\ mailbox[w] # <<>> /\ Head(mailbox[w]) = "shutdown"
  /\ worker' = [worker EXCEPT ![w] = "down"]
  /\ mailbox' = [mailbox EXCEPT ![w] = <<>>]
  /\ UNCHANGED <<collaborationVars, inbox, commanderUp, answers, task, hostVars>>

Crashed == {w \in Worker : worker[w] = "crashed"}

\* The worker's task panics; nobody is told.
WorkerCrashes(w) ==
  /\ worker[w] = "up" /\ task[w]
  /\ Cardinality(Crashed) < MaxCrashes
  /\ worker' = [worker EXCEPT ![w] = "crashed"]
  /\ mailbox' = [mailbox EXCEPT ![w] = <<>>]
  /\ task' = [task EXCEPT ![w] = FALSE]
  /\ UNCHANGED <<collaborationVars, inbox, commanderUp, answers, hostVars>>

SendCommand ==
  /\ ~sent /\ ~stopping
  /\ sent' = TRUE
  /\ inbox' = Append(inbox, [kind |-> "command", worker |-> Nobody])
  /\ UNCHANGED <<collaborationVars, commanderUp, answers, workerVars, stopping>>

\* After the first answer or when the response timeout is over.
StopSession ==
  /\ sent /\ ~stopping
  /\ stopping' = TRUE
  /\ inbox' = Append(inbox, [kind |-> "shutdown", worker |-> Nobody])
  /\ mailbox' = [w \in Worker |-> IF Listening(w) THEN Append(mailbox[w], "shutdown")
                                                  ELSE mailbox[w]]
  /\ UNCHANGED <<collaborationVars, commanderUp, answers, task, worker, sent>>

----------------------------------------------------------------------------
Init ==
  /\ active = NoPlan /\ pending = {} /\ completed = {} /\ outputs = {}
  /\ inbox = <<>> /\ commanderUp = TRUE /\ answers = <<>>
  /\ mailbox = [w \in Worker |-> <<>>]
  /\ task = [w \in Worker |-> FALSE]
  /\ worker = [w \in Worker |-> "up"]
  /\ sent = FALSE /\ stopping = FALSE

\* step_thinking, which may call the cognition of the commander.
CommanderThinks == CommanderReplies \/ DispatchTask

CommanderHears ==
  PrimaryFinished \/ SupportFinished \/ SoloFinished \/ WorkerFailed \/ CommanderStops

CommanderStep == CommanderThinks \/ CommanderHears

WorkerStep(w) ==
  TakeTask(w) \/ Report(w, "finished") \/ Report(w, "failed") \/ WorkerStops(w)

Next ==
  \/ CommanderStep
  \/ \E w \in Worker : WorkerStep(w) \/ WorkerCrashes(w)
  \/ SendCommand
  \/ StopSession

Spec == Init /\ [][Next]_vars

\* As in TaskGraph: a task whose channel has a message is polled.
Fairness ==
  /\ WF_vars(CommanderHears)
  /\ \A w \in Worker : WF_vars(TakeTask(w) \/ WorkerStops(w))

FairSpec == Spec /\ Fairness
----------------------------------------------------------------------------
(* Properties                                                              *)

TypeOK ==
  /\ active \in RoleRoute \cup {NoPlan}
  /\ pending \subseteq Worker /\ completed \subseteq Worker /\ outputs \subseteq Worker
  /\ commanderUp \in BOOLEAN /\ sent \in BOOLEAN /\ stopping \in BOOLEAN
  /\ mailbox \in [Worker -> Seq({"task", "shutdown"})]
  /\ task \in [Worker -> BOOLEAN]
  /\ worker \in [Worker -> {"up", "down", "crashed"}]

InFlight(w) ==
  Cardinality({i \in DOMAIN mailbox[w] : mailbox[w][i] = "task"})
    + (IF task[w] THEN 1 ELSE 0)
    + Cardinality({i \in DOMAIN inbox : inbox[i].kind \in {"finished", "failed"}
                                        /\ inbox[i].worker = w})

Said(kind) == {answers[i].worker : i \in {j \in DOMAIN answers : answers[j].kind = kind}}

\* The commander waits for exactly the support workers that have a task under
\* way, and for those that failed or were lost, which it never stops waiting for.
PendingIffUnderWay ==
  commanderUp =>
    \A w \in Worker :
      /\ w \in pending => \/ InFlight(w) = 1
                          \/ InFlight(w) = 0 /\ (w \in Said("failure") \/ ~Listening(w))
      /\ active # NoPlan /\ w # active.primary /\ InFlight(w) > 0 => w \in pending

\* A synthesis has the contribution of the primary worker and is sent when no
\* support worker has anything under way.
SynthesisIsComplete ==
  \A i \in DOMAIN answers :
    answers[i].kind = "synthesis" /\ commanderUp =>
      /\ answers[i].worker \in answers[i].from
      /\ \A w \in Worker : InFlight(w) = 0

\* The host takes the first answer, so the answers must not disagree: there is
\* one, or all of them are failures.
AnswersAgree ==
  Len(answers) <= 1 \/ \A i \in DOMAIN answers : answers[i].kind = "failure"

\* A collaboration that is not over has something under way, unless a worker
\* failed, was lost or could not be given its task.
NeverStuck ==
  active # NoPlan /\ commanderUp =>
    \/ \E w \in Worker : InFlight(w) > 0
    \/ Said("failure") \cup Said("undelivered") # {}
    \/ \E w \in pending \cup {active.primary} : ~Listening(w)

\* If every cognition call returns, a command is answered, unless a worker panics
\* or the host stops the session.
CallsReturn == WF_vars(CommanderThinks) /\ \A w \in Worker : []<>~task[w]

CommandIsAnswered ==
  CallsReturn => (sent ~> answers # <<>> \/ Crashed # {} \/ stopping)
=============================================================================
