----------------------------- MODULE WorkerTask -----------------------------
(***************************************************************************)
(* A worker and what goes on inside it between taking a task and reporting *)
(* it: the cognition is asked, the skills it wants are run, its decision   *)
(* is acted on, and a report is made of all that.  One action is one turn  *)
(* of the loops in run(), except that the call of the cognition has steps  *)
(* of its own (CognitionCall); no message is looked at in between.         *)
(*                                                                         *)
(* Code: agent/worker/runner.rs, action_bridge.rs, memory.rs.              *)
(***************************************************************************)
EXTENDS WorkerReport

CONSTANTS
  Roles,         \* the roles the worker may have
  Value,         \* the values the cognition may return
  Later,         \* bound: those of them after the first attempt at the first task
  Other,         \* the answers of the model that are no value, Blank among them
  Blank,
  Policies,      \* retry policies of the cognition
  Inputs,        \* [n |-> role]: the reports an assignment has as inputs
  MaxMessages    \* bound: messages sent to the worker

VARIABLES
  role, state, phase,     \* Worker.role, state, phase
  task,                   \* current_task, NoTask without
  action,                 \* state of current_action, "none" without
  output, results, error, \* the entries of TaskMemory: <<>> or <<value>>
  mailbox, sent,          \* the messages to the worker, and how many there were
  out,                    \* the messages of the worker: [kind, task]
  report,                 \* the report on the task taken last, <<>> before it
  outcome, policy, attempt, prompt, raw, failure, asked   \* of CognitionCall

memory == <<output, results, error>>
callVars == <<outcome, policy, attempt, prompt, raw, failure, asked>>
vars == <<role, state, phase, task, action, memory, mailbox, sent, out, report, callVars>>

Call == INSTANCE CognitionCall WITH Answer <- Value \cup Other, Decoded <- Value

ASSUME WorkerPolicies == Policies \subseteq Call!CognitionRetryPolicy
ASSUME AnswersAreSorted ==
  Other \cap Value = {} /\ Blank \subseteq Other /\ Later \subseteq Value
ASSUME ValuesAreOutputs == \A v \in Value : IsCognitionOutput(v)
ASSUME MessagesAreCounted == MaxMessages \in Nat

NoTask == [id |-> 0, assigned |-> FALSE]
Message == {"assignment", "task:start", "start", "pause", "resume", "shutdown"}

----------------------------------------------------------------------------
(* Messages                                                                *)

Send(kind) ==
  /\ sent < MaxMessages
  /\ sent' = sent + 1
  /\ mailbox' = Append(mailbox, [kind |-> kind, id |-> sent + 1])
  /\ UNCHANGED <<role, state, phase, task, action, memory, out, report, callVars>>

FaultyStartTask(m) ==   \* the memory is not cleared
  /\ task' = [id |-> m.id, assigned |-> m.kind = "assignment"]
  /\ action' = "none" /\ phase' = "Thinking" /\ state' = "Running"
  /\ UNCHANGED memory
  /\ out' = Append(out, [kind |-> "started", task |-> m.id])
  /\ report' = <<>>

\* start_task
StartTask(m) ==
  /\ task' = [id |-> m.id, assigned |-> m.kind = "assignment"]
  /\ action' = "none" /\ phase' = "Thinking" /\ state' = "Running"
  /\ output' = <<>> /\ results' = <<>> /\ error' = <<>>
  /\ out' = Append(out, [kind |-> "started", task |-> m.id])
  /\ report' = <<>>

\* run and handle_message: only a worker that is not Running receives.
Receive(kind) ==
  /\ state \in {"Idle", "Paused"}
  /\ mailbox # <<>> /\ Head(mailbox).kind = kind
  /\ mailbox' = Tail(mailbox)
  /\ UNCHANGED <<role, sent, callVars>>

TakeTask ==
  /\ \/ Receive("assignment")
     \/ Receive("task:start")
  /\ StartTask(Head(mailbox))

Control(newState) ==
  /\ state' = newState
  /\ UNCHANGED <<phase, task, action, memory, out, report>>

ControlStart == Receive("start") /\ Control(IF task # NoTask THEN "Running" ELSE state)
ControlPause == Receive("pause") /\ Control("Paused")
ControlResume == Receive("resume") /\ Control("Running")
ControlShutdown == Receive("shutdown") /\ Control("Shutdown")

----------------------------------------------------------------------------
(* runtime_step                                                            *)

Step(of) == state = "Running" /\ phase = of /\ UNCHANGED <<role, mailbox, sent>>

NothingToDo ==
  /\ Step("Thinking") /\ task = NoTask
  /\ state' = "Idle"
  /\ UNCHANGED <<phase, task, action, memory, out, report, callVars>>

Ask ==
  /\ Step("Thinking") /\ task # NoTask
  /\ Call!Begin
  /\ UNCHANGED <<state, phase, task, action, memory, out, report>>

Answered(r) ==
  /\ Step("Thinking")
  /\ Call!ChatOnce(r)
  /\ UNCHANGED <<state, phase, task, action, memory, out, report>>

\* What evaluate holds is dropped when it returns.
Returned ==
  /\ outcome' = "idle" /\ attempt' = 1 /\ prompt' = <<>> /\ raw' = Call!NoAnswer
  /\ failure' = Call!NoFailure /\ asked' = <<>>
  /\ UNCHANGED policy

\* step_thinking with CognitionResult::Success, execute_requested_skills and
\* decision_to_action.
Thought ==
  /\ Step("Thinking") /\ outcome = "success"
  /\ LET v == raw[1]
         requests == ParseSkillRequests(v)
     IN  /\ output' = <<v>>
         /\ results' = IF requests = <<>> THEN results
                       ELSE <<RunRequested(role, requests)>>
         /\ IF v.act THEN action' = "Eligible" /\ phase' = "Acting"
            ELSE phase' = "Finished" /\ UNCHANGED action
  /\ Returned
  /\ UNCHANGED <<state, task, error, out, report>>

FaultyGaveUp ==   \* the phase stays, the cognition is asked again
  /\ Step("Thinking") /\ outcome = "failure"
  /\ error' = <<"cognition failure">>
  /\ Returned
  /\ UNCHANGED <<state, phase, task, action, output, results, out, report>>

\* CognitionResult::Failure
GaveUp ==
  /\ Step("Thinking") /\ outcome = "failure"
  /\ phase' = "Failed" /\ error' = <<"cognition failure">>
  /\ Returned
  /\ UNCHANGED <<state, task, action, output, results, out, report>>

\* step_acting: drive() completes a DecisionAction at once.
Act ==
  /\ Step("Acting")
  /\ IF action = "none"
     THEN phase' = "Failed" /\ error' = <<"no action">> /\ UNCHANGED action
     ELSE phase' = "Finished" /\ action' = "none" /\ UNCHANGED error
  /\ UNCHANGED <<state, task, output, results, out, report, callVars>>

Default == [content |-> {}, role_output |-> <<>>, evidence |-> <<>>, risks |-> <<>>,
            open_questions |-> <<>>]

AsReport(parsed, status) ==
  [role |-> role, status |-> status, content |-> parsed.content,
   role_output |-> parsed.role_output, evidence |-> parsed.evidence,
   risks |-> parsed.risks, open_questions |-> parsed.open_questions]

\* What the output alone would say, and what it says with the results.
Bare == IF output = <<>> THEN Default ELSE Parse(output[1])
Full == MergeSkillResults(Bare, IF results = <<>> THEN <<>> ELSE results[1])

\* handle_task_finished.  The report of a task without an assignment is the output.
HandleTaskFinished ==
  /\ Step("Finished")
  /\ \E parsed \in {IF task.assigned THEN Full ELSE Bare} :
       report' = <<AsReport(parsed, "Completed")>>
  /\ task' = NoTask
  /\ phase' = "Thinking" /\ state' = "Idle"
  /\ out' = Append(out, [kind |-> IF task.assigned THEN "report" ELSE "finished",
                         task |-> task.id])
  /\ UNCHANGED <<action, memory, callVars>>

FailureReport ==
  LET reason == {"some", "full"}
  IN  <<AsReport([Default EXCEPT !.content = reason, !.open_questions = <<reason>>],
                 "Failed")>>

FaultyHandleTaskFailed ==   \* the task is read, not taken
  /\ Step("Failed")
  /\ action' = "none" /\ phase' = "Thinking" /\ state' = "Idle"
  /\ out' = Append(out, [kind |-> IF task.assigned THEN "report" ELSE "failed",
                         task |-> task.id])
  /\ report' = FailureReport
  /\ UNCHANGED <<task, memory, callVars>>

\* handle_task_failed
HandleTaskFailed ==
  /\ Step("Failed")
  /\ task' = NoTask
  /\ action' = "none" /\ phase' = "Thinking" /\ state' = "Idle"
  /\ out' = Append(out, [kind |-> IF task.assigned THEN "report" ELSE "failed",
                         task |-> task.id])
  /\ report' = FailureReport
  /\ UNCHANGED <<memory, callVars>>

----------------------------------------------------------------------------
Init ==
  /\ role \in Roles /\ state = "Idle" /\ phase = "Thinking"
  /\ task = NoTask /\ action = "none"
  /\ output = <<>> /\ results = <<>> /\ error = <<>>
  /\ mailbox = <<>> /\ sent = 0 /\ out = <<>> /\ report = <<>>
  /\ Call!Init

AnswerComes ==
  /\ outcome = "waiting"
  /\ \/ Answered(Call!NoAnswer)
     \/ \E a \in Other : Answered(<<a>>)
     \/ IF attempt = 1 /\ Len(out) = 1 THEN \E v \in Value : Answered(<<v>>)
        ELSE \E v \in Later : Answered(<<v>>)

RuntimeStep ==
  \/ NothingToDo \/ Ask \/ Thought \/ GaveUp \/ Act
  \/ HandleTaskFinished \/ HandleTaskFailed
  \/ AnswerComes

HandleMessage == TakeTask \/ ControlStart \/ ControlPause \/ ControlResume \/ ControlShutdown

Next == RuntimeStep \/ HandleMessage \/ \E kind \in Message : Send(kind)

\* The loop goes on as long as the calls of the model return.
Spec == Init /\ [][Next]_vars /\ WF_vars(RuntimeStep)
----------------------------------------------------------------------------
(* Properties                                                              *)

Of(kinds) == Picked(out, {i \in DOMAIN out : out[i].kind \in kinds})
Tasks(messages) == [i \in DOMAIN messages |-> messages[i].task]

Promise == INSTANCE WorkerPromise WITH
  Task <- 1..MaxMessages,
  taken <- Tasks(Of({"started"})), told <- Tasks(Of({"report", "finished", "failed"}))

\* Every task is announced and reported once, in the order of the messages and
\* before the next one is taken, whatever comes in between (a pause, a resume or
\* a start with no task) and whatever the cognition does.
KeepsWorkerPromise == Promise!Spec

\* Again and again no task is unreported: as long as the calls of the model return,
\* the loop of a running worker ends with a report.
TaskIsReported == Promise!Reports

\* The calls of the model are justified for the worker's cognition as for any.
RetriesAreJustified == Call!RetriesAreJustified

Shows(texts, text) == \E i \in DOMAIN texts : texts[i] = text

IsShown(r, lists) ==
  IF r.status = "Success" THEN Shows(lists.evidence, EvidenceText(r))
  ELSE Shows(lists.risks, RiskText(r)) /\ Shows(lists.open_questions, QuestionText(r))

\* The report sent last is one of an assignment that was completed.
ReportIsOut ==
  report # <<>> /\ report[1].status = "Completed" /\ out[Len(out)].kind = "report"

\* execute_requested_skills, merge_skill_results: the report of an assignment tells
\* of every skill the cognition asked for in this task, and of none that was run
\* for an earlier one: the successes as evidence, everything else as a risk and an
\* open question, in the report and in its role output.  A skill that the role may
\* not use counts as one that failed.
SkillsAreAccountedFor ==
  ReportIsOut =>
    LET wanted == ParseSkillRequests(output[1])
        told == IF results = <<>> THEN <<>> ELSE results[1]
    IN  /\ Len(told) = Len(wanted)
        /\ \A i \in DOMAIN told :
             /\ told[i].id = wanted[i].id
             /\ ~RoleCanUse(role, told[i].id) => told[i].status = "ValidationError"
             /\ report[1].role_output # <<>>
             /\ IsShown(told[i], report[1]) /\ IsShown(told[i], report[1].role_output[1])

Reasons(r) == EvaluateReport(r, DOMAIN Inputs, Inputs)

\* merge_skill_results seen by evaluate_report: what becomes of the skills never
\* turns a report that would pass into one that does not, and it makes a failing
\* one pass only by filling a gap: a success is a citation, if of a skill of the
\* right trade, and anything else a risk or the open question a refusal needs.  The
\* risk names the skill: one that is asked for under a name that holds the words of a
\* bad answer would put them into the report.
SkillsOnlyFill ==
  /\ ReportIsOut /\ results # <<>>
  /\ \A i \in DOMAIN results[1] : results[1][i].id \notin Betraying
  =>
    LET before == Reasons(AsReport(Bare, "Completed"))
        after == Reasons(report[1])
        some(statuses) == \E i \in DOMAIN results[1] : results[1][i].status \in statuses
        done == {"Success"}
        undone == {"Deferred", "PendingApproval", "ValidationError", "Failed"}
    IN  /\ before = {} => after = {}
        /\ after = {} => /\ before \subseteq {"citation", "risks", "refusal"}
                         /\ "citation" \in before => some(done)
                         /\ before \cap {"risks", "refusal"} # {} => some(undone)

\* prompts/zh/cognition/worker_execution.md, line 38: the runtime adds the results
\* of the skills to the final report, of whatever task.
ResultsAreReported ==
  report # <<>> /\ report[1].status = "Completed" /\ results # <<>> =>
    \A i \in DOMAIN results[1] : IsShown(results[1][i], report[1])
=============================================================================
