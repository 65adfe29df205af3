# cm-agent in TLA+

cm-agent runs a request of a user as a *session*: a commander turns the command into
work for role workers, collects and judges their reports, and answers; a host streams
what happens to a client and keeps what was learned in a memory store.  The modules here
model the parts of it that run concurrently, can fail half way or have to hold a limit.
Paths below are under `src/src/`.

## 1. The system

| component | code | state | operations |
|---|---|---|---|
| AgentManager | `agent_manager/manager.rs` | set of active session ids (mutex) | `run_request`, `run_stream`, `active_session_count` |
| AgentSession | `agent_session/session.rs` | none of its own | select roles, load memory, run, persist if ok |
| SessionRuntime | `agent_session/session_runtime.rs` | senders, response receiver (used once), join handles | `start`, `run_until_complete`, `shutdown`, `emit_event` |
| Commander | `agent/commander/runner.rs` | active task graph, or active collaboration with pending, completed, outputs | `HumanCommand`, `WorkerReport*`, `Control` |
| TaskGraphRuntime | `agent/commander/task_graph.rs` | state, attempts, report, evaluation and rework instruction of every node | `ready_nodes`, `build_assignment`, `mark_running`, `apply_report`, `is_finished`, `synthesize` |
| Planner | `agent/commander/task_graph.rs` (`plan_task_graph`) | none; reads a rule file | validate rules, search for cycles, build a configured or a keyword graph |
| Route | `agent/commander/routing.rs`, `roles/router.rs`, `roles/collaboration.rs` | none | scores roles, chooses primary and support |
| Worker | `agent/worker/runner.rs` | run state, phase, one task, one action | assignment, `task:start:`, `control:*`, the phases of a task |
| CognitionEngine | `cognition/engine` | none | one LLM call with retries and repair, a decoder of its answers |
| Skill runtime | `skills/{runtime,spec}.rs`, `roles/skill_catalog.rs` | registry, loaded once | which role may use which skill; look up, validate, run, report a status |
| Skills | `skills/*.rs` | none | some 80 calculators, checkers and stubs |
| Session context | `agent_session/context` | directory of senders, worker catalog, blackboard, extensions (each behind a lock) | register, get, record graph memory |
| InMemoryMemoryStore | `agent_session/memory/{in_memory,compaction,model}.rs` | records (RwLock) | `upsert_record`, `persist_session`, `load_bundle`, `with_records` |
| FileMemoryStore | `agent_session/memory/file_store.rs` | an in-memory store, a file, a flush lock | `open`, the same operations with a flush |
| Roles, prompts, rules | `roles`, `config`, `prompts` | configuration | load and validate |

How they interact.  `run_stream` spawns a host task; `SessionRuntime::start` spawns one
tokio task for the commander and one for each worker.  Host, commander and workers talk
over unbounded FIFO channels: a send never waits and fails only if the receiver is gone.
Events go to the client over one bounded channel with two senders: the host *awaits* room
(`session_runtime.rs:330`), the commander *offers* with `try_send` and loses the event when
there is none (`commander/runner.rs:869`).  The commander writes the memory of a finished
graph into the session context before it answers, and the host reads it after the answer.
All sessions of a manager share one memory store and the registry.

What makes it hard:

- a commander that schedules only when a report arrives, so that every report has to leave
  the graph with something under way or finished;
- reports, reworks and failures of several workers in any order, and reports of a graph
  that was replaced, which `apply_report` does not tell from those of the current one;
- workers that panic, sends that fail, a response timeout that races the answer, a shutdown
  that gives its tasks two seconds and leaves them;
- a channel at its limit with two senders of different manners;
- a depth-first search that shares its marks between starts, and a graph that is put together
  by conditions which look at each other's results;
- concurrent flushes of one file, failing writes, a process killed between two steps;
- limits on memory that are enforced by a sort and a cut, and repeated at every reopening;
- a session that plans and ranks to know whom to start, and a commander that does it again
  with fewer roles to choose from;
- a worker whose task, phase and memory are shared by three handlers and may be paused between
  them, with skills that may be refused, put off or fail, and a report put together from all;
- models that answer with prose, fences and half a bracket.

What has to be right, component by component:

- *TaskGraphRuntime and Commander*: attempts stay within their limit whatever reports come;
  one node per worker; a node starts only over passed inputs and with their reports; a
  failure skips exactly what it blocks; the commander's view agrees with the queues; one
  answer, with nothing left open, and it does come.
- *Planner and route*: a rule file is used exactly when all its rules are valid, no cycle is
  missed, and every graph that comes out, by rule or by keywords, is one that TaskGraphRuntime
  can finish; session and commander agree on graph and roles; every command is decided.
- *Worker*: a task is announced and reported once, before the next is taken; the report tells
  of every skill that was asked for and of no other, and is not made worse or better by that
  than the rules of the commander mean.
- *Cognition*: no call too many or too few, each retry told of the last failure; a value that
  fits is found in prose, behind an open bracket and in a fence, though not on the line of the
  fence, and none is made up.
- *Skills*: a request fails, is put off or waits for the reason its status names, a success with
  figures rests on what was given, and what needs an approval is never reported as done.
- *Collaboration*: the synthesis waits for exactly those who were reached; the answers do
  not disagree; the answer comes.
- *Host, session, manager*: no lifecycle event is lost, doubled or out of order; the stream
  ends; the registry says what is worked on, and says it before the terminal event.
- *Memory*: limits hold and what is dropped ranks lowest; reopening changes nothing; what a
  caller was told is persisted survives a crash; the file is always whole and never goes back;
  a session starts from what was written last.

`PROJECT.json` lists every hazard with its line and the properties that watch it.

## 2. The modules

| module | models | checked or proved in |
|---|---|---|
| `TaskPlans` | what a task graph is and what makes one valid | used by `TaskGraph` and `GraphPlanning` |
| `TaskGraph` | commander, workers and host on the task-graph route | `MCTaskGraph`: `task_graph_one`, `task_graph_two` |
| `TaskGraphPromise` | what a task graph promises: no queue, no worker | implemented by `TaskGraph` |
| `GraphPlanning` | validation of rule files, their graphs and those of keywords | `MCGraphPlanning`: `graph_planning` |
| `CommandRouting` | session and commander route a command; two runs of `GraphPlanning` | `MCGraphPlanning`: `graph_planning` |
| `Collaboration` | commander, workers and host on the other routes | `collaboration` |
| `SessionStream` | manager, host task, event channel and client around a commander | `session_stream_one`, `session_stream_two` |
| `Positions` | pure operators: what a sort and a filter return | used by `CommandRouting`, `MemoryRecords`, `WorkerReport`, `WorkerTask` |
| `MemoryRecords` | pure operators: compaction, upsert, reload | used by the two stores |
| `InMemoryStore` | a store of records under upserts, and what a session loads from it | `MCInMemoryStore`: `in_memory_store` |
| `FileMemoryStore` | concurrent sessions over one file | `MCFileMemoryStore`: `file_memory_store` |
| `CognitionCall` | one call of a cognition engine with its retries | `MCCognition`: `cognition_call` |
| `JsonDecoder` | pure operators: how an answer becomes a value | `MCCognition`: `cognition_call` |
| `SkillRegistry` | what every skill declares and which role may use it | used by the next three |
| `SkillRuntime` | pure operators: what becomes of a request for a skill | used by the next two |
| `SkillCalls` | an executor and one call after another | `skill_calls` |
| `ReportEvaluation` | pure operators: how the commander judges a report | used by `WorkerReport` |
| `WorkerReport` | pure operators: how a worker puts its report together | used by `WorkerTask` |
| `WorkerTask` | a worker; composes `CognitionCall`, the skills, `WorkerReport` and `ReportEvaluation` | `MCWorkerTask`: `worker_task`, `worker_direct` |
| `WorkerPromise` | what a commander may expect of a worker | implemented by `WorkerTask` |
| `TaskGraphProofs`, `GraphPlanningProofs`, `CollaborationProofs`, `SessionStreamProofs`, `InMemoryStoreProofs`, `FileMemoryStoreProofs` | theorems about the module they are named after (`GraphPlanningProofs` also about `CommandRouting`) | proved |
| `WorkerTaskProofs` | theorems about `WorkerTask` and the `CognitionCall` in it | proved |
| `MemoryRecordsProofs` | lemmas about compaction, upsert and reload, used by the proofs of the two stores | proved |

An operator whose name starts with `Faulty` is the operator after it with a plausible bug.
No specification uses one; putting it in the place of the original must violate the
property it is listed with in `PROJECT.json`, which shows that the property looks at the code.

### TaskGraph

One action is what one tokio task does between two receives; none of the handlers awaits
anything another task could change in between.  `Schedule` is
`schedule_task_graph_runtime` with `finish_task_graph`; `AfterReport` and `AfterRework` are
`apply_report`; `HandleCommand` runs from the human command through planning to the first
assignments.  `state`, `attempts`, `reported`, `rework` are the maps of
`TaskGraphRuntime`; `"Absent"` is a node without an entry, which a report of another graph
may add.  `mailbox`, `inbox` and `answers` are the channels and keep their order; `task` is
the assignment a worker is busy with.

Abstractions.  The graph is any member of `Plans`, which `PlanAssumption` requires to be
valid (`ValidPlan`: nonempty, closed, acyclic, at least one attempt); `GraphPlanning` shows that
what the planner returns is.  `try_task_graph_route` uses a graph only if all its workers are
registered, so every worker of a plan exists.  `evaluate_report` reads
texts, so its verdict is a free choice here (`ReportEvaluation` has its rules), but a report of a
failed worker cannot pass.  The phases of a worker's task are one step: `WorkerPromise` is what
this relies on, and `WorkerTask` keeps it.  Events and `WorkerReportStarted`, which changes no
state, are left out.  `Blocked` gives the result of the loop of
`skip_blocked_descendants` as the least closed set.  `MaxU8` is the width of
attempts.

`TaskGraphPromise` is the abstract specification.  In it a node is open until it is judged;
`KeepsPromise` maps Pending and Running to open and subtracts the attempt under way.  It is
stated for one command, which is how `AgentSession` uses a runtime.

### GraphPlanning

One action is one check of `validate_rule`, one step of the recursive `visit`, or the choice of
the graph: `path` is the stack of calls, `marks` are the `VisitState`s, `left[n]` is what the
loop of `visit(n)` has ahead.  `Configured` is `build_configured_task_graph`, `BuiltinNodes`
is `plan_builtin_task_graph`.

Abstractions.  A task is the set of keyword lists it hits (`Topic`), and every set is possible
except that the words of the marketing condition are also words of other lists.  `named` and
`complete` say that the required texts of a rule and of a node are not blank, `readable` that
the file exists and is JSON of the right shape.  Dependencies are sets, so that their order is
free, which is more than the code does; a dependency written twice changes nothing in it.
A worker is called by its role, as `worker.{role}` is.

### CommandRouting

`phase` is how far a command is: the session's preselection, the commander's first look, its own
planning, its cognition, and the decision.  `StartForGraph` and `StartForRoute` are
`select_roles_for_task`; `started` is the catalog the commander ranks, since
`SessionRuntime::start` gives it only the roles whose workers run.  `RouteOver` is
`RoleRouter::route`: scores in halves of a point, because `min_primary_score` is a float and the
bonus of the general domain is 0.5.  `RunGraph`, `TakeFastRoute`, `ThinkSlowly` and `Evaluate`
are the early returns of `step_thinking`, and `Kind` lists what a cognition may put out.

`RoutesAgree` is what the double work has to come to.  The ranking may differ between session
and commander when the fast route is on: the commander's primary is then the best of those
started, and the property asks that its graph is nevertheless the one the workers were started
for.  `CommandIsDecided` includes that both searches for cycles return.

Abstractions.  A keyword list is the number of its hits; preferred actions, which `route` passes
as none, are left out.  A route that names an agent without a worker ends as `"undelivered"`.
`ReplaceCurrentTask`, which the commander only replies to, is one of the kinds that are
replied to.

### Collaboration

`DispatchTask` covers the fast route and a cognition that starts a task: the target may be
the primary of the route, another worker, or nobody.  `PrimaryFinished`,
`SupportFinished`, `SoloFinished` and `WorkerFailed` are the branches of
`handle_message`.  `outputs` and `completed` are sets of workers; `from` in a
synthesis is whose contributions it contains.

A failure of one worker is answered at once, the collaboration stays active and the worker
stays pending; no synthesis follows, since it waits for that worker for ever.  The session is over
with the first answer, so this is how one failure ends a collaboration;
`PendingIffUnderWay`, `AnswersAgree` and `NeverStuck` state it.

### SessionStream

`host` is the position of the host task, and every await of an event is a step of its own
that is disabled while the channel is full and the client listens.  `commander` stands for
all of TaskGraph or Collaboration: it takes its command, offers events, may answer late or
never, may panic.  `GiveUp` is the response timeout or a closed response channel;
`tokio::time::timeout` polls the receiver first, so an answer that is there wins.  `Join`
may end by time, which `overdue` records.  `Cancel` is a caller that drops
the future of `run_request` at an await.  `LifecycleIsComplete` is about finished
requests whose client still listens: such a client has been told of exactly the lifecycle
events of `Promised`, each once and in order (`Tells`).  Of a request under way it says nothing.

Events of the commander are all called `Progress`; the properties are about the
events of the host.  A client that keeps the receiver without reading is not assumed away
by the code: it blocks the host, and `StreamEnds` therefore promises the end only to a client
that reads on until it hangs up (`architectures/SSE_STREAMING_PLAN.md:114` lists that as open).

### MemoryRecords, InMemoryStore, FileMemoryStore

A record has a group (its scope and kind, compared for identity), a key or none, a
confidence, a time, and a content of which only two things matter: which upsert wrote it,
and what compaction does to its text (blank, fits, long, cut, recut).  A cut text contains
a marker between blank lines; normalization at the next upsert of the same text replaces
them, once: `ReloadKeepsRecords` states that this is all a reopening changes.  This assumes
that `max_record_chars` exceeds the marker, as in every policy of the repository.
`Higher` is the comparator as the sort uses it (only whether it returns Less):
records of the same time compare Greater both ways and keep their order.  What `filter`, `retain`
and the sort return is said by positions (`Picked`, `Sorted`: the k-th element is the one with
k - 1 before it), which both TLC and a proof can work with.

`InMemoryStore` keeps in `offered` what the last upsert chose from, so that
`RetentionIsFair` can speak of a new record that is dropped at once.  `LoadBundle` is
`load_bundle`: the scopes it asks for, the text it filters by, and the two limits, with the last
record cut to what is left; `written` remembers which upsert touched a group last.  A bundle shows
the newest group first but turns the order within a group round, so that the record that ranks
lowest comes first: `BundleIsLatest` claims no more than the code keeps.

In `FileMemoryStore` every step of a caller is an action: each upsert of a session, taking the
lock, the snapshot, truncating, filling and renaming the file, returning.  `WriteFails` may
strike at any file operation: `flush` returns the error, which drops the guard, and then
`expect` panics in the caller, so that the lock is *not* poisoned and the records remain
in memory for the next flush.  `CrashAndOpen` kills the process between any two steps and
starts another.  A crash of the machine is not modelled: the code does not call fsync.
`version` counts the upserts that a content stands for and `acked` the highest one a
caller was told of.

### CognitionCall, JsonDecoder

`ChatOnce` is one turn of the loop in `evaluate`: the call of the model, which is external and may
do anything, the decision between success, retry and failure, and the note that the next messages
end with.  `asked` is a history of what came of every call.  In `MCCognition` the answers are
token sequences and `Decoded` are those that `JsonDecoder` accepts, so that one run checks loop
and decoder together.

`JsonDecoder` follows `decode` step by step: the code fence, the scan for the first bracket that is
closed, counting only its own kind and skipping strings, the parser (`Rendered` gives the texts of
a value), the comparison with the template.  A token is a bracket, a quote, an escaped quote, a
fence, a newline, a key or anything else; the numbers, words and separators in between are one
token.  Values nest twice.  `AnswerIsFound` says in which surroundings a fitting value is found.
Three are not among them, for there the code loses it:

- behind a quote, since a single quotation mark in the prose hides what follows;
- behind a closed bracket of another value, which is taken instead;
- on the line of an opening fence that is closed on a later line (`OnFenceLine`).
  `strip_code_fences` (`cognition/engine/decoder.rs:99-106`) goes on after the first newline behind
  the fence, which then is the one behind the value, so that nothing is left: an answer of
  ```` ```json {..} ````, a newline and ```` ``` ```` is rejected, and repaired only if the policy says so.

The failure text says "failed after {max_attempts} attempt(s)" also when a flag ended the loop
earlier (`cognition/engine/mod.rs:197`); `failure.at` is the attempt it really was.

### SkillRegistry, SkillRuntime, SkillCalls

`SkillRegistry` is a table of the declarations: category, the tags that something looks at, required
inputs; and `RoleCanUse` and `PromptMode` are what a role is allowed and told.  `Execute` is
`SkillExecutor::execute`: validation, the dispatch by prefix, the skill, the status and the
metadata.  An input is a function from the names it carries to fit, unfit or null; the optional
inputs that are read with their type checked are one name, `"option"`.

The figures the skills compute are functions of one input in floating-point arithmetic and are left
out; what is kept is what an output is.  Success is the status of every local skill that comes to its
end, and its `output` is one of three:

- `figures`, computed from what was given, with the defaults of optional inputs;
- `assumed`: the skill took a default or a sample for what its figures are about (`Sampling`: a price
  elasticity of two invented points, an NPS of a hundred invented answers), or for something that was
  given and is of another type, which `ops` and `accounting` do even for required inputs;
- `lacking`: an `{"error": ..}` or `"has_data": false` body and nothing else (`Insisting`, for instance
  `skills/data.rs:463`).

`StatusTellsTheTruth` says when each of them comes about and that the first comes of no other
input.  It does not say that a reader of the report can tell them apart: the evidence written for a
success (`agent/worker/runner.rs:690`) shows the output of `ops` and `accounting` skills, but of a data
skill only its fixed summary, so that an error body reads "data skill executed" there.

The optional inputs that the figures of a skill are about are one name, `"enough"`.  It is "short" where
values of the right type are too few or out of range and that differs from having none: price points
without a price, costs above the price, a survey nobody answered.
No role is called coordination or search, so that `coordination_create_campaign`,
`coordination_save_memory`, `coordination_external_agent_call`, the `platform_*` skills and some
`search_*` skills can be called by an executor but by no worker (`RoleCanUse`).

### ReportEvaluation, WorkerReport, WorkerTask, WorkerPromise

`WorkerTask` is `run` of a worker: `TakeTask` and the `Control` actions are `handle_message`, the rest is
`runtime_step` by phase.  The call of the cognition is `CognitionCall` with its own steps, while no
message is received.  `WorkerPromise` is what its commander sees: `taken` and `told` are the tasks it
announced and reported.  A paused worker still takes a task, and `control:start` never changes
anything, since a worker with a task is running; both are in the model as they are in the code.

`WorkerReport` is how a report comes about: `Parse` reads the role output in the four forms it
may have, `RunRequested` runs the skills the role may use, `MergeSkillResults` puts their results in.
`ReportEvaluation` is `evaluate_report` with every rule.  A text is the set of what
these rules look for in it.  `SkillsOnlyFill` relates the two: what the commander would say of the
report without the results and with them.  The gaps results may fill are part of the property
because the code does fill them: the line of a successful skill names the skill, hence its trade, and
counts as the citation of an upstream report of that role; the risk a failed skill leaves is
a risk, and its open question makes a refusal acceptable.

## 3. What is checked

| run | question | bounds and why they are enough |
|---|---|---|
| `task_graph_one` | does the scheduler agree with the queues and keep its promise, and is every command answered? | every acyclic plan over 3 nodes, every placement on 2 workers up to their names, limits 1 and 2, one panic: chains, forks, joins, a shared worker, a rework and a failure together |
| `task_graph_two` | what survives reports of a replaced graph? | 2 commands over plans of 1 or 2 nodes with different node sets: a report for a pending, a running, a judged and an absent node |
| `graph_planning` | are rule files judged rightly, is every graph one that TaskGraph assumes, do session and commander agree, is every command decided? | every rule over 4 nodes, every set of keywords, each flaw alone and together over 2 nodes, pairs of rules (one search after another, equal ids, which one matches); every ranking of 4 roles, roles files with two ids or two workers equal, with and without chat and ops |
| `collaboration` | do synthesis and answers fit what workers did? | 4 workers, up to 2 support roles, so that a target outside the route exists; one panic |
| `session_stream_one` | are the lifecycle events complete, and does the stream end? | a channel of 2 and up to 4 commander events: full, emptied and filled again |
| `session_stream_two` | is the registry right? | a streamed and a cancellable request, of one session or two |
| `in_memory_store` | do limits, ranking, reload and what a session loads hold? | 2 groups of 2 records, 3 keys, 2 confidences, equal or later times, 4 upserts: both limits are hit and exceeded; 6 queries whose two limits are each the first to be reached |
| `file_memory_store` | is the file whole, durable, monotone? | 2 callers of up to 2 records, 4 upserts, one failing write, one crash |
| `cognition_call` | is a fitting answer found? | all 8 combinations of flags with 3 attempts, and 0 attempts; every text of up to 3 tokens, values of every form in a fence of their own, and, for the policy of one attempt, with up to two tokens before and up to two after them, three together: enough for a fence, a bracket and a newline on either side, which includes the line of the fence; from the second attempt on one answer of each kind |
| `skill_calls` | does a status tell what happened, and what is a success worth? | every registered skill and one that is not, every required and checked input and the data it is about absent, fit, unfit, short and null, no object, no name |
| `worker_task` | is every task reported once, with its skills, what do they change, and are the retries in between justified? | 2 messages of 6 kinds in any order; a role that judges risks and one that acts; a report with any one thing wrong, in the four forms it may have, asking for none, one or two skills of every fate; an answer that fails, then one that does not; the default retry policy and one that retries and repairs other failures |
| `worker_direct` | are the skills of a directly started task reported, as its prompt says? | as `worker_task` with 1 message; **violated** |

`worker_direct` is a finding.  `prompts/zh/cognition/worker_execution.md:38` tells every worker that
the runtime adds the results of its skills to the final report.  For a task without an assignment,
that is on the fast route and in every collaboration, `handle_task_finished`
(`agent/worker/runner.rs:279`) sends the raw output of the cognition: the skills have been run, and
their results are nowhere.

Every constant that starts with `Max` and is marked *bound* limits only the model: commands,
panics, upserts, crashes, failures, events of a commander.  `MaxRecords`, `MaxUnkeyed`,
`Buffer` and the attempt limits are limits of the code.  Symmetry is used for writers,
groups and keys, which are treated alike, and only in runs without liveness.  Types are not a
question of their own to any run: each proof module has a type invariant in its `IInv` (`TypeOK` of `TaskGraph`,
which also bounds the `u8` of the attempts, is the theorem `TypeCorrect`).
Deadlock is not checked: each of these systems stops when its request is over or a bound is reached.

Fairness.  The specifications assume only what tokio's scheduling gives: a task whose channel
has a message is polled (weak fairness of the commander, of each idle worker, and of the host,
whose waits all have a limit except the one for room in the event channel), a worker's loop goes on as long as its
model answers or fails (`RuntimeStep` of `WorkerTask`, with which `TaskIsReported` says that a task is
reported), and a function without an await runs to its end (`CommandNext`).  What the code does *not* guarantee is named in the
property that needs it: that cognition calls return (`CallsReturn`; the code puts no timeout on
`llm.chat_once`), that the client reads (`WF_vars(Read(r))` in `StreamEnds`), that the commander
comes back to its mailbox (`WF_vars(CommanderStep(r))`, for the part about the channel closing).
Nobody has to answer, stop or panic.  `CommandIsAnswered` also leaves out runs where a worker
panics or the host stops, because the commander does wait for a worker that panicked, until
the response timeout, which belongs to the host.

Properties that hold for one command only.  `RunningIffInFlight`, `AssignmentsAreComplete`,
`SkippedIffBlocked` and `NeverStalls` are checked with `MaxCommands = 1`.  A second `run_until_complete` of the same runtime sends
its command before it finds that its response receiver is used up, and the commander then
judges nodes of the new graph by reports of the old one: these properties fail there.  No
caller in the repository does that; `task_graph_two` shows what holds nevertheless.

## 4. What is proved

Each proof module proves about the modules named in section 2, for every value of their constants that
satisfies the assumptions.  Each rests on an inductive invariant, and the theorems of the
state follow from it.

**TaskGraphProofs**, for all nodes, workers, valid plans, rankings and bounds:

- `Invariance`: `Spec => []IInv`; `TypeCorrect`: no attempt ever leaves its `u8`;
- `AttemptsAreBounded` and `WorkersAreExclusive`, for any number of commands, hence also with
  reports of earlier graphs;
- `AnswersAreFinal`: an answer is given once per graph, in order, and only when nothing is open.

`IInv` is `TypeOK`, the two properties written for any runtime (`Bounded(p, st, att)`,
`Exclusive(p, st)`), and that an active graph has a number.  The two alone are not inductive: that
a pending node has an attempt left is what bounds the next dispatch, that a running node has had
one is what makes its verdict fail at the limit and not before.  The argument follows the
code: `AfterReportShape` and `SkipKeepsTypes` say what a verdict does to the states,
`AfterReportKeepsBounds` and `AfterReworkIsTyped` that it keeps the bounds, `ScheduleKeeps` that
dispatching the ready nodes does (the lemma the commander's two handlers share), and
`CommandKeeps`, `ReportKeeps`, `WorkerKeeps`, `HostKeeps` go through the actions.
`AnswersInv` comes on top of it: the commands still in the inbox are for later graphs and in order,
the answers given are for earlier ones and increase, and the present graph is unanswered as
long as it is active and has nothing open as soon as it is not (`Settled`).  `ScheduleSettles`
is the one place where a graph is answered.

With one command (`MaxCommands = 1`, which is how `AgentSession` uses a runtime) every message is of the
present graph, and the commander's view can be held against the queues.  Proved for all plans, any
number of workers and any number of panics:

- `OneInvariance`: the invariant `OneInv` of a runtime with one command;
- `QueuesAgree`: `RunningIffInFlight`, a node runs exactly while its assignment, its task or its
  report is somewhere;
- `WorkersAreGivenAll`: `AssignmentsAreComplete`, a dispatched task has its upstream reports, and the
  reason of a rework;
- `SkippedAreBlocked`: `SkippedIffBlocked`, a failure skips all that builds on it and nothing else;
- `NothingStalls`: `NeverStalls`, a graph that is not answered has a task under way;
- `PromiseIsKept`: `KeepsPromise`, the refinement of `TaskGraphPromise`: every step of commander,
  workers and host accepts the graph, judges a node whose inputs have passed, or changes nothing
  the promise speaks about.

`OneInv` has two sides.  Of the runtime: a node that was started has passed inputs, one
that is skipped a failed or skipped one (`Sound`), reports and reworks are noted where they are due
(`Noted`), exactly the nodes of the plan have a state (`Shaped`).  Of the queues: what is in a mailbox, with a worker or on its way back is for a
running node, is for the worker that has it, and there is one for each (`Agrees`, `AllAgree`).  The
second is what one message at a time would break: a report of another graph, for a node that is not
running, is the case `task_graph_two` looks at.  For `NothingStalls` the code's order matters: a
verdict is followed by the skipping of what it blocks and by a dispatch of what it frees, so that of
the pending nodes the one with the least rank of the plan would have been ready.

**GraphPlanningProofs**, for rule files of any size over any nodes, workers and roles:

- `PlanningInvariant`: `Spec => []IInv`;
- `VerdictsAreRight`: a file is accepted exactly when all its rules are valid;
- `ConfiguredPlansAreValid`: the graph of every rule of an accepted file is a `ValidPlan`;
- `PlansAreValidGraphs`: so is whatever graph `plan_task_graph` returns, also for keywords, which
  discharges the assumption `TaskGraph` makes of its plans.

`IInv` says what a depth-first search keeps: the finished nodes make a graph without a cycle that
no dependency leaves, each node on the path depends on the next one, and what it has looked at
already is finished or next (`Searching`, `PathOK`); the rules before the current one are
valid (`Checked`).  `PathGrows`, `PathProceeds` and `PathShrinks` go through the three steps of a
visit; `DoneMayGrow` lets a node join the finished ones when all its dependencies have;
`PathClosesCycle` turns a visit of a node on the path into a set of nodes that each depend on one
of the set, so that the error is right; `MissesAreFlaws` does the same for a missing root and for a
node that depends on itself, which the code checks first.  A keyword graph is built node by node,
and each node builds on nodes already there (`GraphGrows`, `GraphMayGrow` for the ifs): that keeps
it without a cycle by the same `DoneMayGrow`.  Assumed are that the requests are typed and that
the roles the keyword lists name are roles (`RolesAreNames`).

For `CommandRouting`, with catalogs and role files of any size, any scores, priorities and keyword lists:

- `CommandInvariant`: `CommandSpec => []CommandInv`, and from it `CommandVerdictsAreRight` and
  `CommandPlansAreValid`, the two above for the plannings of session and commander;
- `RoutesDoAgree`: `RoutesAgree`.

`CommandInv` remembers what two computations that are far apart have in common: the session planned for
the task with the primary role of the whole catalog, the workers started are those of that graph (or of
the route), and the commander plans for the same task with the primary role *it* finds.  That the
results agree is then a matter of three lemmas.  `SamePlan`: two plannings that differ in the primary
role only come to the same graph, unless no rule and no keyword matched, and then the graph is the
primary role.  `PrimaryAgrees`: in that last case chat and the primary role were started, and the
primary role among these two is the same again.  `RoutesAreSame`: the whole route over what was started,
chat at its end, is the route over the catalog, with its score and its supporting roles in order.  They rest on the
ranking being a strict linear order (`AboveIsOrder`), so that there is one first profile
(`FirstIsBest`, `FirstIs`, by well-foundedness of finite sets) and one pair of runners-up (`FirstTwoLead`,
`LeadingTwo`), and on what a filter keeps (`PickedHolds`).  A catalog without doubled
roles is what makes `find` find the profile that was ranked (`FirstNamedIs`): with `FaultyValidCatalog` the
property fails.  `SelectedKeeps` gives the remaining part: a graph that is not run has a role that the whole
catalog lacks.  Assumed are that commands are typed and, as `RoleCatalog::builtin` expects of its own file,
that the builtin catalog is valid.

**CollaborationProofs**, for any set of workers, any set of them as support and any number of panics:

- `CollaborationInvariance`: `Spec => []IInv`, and `CollaborationTypes`;
- `CommanderWaitsForThose`: `PendingIffUnderWay`, who is awaited has the task under way, failed or was lost;
- `SynthesisHasAll`: `SynthesisIsComplete`, a synthesis contains the contribution of the primary and is
  sent when nobody has anything under way;
- `HostIsToldOneThing`: `AnswersAgree`, there is one answer, or all are failures;
- `CollaborationGoesOn`: `NeverStuck`, an active collaboration has something under way, unless a worker
  failed, was lost or could not be given its task.

`IInv` has one part per phase of the commander: no collaboration (`Solo`), a primary under way
(`OfPrimary`), the support under way (`OfSupport`).  Each says who has a message in a queue, who has
reported, and what the answers so far allow.  A worker that failed is still pending and has no
message, which is why the synthesis after it never comes.

**SessionStreamProofs**, for any number of requests and sessions, any size of the channel and any
number of commander events:

- `StreamInvariant`: `Spec => []IInv`;
- `StreamOpensInOrder` and `StreamClosesInOrder`: nothing of a commander before MemoryLoaded, and
  nothing after the terminal event unless the commander outlived its two seconds;
- `RegistryFollowsRequests` and `TerminalMeansInactive`, for the requests that share their session
  with no other.

`IInv` is `Typed`, `Ordered` of every request, and `ActiveWhileWorkedOn`.  `Ordered` ties three
tasks together: the commander is silent until it has its command, which the host sends after
MemoryLoaded; it is down before the host persists, unless the join timed out; and the host is done
with the terminal event it offers.  The order of a stream is not inductive without these.

On top of it, `ToldInv` says how many events of each kind the stream of a request holds at each position of
the host, and `StreamTellsAll` is `LifecycleIsComplete`: none is lost or doubled, whatever the client
and the commander do.

**MemoryRecordsProofs and InMemoryStoreProofs**, for any groups and keys, any limits, and any number of
upserts:

- `TypesHold`, and `LimitsHold`: `GroupsAreBounded`;
- `RetentionHolds`: `RetentionIsFair`, what a compaction drops ranks no higher than what it keeps, and
  goes only when there is no room;
- `ReloadIsFaithful`: `ReloadKeepsRecords`, a store opened from its records has them again, in
  the same order;
- `BundleHolds`: `BundleIsLatest`, what a session loads is within both limits, goes from the group
  written last to the one written first, and leaves out only what no longer fits.

Records are *good* (`Good`) when no key stands twice in a group, each group stands together, is ranked,
and is within both limits.  `UpsertKeepsGood` is the lemma the rest leans on: a group that was good and gets
one record is sorted and cut again (`CompactGroupShape`), and the groups after it close up
(`RegroupedShape`).  A prefix of good records is good (`PrefixIsKept`), and adding the next record to it
by an upsert changes none of them; that is why a reload, which upserts one record after the other,
ends with what it began with (`ReloadIs`).  `Reload` is a recursive function, and the induction over it
is a counting up to a bound (`UpTo`), proved by the cardinality of what is reached, since the library's
induction theorems take an operator as a parameter.  For the bundle the invariant also remembers which
record the last upsert left, and that its group is the last one (`LatestLast`).

**FileMemoryStoreProofs**, for any number of writers, upserts, failing writes and crashes:

- `StoreInvariant`: `Spec => []IInv`;
- `FileStaysWhole`, `AckedStaysDurable`, and the action property `FileOnlyAdvances`.

The invariant says that who is in the middle of a flush holds the lock, that its snapshot lies
between the file and what is in memory because it was taken under the lock, and that whoever
was told "persisted" is covered by the file.  Without the lock the second part fails, and with it
the theorem that a flush never goes back.  Assumed is that `NoOne` is no writer.

`FileCaughtUp` is `FileCatchesUp`: when nobody is writing and no write failed, the next process loads
from the file what this one has in memory.  It needs that each content that exists anywhere brings back the
records it was written from (`Faithful`, by the lemmas about reload) and that what is not in the file
yet is in the hands of a writer who will bring it there (`UnderWay`, `Brings`).

**WorkerTaskProofs**, for any answers of the model, retry policies, roles, requests for skills, inputs of an
assignment, and any number of messages in any order:

- `WorkerInvariant`: `Spec => []IInv`;
- `EverySkillIsAccountedFor`: `SkillsAreAccountedFor`, the report of an assignment tells of every skill that was
  asked for in this task, by its own result, and of no skill of an earlier one;
- `SkillsDoNoHarm`: `SkillsOnlyFill`, the results of skills make no report fail that would pass without
  them, and make one pass only where they fill a gap;
- `WorkerImplementsPromise`: the initial state and every step of the worker are steps of `WorkerPromise` or leave it
  alone, so tasks are announced and told of once, in order, one at a time;
- `CallInvariant` and `EveryRetryIsJustified` for `evaluate` by itself, and `WorkerRetriesAreJustified` for the
  calls a worker makes.

`IInv` has five parts.  `TypeInv` are the types.  `CallInv` is the invariant of the call: all attempts so far
failed in a way that is retried, and the last one is what the next message and the error speak of.
`Busy` says that a task is worked on by a running worker only, and that nothing of a call is left once it
is done; without it, a call could begin with the attempts of the one before.  `Memory` ties what the
cognition returned to the results that are kept with it until the report is out; it is what rules out the results of an
earlier task.  `Accounts` says that what was told is what was announced, but for the task at work; the refinement
follows from it.  A message changes the two lists of tasks by one entry or by none (`Said`).

The report is the work of loops over lists whose length nobody bounds.  `MergeSkillResults` is a fold by a recursive
function, and `MergedIs` shows by `UpTo`, the counting of the memory proofs, that after k results the three lists
have grown by these and nothing else (`MergedLists`, `Grown`).  `FullIs` carries this over to the report and
`ResultsAre` says that each request has one result in its place.  `FewerReasons` then goes through the rules of
`evaluate_report`: a report that says more and betrays nothing has no reason against it that it had not before.
`SkillsOnlyFill` excludes requests whose *name* holds one of the words by which the rules know a bad answer; a
name is repeated in the results, and there the property would fail.

Assumed are that policies and values are typed, that an answer is a value or not, never both, and that the
number of messages is a number.

Only model-checked:

- liveness, which is out of the prover's reach: `CommandIsAnswered`, `StreamEnds`, `CommandIsDecided` and
  `TaskIsReported`;
- `AnswerIsFound`, since `JsonDecoder` is written with recursive operators;
- `ApprovalIsNeverSkipped` and `StatusTellsTheTruth`: they are about the tables of the skills, which have no
  constant to leave open, and the run goes through every skill with every kind of input.

## 5. What is not modelled

- The texts of plans, prompts, reports, evaluations and syntheses, and the words of the keyword
  lists.  What a rule looks for in a text is modelled (`ReportEvaluation`), the text is not.
- The figures of the skill calculators.  They are floating-point functions of one input, without
  state and without order, where a unit test says more than a model.  Which inputs they need,
  which status they report and whether their figures rest on what was given is in `SkillCalls`.
- Statistics of a compaction, which nothing reads back, and `SessionContext` with its blackboard:
  maps behind a lock that are filled before the tasks start.
- Control signals other than Shutdown of the commander: nothing in the repository sends them.
- `ActionLifecycle` beyond `DecisionAction`, and perception: nothing uses them.
- Errors, logging, the public API, the example programs and the benchmark.

## 6. Plan

Done, in this order: the task graph with its promise and first proofs; stream and registry;
collaboration; memory; planning of graphs with its proofs; routing in session and commander;
the call of a model with its decoder; the bundle that is loaded; skills; the worker with its report and
its promise; the proofs about answers, keyword graphs, the stream, the file and the retries.

Then the proofs about one command with the promise of the graph step by step, about collaboration, the
completeness of a stream, and all properties of the two stores.

Last the proofs about the worker, its report and its promise, and about the agreement of session and commander
on the route of a command.

Next:

1. `TaskGraph` with workers that follow `WorkerPromise` in place of the free ones, which would make
   the composition of the two explicit.
2. `JsonDecoder` with recursive functions in place of recursive operators, for a proof that `DecodeJson`
   returns only values that fit.
