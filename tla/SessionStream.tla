--------------------------- MODULE SessionStream ---------------------------
(***************************************************************************)
(* The life of a request: AgentManager registers its session, a host task  *)
(* starts the runtime, sends the human command, waits for the answer, shuts *)
(* the runtime down, persists memory, removes the session and ends the     *)
(* stream, while the commander emits events of its own into the same       *)
(* bounded channel and a client reads it.                                  *)
(*                                                                         *)
(* The host sends events with an awaited send, which waits for room; the   *)
(* commander with try_send, which drops the event when there is none.  What *)
(* the commander does between command and answer is the subject of         *)
(* TaskGraph and Collaboration.                                            *)
(*                                                                         *)
(* Code: agent_manager/manager.rs, agent_session/session.rs,               *)
(* agent_session/session_runtime.rs, emit_event of                         *)
(* agent/commander/runner.rs.                                              *)
(***************************************************************************)
EXTENDS Naturals, Sequences, FiniteSets

CONSTANTS
  Request,      \* the requests made of one AgentManager
  Streamed,     \* those made with run_stream; the others with run_request
  SessionId,    \* requests may name the same session
  Buffer,       \* event_buffer
  MaxProgress,  \* bound: events of one commander
  MaxPanics     \* bound: tasks that panic

ASSUME BufferAssumption == Buffer \in Nat \ {0}   \* mpsc::channel(0) panics
ASSUME RequestAssumption == Streamed \subseteq Request
ASSUME StreamBounds == MaxProgress \in Nat /\ MaxPanics \in Nat

VARIABLES
  session,    \* the session id of every request
  registry,   \* AgentManager.active_sessions
  host,       \* where the task of the request is
  outcome,    \* the Result of run_until_complete
  overdue,    \* requests whose runtime was not down after two seconds
  persisted,  \* requests whose session was written to memory
  mailbox, commander, answers, progress,   \* the commander of every request
  events, client, received                 \* the channel and its reader

managerVars   == <<session, registry>>
hostVars      == <<host, outcome, overdue, persisted>>
commanderVars == <<mailbox, commander, answers, progress>>
streamVars    == <<events, client, received>>
vars == <<managerVars, hostVars, commanderVars, streamVars>>

Lifecycle == {"Started", "MemoryLoaded", "CommanderThinking", "Output",
              "MemoryCompacted", "MemoryPersisted", "Finished", "Failed"}
Event == Lifecycle \cup {"Progress"}
Ends  == {"Finished", "Failed"}
Phase == {"new", "build", "started", "memory", "command", "thinking", "waiting",
          "output", "stopping", "joining", "persist", "compacted", "persisted",
          "remove", "terminal", "done", "panicked", "cancelled"}

Panicked == {r \in Request : host[r] = "panicked"}
            \cup {r \in Request : commander[r] = "panicked"}
MayPanic == Cardinality(Panicked) < MaxPanics

CommanderUp(r) == commander[r] \in {"idle", "busy", "answered"}

----------------------------------------------------------------------------
(* The event channel                                                       *)

HasRoom(r) == Len(events[r]) < Buffer

\* try_send of the commander.
Offer(r, e) ==
  events' = IF client[r] = "listening" /\ HasRoom(r)
            THEN [events EXCEPT ![r] = Append(@, e)]
            ELSE events

FaultySend(r, e) == Offer(r, e)   \* not awaited

\* send(..).await of the host: blocks while the client listens and there is no
\* room; without a stream, or when the receiver is gone, the event is nothing.
Send(r, e) ==
  /\ client[r] = "listening" => HasRoom(r)
  /\ events' = IF client[r] = "listening"
               THEN [events EXCEPT ![r] = Append(@, e)]
               ELSE events

----------------------------------------------------------------------------
(* The host                                                                *)

At(r, phase) == host[r] = phase
Goto(r, phase) == host' = [host EXCEPT ![r] = phase]

\* Send event e at a phase and go to the next one.
Emit(r, phase, e, next) ==
  /\ At(r, phase)
  /\ Send(r, e)
  /\ Goto(r, next)
  /\ UNCHANGED <<managerVars, outcome, overdue, persisted, commanderVars, client, received>>

\* run_request or run_stream: register_session, create_session, the channel.
Submit(r) ==
  /\ At(r, "new")
  /\ registry' = registry \cup {session[r]}
  /\ client' = [client EXCEPT ![r] = IF r \in Streamed THEN "listening" ELSE @]
  /\ Goto(r, "build")
  /\ UNCHANGED <<session, outcome, overdue, persisted, commanderVars, events, received>>

FaultyBuild(r) ==   \* a failing factory skips the removal
  /\ At(r, "build")
  /\ \/ /\ Goto(r, "started")
        /\ commander' = [commander EXCEPT ![r] = "idle"]
        /\ UNCHANGED outcome
     \/ /\ Goto(r, "terminal")
        /\ outcome' = [outcome EXCEPT ![r] = "unbuilt"]
        /\ UNCHANGED commander
  /\ UNCHANGED <<managerVars, overdue, persisted, mailbox, answers, progress, streamVars>>

\* The cognition factories, load_bundle and SessionRuntime::start; any of the
\* fallible ones may fail before a task is spawned.
Build(r) ==
  /\ At(r, "build")
  /\ \/ /\ Goto(r, "started")
        /\ commander' = [commander EXCEPT ![r] = "idle"]
        /\ UNCHANGED outcome
     \/ /\ Goto(r, "remove")
        /\ outcome' = [outcome EXCEPT ![r] = "unbuilt"]
        /\ UNCHANGED commander
  /\ UNCHANGED <<managerVars, overdue, persisted, mailbox, answers, progress, streamVars>>

FaultyEmitStarted(r) ==   \* the command goes out with the first event
  /\ At(r, "started")
  /\ Send(r, "Started")
  /\ Goto(r, "memory")
  /\ mailbox' = [mailbox EXCEPT ![r] = Append(@, "command")]
  /\ UNCHANGED <<managerVars, outcome, overdue, persisted, commander, answers,
                 progress, client, received>>

EmitStarted(r)      == Emit(r, "started", "Started", "memory")
EmitMemoryLoaded(r) == Emit(r, "memory", "MemoryLoaded", "command")

SendCommand(r) ==
  /\ At(r, "command")
  /\ mailbox' = [mailbox EXCEPT ![r] = Append(@, "command")]
  /\ Goto(r, "thinking")
  /\ UNCHANGED <<managerVars, outcome, overdue, persisted, commander, answers,
                 progress, streamVars>>

EmitThinking(r) == Emit(r, "thinking", "CommanderThinking", "waiting")

ReceiveAnswer(r) ==
  /\ At(r, "waiting")
  /\ answers[r] > 0
  /\ Goto(r, "output")
  /\ outcome' = [outcome EXCEPT ![r] = "ok"]
  /\ UNCHANGED <<managerVars, overdue, persisted, commanderVars, streamVars>>

\* The response timeout, or the commander task is gone and its sender dropped.
\* tokio's timeout polls the receiver first: an answer that is there wins.
GiveUp(r) ==
  /\ At(r, "waiting")
  /\ answers[r] = 0
  /\ Goto(r, "stopping")
  /\ outcome' = [outcome EXCEPT ![r] = "err"]
  /\ UNCHANGED <<managerVars, overdue, persisted, commanderVars, streamVars>>

EmitOutput(r) == Emit(r, "output", "Output", "stopping")

FaultySendShutdown(r) ==   \* the commander is not told
  /\ At(r, "stopping")
  /\ Goto(r, "joining")
  /\ UNCHANGED <<managerVars, outcome, overdue, persisted, commanderVars, streamVars>>

\* The sends of shutdown().
SendShutdown(r) ==
  /\ At(r, "stopping")
  /\ mailbox' = IF CommanderUp(r)
                THEN [mailbox EXCEPT ![r] = Append(@, "shutdown")]
                ELSE mailbox
  /\ Goto(r, "joining")
  /\ UNCHANGED <<managerVars, outcome, overdue, persisted, commander, answers,
                 progress, streamVars>>

FaultyJoin(r) ==   \* the handles are dropped, not awaited
  /\ At(r, "joining")
  /\ Goto(r, "persist")
  /\ UNCHANGED <<managerVars, outcome, overdue, persisted, commanderVars, streamVars>>

\* The joins of shutdown(): the tasks ended, or two seconds are over and the
\* tasks that still run are detached.
Join(r) ==
  /\ At(r, "joining")
  /\ Goto(r, "persist")
  /\ \/ ~CommanderUp(r) /\ UNCHANGED overdue
     \/ overdue' = overdue \cup {r}
  /\ UNCHANGED <<managerVars, outcome, persisted, commanderVars, streamVars>>

\* persist_if_ok: a store may write nothing (NoopMemoryStore, empty output), and
\* a failing flush of FileMemoryStore panics.
Persist(r) ==
  /\ At(r, "persist")
  /\ \/ /\ Goto(r, "remove")
        /\ UNCHANGED persisted
     \/ /\ outcome[r] = "ok"
        /\ Goto(r, "compacted")
        /\ persisted' = persisted \cup {r}
     \/ /\ outcome[r] = "ok" /\ MayPanic
        /\ Goto(r, "panicked")
        /\ UNCHANGED persisted
  /\ UNCHANGED <<managerVars, outcome, overdue, commanderVars, streamVars>>

\* Every record that is written passed compact_record, which counts it.
EmitCompacted(r) == Emit(r, "compacted", "MemoryCompacted", "persisted")
EmitPersisted(r) == Emit(r, "persisted", "MemoryPersisted", "remove")

FaultyRemove(r) ==   \* forgotten
  /\ At(r, "remove")
  /\ Goto(r, "terminal")
  /\ UNCHANGED <<managerVars, outcome, overdue, persisted, commanderVars, streamVars>>

\* remove_session_from
Remove(r) ==
  /\ At(r, "remove")
  /\ registry' = registry \ {session[r]}
  /\ Goto(r, "terminal")
  /\ UNCHANGED <<session, outcome, overdue, persisted, commanderVars, streamVars>>

EmitTerminal(r) ==
  Emit(r, "terminal", IF outcome[r] = "ok" THEN "Finished" ELSE "Failed", "done")

\* The caller drops the future of run_request where it can be suspended; the
\* task of a stream is spawned and runs on.
Cancel(r) ==
  /\ r \notin Streamed
  /\ host[r] \in {"waiting", "joining"}
  /\ Goto(r, "cancelled")
  /\ UNCHANGED <<managerVars, outcome, overdue, persisted, commanderVars, streamVars>>

----------------------------------------------------------------------------
(* The commander, as the host and the client see it                        *)

TakeCommand(r) ==
  /\ CommanderUp(r)
  /\ mailbox[r] # <<>> /\ Head(mailbox[r]) = "command"
  /\ mailbox' = [mailbox EXCEPT ![r] = Tail(@)]
  /\ commander' = [commander EXCEPT ![r] = "busy"]
  /\ UNCHANGED <<managerVars, hostVars, answers, progress, streamVars>>

\* Events about plans, workers and nodes; those of late reports come after the
\* answer.
EmitProgress(r) ==
  /\ commander[r] \in {"busy", "answered"}
  /\ progress[r] < MaxProgress
  /\ progress' = [progress EXCEPT ![r] = @ + 1]
  /\ Offer(r, "Progress")
  /\ UNCHANGED <<managerVars, hostVars, mailbox, commander, answers, client, received>>

\* Nobody reads the answer once the host gave up.
Answer(r) ==
  /\ commander[r] = "busy"
  /\ commander' = [commander EXCEPT ![r] = "answered"]
  /\ answers' = [answers EXCEPT ![r] = @ + 1]
  /\ UNCHANGED <<managerVars, hostVars, mailbox, progress, streamVars>>

CommanderStops(r) ==
  /\ CommanderUp(r)
  /\ mailbox[r] # <<>> /\ Head(mailbox[r]) = "shutdown"
  /\ commander' = [commander EXCEPT ![r] = "stopped"]
  /\ mailbox' = [mailbox EXCEPT ![r] = <<>>]
  /\ UNCHANGED <<managerVars, hostVars, answers, progress, streamVars>>

CommanderPanics(r) ==
  /\ commander[r] = "busy"
  /\ MayPanic
  /\ commander' = [commander EXCEPT ![r] = "panicked"]
  /\ mailbox' = [mailbox EXCEPT ![r] = <<>>]
  /\ UNCHANGED <<managerVars, hostVars, answers, progress, streamVars>>

----------------------------------------------------------------------------
(* The client                                                              *)

Read(r) ==
  /\ client[r] = "listening" /\ events[r] # <<>>
  /\ received' = [received EXCEPT ![r] = Append(@, Head(events[r]))]
  /\ events' = [events EXCEPT ![r] = Tail(@)]
  /\ UNCHANGED <<managerVars, hostVars, commanderVars, client>>

HangUp(r) ==
  /\ client[r] = "listening"
  /\ client' = [client EXCEPT ![r] = "gone"]
  /\ events' = [events EXCEPT ![r] = <<>>]
  /\ UNCHANGED <<managerVars, hostVars, commanderVars, received>>

----------------------------------------------------------------------------
Init ==
  /\ session \in [Request -> SessionId]
  /\ registry = {}
  /\ host = [r \in Request |-> "new"]
  /\ outcome = [r \in Request |-> "none"]
  /\ overdue = {} /\ persisted = {}
  /\ mailbox = [r \in Request |-> <<>>]
  /\ commander = [r \in Request |-> "none"]
  /\ answers = [r \in Request |-> 0]
  /\ progress = [r \in Request |-> 0]
  /\ events = [r \in Request |-> <<>>]
  /\ client = [r \in Request |-> "none"]
  /\ received = [r \in Request |-> <<>>]

HostStep(r) ==
  \/ Build(r) \/ EmitStarted(r) \/ EmitMemoryLoaded(r) \/ SendCommand(r)
  \/ EmitThinking(r) \/ ReceiveAnswer(r) \/ GiveUp(r) \/ EmitOutput(r)
  \/ SendShutdown(r) \/ Join(r) \/ Persist(r) \/ EmitCompacted(r)
  \/ EmitPersisted(r) \/ Remove(r) \/ EmitTerminal(r)

CommanderStep(r) == TakeCommand(r) \/ CommanderStops(r)

Next ==
  \E r \in Request :
    \/ Submit(r) \/ HostStep(r) \/ Cancel(r)
    \/ CommanderStep(r) \/ EmitProgress(r) \/ Answer(r) \/ CommanderPanics(r)
    \/ Read(r) \/ HangUp(r)

Spec == Init /\ [][Next]_vars

\* tokio runs the host, whose every wait has a limit but the one for room in the
\* channel.  Nothing is assumed of the commander or of the client.
Fairness == \A r \in Request : WF_vars(HostStep(r))

FairSpec == Spec /\ Fairness
----------------------------------------------------------------------------
(* Properties                                                              *)

TypeOK ==
  /\ session \in [Request -> SessionId] /\ registry \subseteq SessionId
  /\ host \in [Request -> Phase]
  /\ outcome \in [Request -> {"none", "ok", "err", "unbuilt"}]
  /\ overdue \subseteq Request /\ persisted \subseteq Request
  /\ mailbox \in [Request -> Seq({"command", "shutdown"})]
  /\ commander \in [Request -> {"none", "idle", "busy", "answered", "stopped", "panicked"}]
  /\ answers \in [Request -> 0..1] /\ progress \in [Request -> 0..MaxProgress]
  /\ events \in [Request -> Seq(Event)]
  /\ \A r \in Request : Len(events[r]) <= Buffer
  /\ client \in [Request -> {"none", "listening", "gone"}]
  /\ received \in [Request -> Seq(Event)]

\* What the client has read or can still read.
Stream(r) == received[r] \o events[r]

\* The lifecycle events of stream s are those of p, in order: the k-th is p[k].
Tells(s, p) ==
  LET at == {i \in DOMAIN s : s[i] \in Lifecycle}
  IN  /\ Cardinality(at) = Len(p)
      /\ \A i \in at : s[i] = p[Cardinality({j \in at : j <= i})]

Promised(r) ==
  CASE outcome[r] = "ok" ->
         <<"Started", "MemoryLoaded", "CommanderThinking", "Output">>
         \o (IF r \in persisted THEN <<"MemoryCompacted", "MemoryPersisted">> ELSE <<>>)
         \o <<"Finished">>
    [] outcome[r] = "err"     -> <<"Started", "MemoryLoaded", "CommanderThinking", "Failed">>
    [] outcome[r] = "unbuilt" -> <<"Failed">>

\* "Started / Output / Failed / Finished must not be lost" (architectures/
\* SSE_STREAMING_PLAN.md): a client that listens to the end gets every
\* lifecycle event once and in order, however full the commander keeps the
\* channel.
LifecycleIsComplete ==
  \A r \in Request :
    At(r, "done") /\ client[r] = "listening" => Tells(Stream(r), Promised(r))

\* The commander's events come after the two events that open the stream.
ProgressAfterMemoryLoaded ==
  \A r \in Request : \A i \in DOMAIN Stream(r) :
    Stream(r)[i] = "Progress" =>
      \E j \in 1..i : Stream(r)[j] = "MemoryLoaded"

\* The terminal event is the last one, unless the commander outlived the two
\* seconds of shutdown().
TerminalIsLast ==
  \A r \in Request \ overdue : \A i \in DOMAIN Stream(r) :
    Stream(r)[i] \in Ends => i = Len(Stream(r))

\* tests/manager_stream.rs: a client that has read the terminal event no longer
\* finds the session active, unless another request named the same session.
Sole(r) == \A q \in Request \ {r} : session[q] = session[r] => At(q, "new")

InactiveAfterTerminal ==
  \A r \in Request :
    Sole(r) /\ (\E i \in DOMAIN received[r] : received[r][i] \in Ends)
      => session[r] \notin registry

\* An unshared session is active exactly while its request is worked on; a
\* panic of the task or a dropped future leaves it active for good.
ActiveWhileWorkedOn ==
  \A r \in Request :
    Sole(r) => (session[r] \in registry <=> host[r] \notin {"new", "terminal", "done"})

\* A client that reads on, until it hangs up, sees the request end, though the
\* commander never answers; and if the commander comes back to its mailbox it stops,
\* so that the channel closes: the commander holds the other sender.
StreamEnds ==
  \A r \in Streamed :
    WF_vars(Read(r)) =>
      /\ At(r, "build") ~> host[r] \in {"done", "panicked"}
      /\ WF_vars(CommanderStep(r)) =>
           (At(r, "build") ~> host[r] \in {"done", "panicked"} /\ ~CommanderUp(r))
=============================================================================
