------------------------ MODULE CollaborationProofs ------------------------
(***************************************************************************)
(* Theorems about Collaboration for every set of workers and any number of *)
(* panics: what the commander believes of its workers, what is under way,  *)
(* and what it has answered agree.                                         *)
(***************************************************************************)
EXTENDS Collaboration, SequenceTheorems, FiniteSetTheorems, TLAPS

Message == [kind : {"finished", "failed"}, worker : Worker]
             \cup [kind : {"command", "shutdown"}, worker : {Nobody}]
Answer  == [kind : {"reply", "undelivered", "failure", "output", "synthesis"},
            worker : Worker \cup {Nobody}, from : SUBSET Worker]

Typed == TypeOK /\ inbox \in Seq(Message) /\ answers \in Seq(Answer)

----------------------------------------------------------------------------
(* What is under way                                                       *)

IsReportOf(m, w) == m.kind \in {"finished", "failed"} /\ m.worker = w

Tasks(box)      == {i \in DOMAIN box : box[i] = "task"}
Reports(inb, w) == {i \in DOMAIN inb : IsReportOf(inb[i], w)}
Commands(inb)   == {i \in DOMAIN inb : inb[i].kind = "command"}

\* A worker with mailbox box and task t has one thing under way at most,
Alone(box, t, inb, w) ==
  /\ \A i, j \in Tasks(box) : i = j
  /\ \A i, j \in Reports(inb, w) : i = j
  /\ t => Tasks(box) = {} /\ Reports(inb, w) = {}
  /\ Reports(inb, w) # {} => Tasks(box) = {}

\* or nothing.
Idle(box, t, inb, w) == Tasks(box) = {} /\ ~t /\ Reports(inb, w) = {}

BusyOf(box, t, inb) == {w \in Worker : ~Idle(box[w], t[w], inb, w)}

Busy == BusyOf(mailbox, task, inbox)
Live == {w \in Worker : Listening(w)}

----------------------------------------------------------------------------
(* The phases of a collaboration, over the workers with something under    *)
(* way (busy) and those that listen (live)                                 *)

SaidIn(ans, kind) == {ans[i].worker : i \in {j \in DOMAIN ans : ans[j].kind = kind}}

\* No collaboration: at most one worker has the task, and then nothing was answered.
Solo(act, pend, ans, busy) ==
  /\ act = NoPlan /\ pend = {}
  /\ \A v, w \in busy : v = w
  /\ busy # {} => ans = <<>>
  /\ Len(ans) <= 1
  /\ \A i \in DOMAIN ans : ans[i].kind = "synthesis" => ans[i].worker \in ans[i].from

\* The primary worker has the task, or it failed, could not be reached or was lost.
OfPrimary(act, pend, out, ans, busy, up, live) ==
  /\ act \in RoleRoute /\ act.support # {}
  /\ pend = {} /\ out = {}
  /\ busy \subseteq {act.primary}
  /\ busy # {} => ans = <<>>
  /\ Len(ans) <= 1
  /\ \A i \in DOMAIN ans : ans[i].kind \in {"failure", "undelivered"}
  /\ up /\ busy = {} /\ act.primary \in live => ans # <<>>

\* The pending support workers have a task each, or failed or were lost.
OfSupport(act, pend, out, ans, busy, up, live) ==
  /\ act \in RoleRoute /\ act.support # {}
  /\ pend # {} /\ pend \subseteq act.support
  /\ act.primary \in out
  /\ busy \subseteq pend
  /\ \A i \in DOMAIN ans : ans[i].kind = "failure" /\ ans[i].worker \in pend \ busy
  /\ up => \A w \in (pend \ busy) \cap live : w \in SaidIn(ans, "failure")

Phase(act, pend, out, ans, busy, up, live) ==
  \/ Solo(act, pend, ans, busy)
  \/ OfPrimary(act, pend, out, ans, busy, up, live)
  \/ OfSupport(act, pend, out, ans, busy, up, live)

\* The command was not heard yet.
Fresh == active = NoPlan /\ pending = {} /\ outputs = {} /\ answers = <<>> /\ Busy = {}

\* The inductive invariant.
IInv ==
  /\ Typed
  /\ \A w \in Worker : Alone(mailbox[w], task[w], inbox, w)
  /\ \A i, j \in Commands(inbox) : i = j
  /\ ~sent => Commands(inbox) = {}
  /\ ~sent \/ Commands(inbox) # {} => Fresh
  /\ active = NoPlan => outputs = {}
  /\ Phase(active, pending, outputs, answers, Busy, commanderUp, Live)

----------------------------------------------------------------------------
(* What sending and receiving does to one worker                           *)

\* Indices of a sequence without its head, and of one that grew.
LEMMA TailPositions ==
  ASSUME NEW M, NEW s \in Seq(M), s # <<>>
  PROVE  /\ \A i \in DOMAIN Tail(s) : i + 1 \in DOMAIN s /\ Tail(s)[i] = s[i + 1] /\ i \in Nat /\ i + 1 # 1
         /\ \A i \in DOMAIN s : i = 1 \/ (i - 1 \in DOMAIN Tail(s) /\ Tail(s)[i - 1] = s[i] /\ i \in Nat)
         /\ 1 \in DOMAIN s /\ s[1] = Head(s)
OBVIOUS

LEMMA MorePositions ==
  ASSUME NEW M, NEW s \in Seq(M), NEW m \in M
  PROVE  /\ \A i \in DOMAIN Append(s, m) :
              (i \in DOMAIN s /\ Append(s, m)[i] = s[i]) \/ (i = Len(s) + 1 /\ Append(s, m)[i] = m)
         /\ \A i \in DOMAIN s : i \in DOMAIN Append(s, m) /\ Append(s, m)[i] = s[i]
         /\ Len(s) + 1 \in DOMAIN Append(s, m) /\ Append(s, m)[Len(s) + 1] = m
         /\ Len(s) + 1 \notin DOMAIN s
OBVIOUS

LEMMA IdleIsAlone ==
  ASSUME NEW box, NEW t \in BOOLEAN, NEW inb, NEW w, Idle(box, t, inb, w)
  PROVE  Alone(box, t, inb, w)
BY DEF Idle, Alone

\* A message that is not a report of the worker leaves the inbox,
LEMMA OtherIsHeard ==
  ASSUME NEW box, NEW t \in BOOLEAN, NEW inb \in Seq(Message), NEW w, inb # <<>>,
         Alone(box, t, inb, w),
         ~IsReportOf(Head(inb), w)
  PROVE  Alone(box, t, Tail(inb), w) /\ (Idle(box, t, Tail(inb), w) <=> Idle(box, t, inb, w))
<1> DEFINE rest == Tail(inb)
<1>1. /\ \A i \in DOMAIN rest : i + 1 \in DOMAIN inb /\ rest[i] = inb[i + 1] /\ i \in Nat /\ i + 1 # 1
      /\ \A i \in DOMAIN inb : i = 1 \/ (i - 1 \in DOMAIN rest /\ rest[i - 1] = inb[i] /\ i \in Nat)
      /\ 1 \in DOMAIN inb /\ inb[1] = Head(inb)
  BY TailPositions
<1> HIDE DEF rest
<1>2. \A i \in Reports(rest, w) : i + 1 \in Reports(inb, w) /\ i \in Nat
  BY <1>1 DEF Reports
<1>3. \A i \in Reports(inb, w) : i - 1 \in Reports(rest, w)
  BY <1>1 DEF Reports
<1>4. \A i, j \in Reports(rest, w) : i = j
  BY <1>2 DEF Alone
<1>5. Reports(rest, w) = {} <=> Reports(inb, w) = {}
  BY <1>2, <1>3
<1>6. Alone(box, t, rest, w) /\ (Idle(box, t, rest, w) <=> Idle(box, t, inb, w))
  BY <1>4, <1>5 DEF Alone, Idle
<1> QED  BY <1>6 DEF rest

\* a report of it leaves nothing behind,
LEMMA ReportIsHeard ==
  ASSUME NEW box, NEW t \in BOOLEAN, NEW inb \in Seq(Message), NEW w, inb # <<>>,
         Alone(box, t, inb, w), IsReportOf(Head(inb), w)
  PROVE  Idle(box, t, Tail(inb), w) /\ ~Idle(box, t, inb, w)
<1> DEFINE rest == Tail(inb)
<1>1. /\ \A i \in DOMAIN rest : i + 1 \in DOMAIN inb /\ rest[i] = inb[i + 1] /\ i \in Nat /\ i + 1 # 1
      /\ 1 \in DOMAIN inb /\ inb[1] = Head(inb)
  BY TailPositions
<1> HIDE DEF rest
<1>2. 1 \in Reports(inb, w)
  BY <1>1 DEF Reports
<1>3. Reports(rest, w) = {}
  <2> SUFFICES ASSUME NEW i \in Reports(rest, w) PROVE FALSE
    OBVIOUS
  <2>1. i + 1 \in Reports(inb, w) /\ i + 1 # 1
    BY <1>1 DEF Reports
  <2> QED  BY <1>2, <2>1 DEF Alone
<1>4. Idle(box, t, rest, w) /\ ~Idle(box, t, inb, w)
  BY <1>2, <1>3 DEF Alone, Idle
<1> QED  BY <1>4 DEF rest

\* and what is no report of it changes nothing when it comes.
LEMMA OtherIsSent ==
  ASSUME NEW box, NEW t \in BOOLEAN, NEW inb \in Seq(Message), NEW w, NEW m \in Message,
         Alone(box, t, inb, w), ~IsReportOf(m, w)
  PROVE  /\ Alone(box, t, Append(inb, m), w)
         /\ Idle(box, t, Append(inb, m), w) <=> Idle(box, t, inb, w)
<1> DEFINE more == Append(inb, m)
<1>1. /\ \A i \in DOMAIN more : (i \in DOMAIN inb /\ more[i] = inb[i]) \/ more[i] = m
      /\ \A i \in DOMAIN inb : i \in DOMAIN more /\ more[i] = inb[i]
  BY MorePositions
<1> HIDE DEF more
<1>2. Reports(more, w) = Reports(inb, w)
  BY <1>1 DEF Reports
<1>3. Alone(box, t, more, w) /\ (Idle(box, t, more, w) <=> Idle(box, t, inb, w))
  BY <1>2 DEF Alone, Idle
<1> QED  BY <1>3 DEF more

LEMMA ShutdownIsSent ==
  ASSUME NEW box \in Seq({"task", "shutdown"}), NEW t \in BOOLEAN, NEW inb, NEW w,
         Alone(box, t, inb, w)
  PROVE  /\ Alone(Append(box, "shutdown"), t, inb, w)
         /\ Idle(Append(box, "shutdown"), t, inb, w) <=> Idle(box, t, inb, w)
<1> DEFINE more == Append(box, "shutdown")
<1>1. /\ \A i \in DOMAIN more : (i \in DOMAIN box /\ more[i] = box[i]) \/ more[i] = "shutdown"
      /\ \A i \in DOMAIN box : i \in DOMAIN more /\ more[i] = box[i]
  BY MorePositions
<1> HIDE DEF more
<1>2. Tasks(more) = Tasks(box)
  BY <1>1 DEF Tasks
<1>3. Alone(more, t, inb, w) /\ (Idle(more, t, inb, w) <=> Idle(box, t, inb, w))
  BY <1>2 DEF Alone, Idle
<1> QED  BY <1>3 DEF more

\* An idle worker is given a task,
LEMMA TaskIsSent ==
  ASSUME NEW box \in Seq({"task", "shutdown"}), NEW t \in BOOLEAN, NEW inb, NEW w,
         Idle(box, t, inb, w)
  PROVE  Alone(Append(box, "task"), t, inb, w) /\ ~Idle(Append(box, "task"), t, inb, w)
<1> DEFINE more == Append(box, "task")
           new  == Len(box) + 1
<1>1. /\ \A i \in DOMAIN more : (i \in DOMAIN box /\ more[i] = box[i]) \/ i = new
      /\ new \in DOMAIN more /\ more[new] = "task"
  BY MorePositions
<1> HIDE DEF more, new
<1>2. Tasks(more) = {new}
  BY <1>1 DEF Tasks, Idle
<1>3. Alone(more, t, inb, w) /\ ~Idle(more, t, inb, w)
  BY <1>2 DEF Alone, Idle
<1> QED  BY <1>3 DEF more

\* takes it,
LEMMA TaskIsTaken ==
  ASSUME NEW box \in Seq({"task", "shutdown"}), NEW inb, NEW w,
         box # <<>>, Head(box) = "task", Alone(box, FALSE, inb, w)
  PROVE  /\ Alone(Tail(box), TRUE, inb, w)
         /\ ~Idle(Tail(box), TRUE, inb, w) /\ ~Idle(box, FALSE, inb, w)
<1> DEFINE rest == Tail(box)
<1>1. /\ \A i \in DOMAIN rest : i + 1 \in DOMAIN box /\ rest[i] = box[i + 1] /\ i \in Nat /\ i + 1 # 1
      /\ 1 \in DOMAIN box /\ box[1] = Head(box)
  BY TailPositions
<1> HIDE DEF rest
<1>2. 1 \in Tasks(box)
  BY <1>1 DEF Tasks
<1>3. Tasks(rest) = {}
  <2> SUFFICES ASSUME NEW i \in Tasks(rest) PROVE FALSE
    OBVIOUS
  <2>1. i + 1 \in Tasks(box) /\ i + 1 # 1
    BY <1>1 DEF Tasks
  <2> QED  BY <1>2, <2>1 DEF Alone
<1>4. Alone(rest, TRUE, inb, w) /\ ~Idle(rest, TRUE, inb, w) /\ ~Idle(box, FALSE, inb, w)
  BY <1>2, <1>3 DEF Alone, Idle
<1> QED  BY <1>4 DEF rest

\* and reports.
LEMMA ReportIsSent ==
  ASSUME NEW box, NEW inb \in Seq(Message), NEW w, NEW m \in Message,
         Alone(box, TRUE, inb, w), IsReportOf(m, w)
  PROVE  /\ Alone(box, FALSE, Append(inb, m), w)
         /\ ~Idle(box, FALSE, Append(inb, m), w) /\ ~Idle(box, TRUE, inb, w)
<1> DEFINE more == Append(inb, m)
           new  == Len(inb) + 1
<1>1. /\ \A i \in DOMAIN more : (i \in DOMAIN inb /\ more[i] = inb[i]) \/ i = new
      /\ new \in DOMAIN more /\ more[new] = m
  BY MorePositions
<1> HIDE DEF more, new
<1>2. Reports(inb, w) = {} /\ Tasks(box) = {}
  BY DEF Alone
<1>3. Reports(more, w) = {new}
  BY <1>1, <1>2 DEF Reports
<1>4. Alone(box, FALSE, more, w) /\ ~Idle(box, FALSE, more, w) /\ ~Idle(box, TRUE, inb, w)
  BY <1>2, <1>3 DEF Alone, Idle
<1> QED  BY <1>4 DEF more

\* What is lost was under way.
LEMMA LessIsUnderWay ==
  ASSUME NEW box, NEW t \in BOOLEAN, NEW inb, NEW w, Alone(box, t, inb, w)
  PROVE  /\ Alone(<<>>, FALSE, inb, w) /\ Alone(box, FALSE, inb, w) /\ Alone(box, t, <<>>, w)
         /\ Idle(box, t, inb, w) => /\ Idle(<<>>, FALSE, inb, w) /\ Idle(box, FALSE, inb, w)
                                    /\ Idle(box, t, <<>>, w)
<1>1. Tasks(<<>>) = {} /\ Reports(<<>>, w) = {}
  BY DEF Tasks, Reports
<1> QED  BY <1>1 DEF Alone, Idle

----------------------------------------------------------------------------
(* The command                                                             *)

LEMMA CommandsOfTail ==
  ASSUME NEW inb \in Seq(Message), inb # <<>>, \A i, j \in Commands(inb) : i = j
  PROVE  /\ \A i, j \in Commands(Tail(inb)) : i = j
         /\ Commands(Tail(inb)) # {} => Commands(inb) # {}
         /\ Head(inb).kind = "command" => Commands(inb) # {} /\ Commands(Tail(inb)) = {}
<1> DEFINE rest == Tail(inb)
<1>1. /\ \A i \in DOMAIN rest : i + 1 \in DOMAIN inb /\ rest[i] = inb[i + 1] /\ i \in Nat /\ i + 1 # 1
      /\ 1 \in DOMAIN inb /\ inb[1] = Head(inb)
  BY TailPositions
<1> HIDE DEF rest
<1>2. \A i \in Commands(rest) : i + 1 \in Commands(inb) /\ i \in Nat /\ i + 1 # 1
  BY <1>1 DEF Commands
<1>3. \A i, j \in Commands(rest) : i = j
  BY <1>2
<1>4. Head(inb).kind = "command" => 1 \in Commands(inb)
  BY <1>1 DEF Commands
<1>5. /\ Commands(rest) # {} => Commands(inb) # {}
      /\ Head(inb).kind = "command" => Commands(inb) # {} /\ Commands(rest) = {}
  BY <1>2, <1>4
<1> QED  BY <1>3, <1>5 DEF rest

LEMMA CommandsOfMore ==
  ASSUME NEW inb \in Seq(Message), NEW m \in Message, \A i, j \in Commands(inb) : i = j,
         m.kind = "command" => Commands(inb) = {}
  PROVE  /\ \A i, j \in Commands(Append(inb, m)) : i = j
         /\ m.kind # "command" => Commands(Append(inb, m)) = Commands(inb)
<1> DEFINE more == Append(inb, m)
           new  == Len(inb) + 1
<1>1. /\ \A i \in DOMAIN more : (i \in DOMAIN inb /\ more[i] = inb[i]) \/ (i = new /\ more[i] = m)
      /\ \A i \in DOMAIN inb : i \in DOMAIN more /\ more[i] = inb[i]
  BY MorePositions
<1> HIDE DEF more, new
<1>2. CASE m.kind = "command"
  <2>1. \A i \in Commands(more) : i = new
    BY <1>1, <1>2 DEF Commands
  <2> QED  BY <1>2, <2>1 DEF more
<1>3. CASE m.kind # "command"
  <2>1. Commands(more) = Commands(inb)
    BY <1>1, <1>3 DEF Commands
  <2> QED  BY <2>1 DEF more
<1> QED  BY <1>2, <1>3

----------------------------------------------------------------------------
(* Phases                                                                  *)

\* A phase goes on when less is under way, unless the commander waits for it.
LEMMA PhaseShrinks ==
  ASSUME NEW act, NEW pend, NEW out, NEW ans \in Seq(Answer), NEW busy, NEW up \in BOOLEAN, NEW live,
         Phase(act, pend, out, ans, busy, up, live),
         NEW less \in SUBSET busy, NEW still \in BOOLEAN, NEW left \in SUBSET live,
         still => up /\ (busy \ less) \cap left = {}
  PROVE  Phase(act, pend, out, ans, less, still, left)
<1>1. CASE Solo(act, pend, ans, busy)
  BY <1>1 DEF Solo, Phase
<1>2. CASE OfPrimary(act, pend, out, ans, busy, up, live)
  <2>1. OfPrimary(act, pend, out, ans, less, still, left)
    BY <1>2 DEF OfPrimary
  <2> QED  BY <2>1 DEF Phase
<1>3. CASE OfSupport(act, pend, out, ans, busy, up, live)
  <2>1. \A i \in DOMAIN ans : ans[i].kind = "failure" /\ ans[i].worker \in pend \ less
    BY <1>3 DEF OfSupport
  <2>2. still => \A w \in (pend \ less) \cap left : w \in SaidIn(ans, "failure")
    BY <1>3 DEF OfSupport
  <2>3. OfSupport(act, pend, out, ans, less, still, left)
    BY <1>3, <2>1, <2>2 DEF OfSupport
  <2> QED  BY <2>3 DEF Phase
<1> QED  BY <1>1, <1>2, <1>3 DEF Phase

\* One answer is the only one.
LEMMA OneAnswer ==
  ASSUME NEW a \in Answer
  PROVE  LET ans == Append(<<>>, a)
         IN  /\ ans \in Seq(Answer) /\ Len(ans) = 1 /\ ans # <<>>
             /\ \A i \in DOMAIN ans : ans[i] = a
OBVIOUS

\* A worker that failed is told of, in every phase.
LEMMA FailureKeepsPhase ==
  ASSUME NEW act, NEW pend, NEW out, NEW ans \in Seq(Answer), NEW busy, NEW up \in BOOLEAN, NEW live,
         Phase(act, pend, out, ans, busy, up, live), NEW w \in busy,
         NEW a \in Answer, a.kind = "failure", a.worker = w
  PROVE  Phase(act, pend, out, Append(ans, a), busy \ {w}, up, live)
<1> DEFINE more == Append(ans, a)
           less == busy \ {w}
<1>1. CASE Solo(act, pend, ans, busy)
  <2>1. ans = <<>> /\ less = {}
    BY <1>1 DEF Solo
  <2>2. Len(more) <= 1 /\ \A i \in DOMAIN more : more[i] = a
    BY <2>1, OneAnswer
  <2> HIDE DEF more, less
  <2>3. Solo(act, pend, more, less)
    BY <1>1, <2>1, <2>2 DEF Solo
  <2> QED  BY <2>3 DEF Phase, more, less
<1>2. CASE OfPrimary(act, pend, out, ans, busy, up, live)
  <2>1. ans = <<>> /\ less = {}
    BY <1>2 DEF OfPrimary
  <2>2. Len(more) <= 1 /\ more # <<>> /\ \A i \in DOMAIN more : more[i] = a
    BY <2>1, OneAnswer
  <2> HIDE DEF more, less
  <2>3. OfPrimary(act, pend, out, more, less, up, live)
    BY <1>2, <2>1, <2>2 DEF OfPrimary
  <2> QED  BY <2>3 DEF Phase, more, less
<1>3. CASE OfSupport(act, pend, out, ans, busy, up, live)
  <2>1. /\ \A i \in DOMAIN more : (i \in DOMAIN ans /\ more[i] = ans[i]) \/ more[i] = a
        /\ \A i \in DOMAIN ans : i \in DOMAIN more /\ more[i] = ans[i]
        /\ Len(ans) + 1 \in DOMAIN more /\ more[Len(ans) + 1] = a
    BY MorePositions
  <2> HIDE DEF more
  <2>2. \A i \in DOMAIN more : more[i].kind = "failure" /\ more[i].worker \in pend \ less
    BY <1>3, <2>1 DEF OfSupport
  <2>3. SaidIn(ans, "failure") \cup {w} \subseteq SaidIn(more, "failure")
    <3>1. w \in SaidIn(more, "failure")
      BY <2>1 DEF SaidIn
    <3>2. SaidIn(ans, "failure") \subseteq SaidIn(more, "failure")
      BY <2>1 DEF SaidIn
    <3> QED  BY <3>1, <3>2
  <2>4. OfSupport(act, pend, out, more, less, up, live)
    BY <1>3, <2>2, <2>3 DEF OfSupport
  <2> QED  BY <2>4 DEF Phase, more
<1> QED  BY <1>1, <1>2, <1>3 DEF Phase

----------------------------------------------------------------------------
(* What the commander hears and sends                                      *)

\* A report: its worker had just that under way, and has nothing now.
LEMMA HeardFromWorker ==
  ASSUME IInv, inbox # <<>>, Head(inbox).kind \in {"finished", "failed"}
  PROVE  /\ Head(inbox).worker \in Busy
         /\ BusyOf(mailbox, task, Tail(inbox)) = Busy \ {Head(inbox).worker}
         /\ \A v \in Worker : Alone(mailbox[v], task[v], Tail(inbox), v)
         /\ sent /\ Commands(Tail(inbox)) = {} /\ Tail(inbox) \in Seq(Message)
<1>1. inbox \in Seq(Message) /\ task \in [Worker -> BOOLEAN]
  BY DEF IInv, Typed, TypeOK
<1>2. Head(inbox) \in Message /\ Tail(inbox) \in Seq(Message)
  BY <1>1
<1> DEFINE w == Head(inbox).worker
<1>3. w \in Worker
  BY <1>2 DEF Message
<1>4. \A v \in Worker : Alone(mailbox[v], task[v], inbox, v)
  BY DEF IInv
<1>5. Idle(mailbox[w], task[w], Tail(inbox), w) /\ ~Idle(mailbox[w], task[w], inbox, w)
  <2>1. task[w] \in BOOLEAN /\ Alone(mailbox[w], task[w], inbox, w)
    BY <1>1, <1>3, <1>4
  <2>2. IsReportOf(Head(inbox), w)
    BY DEF IsReportOf
  <2> HIDE DEF w
  <2> QED  BY <1>1, <2>1, <2>2, ReportIsHeard
<1> HIDE DEF w
<1>6. ASSUME NEW v \in Worker \ {w}
      PROVE  /\ Alone(mailbox[v], task[v], Tail(inbox), v)
             /\ Idle(mailbox[v], task[v], Tail(inbox), v) <=> Idle(mailbox[v], task[v], inbox, v)
  BY <1>1, <1>4, <1>6, OtherIsHeard DEF w, IsReportOf
<1>7. Alone(mailbox[w], task[w], Tail(inbox), w)
  BY <1>1, <1>3, <1>5, IdleIsAlone
<1>8. w \in Busy /\ BusyOf(mailbox, task, Tail(inbox)) = Busy \ {w}
  BY <1>3, <1>5, <1>6 DEF Busy, BusyOf
<1>9. sent /\ Commands(inbox) = {}
  BY <1>8 DEF IInv, Fresh
<1>10. Commands(Tail(inbox)) = {}
  BY <1>1, <1>9, CommandsOfTail DEF IInv
<1> QED  BY <1>2, <1>6, <1>7, <1>8, <1>9, <1>10 DEF w

\* The command: nothing happened before it, and no other follows.
LEMMA HeardCommand ==
  ASSUME IInv, Receives("command")
  PROVE  /\ Fresh /\ BusyOf(mailbox, task, Tail(inbox)) = {}
         /\ \A v \in Worker : Alone(mailbox[v], task[v], Tail(inbox), v)
         /\ sent /\ Commands(Tail(inbox)) = {} /\ Tail(inbox) \in Seq(Message)
<1>1. inbox \in Seq(Message) /\ task \in [Worker -> BOOLEAN] /\ inbox # <<>> /\ Head(inbox).kind = "command"
  BY DEF IInv, Typed, TypeOK, Receives
<1>2. Tail(inbox) \in Seq(Message)
  BY <1>1
<1>3. Commands(inbox) # {} /\ Commands(Tail(inbox)) = {}
  BY <1>1, CommandsOfTail DEF IInv
<1>4. Fresh /\ sent
  BY <1>3 DEF IInv
<1>5. ASSUME NEW v \in Worker
      PROVE  /\ Alone(mailbox[v], task[v], Tail(inbox), v)
             /\ Idle(mailbox[v], task[v], Tail(inbox), v) <=> Idle(mailbox[v], task[v], inbox, v)
  BY <1>1, OtherIsHeard DEF IInv, IsReportOf
<1>6. BusyOf(mailbox, task, Tail(inbox)) = Busy
  BY <1>5 DEF Busy, BusyOf
<1> QED  BY <1>2, <1>3, <1>4, <1>5, <1>6 DEF Fresh

\* Deliver: workers that had nothing have a task.
LEMMA Delivered ==
  ASSUME Typed, NEW inb \in Seq(Message), NEW ws \in SUBSET Worker,
         \A v \in Worker : Alone(mailbox[v], task[v], inb, v),
         ws \cap BusyOf(mailbox, task, inb) = {}, Deliver(ws)
  PROVE  /\ mailbox' \in [Worker -> Seq({"task", "shutdown"})]
         /\ \A v \in Worker : Alone(mailbox'[v], task[v], inb, v)
         /\ BusyOf(mailbox', task, inb) = BusyOf(mailbox, task, inb) \cup ws
<1>1. mailbox \in [Worker -> Seq({"task", "shutdown"})] /\ task \in [Worker -> BOOLEAN]
  BY DEF Typed, TypeOK
<1>2. \A v \in Worker : mailbox'[v] = IF v \in ws THEN Append(mailbox[v], "task") ELSE mailbox[v]
  BY DEF Deliver
<1>3. ASSUME NEW v \in ws
      PROVE  /\ Alone(Append(mailbox[v], "task"), task[v], inb, v)
             /\ ~Idle(Append(mailbox[v], "task"), task[v], inb, v)
  <2>1. Idle(mailbox[v], task[v], inb, v)
    BY DEF BusyOf
  <2> QED  BY <1>1, <2>1, TaskIsSent
<1>4. mailbox' \in [Worker -> Seq({"task", "shutdown"})]
  <2>1. ASSUME NEW v \in Worker PROVE mailbox'[v] \in Seq({"task", "shutdown"})
    <3>1. mailbox[v] \in Seq({"task", "shutdown"})
      BY <1>1
    <3>2. Append(mailbox[v], "task") \in Seq({"task", "shutdown"})
      BY <3>1
    <3> QED  BY <1>2, <3>1, <3>2
  <2> QED  BY <2>1 DEF Deliver
<1>5. \A v \in Worker : Alone(mailbox'[v], task[v], inb, v)
  BY <1>2, <1>3
<1>6. BusyOf(mailbox', task, inb) = BusyOf(mailbox, task, inb) \cup ws
  BY <1>2, <1>3 DEF BusyOf
<1> QED  BY <1>4, <1>5, <1>6

----------------------------------------------------------------------------
(* The invariant holds first and is kept by the commander                  *)

LEMMA InvariantHoldsFirst ==
  ASSUME Init
  PROVE  IInv
<1>1. Typed
  <2>1. <<>> \in Seq(Message) /\ <<>> \in Seq(Answer) /\ <<>> \in Seq({"task", "shutdown"})
    OBVIOUS
  <2> QED  BY <2>1 DEF Init, Typed, TypeOK
<1>2. \A w \in Worker : Idle(mailbox[w], task[w], inbox, w)
  BY DEF Init, Idle, Tasks, Reports
<1>3. \A w \in Worker : Alone(mailbox[w], task[w], inbox, w)
  <2> TAKE w \in Worker
  <2>1. task[w] \in BOOLEAN
    BY DEF Init
  <2> QED  BY <1>2, <2>1, IdleIsAlone
<1>4. Busy = {}
  BY <1>2 DEF Busy, BusyOf
<1>5. Commands(inbox) = {}
  BY DEF Init, Commands
<1>6. Fresh
  BY <1>4 DEF Init, Fresh
<1>7. Solo(active, pending, answers, Busy)
  BY <1>4 DEF Init, Solo
<1> QED  BY <1>1, <1>3, <1>5, <1>6, <1>7 DEF IInv, Phase, Fresh

\* The answers stay answers.
LEMMA AnswersGrow ==
  ASSUME NEW ans \in Seq(Answer), NEW a \in Answer
  PROVE  Append(ans, a) \in Seq(Answer)
OBVIOUS

LEMMA CommanderRepliesKeeps ==
  ASSUME IInv, CommanderReplies
  PROVE  IInv'
<1> DEFINE a == Reply("reply", Nobody)
<1>1. Receives("command") /\ inbox' = Tail(inbox) /\ answers' = Append(answers, a)
  BY DEF CommanderReplies
<1>2. UNCHANGED <<active, pending, completed, outputs, commanderUp, mailbox, task, worker, sent, stopping>>
  BY DEF CommanderReplies, collaborationVars, workerVars, hostVars
<1>3. /\ Fresh /\ BusyOf(mailbox, task, inbox') = {}
      /\ \A v \in Worker : Alone(mailbox[v], task[v], inbox', v)
      /\ sent /\ Commands(inbox') = {} /\ inbox' \in Seq(Message)
  BY <1>1, HeardCommand
<1>4. a \in Answer /\ a.kind = "reply"
  BY DEF Reply, Answer
<1> HIDE DEF a
<1>5. answers' \in Seq(Answer) /\ Len(answers') <= 1 /\ \A i \in DOMAIN answers' : answers'[i] = a
  BY <1>1, <1>3, <1>4, OneAnswer DEF Fresh
<1>6. Busy' = {}
  BY <1>2, <1>3 DEF Busy
<1>7. Typed'
  BY <1>2, <1>3, <1>5 DEF IInv, Typed, TypeOK
<1>8. Solo(active', pending', answers', Busy')
  BY <1>2, <1>3, <1>4, <1>5, <1>6 DEF Solo, Fresh
<1> QED  BY <1>2, <1>3, <1>7, <1>8 DEF IInv, Phase

LEMMA DispatchTaskKeeps ==
  ASSUME IInv, DispatchTask
  PROVE  IInv'
<1>1. Receives("command") /\ inbox' = Tail(inbox)
  BY DEF DispatchTask
<1>2. UNCHANGED <<pending, completed, outputs, commanderUp, task, worker, sent, stopping>>
  BY DEF DispatchTask, hostVars
<1>3. /\ Fresh /\ BusyOf(mailbox, task, inbox') = {}
      /\ \A v \in Worker : Alone(mailbox[v], task[v], inbox', v)
      /\ sent /\ Commands(inbox') = {} /\ inbox' \in Seq(Message)
  BY <1>1, HeardCommand
<1>4. PICK route \in RoleRoute, target \in Worker \cup {Nobody} :
        /\ active' = IF target = route.primary /\ route.support # {} THEN route ELSE active
        /\ IF Listening(target)
           THEN Deliver({target}) /\ UNCHANGED answers
           ELSE answers' = Append(answers, Reply("undelivered", target)) /\ UNCHANGED mailbox
  BY DEF DispatchTask
<1>5. active = NoPlan /\ pending = {} /\ outputs = {} /\ answers = <<>>
  BY <1>3 DEF Fresh
<1>6. active' \in RoleRoute \cup {NoPlan}
  BY <1>4, <1>5
<1>7. ASSUME active' = NoPlan \/ (active' \in RoleRoute /\ active'.support # {}),
             active' # NoPlan => Busy' \subseteq {active'.primary},
             \A v, w \in Busy' : v = w, Busy' # {} => answers' = <<>>,
             answers' \in Seq(Answer), Len(answers') <= 1,
             \A i \in DOMAIN answers' : answers'[i].kind = "undelivered",
             Busy' = {} => answers' # <<>>,
             mailbox' \in [Worker -> Seq({"task", "shutdown"})],
             \A v \in Worker : Alone(mailbox'[v], task'[v], inbox', v)
      PROVE  IInv'
  <2>1. Typed'
    BY <1>2, <1>3, <1>6, <1>7 DEF IInv, Typed, TypeOK
  <2>2. Phase(active', pending', outputs', answers', Busy', commanderUp', Live')
    <3>1. CASE active' = NoPlan
      BY <1>2, <1>5, <1>7, <3>1 DEF Phase, Solo
    <3>2. CASE active' # NoPlan
      <4>1. OfPrimary(active', pending', outputs', answers', Busy', commanderUp', Live')
        BY <1>2, <1>5, <1>7, <3>2 DEF OfPrimary
      <4> QED  BY <4>1 DEF Phase
    <3> QED  BY <3>1, <3>2
  <2> QED  BY <1>2, <1>3, <1>5, <1>7, <2>1, <2>2 DEF IInv
<1>8. active' = NoPlan \/ (active' \in RoleRoute /\ active'.support # {} /\ active'.primary = target)
  BY <1>4, <1>5
<1>9. CASE Listening(target)
  <2>1. Deliver({target}) /\ answers' = answers /\ target \in Worker
    BY <1>4, <1>9 DEF Listening
  <2>2. /\ mailbox' \in [Worker -> Seq({"task", "shutdown"})]
        /\ \A v \in Worker : Alone(mailbox'[v], task[v], inbox', v)
        /\ BusyOf(mailbox', task, inbox') = {target}
    <3>1. Typed /\ {target} \in SUBSET Worker /\ {target} \cap BusyOf(mailbox, task, inbox') = {}
      BY <1>3, <2>1 DEF IInv
    <3>2. /\ mailbox' \in [Worker -> Seq({"task", "shutdown"})]
          /\ \A v \in Worker : Alone(mailbox'[v], task[v], inbox', v)
          /\ BusyOf(mailbox', task, inbox') = BusyOf(mailbox, task, inbox') \cup {target}
      BY <1>3, <2>1, <3>1, Delivered
    <3> QED  BY <1>3, <3>2
  <2>3. Busy' = {target}
    BY <1>2, <2>2 DEF Busy
  <2>4. answers' = <<>> /\ <<>> \in Seq(Answer)
    BY <1>5, <2>1
  <2> QED  BY <1>2, <1>7, <1>8, <2>2, <2>3, <2>4
<1>10. CASE ~Listening(target)
  <2> DEFINE a == Reply("undelivered", target)
  <2>1. answers' = Append(<<>>, a) /\ mailbox' = mailbox
    BY <1>4, <1>5, <1>10
  <2>2. a \in Answer /\ a.kind = "undelivered"
    BY DEF Reply, Answer
  <2> HIDE DEF a
  <2>3. answers' \in Seq(Answer) /\ Len(answers') <= 1 /\ answers' # <<>> /\ \A i \in DOMAIN answers' : answers'[i] = a
    BY <2>1, <2>2, OneAnswer
  <2>4. Busy' = {}
    BY <1>2, <1>3, <2>1 DEF Busy
  <2>5. mailbox' \in [Worker -> Seq({"task", "shutdown"})]
    BY <2>1 DEF IInv, Typed, TypeOK
  <2> QED  BY <1>2, <1>3, <1>7, <1>8, <2>1, <2>2, <2>3, <2>4, <2>5
<1> QED  BY <1>9, <1>10

\* The first answer is a synthesis that has the primary worker's contribution.
LEMMA SynthesisEnds ==
  ASSUME NEW out \in SUBSET Worker, Done(out), answers = <<>>,
         active \in RoleRoute, active.primary \in out
  PROVE  /\ answers' \in Seq(Answer)
         /\ active' = NoPlan /\ pending' = {} /\ completed' = {} /\ outputs' = {}
         /\ Solo(active', pending', answers', {})
<1> DEFINE a == [kind |-> "synthesis", worker |-> active.primary, from |-> out]
<1>1. answers' = Append(<<>>, a)
  BY DEF Done
<1>2. active' = NoPlan /\ pending' = {} /\ completed' = {} /\ outputs' = {}
  BY DEF Done
<1>3. active.primary \in Worker
  BY DEF RoleRoute
<1>4. a \in Answer /\ a.worker \in a.from
  BY <1>3 DEF Answer
<1> HIDE DEF a
<1>5. answers' \in Seq(Answer) /\ Len(answers') <= 1 /\ \A i \in DOMAIN answers' : answers'[i] = a
  BY <1>1, <1>4, OneAnswer
<1> QED  BY <1>2, <1>4, <1>5 DEF Solo

LEMMA PrimaryFinishedKeeps ==
  ASSUME IInv, PrimaryFinished
  PROVE  IInv'
<1> DEFINE w       == Head(inbox).worker
           reached == {s \in active.support : Listening(s)}
<1>1. /\ inbox # <<>> /\ Head(inbox).kind \in {"finished", "failed"} /\ inbox' = Tail(inbox)
      /\ active # NoPlan /\ w = active.primary /\ Deliver(reached)
  BY DEF PrimaryFinished, Receives
<1>2. UNCHANGED <<commanderUp, task, worker, sent, stopping>>
  BY DEF PrimaryFinished, hostVars
<1>3. IF reached = {}
      THEN Done(outputs \cup {w})
      ELSE /\ pending' = reached
           /\ outputs' = outputs \cup {w}
           /\ UNCHANGED <<active, completed, answers>>
  BY DEF PrimaryFinished
<1>4. /\ w \in Busy
      /\ BusyOf(mailbox, task, inbox') = Busy \ {w}
      /\ \A v \in Worker : Alone(mailbox[v], task[v], inbox', v)
      /\ sent /\ Commands(inbox') = {} /\ inbox' \in Seq(Message)
  BY <1>1, HeardFromWorker
<1>5. w \in Worker /\ reached \in SUBSET Worker
  BY <1>4 DEF Busy, BusyOf, Listening
<1> HIDE DEF w
<1>6. OfPrimary(active, pending, outputs, answers, Busy, commanderUp, Live)
  <2>1. ~Solo(active, pending, answers, Busy)
    BY <1>1 DEF Solo
  <2>2. ~OfSupport(active, pending, outputs, answers, Busy, commanderUp, Live)
    BY <1>1, <1>4 DEF OfSupport, RoleRoute
  <2> QED  BY <2>1, <2>2 DEF IInv, Phase
<1>7. /\ active \in RoleRoute /\ active.support # {}
      /\ outputs = {} /\ answers = <<>> /\ BusyOf(mailbox, task, inbox') = {}
  BY <1>4, <1>6 DEF OfPrimary
<1> HIDE DEF reached
<1>8. /\ mailbox' \in [Worker -> Seq({"task", "shutdown"})]
      /\ \A v \in Worker : Alone(mailbox'[v], task[v], inbox', v)
      /\ BusyOf(mailbox', task, inbox') = reached
  <2>1. Typed /\ reached \cap BusyOf(mailbox, task, inbox') = {}
    BY <1>7 DEF IInv
  <2>2. /\ mailbox' \in [Worker -> Seq({"task", "shutdown"})]
        /\ \A v \in Worker : Alone(mailbox'[v], task[v], inbox', v)
        /\ BusyOf(mailbox', task, inbox') = BusyOf(mailbox, task, inbox') \cup reached
    BY <1>1, <1>4, <1>5, <2>1, Delivered
  <2> QED  BY <1>7, <2>2
<1>9. Busy' = reached
  BY <1>2, <1>8 DEF Busy
<1>10. CASE reached = {}
  <2>1. Done(outputs \cup {w}) /\ outputs \cup {w} \in SUBSET Worker /\ active.primary \in outputs \cup {w}
    BY <1>1, <1>3, <1>5, <1>7, <1>10
  <2>2. /\ answers' \in Seq(Answer)
        /\ active' = NoPlan /\ pending' = {} /\ completed' = {} /\ outputs' = {}
        /\ Solo(active', pending', answers', {})
    BY <1>7, <2>1, SynthesisEnds
  <2>3. Typed'
    BY <1>2, <1>4, <1>8, <2>2 DEF IInv, Typed, TypeOK
  <2> QED  BY <1>2, <1>4, <1>8, <1>9, <1>10, <2>2, <2>3 DEF IInv, Phase
<1>11. CASE reached # {}
  <2>1. pending' = reached /\ outputs' = {w} /\ UNCHANGED <<active, completed, answers>>
    BY <1>3, <1>7, <1>11
  <2>2. Typed'
    BY <1>2, <1>4, <1>5, <1>8, <2>1 DEF IInv, Typed, TypeOK
  <2>3. reached \subseteq active.support
    BY DEF reached
  <2>4. OfSupport(active', pending', outputs', answers', Busy', commanderUp', Live')
    BY <1>1, <1>7, <1>9, <1>11, <2>1, <2>3 DEF OfSupport
  <2> QED  BY <1>1, <1>2, <1>4, <1>8, <2>1, <2>2, <2>4 DEF IInv, Phase
<1> QED  BY <1>10, <1>11

LEMMA SupportFinishedKeeps ==
  ASSUME IInv, SupportFinished
  PROVE  IInv'
<1> DEFINE w == Head(inbox).worker
<1>1. /\ inbox # <<>> /\ Head(inbox).kind \in {"finished", "failed"} /\ inbox' = Tail(inbox)
      /\ active # NoPlan /\ w # active.primary /\ w \in pending
  BY DEF SupportFinished, Receives
<1>2. UNCHANGED <<commanderUp, mailbox, task, worker, sent, stopping>>
  BY DEF SupportFinished, workerVars, hostVars
<1>3. IF pending = {w}
      THEN Done(outputs \cup {w})
      ELSE /\ pending' = pending \ {w}
           /\ completed' = completed \cup {w}
           /\ outputs' = outputs \cup {w}
           /\ UNCHANGED <<active, answers>>
  BY DEF SupportFinished
<1>4. /\ w \in Busy
      /\ BusyOf(mailbox, task, inbox') = Busy \ {w}
      /\ \A v \in Worker : Alone(mailbox[v], task[v], inbox', v)
      /\ sent /\ Commands(inbox') = {} /\ inbox' \in Seq(Message)
  BY <1>1, HeardFromWorker
<1>5. w \in Worker /\ outputs \cup {w} \in SUBSET Worker
  BY <1>4 DEF Busy, BusyOf, IInv, Typed, TypeOK
<1> HIDE DEF w
<1>6. OfSupport(active, pending, outputs, answers, Busy, commanderUp, Live)
  BY <1>1 DEF IInv, Phase, Solo, OfPrimary
<1>7. Busy' = Busy \ {w}
  BY <1>2, <1>4 DEF Busy
<1>8. active \in RoleRoute /\ active.primary \in outputs
  BY <1>6 DEF OfSupport
<1>9. CASE pending = {w}
  <2>1. Done(outputs \cup {w})
    BY <1>3, <1>9
  <2>2. answers = <<>>
    <3>1. answers \in Seq(Answer) /\ \A i \in DOMAIN answers : answers[i].worker \in pending \ Busy
      BY <1>6 DEF OfSupport, IInv, Typed
    <3>2. DOMAIN answers = {}
      BY <1>4, <1>9, <3>1
    <3> QED  BY <3>1, <3>2
  <2>3. /\ answers' \in Seq(Answer)
        /\ active' = NoPlan /\ pending' = {} /\ completed' = {} /\ outputs' = {}
        /\ Solo(active', pending', answers', {})
    BY <1>5, <1>8, <2>1, <2>2, SynthesisEnds
  <2>4. Busy' = {}
    BY <1>6, <1>7, <1>9 DEF OfSupport
  <2>5. Typed'
    BY <1>2, <1>4, <2>3 DEF IInv, Typed, TypeOK
  <2> QED  BY <1>2, <1>4, <2>3, <2>4, <2>5 DEF IInv, Phase
<1>10. CASE pending # {w}
  <2>1. /\ pending' = pending \ {w} /\ completed' = completed \cup {w}
        /\ outputs' = outputs \cup {w} /\ UNCHANGED <<active, answers>>
    BY <1>3, <1>10
  <2>2. Typed'
    BY <1>2, <1>4, <1>5, <2>1 DEF IInv, Typed, TypeOK
  <2>3. pending' \ Busy' = pending \ Busy /\ Live' = Live
    BY <1>2, <1>4, <1>7, <2>1 DEF Live, Listening
  <2>4. OfSupport(active', pending', outputs', answers', Busy', commanderUp', Live')
    <3>1. pending' # {} /\ pending' \subseteq active.support /\ Busy' \subseteq pending'
      BY <1>1, <1>6, <1>7, <1>10, <2>1 DEF OfSupport
    <3>2. \A i \in DOMAIN answers : answers[i].kind = "failure" /\ answers[i].worker \in pending' \ Busy'
      BY <1>6, <2>3 DEF OfSupport
    <3>3. commanderUp => \A v \in (pending' \ Busy') \cap Live' : v \in SaidIn(answers, "failure")
      BY <1>6, <2>3 DEF OfSupport
    <3> QED  BY <1>2, <1>6, <2>1, <3>1, <3>2, <3>3 DEF OfSupport
  <2> QED  BY <1>1, <1>2, <1>4, <2>1, <2>2, <2>4 DEF IInv, Phase
<1> QED  BY <1>9, <1>10

LEMMA SoloFinishedKeeps ==
  ASSUME IInv, SoloFinished
  PROVE  IInv'
<1> DEFINE w == Head(inbox).worker
           a == Reply("output", w)
<1>1. /\ inbox # <<>> /\ Head(inbox).kind \in {"finished", "failed"} /\ inbox' = Tail(inbox)
      /\ active = NoPlan \/ (w # active.primary /\ w \notin pending)
      /\ answers' = Append(answers, a)
  BY DEF SoloFinished, Receives
<1>2. UNCHANGED <<active, pending, completed, outputs, commanderUp, mailbox, task, worker, sent, stopping>>
  BY DEF SoloFinished, collaborationVars, workerVars, hostVars
<1>3. /\ w \in Busy
      /\ BusyOf(mailbox, task, inbox') = Busy \ {w}
      /\ \A v \in Worker : Alone(mailbox[v], task[v], inbox', v)
      /\ sent /\ Commands(inbox') = {} /\ inbox' \in Seq(Message)
  BY <1>1, HeardFromWorker
<1>4. a \in Answer /\ a.kind = "output"
  <2>1. w \in Worker
    BY <1>3 DEF Busy, BusyOf
  <2> QED  BY <2>1 DEF Reply, Answer
<1> HIDE DEF w, a
<1>5. Solo(active, pending, answers, Busy)
  <2>1. ~OfPrimary(active, pending, outputs, answers, Busy, commanderUp, Live)
    <3> SUFFICES ASSUME OfPrimary(active, pending, outputs, answers, Busy, commanderUp, Live) PROVE FALSE
      OBVIOUS
    <3>1. w = active.primary /\ active # NoPlan
      BY <1>3 DEF OfPrimary, NoPlan
    <3> QED  BY <1>1, <3>1
  <2>2. ~OfSupport(active, pending, outputs, answers, Busy, commanderUp, Live)
    <3> SUFFICES ASSUME OfSupport(active, pending, outputs, answers, Busy, commanderUp, Live) PROVE FALSE
      OBVIOUS
    <3>1. w \in pending /\ active # NoPlan
      BY <1>3 DEF OfSupport, NoPlan
    <3> QED  BY <1>1, <3>1
  <2> QED  BY <2>1, <2>2 DEF IInv, Phase
<1>6. answers = <<>> /\ Busy \ {w} = {} /\ active = NoPlan /\ pending = {}
  BY <1>3, <1>5 DEF Solo
<1>7. answers' \in Seq(Answer) /\ Len(answers') <= 1 /\ \A i \in DOMAIN answers' : answers'[i] = a
  BY <1>1, <1>4, <1>6, OneAnswer
<1>8. Busy' = {}
  BY <1>2, <1>3, <1>6 DEF Busy
<1>9. Solo(active', pending', answers', Busy')
  BY <1>2, <1>4, <1>6, <1>7, <1>8 DEF Solo
<1>10. Typed'
  BY <1>2, <1>3, <1>7 DEF IInv, Typed, TypeOK
<1> QED  BY <1>2, <1>3, <1>9, <1>10 DEF IInv, Phase

LEMMA WorkerFailedKeeps ==
  ASSUME IInv, WorkerFailed
  PROVE  IInv'
<1> DEFINE w == Head(inbox).worker
           a == Reply("failure", w)
<1>1. /\ inbox # <<>> /\ Head(inbox).kind \in {"finished", "failed"} /\ inbox' = Tail(inbox)
      /\ answers' = Append(answers, a)
  BY DEF WorkerFailed, Receives
<1>2. UNCHANGED <<active, pending, completed, outputs, commanderUp, mailbox, task, worker, sent, stopping>>
  BY DEF WorkerFailed, collaborationVars, workerVars, hostVars
<1>3. /\ w \in Busy
      /\ BusyOf(mailbox, task, inbox') = Busy \ {w}
      /\ \A v \in Worker : Alone(mailbox[v], task[v], inbox', v)
      /\ sent /\ Commands(inbox') = {} /\ inbox' \in Seq(Message)
  BY <1>1, HeardFromWorker
<1>4. a \in Answer /\ a.kind = "failure" /\ a.worker = w
  <2>1. w \in Worker
    BY <1>3 DEF Busy, BusyOf
  <2> QED  BY <2>1 DEF Reply, Answer
<1> HIDE DEF w, a
<1>5. /\ answers \in Seq(Answer) /\ commanderUp \in BOOLEAN
      /\ Phase(active, pending, outputs, answers, Busy, commanderUp, Live)
  BY DEF IInv, Typed, TypeOK
<1>6. Phase(active, pending, outputs, Append(answers, a), Busy \ {w}, commanderUp, Live)
  BY <1>3, <1>4, <1>5, FailureKeepsPhase
<1>7. Busy' = Busy \ {w} /\ Live' = Live
  BY <1>2, <1>3 DEF Busy, Live, Listening
<1>8. answers' \in Seq(Answer)
  BY <1>1, <1>4, <1>5, AnswersGrow
<1>9. Typed'
  BY <1>2, <1>3, <1>8 DEF IInv, Typed, TypeOK
<1> QED  BY <1>1, <1>2, <1>3, <1>6, <1>7, <1>9 DEF IInv

----------------------------------------------------------------------------
(* The workers and the host keep it                                        *)

\* What a step must leave alone when the commander hears nothing: a worker
\* only loses what it has, and no more of it than what stops listening.
LEMMA WorkersOnlyLose ==
  ASSUME IInv, Typed', UNCHANGED <<active, pending, outputs, answers, sent>>,
         \A w \in Worker : Alone(mailbox'[w], task'[w], inbox', w),
         \A i, j \in Commands(inbox') : i = j,
         Commands(inbox') # {} => Commands(inbox) # {},
         Busy' \subseteq Busy, Live' \subseteq Live,
         commanderUp' => commanderUp /\ (Busy \ Busy') \cap Live' = {}
  PROVE  IInv'
<1>1. Phase(active', pending', outputs', answers', Busy', commanderUp', Live')
  <2>1. /\ answers \in Seq(Answer) /\ commanderUp \in BOOLEAN /\ commanderUp' \in BOOLEAN
        /\ Phase(active, pending, outputs, answers, Busy, commanderUp, Live)
    BY DEF IInv, Typed, TypeOK
  <2>2. Phase(active, pending, outputs, answers, Busy', commanderUp', Live')
    BY <2>1, PhaseShrinks
  <2> QED  BY <2>2
<1>2. ~sent => Commands(inbox') = {}
  BY DEF IInv
<1>3. ~sent \/ Commands(inbox') # {} => Fresh'
  BY DEF IInv, Fresh
<1> QED  BY <1>1, <1>2, <1>3 DEF IInv

LEMMA CommanderStopsKeeps ==
  ASSUME IInv, CommanderStops
  PROVE  IInv'
<1>1. inbox' = <<>> /\ commanderUp' = FALSE
  BY DEF CommanderStops
<1>2. UNCHANGED <<active, pending, completed, outputs, answers, mailbox, task, worker, sent, stopping>>
  BY DEF CommanderStops, collaborationVars, workerVars, hostVars
<1>3. Typed'
  <2>1. <<>> \in Seq(Message)
    OBVIOUS
  <2> QED  BY <1>1, <1>2, <2>1 DEF IInv, Typed, TypeOK
<1>4. ASSUME NEW w \in Worker
      PROVE  /\ Alone(mailbox[w], task[w], inbox', w)
             /\ Idle(mailbox[w], task[w], inbox, w) => Idle(mailbox[w], task[w], inbox', w)
  <2>1. task[w] \in BOOLEAN /\ Alone(mailbox[w], task[w], inbox, w)
    BY DEF IInv, Typed, TypeOK
  <2> QED  BY <1>1, <2>1, LessIsUnderWay
<1>5. Busy' \subseteq Busy
  BY <1>2, <1>4 DEF Busy, BusyOf
<1>6. Live' \subseteq Live
  BY <1>2 DEF Live, Listening
<1>7. Commands(inbox') = {}
  BY <1>1 DEF Commands
<1> QED  BY <1>1, <1>2, <1>3, <1>4, <1>5, <1>6, <1>7, WorkersOnlyLose

LEMMA TakeTaskKeeps ==
  ASSUME IInv, NEW w \in Worker, TakeTask(w)
  PROVE  IInv'
<1>1. /\ ~task[w] /\ mailbox[w] # <<>> /\ Head(mailbox[w]) = "task"
      /\ mailbox' = [mailbox EXCEPT ![w] = Tail(@)] /\ task' = [task EXCEPT ![w] = TRUE]
  BY DEF TakeTask
<1>2. UNCHANGED <<active, pending, completed, outputs, inbox, commanderUp, answers, worker, sent, stopping>>
  BY DEF TakeTask, collaborationVars, hostVars
<1>3. mailbox \in [Worker -> Seq({"task", "shutdown"})] /\ task \in [Worker -> BOOLEAN]
  BY DEF IInv, Typed, TypeOK
<1>4. mailbox' \in [Worker -> Seq({"task", "shutdown"})] /\ task' \in [Worker -> BOOLEAN]
  <2>1. Tail(mailbox[w]) \in Seq({"task", "shutdown"})
    BY <1>1, <1>3
  <2> QED  BY <1>1, <1>3, <2>1
<1>5. Typed'
  BY <1>2, <1>4 DEF IInv, Typed, TypeOK
<1>6. /\ Alone(mailbox'[w], task'[w], inbox, w)
      /\ ~Idle(mailbox'[w], task'[w], inbox, w) /\ ~Idle(mailbox[w], task[w], inbox, w)
  <2>1. /\ mailbox[w] \in Seq({"task", "shutdown"}) /\ task[w] = FALSE
        /\ mailbox'[w] = Tail(mailbox[w]) /\ task'[w] = TRUE
        /\ Alone(mailbox[w], task[w], inbox, w)
    BY <1>1, <1>3 DEF IInv
  <2> QED  BY <1>1, <2>1, TaskIsTaken
<1>7. \A v \in Worker \ {w} : mailbox'[v] = mailbox[v] /\ task'[v] = task[v]
  BY <1>1, <1>3
<1>8. \A v \in Worker : Alone(mailbox'[v], task'[v], inbox', v)
  BY <1>2, <1>6, <1>7 DEF IInv
<1>9. Busy' = Busy
  BY <1>2, <1>6, <1>7 DEF Busy, BusyOf
<1>10. Live' = Live
  BY <1>2 DEF Live, Listening
<1> QED  BY <1>2, <1>5, <1>8, <1>9, <1>10, WorkersOnlyLose DEF IInv

LEMMA ReportKeeps ==
  ASSUME IInv, NEW w \in Worker, NEW kind \in {"finished", "failed"}, Report(w, kind)
  PROVE  IInv'
<1> DEFINE m == [kind |-> kind, worker |-> w]
<1>1. /\ task[w] /\ task' = [task EXCEPT ![w] = FALSE]
      /\ inbox' = IF commanderUp THEN Append(inbox, m) ELSE inbox
  BY DEF Report
<1>2. UNCHANGED <<active, pending, completed, outputs, commanderUp, answers, mailbox, worker, sent, stopping>>
  BY DEF Report, collaborationVars, hostVars
<1>3. /\ inbox \in Seq(Message) /\ task \in [Worker -> BOOLEAN]
      /\ \A v \in Worker : Alone(mailbox[v], task[v], inbox, v)
  BY DEF IInv, Typed, TypeOK
<1>4. m \in Message /\ m.kind # "command" /\ IsReportOf(m, w) /\ \A v \in Worker \ {w} : ~IsReportOf(m, v)
  BY DEF Message, IsReportOf
<1> HIDE DEF m
<1>5. inbox' \in Seq(Message) /\ task' \in [Worker -> BOOLEAN]
  <2>1. Append(inbox, m) \in Seq(Message)
    BY <1>3, <1>4
  <2> QED  BY <1>1, <1>3, <2>1
<1>6. Typed'
  BY <1>2, <1>5 DEF IInv, Typed, TypeOK
<1>7. /\ task'[w] = FALSE /\ task[w] = TRUE /\ \A v \in Worker \ {w} : task'[v] = task[v]
      /\ Alone(mailbox[w], TRUE, inbox, w)
  BY <1>1, <1>3
<1>8. /\ \A v \in Worker : Alone(mailbox[v], task'[v], inbox', v)
      /\ Busy' \subseteq Busy /\ (commanderUp => Busy' = Busy)
      /\ Commands(inbox') = Commands(inbox)
  <2>1. CASE commanderUp
    <3>1. inbox' = Append(inbox, m)
      BY <1>1, <2>1
    <3>2. /\ Alone(mailbox[w], FALSE, inbox', w)
          /\ ~Idle(mailbox[w], FALSE, inbox', w) /\ ~Idle(mailbox[w], TRUE, inbox, w)
      BY <1>3, <1>4, <1>7, <3>1, ReportIsSent
    <3>3. ASSUME NEW v \in Worker \ {w}
          PROVE  /\ Alone(mailbox[v], task[v], inbox', v)
                 /\ Idle(mailbox[v], task[v], inbox', v) <=> Idle(mailbox[v], task[v], inbox, v)
      BY <1>3, <1>4, <3>1, OtherIsSent
    <3>4. \A v \in Worker : Alone(mailbox[v], task'[v], inbox', v)
      BY <1>7, <3>2, <3>3
    <3>5. Busy' = Busy
      BY <1>2, <1>7, <3>2, <3>3 DEF Busy, BusyOf
    <3>6. Commands(inbox') = Commands(inbox)
      BY <1>3, <1>4, <3>1, CommandsOfMore DEF IInv
    <3> QED  BY <3>4, <3>5, <3>6
  <2>2. CASE ~commanderUp
    <3>1. inbox' = inbox
      BY <1>1, <2>2
    <3>2. Alone(mailbox[w], FALSE, inbox, w) /\ ~Idle(mailbox[w], TRUE, inbox, w)
      BY <1>7, LessIsUnderWay DEF Idle
    <3>3. \A v \in Worker : Alone(mailbox[v], task'[v], inbox', v)
      BY <1>3, <1>7, <3>1, <3>2
    <3>4. Busy' \subseteq Busy
      BY <1>2, <1>7, <3>1, <3>2 DEF Busy, BusyOf
    <3> QED  BY <2>2, <3>1, <3>3, <3>4
  <2> QED  BY <2>1, <2>2
<1>9. Live' = Live
  BY <1>2 DEF Live, Listening
<1> QED  BY <1>2, <1>6, <1>8, <1>9, WorkersOnlyLose DEF IInv

\* A worker that stops, or whose task panics, loses what it has.
LEMMA WorkerEndsKeeps ==
  ASSUME IInv, NEW w \in Worker, WorkerStops(w) \/ WorkerCrashes(w)
  PROVE  IInv'
<1>1. PICK end \in {"down", "crashed"} : worker' = [worker EXCEPT ![w] = end]
  BY DEF WorkerStops, WorkerCrashes
<1>2. /\ mailbox' = [mailbox EXCEPT ![w] = <<>>]
      /\ UNCHANGED <<active, pending, completed, outputs, inbox, commanderUp, answers, sent, stopping>>
  BY DEF WorkerStops, WorkerCrashes, collaborationVars, hostVars
<1>3. /\ mailbox \in [Worker -> Seq({"task", "shutdown"})] /\ task \in [Worker -> BOOLEAN]
      /\ worker \in [Worker -> {"up", "down", "crashed"}]
      /\ \A v \in Worker : Alone(mailbox[v], task[v], inbox, v)
  BY DEF IInv, Typed, TypeOK
<1>4. task' \in [Worker -> BOOLEAN] /\ task'[w] = FALSE /\ \A v \in Worker \ {w} : task'[v] = task[v]
  <2>1. CASE WorkerStops(w)
    BY <1>3, <2>1 DEF WorkerStops
  <2>2. CASE WorkerCrashes(w)
    BY <1>3, <2>2 DEF WorkerCrashes
  <2> QED  BY <2>1, <2>2
<1>5. Typed'
  <2>1. <<>> \in Seq({"task", "shutdown"})
    OBVIOUS
  <2>2. mailbox' \in [Worker -> Seq({"task", "shutdown"})] /\ worker' \in [Worker -> {"up", "down", "crashed"}]
    BY <1>1, <1>2, <1>3, <2>1
  <2> QED  BY <1>2, <1>4, <2>2 DEF IInv, Typed, TypeOK
<1>6. /\ Alone(mailbox'[w], task'[w], inbox, w)
      /\ Idle(mailbox[w], task[w], inbox, w) => Idle(mailbox'[w], task'[w], inbox, w)
  <2>1. mailbox'[w] = <<>> /\ task[w] \in BOOLEAN /\ Alone(mailbox[w], task[w], inbox, w)
    BY <1>2, <1>3
  <2>2. /\ Alone(<<>>, FALSE, inbox, w)
        /\ Idle(mailbox[w], task[w], inbox, w) => Idle(<<>>, FALSE, inbox, w)
    BY <2>1, LessIsUnderWay
  <2> QED  BY <1>4, <2>1, <2>2
<1>7. \A v \in Worker \ {w} : mailbox'[v] = mailbox[v]
  BY <1>2, <1>3
<1>8. \A v \in Worker : Alone(mailbox'[v], task'[v], inbox', v)
  BY <1>2, <1>3, <1>4, <1>6, <1>7
<1>9. Busy' \subseteq Busy /\ Busy \ Busy' \subseteq {w}
  BY <1>2, <1>4, <1>6, <1>7 DEF Busy, BusyOf
<1>10. Live' = Live \ {w}
  BY <1>1, <1>3 DEF Live, Listening
<1> QED  BY <1>2, <1>5, <1>8, <1>9, <1>10, WorkersOnlyLose DEF IInv

LEMMA SendCommandKeeps ==
  ASSUME IInv, SendCommand
  PROVE  IInv'
<1> DEFINE m == [kind |-> "command", worker |-> Nobody]
<1>1. ~sent /\ sent' = TRUE /\ inbox' = Append(inbox, m)
  BY DEF SendCommand
<1>2. UNCHANGED <<active, pending, completed, outputs, commanderUp, answers, mailbox, task, worker, stopping>>
  BY DEF SendCommand, collaborationVars, workerVars
<1>3. /\ inbox \in Seq(Message) /\ task \in [Worker -> BOOLEAN] /\ Fresh /\ Commands(inbox) = {}
      /\ \A v \in Worker : Alone(mailbox[v], task[v], inbox, v)
  BY <1>1 DEF IInv, Typed, TypeOK
<1>4. m \in Message /\ \A v \in Worker : ~IsReportOf(m, v)
  BY DEF Message, IsReportOf
<1> HIDE DEF m
<1>5. inbox' \in Seq(Message)
  BY <1>1, <1>3, <1>4
<1>6. Typed'
  BY <1>1, <1>2, <1>5 DEF IInv, Typed, TypeOK
<1>7. ASSUME NEW v \in Worker
      PROVE  /\ Alone(mailbox[v], task[v], inbox', v)
             /\ Idle(mailbox[v], task[v], inbox', v) <=> Idle(mailbox[v], task[v], inbox, v)
  BY <1>1, <1>3, <1>4, OtherIsSent
<1>8. Busy' = {}
  BY <1>2, <1>3, <1>7 DEF Busy, BusyOf, Fresh
<1>9. \A i, j \in Commands(inbox') : i = j
  BY <1>1, <1>3, <1>4, CommandsOfMore
<1>10. Fresh'
  BY <1>2, <1>3, <1>8 DEF Fresh
<1>11. Solo(active', pending', answers', Busy')
  BY <1>10 DEF Fresh, Solo
<1> QED  BY <1>1, <1>2, <1>6, <1>7, <1>9, <1>10, <1>11 DEF IInv, Phase, Fresh

LEMMA StopSessionKeeps ==
  ASSUME IInv, StopSession
  PROVE  IInv'
<1> DEFINE m == [kind |-> "shutdown", worker |-> Nobody]
<1>1. /\ inbox' = Append(inbox, m) /\ stopping' = TRUE
      /\ mailbox' = [w \in Worker |-> IF Listening(w) THEN Append(mailbox[w], "shutdown") ELSE mailbox[w]]
  BY DEF StopSession
<1>2. UNCHANGED <<active, pending, completed, outputs, commanderUp, answers, task, worker, sent>>
  BY DEF StopSession, collaborationVars
<1>3. /\ mailbox \in [Worker -> Seq({"task", "shutdown"})] /\ task \in [Worker -> BOOLEAN]
      /\ inbox \in Seq(Message)
      /\ \A v \in Worker : Alone(mailbox[v], task[v], inbox, v)
      /\ \A i, j \in Commands(inbox) : i = j
  BY DEF IInv, Typed, TypeOK
<1>4. m \in Message /\ m.kind # "command" /\ \A v \in Worker : ~IsReportOf(m, v)
  BY DEF Message, IsReportOf
<1> HIDE DEF m
<1>5. \A v \in Worker : mailbox'[v] \in Seq({"task", "shutdown"})
  <2> TAKE v \in Worker
  <2>1. mailbox[v] \in Seq({"task", "shutdown"})
    BY <1>3
  <2>2. Append(mailbox[v], "shutdown") \in Seq({"task", "shutdown"})
    BY <2>1
  <2> QED  BY <1>1, <2>1, <2>2
<1>6. Typed'
  <2>1. inbox' \in Seq(Message)
    BY <1>1, <1>3, <1>4
  <2>2. mailbox' \in [Worker -> Seq({"task", "shutdown"})]
    BY <1>1, <1>5
  <2> QED  BY <1>1, <1>2, <2>1, <2>2 DEF IInv, Typed, TypeOK
<1>7. ASSUME NEW v \in Worker
      PROVE  /\ Alone(mailbox'[v], task[v], inbox', v)
             /\ Idle(mailbox'[v], task[v], inbox', v) <=> Idle(mailbox[v], task[v], inbox, v)
  <2>1. mailbox[v] \in Seq({"task", "shutdown"}) /\ task[v] \in BOOLEAN
    BY <1>3
  <2>2. /\ Alone(mailbox[v], task[v], inbox', v)
        /\ Idle(mailbox[v], task[v], inbox', v) <=> Idle(mailbox[v], task[v], inbox, v)
    BY <1>1, <1>3, <1>4, <2>1, OtherIsSent
  <2>3. /\ Alone(Append(mailbox[v], "shutdown"), task[v], inbox', v)
        /\ Idle(Append(mailbox[v], "shutdown"), task[v], inbox', v) <=> Idle(mailbox[v], task[v], inbox', v)
    BY <2>1, <2>2, ShutdownIsSent
  <2>4. mailbox'[v] = mailbox[v] \/ mailbox'[v] = Append(mailbox[v], "shutdown")
    BY <1>1
  <2> QED  BY <2>2, <2>3, <2>4
<1>8. Busy' = Busy
  BY <1>2, <1>7 DEF Busy, BusyOf
<1>9. Live' = Live
  BY <1>2 DEF Live, Listening
<1>10. Commands(inbox') = Commands(inbox)
  BY <1>1, <1>3, <1>4, CommandsOfMore
<1> QED  BY <1>2, <1>3, <1>6, <1>7, <1>8, <1>9, <1>10, WorkersOnlyLose

LEMMA StepKeepsInvariant ==
  ASSUME IInv, [Next]_vars
  PROVE  IInv'
<1>1. CASE CommanderStep
  BY <1>1, CommanderRepliesKeeps, DispatchTaskKeeps, PrimaryFinishedKeeps, SupportFinishedKeeps,
     SoloFinishedKeeps, WorkerFailedKeeps, CommanderStopsKeeps
     DEF CommanderStep, CommanderThinks, CommanderHears
<1>2. ASSUME NEW w \in Worker, WorkerStep(w) \/ WorkerCrashes(w)
      PROVE  IInv'
  <2>1. CASE TakeTask(w)
    BY <2>1, TakeTaskKeeps
  <2>2. ASSUME NEW kind \in {"finished", "failed"}, Report(w, kind)
        PROVE  IInv'
    BY <2>2, ReportKeeps
  <2>3. CASE WorkerStops(w) \/ WorkerCrashes(w)
    BY <2>3, WorkerEndsKeeps
  <2> QED  BY <1>2, <2>1, <2>2, <2>3 DEF WorkerStep
<1>3. CASE SendCommand
  BY <1>3, SendCommandKeeps
<1>4. CASE StopSession
  BY <1>4, StopSessionKeeps
<1>5. CASE UNCHANGED vars
  BY <1>5 DEF vars, collaborationVars, workerVars, hostVars, IInv, Typed, TypeOK, Fresh, Busy, BusyOf,
              Live, Listening
<1> QED  BY <1>1, <1>2, <1>3, <1>4, <1>5 DEF Next

\* The collaboration, what is under way and what was answered agree always.
THEOREM CollaborationInvariance == Spec => []IInv
<1>1. Init => IInv
  BY InvariantHoldsFirst
<1>2. IInv /\ [Next]_vars => IInv'
  BY StepKeepsInvariant
<1> QED  BY <1>1, <1>2, PTL DEF Spec

----------------------------------------------------------------------------
(* What follows from it                                                    *)

LEMMA SizeOfOne ==
  ASSUME NEW S, \A i, j \in S : i = j
  PROVE  (S = {} /\ Cardinality(S) = 0) \/ (S # {} /\ Cardinality(S) = 1)
<1>1. CASE S = {}
  BY <1>1, FS_EmptySet
<1>2. CASE S # {}
  <2>1. PICK x \in S : S = {x}
    BY <1>2
  <2> QED  BY <2>1, FS_Singleton
<1> QED  BY <1>1, <1>2

\* One thing is under way for a busy worker, and nothing for another.
LEMMA CountsUnderWay ==
  ASSUME IInv, NEW w \in Worker
  PROVE  InFlight(w) = IF w \in Busy THEN 1 ELSE 0
<1> DEFINE tasks   == Tasks(mailbox[w])
           reports == Reports(inbox, w)
<1>1. Alone(mailbox[w], task[w], inbox, w) /\ (w \in Busy <=> ~Idle(mailbox[w], task[w], inbox, w))
  BY DEF IInv, Busy, BusyOf
<1>2. InFlight(w) = Cardinality(tasks) + (IF task[w] THEN 1 ELSE 0) + Cardinality(reports)
  BY DEF InFlight, Tasks, Reports, IsReportOf
<1>3. (tasks = {} /\ Cardinality(tasks) = 0) \/ (tasks # {} /\ Cardinality(tasks) = 1)
  BY <1>1, SizeOfOne DEF Alone
<1>4. (reports = {} /\ Cardinality(reports) = 0) \/ (reports # {} /\ Cardinality(reports) = 1)
  BY <1>1, SizeOfOne DEF Alone
<1>5. /\ task[w] => tasks = {} /\ reports = {}
      /\ reports # {} => tasks = {}
      /\ w \in Busy <=> ~(tasks = {} /\ ~task[w] /\ reports = {})
  BY <1>1 DEF Alone, Idle
<1> HIDE DEF tasks, reports
<1> QED  BY <1>2, <1>3, <1>4, <1>5

\* Every variable keeps its type.
THEOREM CollaborationTypes == Spec => []TypeOK
<1>1. IInv => TypeOK
  BY DEF IInv, Typed
<1> QED  BY <1>1, CollaborationInvariance, PTL

\* The commander waits for exactly the support workers with a task under way,
\* and for those that failed or were lost (handle_collaboration_worker_finished,
\* dispatch_support_workers).
THEOREM CommanderWaitsForThose == Spec => []PendingIffUnderWay
<1>1. IInv => PendingIffUnderWay
  <2> SUFFICES ASSUME IInv, commanderUp, NEW w \in Worker
               PROVE  /\ w \in pending =>
                           \/ InFlight(w) = 1
                           \/ InFlight(w) = 0 /\ (w \in Said("failure") \/ ~Listening(w))
                      /\ active # NoPlan /\ w # active.primary /\ InFlight(w) > 0 => w \in pending
    BY DEF PendingIffUnderWay
  <2>1. InFlight(w) = IF w \in Busy THEN 1 ELSE 0
    BY CountsUnderWay
  <2>2. ASSUME w \in pending, w \notin Busy
        PROVE  w \in Said("failure") \/ ~Listening(w)
    <3>1. OfSupport(active, pending, outputs, answers, Busy, commanderUp, Live)
      BY <2>2 DEF IInv, Phase, Solo, OfPrimary
    <3> QED  BY <2>2, <3>1 DEF OfSupport, Said, SaidIn, Live
  <2>3. ASSUME active # NoPlan, w # active.primary, w \in Busy
        PROVE  w \in pending
    BY <2>3 DEF IInv, Phase, Solo, OfPrimary, OfSupport
  <2> QED  BY <2>1, <2>2, <2>3
<1> QED  BY <1>1, CollaborationInvariance, PTL

\* A synthesis has the contribution of the primary worker and comes when no
\* worker has anything under way (send_collaboration_done).
THEOREM SynthesisHasAll == Spec => []SynthesisIsComplete
<1>1. IInv => SynthesisIsComplete
  <2> SUFFICES ASSUME IInv, NEW i \in DOMAIN answers, answers[i].kind = "synthesis"
               PROVE  answers[i].worker \in answers[i].from /\ \A w \in Worker : InFlight(w) = 0
    BY DEF SynthesisIsComplete
  <2>1. Solo(active, pending, answers, Busy)
    BY DEF IInv, Phase, OfPrimary, OfSupport
  <2>2. answers # <<>>
    OBVIOUS
  <2>3. Busy = {}
    BY <2>1, <2>2 DEF Solo
  <2> QED  BY <2>1, <2>3, CountsUnderWay DEF Solo
<1> QED  BY <1>1, CollaborationInvariance, PTL

\* The host takes the first answer: there is no other, or all are failures.
THEOREM HostIsToldOneThing == Spec => []AnswersAgree
<1>1. IInv => AnswersAgree
  BY DEF IInv, Phase, Solo, OfPrimary, OfSupport, AnswersAgree
<1> QED  BY <1>1, CollaborationInvariance, PTL

\* A collaboration that is not over has something under way, unless a worker
\* failed, was lost or could not be given its task.
THEOREM CollaborationGoesOn == Spec => []NeverStuck
<1>1. IInv => NeverStuck
  <2> SUFFICES ASSUME IInv, active # NoPlan, commanderUp
               PROVE  \/ \E w \in Worker : InFlight(w) > 0
                      \/ Said("failure") \cup Said("undelivered") # {}
                      \/ \E w \in pending \cup {active.primary} : ~Listening(w)
    BY DEF NeverStuck
  <2>1. ASSUME NEW w \in Busy PROVE \E v \in Worker : InFlight(v) > 0
    <3>1. w \in Worker
      BY DEF Busy, BusyOf
    <3>2. InFlight(w) = 1
      BY <3>1, CountsUnderWay
    <3> QED  BY <3>1, <3>2
  <2>2. CASE OfPrimary(active, pending, outputs, answers, Busy, commanderUp, Live)
    <3>1. CASE Busy # {}
      BY <2>1, <3>1
    <3>2. CASE active.primary \notin Live
      BY <2>2, <3>2 DEF OfPrimary, RoleRoute, Live
    <3>3. CASE Busy = {} /\ active.primary \in Live
      <4>1. answers # <<>> /\ answers \in Seq(Answer)
        BY <2>2, <3>3 DEF OfPrimary, IInv, Typed
      <4>2. 1 \in DOMAIN answers
        BY <4>1
      <4>3. answers[1].kind \in {"failure", "undelivered"}
        BY <2>2, <4>2 DEF OfPrimary
      <4>4. answers[1].worker \in Said(answers[1].kind)
        BY <4>2 DEF Said
      <4> QED  BY <4>3, <4>4
    <3> QED  BY <3>1, <3>2, <3>3
  <2>3. CASE OfSupport(active, pending, outputs, answers, Busy, commanderUp, Live)
    <3>1. PICK w \in pending : TRUE
      BY <2>3 DEF OfSupport
    <3>2. CASE w \in Busy
      BY <2>1, <3>2
    <3>3. CASE w \notin Busy /\ ~Listening(w)
      BY <3>1, <3>3
    <3>4. CASE w \notin Busy /\ Listening(w)
      <4>1. w \in Live
        BY <3>4 DEF Live, Listening
      <4>2. w \in SaidIn(answers, "failure")
        BY <2>3, <3>1, <3>4, <4>1 DEF OfSupport
      <4> QED  BY <4>2 DEF SaidIn, Said
    <3> QED  BY <3>2, <3>3, <3>4
  <2> QED  BY <2>2, <2>3 DEF IInv, Phase, Solo
<1> QED  BY <1>1, CollaborationInvariance, PTL
=============================================================================
