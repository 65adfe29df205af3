-------------------------- MODULE SessionStreamProofs --------------------------
(***************************************************************************)
(* Theorems about SessionStream for any number of requests and sessions,   *)
(* any size of the channel, any number of commander events and panics: the *)
(* order of the events of a stream, and the registry.                      *)
(***************************************************************************)
EXTENDS SessionStream, SequenceTheorems, FiniteSetTheorems, TLAPS

Commander == {"none", "idle", "busy", "answered", "stopped", "panicked"}

\* The types that matter here.
Typed ==
  /\ host \in [Request -> Phase]
  /\ mailbox \in [Request -> Seq({"command", "shutdown"})]
  /\ commander \in [Request -> Commander]
  /\ events \in [Request -> Seq(Event)] /\ received \in [Request -> Seq(Event)]
  /\ client \in [Request -> {"none", "listening", "gone"}]

Early == {"new", "build", "started", "memory"}
Late  == {"persist", "compacted", "persisted", "remove", "terminal", "done"}

Up(c) == c \in {"idle", "busy", "answered"}
HasLoaded(s) == \E j \in DOMAIN s : s[j] = "MemoryLoaded"

\* What keeps the events of request r in order, of its host h, commander c with mail m,
\* stream s, client cl and the requests o whose commander outlived the shutdown:
\* the commander is silent until the command is sent, which is after MemoryLoaded; it
\* is down before the host persists; and the host ends with the terminal event.
InOrder(r, h, c, m, s, cl, o) ==
  /\ h \in {"new", "build"} => c = "none"
  /\ h \in Early => m = <<>> /\ c \in {"none", "idle"}
  /\ cl = "listening" /\ c # "none" /\ h \notin Early => HasLoaded(s)
  /\ h \in Late /\ r \notin o => ~Up(c)
  /\ \A i \in DOMAIN s : s[i] \in Ends => h = "done" /\ (r \notin o => i = Len(s))
  /\ \A i \in DOMAIN s : s[i] = "Progress" => \E j \in 1..i : s[j] = "MemoryLoaded"

Ordered(r) ==
  InOrder(r, host[r], commander[r], mailbox[r], Stream(r), client[r], overdue)

\* The inductive invariant.
IInv == Typed /\ (\A r \in Request : Ordered(r)) /\ ActiveWhileWorkedOn

----------------------------------------------------------------------------
(* Lemmas about one request                                                *)

\* The host goes on without sending.
LEMMA HostMoves ==
  ASSUME NEW r, NEW h \in Phase, NEW h2 \in Phase, NEW c, NEW m, NEW s, NEW cl, NEW o,
         InOrder(r, h, c, m, s, cl, o), h # "done", h2 # "done",
         h2 \in {"new", "build"} => h \in {"new", "build"},
         h2 \in Early => h \in Early,
         h2 \notin Early /\ h \in Early => c = "none" \/ cl # "listening" \/ HasLoaded(s),
         h2 \in Late => h \in Late \/ ~Up(c) \/ r \in o
  PROVE  InOrder(r, h2, c, m, s, cl, o)
  BY DEF InOrder

\* A longer stream: its old part and its last event.
LEMMA Appended ==
  ASSUME NEW s \in Seq(Event), NEW e \in Event
  PROVE  /\ Append(s, e) \in Seq(Event)
         /\ Len(Append(s, e)) = Len(s) + 1 /\ Len(s) \in Nat
         /\ DOMAIN s = 1..Len(s) /\ DOMAIN Append(s, e) = 1..(Len(s) + 1)
         /\ \A i \in 1..Len(s) : Append(s, e)[i] = s[i]
         /\ Append(s, e)[Len(s) + 1] = e
         /\ HasLoaded(s) \/ e = "MemoryLoaded" => HasLoaded(Append(s, e))
<1> DEFINE t == Append(s, e)
<1>1. /\ t \in Seq(Event) /\ Len(t) = Len(s) + 1 /\ t[Len(s) + 1] = e
      /\ \A i \in 1..Len(s) : t[i] = s[i]
  BY AppendProperties
<1>2. Len(s) \in Nat /\ DOMAIN s = 1..Len(s) /\ DOMAIN t = 1..(Len(s) + 1)
  BY <1>1, LenProperties
<1>3. HasLoaded(s) => HasLoaded(t)
  BY <1>1, <1>2 DEF HasLoaded
<1>4. e = "MemoryLoaded" => HasLoaded(t)
  BY <1>1, <1>2 DEF HasLoaded
<1> QED  BY <1>1, <1>2, <1>3, <1>4

\* An event that is neither terminal nor of the commander, before the end.
LEMMA HostEvent ==
  ASSUME NEW r, NEW h \in Phase, NEW c, NEW m, NEW s \in Seq(Event), NEW cl, NEW o,
         NEW e \in Event \ (Ends \cup {"Progress"}),
         InOrder(r, h, c, m, s, cl, o), h # "done"
  PROVE  InOrder(r, h, c, m, Append(s, e), cl, o)
<1> DEFINE t == Append(s, e)
<1>1. /\ DOMAIN s = 1..Len(s) /\ DOMAIN t = 1..(Len(s) + 1) /\ Len(s) \in Nat
      /\ \A i \in 1..Len(s) : t[i] = s[i]
      /\ t[Len(s) + 1] = e /\ (HasLoaded(s) => HasLoaded(t))
  BY Appended
<1>2. \A i \in DOMAIN t : t[i] \notin Ends
  BY <1>1 DEF InOrder
<1>3. ASSUME NEW i \in DOMAIN t, t[i] = "Progress" PROVE \E j \in 1..i : t[j] = "MemoryLoaded"
  <2>1. i \in DOMAIN s /\ s[i] = "Progress"
    BY <1>1, <1>3
  <2>2. PICK j \in 1..i : s[j] = "MemoryLoaded"
    BY <2>1 DEF InOrder
  <2> QED  BY <1>1, <2>1, <2>2
<1> HIDE DEF t
<1>4. InOrder(r, h, c, m, t, cl, o)
  BY <1>1, <1>2, <1>3 DEF InOrder
<1> QED  BY <1>4 DEF t

\* The terminal event, or none when nobody listens.
LEMMA TerminalEvent ==
  ASSUME NEW r, NEW c, NEW m, NEW s \in Seq(Event), NEW cl, NEW o, NEW e \in Ends,
         InOrder(r, "terminal", c, m, s, cl, o)
  PROVE  /\ InOrder(r, "done", c, m, Append(s, e), cl, o)
         /\ InOrder(r, "done", c, m, s, cl, o)
<1> DEFINE t == Append(s, e)
<1>1. e \in Event /\ e # "Progress"
  BY DEF Event, Lifecycle, Ends
<1>2. /\ DOMAIN s = 1..Len(s) /\ DOMAIN t = 1..(Len(s) + 1) /\ Len(s) \in Nat
      /\ Len(t) = Len(s) + 1
      /\ \A i \in 1..Len(s) : t[i] = s[i]
      /\ t[Len(s) + 1] = e /\ (HasLoaded(s) => HasLoaded(t))
  BY <1>1, Appended
<1>3. \A i \in DOMAIN s : s[i] \notin Ends
  BY DEF InOrder
<1>4. \A i \in DOMAIN t : t[i] \in Ends => i = Len(t)
  BY <1>2, <1>3
<1>5. ASSUME NEW i \in DOMAIN t, t[i] = "Progress" PROVE \E j \in 1..i : t[j] = "MemoryLoaded"
  <2>1. i \in DOMAIN s /\ s[i] = "Progress"
    BY <1>1, <1>2, <1>5
  <2>2. PICK j \in 1..i : s[j] = "MemoryLoaded"
    BY <2>1 DEF InOrder
  <2> QED  BY <1>2, <2>1, <2>2
<1>6. InOrder(r, "done", c, m, s, cl, o)
  BY <1>3 DEF InOrder, Early, Late
<1> HIDE DEF t
<1>7. InOrder(r, "done", c, m, t, cl, o)
  BY <1>2, <1>4, <1>5 DEF InOrder, Early, Late
<1> QED  BY <1>6, <1>7 DEF t

\* An event of a busy commander that somebody listens to: the command was sent, and
\* if the stream has ended the commander outlived the shutdown.
LEMMA ProgressEvent ==
  ASSUME NEW r, NEW h \in Phase, NEW c \in {"busy", "answered"}, NEW m,
         NEW s \in Seq(Event), NEW o, InOrder(r, h, c, m, s, "listening", o)
  PROVE  InOrder(r, h, c, m, Append(s, "Progress"), "listening", o)
<1> DEFINE t == Append(s, "Progress")
<1>1. "Progress" \in Event /\ "Progress" \notin Ends
  BY DEF Event, Ends
<1>2. /\ DOMAIN s = 1..Len(s) /\ DOMAIN t = 1..(Len(s) + 1) /\ Len(s) \in Nat
      /\ \A i \in 1..Len(s) : t[i] = s[i]
      /\ t[Len(s) + 1] = "Progress" /\ (HasLoaded(s) => HasLoaded(t))
  BY <1>1, Appended
<1>3. h \notin Early /\ HasLoaded(s)
  BY DEF InOrder
<1>4. \A i \in DOMAIN t : t[i] \in Ends => h = "done" /\ r \in o
  BY <1>1, <1>2 DEF InOrder, Up, Late
<1>5. ASSUME NEW i \in DOMAIN t, t[i] = "Progress" PROVE \E j \in 1..i : t[j] = "MemoryLoaded"
  <2>1. CASE i \in DOMAIN s
    <3>1. PICK j \in 1..i : s[j] = "MemoryLoaded"
      BY <1>2, <1>5, <2>1 DEF InOrder
    <3> QED  BY <1>2, <2>1, <3>1
  <2>2. CASE i = Len(s) + 1
    BY <1>2, <1>3, <2>2 DEF HasLoaded
  <2> QED  BY <1>2, <2>1, <2>2
<1> HIDE DEF t
<1>6. InOrder(r, h, c, m, t, "listening", o)
  BY <1>2, <1>3, <1>4, <1>5 DEF InOrder
<1> QED  BY <1>6 DEF t

\* The commander goes on or ends, with mail taken from its mailbox.
LEMMA CommanderMoves ==
  ASSUME NEW r, NEW h, NEW c, NEW m, NEW s, NEW cl, NEW o, NEW c2 \in Commander \ {"none", "idle"},
         NEW m2, InOrder(r, h, c, m, s, cl, o), h \notin Early, c # "none",
         Up(c2) => Up(c)
  PROVE  InOrder(r, h, c2, m2, s, cl, o)
  BY DEF InOrder, Early

\* What the client has read when it hangs up.
LEMMA ClientGoes ==
  ASSUME NEW r, NEW h, NEW c, NEW m, NEW s \in Seq(Event), NEW t \in Seq(Event), NEW cl, NEW o,
         InOrder(r, h, c, m, s \o t, cl, o)
  PROVE  InOrder(r, h, c, m, s, "gone", o)
<1>1. /\ DOMAIN s = 1..Len(s) /\ DOMAIN (s \o t) = 1..(Len(s) + Len(t))
      /\ Len(s) \in Nat /\ Len(t) \in Nat /\ Len(s \o t) = Len(s) + Len(t)
      /\ \A i \in 1..Len(s) : (s \o t)[i] = s[i]
  BY ConcatProperties, LenProperties
<1>2. ASSUME NEW i \in DOMAIN s, s[i] \in Ends PROVE h = "done" /\ (r \notin o => i = Len(s))
  BY <1>1, <1>2 DEF InOrder
<1>3. ASSUME NEW i \in DOMAIN s, s[i] = "Progress" PROVE \E j \in 1..i : s[j] = "MemoryLoaded"
  <2>1. PICK j \in 1..i : (s \o t)[j] = "MemoryLoaded"
    BY <1>1, <1>3 DEF InOrder
  <2> QED  BY <1>1, <2>1
<1> QED  BY <1>2, <1>3 DEF InOrder

----------------------------------------------------------------------------
(* What the actions do to the requests                                     *)

\* Nothing of request q has changed.
Alike(q) ==
  /\ host'[q] = host[q] /\ commander'[q] = commander[q] /\ mailbox'[q] = mailbox[q]
  /\ Stream(q)' = Stream(q) /\ client'[q] = client[q] /\ (q \in overdue' => q \in overdue)
  /\ (q \in overdue => q \in overdue')

LEMMA AlikeKeeps ==
  ASSUME NEW q, Ordered(q), Alike(q) PROVE Ordered(q)'
  BY DEF Ordered, Alike, InOrder

\* A stream is a sequence of events.
LEMMA StreamIsTyped ==
  ASSUME Typed, NEW r \in Request PROVE Stream(r) \in Seq(Event)
  BY ConcatProperties DEF Typed, Stream

\* Where the read part ends and the channel begins makes no difference.
LEMMA Regroup ==
  ASSUME NEW s \in Seq(Event), NEW t \in Seq(Event), NEW e \in Event
  PROVE  s \o Append(t, e) = Append(s \o t, e)
OBVIOUS

LEMMA RegroupHead ==
  ASSUME NEW s \in Seq(Event), NEW t \in Seq(Event), t # <<>>
  PROVE  Append(s, Head(t)) \o Tail(t) = s \o t
OBVIOUS

\* What was read is the first part of the stream.
LEMMA ReadPart ==
  ASSUME NEW s \in Seq(Event), NEW t \in Seq(Event), NEW i \in DOMAIN s
  PROVE  i \in DOMAIN (s \o t) /\ (s \o t)[i] = s[i]
OBVIOUS

\* An event that enters the channel of r is the last of its stream.
LEMMA Enters ==
  ASSUME Typed, NEW r \in Request, NEW e \in Event, received' = received,
         events' = [events EXCEPT ![r] = Append(@, e)]
  PROVE  /\ events' \in [Request -> Seq(Event)]
         /\ Stream(r)' = Append(Stream(r), e)
         /\ \A q \in Request \ {r} : Stream(q)' = Stream(q)
<1> DEFINE s == received[r]  t == events[r]
<1>1. s \in Seq(Event) /\ t \in Seq(Event) /\ events \in [Request -> Seq(Event)]
  BY DEF Typed
<1>2. events'[r] = Append(t, e) /\ \A q \in Request \ {r} : events'[q] = events[q]
  BY <1>1
<1>3. Append(t, e) \in Seq(Event)
  BY <1>1, AppendProperties
<1>4. s \o Append(t, e) = Append(s \o t, e)
  BY <1>1, Regroup
<1> QED  BY <1>1, <1>2, <1>3, <1>4 DEF Stream

\* A sent event: on the stream of a listening client, and nowhere otherwise.
LEMMA SendEffect ==
  ASSUME Typed, NEW r \in Request, NEW e \in Event, Send(r, e), received' = received
  PROVE  /\ events' \in [Request -> Seq(Event)]
         /\ client[r] = "listening" => Stream(r)' = Append(Stream(r), e)
         /\ client[r] # "listening" => Stream(r)' = Stream(r)
         /\ \A q \in Request \ {r} : Stream(q)' = Stream(q)
<1>1. CASE client[r] = "listening"
  BY <1>1, Enters DEF Send
<1>2. CASE client[r] # "listening"
  BY <1>2 DEF Send, Stream, Typed
<1> QED  BY <1>1, <1>2

\* A client that reads moves an event from one part of its stream to the other.
LEMMA ReadEffect ==
  ASSUME Typed, NEW r \in Request, Read(r)
  PROVE  /\ events' \in [Request -> Seq(Event)] /\ received' \in [Request -> Seq(Event)]
         /\ \A q \in Request : Stream(q)' = Stream(q)
<1> DEFINE s == received[r]  t == events[r]
<1>1. s \in Seq(Event) /\ t \in Seq(Event) /\ t # <<>>
  BY DEF Typed, Read
<1>2. Head(t) \in Event /\ Tail(t) \in Seq(Event)
  BY <1>1, HeadTailProperties
<1>3. /\ received'[r] = Append(s, Head(t)) /\ events'[r] = Tail(t)
      /\ \A q \in Request \ {r} : received'[q] = received[q] /\ events'[q] = events[q]
      /\ events' = [events EXCEPT ![r] = Tail(t)]
      /\ received' = [received EXCEPT ![r] = Append(s, Head(t))]
  BY DEF Read, Typed
<1>4. Append(s, Head(t)) \o Tail(t) = s \o t
  BY <1>1, RegroupHead
<1>5. Append(s, Head(t)) \in Seq(Event)
  BY <1>1, <1>2, AppendProperties
<1>6. \A q \in Request : Stream(q)' = Stream(q)
  BY <1>3, <1>4 DEF Stream
<1> QED  BY <1>2, <1>3, <1>5, <1>6 DEF Typed

\* Emit, with an event that does not end the stream: MemoryLoaded before the host
\* sends the command, and others in places where they are harmless.
LEMMA EmitKeeps ==
  ASSUME IInv, NEW r \in Request, NEW phase \in Phase \ {"done"}, NEW next \in Phase \ {"done"},
         NEW e \in Event \ (Ends \cup {"Progress"}), Emit(r, phase, e, next),
         next \notin {"new", "build"},
         next \in Early => phase \in Early,
         phase \in Early /\ next \notin Early => e = "MemoryLoaded",
         next \in Late => phase \in Late
  PROVE  Typed' /\ \A q \in Request : Ordered(q)'
<1> DEFINE h == host[r]  c == commander[r]  m == mailbox[r]  s == Stream(r)  cl == client[r]
<1> USE DEF IInv
<1>1. /\ h = phase /\ host' = [host EXCEPT ![r] = next] /\ Send(r, e)
      /\ UNCHANGED <<commander, mailbox, client, received, overdue>>
  BY DEF Emit, At, Goto, commanderVars
<1>2. /\ events' \in [Request -> Seq(Event)]
      /\ cl = "listening" => Stream(r)' = Append(s, e)
      /\ cl # "listening" => Stream(r)' = s
      /\ \A q \in Request \ {r} : Stream(q)' = Stream(q)
  BY <1>1, SendEffect
<1>3. Typed' /\ host'[r] = next /\ \A q \in Request \ {r} : host'[q] = host[q]
  BY <1>1, <1>2 DEF Typed
<1>4. \A q \in Request \ {r} : Ordered(q)'
  BY <1>1, <1>2, <1>3, AlikeKeeps DEF Alike
<1>5. s \in Seq(Event) /\ InOrder(r, h, c, m, s, cl, overdue)
  BY StreamIsTyped DEF Ordered
<1>6. CASE cl = "listening"
  <2>1. InOrder(r, h, c, m, Append(s, e), cl, overdue)
    BY <1>1, <1>5, HostEvent
  <2>2. e = "MemoryLoaded" => HasLoaded(Append(s, e))
    BY <1>5, Appended
  <2>3. InOrder(r, next, c, m, Append(s, e), cl, overdue)
    BY <1>1, <2>1, <2>2, HostMoves
  <2> QED  BY <1>1, <1>2, <1>3, <1>4, <1>6, <2>3 DEF Ordered
<1>7. CASE cl # "listening"
  <2>1. InOrder(r, next, c, m, s, cl, overdue)
    BY <1>1, <1>5, <1>7, HostMoves
  <2> QED  BY <1>1, <1>2, <1>3, <1>4, <1>7, <2>1 DEF Ordered
<1> QED  BY <1>6, <1>7

LEMMA TerminalKeeps ==
  ASSUME IInv, NEW r \in Request, EmitTerminal(r)
  PROVE  Typed' /\ \A q \in Request : Ordered(q)'
<1> DEFINE c == commander[r]  m == mailbox[r]  s == Stream(r)  cl == client[r]
           e == IF outcome[r] = "ok" THEN "Finished" ELSE "Failed"
<1> USE DEF IInv
<1>1. /\ host[r] = "terminal" /\ host' = [host EXCEPT ![r] = "done"] /\ Send(r, e)
      /\ UNCHANGED <<commander, mailbox, client, received, overdue>>
  BY DEF EmitTerminal, Emit, At, Goto, commanderVars
<1>2. e \in Ends /\ e \in Event
  BY DEF Ends, Event, Lifecycle
<1> HIDE DEF e
<1>3. /\ events' \in [Request -> Seq(Event)]
      /\ cl = "listening" => Stream(r)' = Append(s, e)
      /\ cl # "listening" => Stream(r)' = s
      /\ \A q \in Request \ {r} : Stream(q)' = Stream(q)
  BY <1>1, <1>2, SendEffect
<1>4. Typed' /\ host'[r] = "done" /\ \A q \in Request \ {r} : host'[q] = host[q]
  BY <1>1, <1>3 DEF Typed, Phase
<1>5. \A q \in Request \ {r} : Ordered(q)'
  BY <1>1, <1>3, <1>4, AlikeKeeps DEF Alike
<1>6. s \in Seq(Event) /\ InOrder(r, "terminal", c, m, s, cl, overdue)
  BY <1>1, StreamIsTyped DEF Ordered
<1>7. InOrder(r, "done", c, m, Append(s, e), cl, overdue) /\ InOrder(r, "done", c, m, s, cl, overdue)
  BY <1>2, <1>6, TerminalEvent
<1> QED  BY <1>1, <1>3, <1>4, <1>5, <1>7 DEF Ordered

\* Steps of the host that send nothing and leave the commander alone.
LEMMA QuietKeeps ==
  ASSUME IInv, NEW r \in Request, NEW next \in Phase \ {"done"},
         host' = [host EXCEPT ![r] = next], host[r] # "done",
         UNCHANGED <<commander, mailbox, client, events, received>>,
         overdue \subseteq overdue', overdue' \subseteq overdue \cup {r},
         next \in {"new", "build"} => host[r] \in {"new", "build"},
         next \in Early => host[r] \in Early,
         next \notin Early /\ host[r] \in Early => commander[r] = "none",
         next \in Late => host[r] \in Late \/ ~Up(commander[r]) \/ r \in overdue'
  PROVE  Typed' /\ \A q \in Request : Ordered(q)'
<1> DEFINE c == commander[r]  m == mailbox[r]  s == Stream(r)  cl == client[r]
<1> USE DEF IInv
<1>1. Typed' /\ host'[r] = next /\ \A q \in Request \ {r} : host'[q] = host[q]
  BY DEF Typed
<1>2. \A q \in Request : Stream(q)' = Stream(q)
  BY DEF Stream
<1>3. \A q \in Request \ {r} : Ordered(q)'
  BY <1>1, <1>2, AlikeKeeps DEF Alike
<1>4. InOrder(r, host[r], c, m, s, cl, overdue')
  BY DEF Ordered, InOrder
<1>5. InOrder(r, next, c, m, s, cl, overdue')
  BY <1>4, HostMoves DEF Typed
<1> QED  BY <1>1, <1>2, <1>3, <1>5 DEF Ordered

----------------------------------------------------------------------------
(* The actions                                                             *)

\* A step of one request leaves the others in order.
LEMMA OneMoves ==
  ASSUME IInv, NEW r \in Request, Typed', \A q \in Request \ {r} : Alike(q),
         InOrder(r, host'[r], commander'[r], mailbox'[r], Stream(r)', client'[r], overdue')
  PROVE  Typed' /\ \A q \in Request : Ordered(q)'
<1>1. \A q \in Request \ {r} : Ordered(q)'
  BY AlikeKeeps DEF IInv
<1>2. Ordered(r)'
  BY DEF Ordered
<1> QED  BY <1>1, <1>2

\* run_request and run_stream: a stream that nobody has written to.
LEMMA SubmitKeeps ==
  ASSUME IInv, NEW r \in Request, Submit(r)
  PROVE  Typed' /\ \A q \in Request : Ordered(q)'
<1> USE DEF IInv
<1>1. /\ host[r] = "new" /\ host' = [host EXCEPT ![r] = "build"]
      /\ client' = [client EXCEPT ![r] = IF r \in Streamed THEN "listening" ELSE @]
      /\ UNCHANGED <<commander, mailbox, events, received, overdue>>
  BY DEF Submit, At, Goto, commanderVars
<1>2. Typed' /\ host'[r] = "build"
  BY <1>1 DEF Typed, Phase
<1>3. \A q \in Request : Stream(q)' = Stream(q)
  BY <1>1 DEF Stream
<1>4. \A q \in Request \ {r} : Alike(q)
  BY <1>1, <1>3 DEF Alike, Typed
<1>5. InOrder(r, "build", commander[r], mailbox[r], Stream(r), client'[r], overdue)
  BY <1>1 DEF Ordered, InOrder, Early, Late
<1> QED  BY <1>1, <1>2, <1>3, <1>4, <1>5, OneMoves

\* The commander is started, or the request fails.
LEMMA BuildKeeps ==
  ASSUME IInv, NEW r \in Request, Build(r)
  PROVE  Typed' /\ \A q \in Request : Ordered(q)'
<1> USE DEF IInv
<1>1. /\ host[r] = "build"
      /\ UNCHANGED <<mailbox, client, events, received, overdue>>
  BY DEF Build, At, streamVars
<1>2. InOrder(r, "build", commander[r], mailbox[r], Stream(r), client[r], overdue)
  BY <1>1 DEF Ordered
<1>3. CASE /\ host' = [host EXCEPT ![r] = "started"]
           /\ commander' = [commander EXCEPT ![r] = "idle"]
  <2>1. Typed' /\ host'[r] = "started" /\ commander'[r] = "idle"
    BY <1>1, <1>3 DEF Typed, Phase, Commander
  <2>2. \A q \in Request : Stream(q)' = Stream(q)
    BY <1>1 DEF Stream
  <2>3. \A q \in Request \ {r} : Alike(q)
    BY <1>1, <1>3, <2>2 DEF Alike, Typed
  <2>4. InOrder(r, "started", "idle", mailbox[r], Stream(r), client[r], overdue)
    BY <1>2 DEF InOrder, Early, Late
  <2> QED  BY <1>1, <2>1, <2>2, <2>3, <2>4, OneMoves
<1>4. CASE host' = [host EXCEPT ![r] = "remove"] /\ commander' = commander
  <2>1. commander[r] = "none"
    BY <1>2 DEF InOrder
  <2>2. "remove" \in Phase \ {"done"} /\ "remove" \notin Early /\ ~Up("none")
    BY DEF Phase, Early, Up
  <2> QED  BY <1>1, <1>4, <2>1, <2>2, QuietKeeps
<1> QED  BY <1>3, <1>4 DEF Build, Goto

\* Mail to the commander of a session that is past the start of its stream.
LEMMA MailKeeps ==
  ASSUME IInv, NEW r \in Request, NEW next \in Phase \ ({"done"} \cup Early \cup Late),
         NEW kind \in {"command", "shutdown"}, host[r] \notin Early \cup {"done"},
         host' = [host EXCEPT ![r] = next],
         \/ mailbox' = mailbox
         \/ mailbox' = [mailbox EXCEPT ![r] = Append(@, kind)],
         UNCHANGED <<commander, client, events, received, overdue>>
  PROVE  Typed' /\ \A q \in Request : Ordered(q)'
<1> USE DEF IInv
<1>1. Append(mailbox[r], kind) \in Seq({"command", "shutdown"})
  BY AppendProperties DEF Typed
<1>2. Typed' /\ host'[r] = next
  BY <1>1 DEF Typed
<1>3. \A q \in Request : Stream(q)' = Stream(q)
  BY DEF Stream
<1>4. \A q \in Request \ {r} : Alike(q)
  BY <1>3 DEF Alike, Typed
<1>5. InOrder(r, next, commander[r], mailbox'[r], Stream(r), client[r], overdue)
  BY DEF Ordered, InOrder, Early
<1> QED  BY <1>2, <1>3, <1>4, <1>5, OneMoves

\* The commander takes its mail, answers or ends; it has got mail before.
LEMMA CommanderKeeps ==
  ASSUME IInv, NEW r \in Request, NEW next \in Commander \ {"none", "idle"},
         commander' = [commander EXCEPT ![r] = next], Up(commander[r]),
         mailbox[r] # <<>> \/ commander[r] = "busy",
         \/ mailbox' = mailbox
         \/ mailbox' = [mailbox EXCEPT ![r] = <<>>]
         \/ mailbox[r] # <<>> /\ mailbox' = [mailbox EXCEPT ![r] = Tail(@)],
         UNCHANGED <<host, client, events, received, overdue>>
  PROVE  Typed' /\ \A q \in Request : Ordered(q)'
<1> USE DEF IInv
<1>1. mailbox' \in [Request -> Seq({"command", "shutdown"})]
  <2>1. mailbox[r] # <<>> => Tail(mailbox[r]) \in Seq({"command", "shutdown"})
    BY HeadTailProperties DEF Typed
  <2>2. <<>> \in Seq({"command", "shutdown"})
    OBVIOUS
  <2> QED  BY <2>1, <2>2 DEF Typed
<1>2. Typed' /\ commander'[r] = next
  BY <1>1 DEF Typed
<1>3. \A q \in Request : Stream(q)' = Stream(q)
  BY DEF Stream
<1>4. \A q \in Request \ {r} : Alike(q)
  BY <1>3 DEF Alike, Typed
<1>5. host[r] \notin Early /\ commander[r] # "none"
  BY DEF Ordered, InOrder, Up
<1>6. InOrder(r, host[r], next, mailbox'[r], Stream(r), client[r], overdue)
  BY <1>5, CommanderMoves DEF Ordered
<1> QED  BY <1>2, <1>3, <1>4, <1>6, OneMoves

\* An event of the commander, or none when the channel is full or nobody listens.
LEMMA ProgressKeeps ==
  ASSUME IInv, NEW r \in Request, EmitProgress(r)
  PROVE  Typed' /\ \A q \in Request : Ordered(q)'
<1> USE DEF IInv
<1>1. /\ commander[r] \in {"busy", "answered"} /\ Offer(r, "Progress")
      /\ UNCHANGED <<host, commander, mailbox, client, received, overdue>>
  BY DEF EmitProgress, hostVars
<1>2. InOrder(r, host[r], commander[r], mailbox[r], Stream(r), client[r], overdue)
  BY DEF Ordered
<1>3. CASE client[r] = "listening" /\ HasRoom(r)
  <2>1. "Progress" \in Event
    BY DEF Event
  <2>2. /\ events' \in [Request -> Seq(Event)]
        /\ Stream(r)' = Append(Stream(r), "Progress")
        /\ \A q \in Request \ {r} : Stream(q)' = Stream(q)
    BY <1>1, <1>3, <2>1, Enters DEF Offer
  <2>3. Typed'
    BY <1>1, <2>2 DEF Typed
  <2>4. \A q \in Request \ {r} : Alike(q)
    BY <1>1, <2>2 DEF Alike
  <2>5. host[r] \in Phase /\ Stream(r) \in Seq(Event)
    BY StreamIsTyped DEF Typed
  <2>6. InOrder(r, host[r], commander[r], mailbox[r], Append(Stream(r), "Progress"), "listening", overdue)
    BY <1>1, <1>2, <1>3, <2>5, ProgressEvent
  <2> QED  BY <1>1, <1>3, <2>2, <2>3, <2>4, <2>6, OneMoves
<1>4. CASE ~(client[r] = "listening" /\ HasRoom(r))
  <2>1. events' = events
    BY <1>1, <1>4 DEF Offer
  <2>2. Typed' /\ \A q \in Request : Stream(q)' = Stream(q)
    BY <1>1, <2>1 DEF Typed, Stream
  <2>3. \A q \in Request : Alike(q)
    BY <1>1, <2>2 DEF Alike
  <2> QED  BY <2>2, <2>3, AlikeKeeps
<1> QED  BY <1>3, <1>4

\* The client reads an event, which stays in its stream.
LEMMA ReadKeeps ==
  ASSUME IInv, NEW r \in Request, Read(r)
  PROVE  Typed' /\ \A q \in Request : Ordered(q)'
<1> USE DEF IInv
<1>1. UNCHANGED <<host, commander, mailbox, client, overdue>>
  BY DEF Read, hostVars, commanderVars
<1>2. /\ events' \in [Request -> Seq(Event)] /\ received' \in [Request -> Seq(Event)]
      /\ \A q \in Request : Stream(q)' = Stream(q)
  BY ReadEffect
<1>3. Typed' /\ \A q \in Request : Alike(q)
  BY <1>1, <1>2 DEF Typed, Alike
<1> QED  BY <1>3, AlikeKeeps

\* The client goes: what it has not read is lost.
LEMMA HangUpKeeps ==
  ASSUME IInv, NEW r \in Request, HangUp(r)
  PROVE  Typed' /\ \A q \in Request : Ordered(q)'
<1> USE DEF IInv
<1>1. /\ client' = [client EXCEPT ![r] = "gone"] /\ events' = [events EXCEPT ![r] = <<>>]
      /\ UNCHANGED <<host, commander, mailbox, received, overdue>>
  BY DEF HangUp, hostVars, commanderVars
<1>2. <<>> \in Seq(Event)
  OBVIOUS
<1>3. Typed' /\ client'[r] = "gone" /\ events'[r] = <<>> /\ received[r] \in Seq(Event)
  BY <1>1, <1>2 DEF Typed
<1>4. Stream(r)' = received[r]
  <2>1. received[r] \o <<>> = received[r]
    BY <1>3, ConcatEmptySeq
  <2> QED  BY <1>1, <1>3, <2>1 DEF Stream
<1>5. \A q \in Request \ {r} : Alike(q)
  BY <1>1 DEF Alike, Typed, Stream
<1>6. InOrder(r, host[r], commander[r], mailbox[r], received[r], "gone", overdue)
  <2>1. events[r] \in Seq(Event)
    BY DEF Typed
  <2> QED  BY <1>3, <2>1, ClientGoes DEF Ordered, Stream
<1> QED  BY <1>1, <1>3, <1>4, <1>5, <1>6, OneMoves

----------------------------------------------------------------------------
(* The registry                                                            *)

\* Steps that neither register nor remove a session.
LEMMA RegistryRests ==
  ASSUME IInv, NEW r \in Request, NEW next \in Phase \ {"new"}, UNCHANGED <<session, registry>>,
         host' = [host EXCEPT ![r] = next], host[r] # "new",
         next \in {"terminal", "done"} <=> host[r] \in {"terminal", "done"}
  PROVE  ActiveWhileWorkedOn'
<1>1. \A q \in Request : /\ host'[q] = "new" <=> host[q] = "new"
                         /\ host'[q] \in {"new", "terminal", "done"}
                            <=> host[q] \in {"new", "terminal", "done"}
  BY DEF IInv, Typed
<1>2. \A q \in Request : Sole(q)' => Sole(q)
  BY <1>1 DEF Sole, At
<1> QED  BY <1>1, <1>2 DEF IInv, ActiveWhileWorkedOn

LEMMA RegistryUntouched ==
  ASSUME IInv, UNCHANGED <<session, registry, host>>
  PROVE  ActiveWhileWorkedOn'
BY DEF IInv, ActiveWhileWorkedOn, Sole, At

\* register_session: the session of a request that was new.
LEMMA SubmitRegisters ==
  ASSUME IInv, NEW r \in Request, Submit(r)
  PROVE  ActiveWhileWorkedOn'
<1>1. /\ host[r] = "new" /\ host'[r] = "build" /\ session' = session
      /\ registry' = registry \cup {session[r]}
      /\ \A q \in Request \ {r} : host'[q] = host[q]
  BY DEF Submit, At, Goto, IInv, Typed
<1> SUFFICES ASSUME NEW q \in Request, Sole(q)'
             PROVE  session[q] \in registry' <=> host'[q] \notin {"new", "terminal", "done"}
  BY <1>1 DEF ActiveWhileWorkedOn
<1>2. CASE q = r
  BY <1>1, <1>2
<1>3. CASE q # r
  <2>1. session[q] # session[r]
    BY <1>1, <1>3 DEF Sole, At
  <2>2. Sole(q)
    BY <1>1 DEF Sole, At
  <2> QED  BY <1>1, <1>3, <2>1, <2>2 DEF IInv, ActiveWhileWorkedOn
<1> QED  BY <1>2, <1>3

\* remove_session_from: the session of a request that is over.
LEMMA RemoveUnregisters ==
  ASSUME IInv, NEW r \in Request, Remove(r)
  PROVE  ActiveWhileWorkedOn'
<1>1. /\ host[r] = "remove" /\ host'[r] = "terminal" /\ session' = session
      /\ registry' = registry \ {session[r]}
      /\ \A q \in Request \ {r} : host'[q] = host[q]
  BY DEF Remove, At, Goto, IInv, Typed
<1> SUFFICES ASSUME NEW q \in Request, Sole(q)'
             PROVE  session[q] \in registry' <=> host'[q] \notin {"new", "terminal", "done"}
  BY <1>1 DEF ActiveWhileWorkedOn
<1>2. CASE q = r
  BY <1>1, <1>2
<1>3. CASE q # r
  <2>1. session[q] # session[r]
    BY <1>1, <1>3 DEF Sole, At
  <2>2. Sole(q)
    BY <1>1 DEF Sole, At
  <2> QED  BY <1>1, <1>3, <2>1, <2>2 DEF IInv, ActiveWhileWorkedOn
<1> QED  BY <1>2, <1>3

----------------------------------------------------------------------------
(* The invariant                                                           *)

LEMMA InitHolds ==
  ASSUME Init PROVE IInv
<1>1. Typed
  <2>1. <<>> \in Seq(Event) /\ <<>> \in Seq({"command", "shutdown"})
    OBVIOUS
  <2> QED  BY <2>1 DEF Init, Typed, Phase, Commander
<1>2. ASSUME NEW r \in Request PROVE Ordered(r)
  <2>1. Stream(r) = <<>>
    BY ConcatEmptySeq DEF Init, Stream
  <2>2. InOrder(r, "new", "none", <<>>, <<>>, "none", {})
    BY DEF InOrder, Early, Late
  <2> QED  BY <2>1, <2>2 DEF Init, Ordered
<1>3. ActiveWhileWorkedOn
  BY DEF Init, ActiveWhileWorkedOn
<1> QED  BY <1>1, <1>2, <1>3 DEF IInv

LEMMA HostKeeps ==
  ASSUME IInv, NEW r \in Request, HostStep(r)
  PROVE  Typed' /\ (\A q \in Request : Ordered(q)') /\ ActiveWhileWorkedOn'
<1> USE DEF Phase, Early, Late
<1>0. /\ "Started" \in Event \ (Ends \cup {"Progress"})
      /\ "MemoryLoaded" \in Event \ (Ends \cup {"Progress"})
      /\ "CommanderThinking" \in Event \ (Ends \cup {"Progress"})
      /\ "Output" \in Event \ (Ends \cup {"Progress"})
      /\ "MemoryCompacted" \in Event \ (Ends \cup {"Progress"})
      /\ "MemoryPersisted" \in Event \ (Ends \cup {"Progress"})
  BY DEF Event, Lifecycle, Ends
<1>1. CASE Build(r)
  <2>1. ActiveWhileWorkedOn'
    <3>1. UNCHANGED <<session, registry>> /\ host[r] = "build"
      BY <1>1 DEF Build, At, managerVars
    <3>2. CASE host' = [host EXCEPT ![r] = "started"]
      BY <3>1, <3>2, RegistryRests
    <3>3. CASE host' = [host EXCEPT ![r] = "remove"]
      BY <3>1, <3>3, RegistryRests
    <3> QED  BY <1>1, <3>2, <3>3 DEF Build, Goto
  <2> QED  BY <1>1, <2>1, BuildKeeps
<1>2. ASSUME NEW phase \in Phase, NEW next \in Phase, NEW e, Emit(r, phase, e, next),
             phase \notin {"new", "terminal", "done"}, next \notin {"new", "terminal", "done"}
      PROVE  ActiveWhileWorkedOn'
  BY <1>2, RegistryRests DEF Emit, At, Goto, managerVars
<1>3. CASE EmitStarted(r)
  BY <1>0, <1>2, <1>3, EmitKeeps DEF EmitStarted
<1>4. CASE EmitMemoryLoaded(r)
  BY <1>0, <1>2, <1>4, EmitKeeps DEF EmitMemoryLoaded
<1>5. CASE SendCommand(r)
  <2>1. /\ host[r] = "command" /\ host' = [host EXCEPT ![r] = "thinking"]
        /\ mailbox' = [mailbox EXCEPT ![r] = Append(@, "command")]
        /\ UNCHANGED <<session, registry, commander, client, events, received, overdue>>
    BY <1>5 DEF SendCommand, At, Goto, managerVars, streamVars
  <2> QED  BY <2>1, MailKeeps, RegistryRests
<1>6. CASE EmitThinking(r)
  BY <1>0, <1>2, <1>6, EmitKeeps DEF EmitThinking
<1>7. CASE ReceiveAnswer(r)
  <2>1. /\ host[r] = "waiting" /\ host' = [host EXCEPT ![r] = "output"]
        /\ UNCHANGED <<session, registry, commander, mailbox, client, events, received, overdue>>
    BY <1>7 DEF ReceiveAnswer, At, Goto, managerVars, commanderVars, streamVars
  <2> QED  BY <2>1, QuietKeeps, RegistryRests
<1>8. CASE GiveUp(r)
  <2>1. /\ host[r] = "waiting" /\ host' = [host EXCEPT ![r] = "stopping"]
        /\ UNCHANGED <<session, registry, commander, mailbox, client, events, received, overdue>>
    BY <1>8 DEF GiveUp, At, Goto, managerVars, commanderVars, streamVars
  <2> QED  BY <2>1, QuietKeeps, RegistryRests
<1>9. CASE EmitOutput(r)
  BY <1>0, <1>2, <1>9, EmitKeeps DEF EmitOutput
<1>10. CASE SendShutdown(r)
  <2>1. /\ host[r] = "stopping" /\ host' = [host EXCEPT ![r] = "joining"]
        /\ \/ mailbox' = mailbox
           \/ mailbox' = [mailbox EXCEPT ![r] = Append(@, "shutdown")]
        /\ UNCHANGED <<session, registry, commander, client, events, received, overdue>>
    BY <1>10 DEF SendShutdown, At, Goto, managerVars, streamVars
  <2> QED  BY <2>1, MailKeeps, RegistryRests
<1>11. CASE Join(r)
  <2>1. /\ host[r] = "joining" /\ host' = [host EXCEPT ![r] = "persist"]
        /\ UNCHANGED <<session, registry, commander, mailbox, client, events, received>>
        /\ (~Up(commander[r]) /\ overdue' = overdue) \/ overdue' = overdue \cup {r}
    BY <1>11 DEF Join, At, Goto, CommanderUp, Up, managerVars, commanderVars, streamVars
  <2>2. /\ overdue \subseteq overdue' /\ overdue' \subseteq overdue \cup {r}
        /\ ~Up(commander[r]) \/ r \in overdue'
    BY <2>1
  <2> QED  BY <2>1, <2>2, QuietKeeps, RegistryRests
<1>12. CASE Persist(r)
  <2>1. /\ host[r] = "persist"
        /\ UNCHANGED <<session, registry, commander, mailbox, client, events, received, overdue>>
    BY <1>12 DEF Persist, At, managerVars, commanderVars, streamVars
  <2>2. \E next \in {"remove", "compacted", "panicked"} : host' = [host EXCEPT ![r] = next]
    BY <1>12 DEF Persist, Goto
  <2> QED  BY <2>1, <2>2, QuietKeeps, RegistryRests
<1>13. CASE EmitCompacted(r)
  BY <1>0, <1>2, <1>13, EmitKeeps DEF EmitCompacted
<1>14. CASE EmitPersisted(r)
  BY <1>0, <1>2, <1>14, EmitKeeps DEF EmitPersisted
<1>15. CASE Remove(r)
  <2>1. /\ host[r] = "remove" /\ host' = [host EXCEPT ![r] = "terminal"]
        /\ UNCHANGED <<commander, mailbox, client, events, received, overdue>>
    BY <1>15 DEF Remove, At, Goto, commanderVars, streamVars
  <2> QED  BY <1>15, <2>1, QuietKeeps, RemoveUnregisters
<1>16. CASE EmitTerminal(r)
  <2>1. /\ host[r] = "terminal" /\ host' = [host EXCEPT ![r] = "done"]
        /\ UNCHANGED <<session, registry>>
    BY <1>16 DEF EmitTerminal, Emit, At, Goto, managerVars
  <2> QED  BY <1>16, <2>1, TerminalKeeps, RegistryRests
<1> QED  BY <1>1, <1>3, <1>4, <1>5, <1>6, <1>7, <1>8, <1>9, <1>10, <1>11, <1>12, <1>13,
            <1>14, <1>15, <1>16 DEF HostStep

LEMMA NextKeeps ==
  ASSUME IInv, [Next]_vars PROVE IInv'
<1>1. CASE UNCHANGED vars
  BY <1>1 DEF vars, managerVars, hostVars, commanderVars, streamVars, IInv, Typed, Ordered,
              Stream, ActiveWhileWorkedOn, Sole, At
<1>2. ASSUME NEW r \in Request,
             \/ Submit(r) \/ HostStep(r) \/ Cancel(r)
             \/ CommanderStep(r) \/ EmitProgress(r) \/ Answer(r) \/ CommanderPanics(r)
             \/ Read(r) \/ HangUp(r)
      PROVE  Typed' /\ (\A q \in Request : Ordered(q)') /\ ActiveWhileWorkedOn'
  <2>1. CASE Submit(r)
    BY <2>1, SubmitKeeps, SubmitRegisters
  <2>2. CASE HostStep(r)
    BY <2>2, HostKeeps
  <2>3. CASE Cancel(r)
    <3>1. /\ host[r] \in {"waiting", "joining"} /\ host' = [host EXCEPT ![r] = "cancelled"]
          /\ UNCHANGED <<session, registry, commander, mailbox, client, events, received, overdue>>
      BY <2>3 DEF Cancel, Goto, managerVars, commanderVars, streamVars
    <3> QED  BY <3>1, QuietKeeps, RegistryRests DEF Phase, Early, Late
  <2>4. CASE TakeCommand(r)
    <3>1. /\ Up(commander[r]) /\ mailbox[r] # <<>>
          /\ commander' = [commander EXCEPT ![r] = "busy"]
          /\ mailbox' = [mailbox EXCEPT ![r] = Tail(@)]
          /\ UNCHANGED <<session, registry, host, client, events, received, overdue>>
      BY <2>4 DEF TakeCommand, CommanderUp, Up, managerVars, hostVars, streamVars
    <3> QED  BY <3>1, CommanderKeeps, RegistryUntouched DEF Commander
  <2>5. CASE CommanderStops(r)
    <3>1. /\ Up(commander[r]) /\ mailbox[r] # <<>>
          /\ commander' = [commander EXCEPT ![r] = "stopped"]
          /\ mailbox' = [mailbox EXCEPT ![r] = <<>>]
          /\ UNCHANGED <<session, registry, host, client, events, received, overdue>>
      BY <2>5 DEF CommanderStops, CommanderUp, Up, managerVars, hostVars, streamVars
    <3> QED  BY <3>1, CommanderKeeps, RegistryUntouched DEF Commander
  <2>6. CASE EmitProgress(r)
    <3>1. UNCHANGED <<session, registry, host>>
      BY <2>6 DEF EmitProgress, managerVars, hostVars
    <3> QED  BY <2>6, <3>1, ProgressKeeps, RegistryUntouched
  <2>7. CASE Answer(r)
    <3>1. /\ Up(commander[r]) /\ commander[r] = "busy"
          /\ commander' = [commander EXCEPT ![r] = "answered"] /\ mailbox' = mailbox
          /\ UNCHANGED <<session, registry, host, client, events, received, overdue>>
      BY <2>7 DEF Answer, Up, managerVars, hostVars, streamVars
    <3> QED  BY <3>1, CommanderKeeps, RegistryUntouched DEF Commander
  <2>8. CASE CommanderPanics(r)
    <3>1. /\ Up(commander[r]) /\ commander[r] = "busy"
          /\ commander' = [commander EXCEPT ![r] = "panicked"]
          /\ mailbox' = [mailbox EXCEPT ![r] = <<>>]
          /\ UNCHANGED <<session, registry, host, client, events, received, overdue>>
      BY <2>8 DEF CommanderPanics, Up, managerVars, hostVars, streamVars
    <3> QED  BY <3>1, CommanderKeeps, RegistryUntouched DEF Commander
  <2>9. CASE Read(r)
    <3>1. UNCHANGED <<session, registry, host>>
      BY <2>9 DEF Read, managerVars, hostVars
    <3> QED  BY <2>9, <3>1, ReadKeeps, RegistryUntouched
  <2>10. CASE HangUp(r)
    <3>1. UNCHANGED <<session, registry, host>>
      BY <2>10 DEF HangUp, managerVars, hostVars
    <3> QED  BY <2>10, <3>1, HangUpKeeps, RegistryUntouched
  <2> QED  BY <1>2, <2>1, <2>2, <2>3, <2>4, <2>5, <2>6, <2>7, <2>8, <2>9, <2>10
           DEF CommanderStep
<1>3. ASSUME Next PROVE IInv'
  BY <1>2, <1>3 DEF Next, IInv
<1> QED  BY <1>1, <1>3

----------------------------------------------------------------------------
(* Theorems                                                                *)

\* Whatever the commanders, the clients and the channels do, the events of every
\* stream are in order and the registry holds the sessions that are worked on.
THEOREM StreamInvariant == Spec => []IInv
<1>1. Init => IInv
  BY InitHolds
<1>2. IInv /\ [Next]_vars => IInv'
  BY NextKeeps
<1> QED  BY <1>1, <1>2, PTL DEF Spec

\* run_until_complete sends the command after it has sent MemoryLoaded, so that the
\* events the commander tries to send while it works always come after it.
THEOREM StreamOpensInOrder == Spec => []ProgressAfterMemoryLoaded
<1>1. IInv => ProgressAfterMemoryLoaded
  BY DEF IInv, Ordered, InOrder, ProgressAfterMemoryLoaded
<1> QED  BY <1>1, StreamInvariant, PTL

\* shutdown() joins the commander before the host sends the terminal event: nothing
\* follows that event, unless the two seconds of the join were over.
THEOREM StreamClosesInOrder == Spec => []TerminalIsLast
<1>1. IInv => TerminalIsLast
  BY DEF IInv, Ordered, InOrder, TerminalIsLast
<1> QED  BY <1>1, StreamInvariant, PTL

\* register_session and remove_session_from: the session of a request that shares it
\* with nobody is registered exactly while the request is worked on.
THEOREM RegistryFollowsRequests == Spec => []ActiveWhileWorkedOn
<1>1. IInv => ActiveWhileWorkedOn
  BY DEF IInv
<1> QED  BY <1>1, StreamInvariant, PTL

\* remove_session_from comes before the terminal event is sent: a client that has
\* read that event cannot find the session in the registry.
THEOREM TerminalMeansInactive == Spec => []InactiveAfterTerminal
<1>1. ASSUME IInv, NEW r \in Request, Sole(r), NEW i \in DOMAIN received[r], received[r][i] \in Ends
      PROVE  session[r] \notin registry
  <2>1. received[r] \in Seq(Event) /\ events[r] \in Seq(Event)
    BY <1>1 DEF IInv, Typed
  <2>2. i \in DOMAIN Stream(r) /\ Stream(r)[i] = received[r][i]
    BY <1>1, <2>1, ReadPart DEF Stream
  <2>3. host[r] = "done"
    BY <1>1, <2>2 DEF IInv, Ordered, InOrder
  <2> QED  BY <1>1, <2>3 DEF IInv, ActiveWhileWorkedOn
<1>2. IInv => InactiveAfterTerminal
  BY <1>1 DEF InactiveAfterTerminal
<1> QED  BY <1>2, StreamInvariant, PTL

----------------------------------------------------------------------------
(* What a stream tells of the life cycle                                   *)

LEMMA TellsNothing == Tells(<<>>, <<>>)
<1>1. {i \in DOMAIN <<>> : <<>>[i] \in Lifecycle} = {}
  OBVIOUS
<1> QED  BY <1>1, FS_EmptySet DEF Tells

\* An event of the commander tells nothing,
LEMMA TellsNoMore ==
  ASSUME NEW s \in Seq(Event), NEW e \in Event \ Lifecycle, NEW p, Tells(s, p)
  PROVE  Tells(Append(s, e), p)
<1> DEFINE t == Append(s, e)
<1>1. /\ DOMAIN s = 1..Len(s) /\ DOMAIN t = 1..(Len(s) + 1) /\ Len(s) \in Nat
      /\ \A i \in 1..Len(s) : t[i] = s[i]
      /\ t[Len(s) + 1] = e
  BY Appended
<1> HIDE DEF t
<1>2. {i \in DOMAIN t : t[i] \in Lifecycle} = {i \in DOMAIN s : s[i] \in Lifecycle}
  BY <1>1
<1>3. \A i \in DOMAIN s : t[i] = s[i]
  BY <1>1
<1>4. Tells(t, p)
  BY <1>2, <1>3 DEF Tells
<1> QED  BY <1>4 DEF t

\* and one of the host the next thing.
LEMMA TellsMore ==
  ASSUME NEW s \in Seq(Event), NEW e \in Lifecycle, NEW p \in Seq(Event), Tells(s, p)
  PROVE  Tells(Append(s, e), Append(p, e))
<1> DEFINE t     == Append(s, e)
           q     == Append(p, e)
           new   == Len(s) + 1
           at    == {i \in DOMAIN s : s[i] \in Lifecycle}
           all   == {i \in DOMAIN t : t[i] \in Lifecycle}
           to(i) == {j \in at : j <= i}
<1>1. /\ DOMAIN s = 1..Len(s) /\ DOMAIN t = 1..new /\ Len(s) \in Nat
      /\ \A i \in 1..Len(s) : t[i] = s[i]
      /\ t[new] = e
  BY Appended DEF Event
<1>2. /\ Len(q) = Len(p) + 1 /\ Len(p) \in Nat /\ q[Len(p) + 1] = e
      /\ \A k \in 1..Len(p) : q[k] = p[k]
  BY Appended DEF Event
<1>3. Cardinality(at) = Len(p) /\ \A i \in at : s[i] = p[Cardinality(to(i))]
  BY DEF Tells
<1>4. IsFiniteSet(at) /\ at \subseteq 1..Len(s)
  <2>1. IsFiniteSet(1..Len(s))
    BY <1>1, FS_Interval
  <2> QED  BY <1>1, <2>1, FS_Subset
<1> HIDE DEF t, q
<1>5. all = at \cup {new} /\ new \notin at
  BY <1>1
<1>6. Cardinality(all) = Len(q)
  <2> HIDE DEF at, all
  <2>1. Cardinality(at \cup {new}) = Cardinality(at) + 1
    BY <1>4, <1>5, FS_AddElement
  <2> QED  BY <1>2, <1>3, <1>5, <2>1
<1>7. ASSUME NEW i \in at
      PROVE  t[i] = q[Cardinality({j \in all : j <= i})]
  <2>1. {j \in all : j <= i} = to(i)
    BY <1>1, <1>4, <1>5
  <2>2. IsFiniteSet(to(i)) /\ Cardinality(to(i)) <= Len(p)
    BY <1>3, <1>4, FS_Subset
  <2>3. Cardinality(to(i)) \in Nat /\ Cardinality(to(i)) # 0
    <3>1. i \in to(i)
      BY <1>4
    <3> QED  BY <2>2, <3>1, FS_CardinalityType, FS_EmptySet
  <2>4. Cardinality(to(i)) \in 1..Len(p)
    BY <1>2, <2>2, <2>3
  <2>5. t[i] = s[i]
    BY <1>1, <1>4
  <2> HIDE DEF to, at, all
  <2> QED  BY <1>2, <1>3, <2>1, <2>4, <2>5
<1>8. t[new] = q[Cardinality({j \in all : j <= new})]
  <2>1. {j \in all : j <= new} = all
    BY <1>1, <1>4, <1>5
  <2> QED  BY <1>1, <1>2, <1>6, <2>1
<1>9. Tells(t, q)
  BY <1>5, <1>6, <1>7, <1>8 DEF Tells
<1> QED  BY <1>9 DEF t, q

\* What was sent of the life cycle when the host is at phase h, with outcome o and
\* the session in memory (p) or not.
Opening    == <<"Started", "MemoryLoaded", "CommanderThinking">>
WithOutput == Append(Opening, "Output")
WithMemory == Append(Append(WithOutput, "MemoryCompacted"), "MemoryPersisted")

Answered(h, p) ==
  CASE ~p \/ h = "compacted" -> WithOutput
    [] p /\ h = "persisted"   -> Append(WithOutput, "MemoryCompacted")
    [] OTHER                  -> WithMemory

Before(h, o, p) ==
  CASE o = "ok" -> Answered(h, p) [] o = "err" -> Opening [] OTHER -> <<>>

Sent(h, o, p) ==
  CASE h \in {"new", "build", "started"} -> <<>>
    [] h = "memory"                      -> <<"Started">>
    [] h \in {"command", "thinking"}     -> <<"Started", "MemoryLoaded">>
    [] h \in {"waiting", "output"}       -> Opening
    [] h = "done" -> Append(Before(h, o, p), IF o = "ok" THEN "Finished" ELSE "Failed")
    [] OTHER      -> Before(h, o, p)

\* A listening client is told that, and outcome and memory go with the phase.
IsTold(h, o, p, cl, s) ==
  /\ h = "new" => cl = "none"
  /\ cl = "none" => s = <<>>
  /\ h = "output" => o = "ok"
  /\ h \in {"compacted", "persisted"} => o = "ok" /\ p
  /\ p => h \in {"compacted", "persisted", "remove", "terminal", "done"}
  /\ h \in {"stopping", "joining"} \cup Late => o # "none"
  /\ cl = "listening" /\ h \notin {"panicked", "cancelled"} => Tells(s, Sent(h, o, p))

ToldInv ==
  /\ outcome \in [Request -> {"none", "ok", "err", "unbuilt"}]
  /\ \A r \in Request : IsTold(host[r], outcome[r], r \in persisted, client[r], Stream(r))

Outcomes == {"none", "ok", "err", "unbuilt"}

LEMMA SentIsTyped ==
  ASSUME NEW h, NEW o, NEW p
  PROVE  Sent(h, o, p) \in Seq(Event)
<1>1. /\ <<>> \in Seq(Event) /\ <<"Started">> \in Seq(Event)
      /\ <<"Started", "MemoryLoaded">> \in Seq(Event) /\ Opening \in Seq(Event)
  BY DEF Opening, Event, Lifecycle
<1>2. \A q \in Seq(Event), e \in Lifecycle : Append(q, e) \in Seq(Event)
  BY DEF Event
<1>3. WithOutput \in Seq(Event) /\ Append(WithOutput, "MemoryCompacted") \in Seq(Event)
  BY <1>1, <1>2 DEF WithOutput, Lifecycle
<1>4. WithMemory \in Seq(Event)
  BY <1>2, <1>3 DEF WithMemory, Lifecycle
<1>5. Answered(h, p) \in Seq(Event)
  BY <1>3, <1>4 DEF Answered
<1>6. Before(h, o, p) \in Seq(Event)
  BY <1>1, <1>5 DEF Before
<1>7. Append(Before(h, o, p), IF o = "ok" THEN "Finished" ELSE "Failed") \in Seq(Event)
  BY <1>2, <1>6 DEF Lifecycle
<1> QED  BY <1>1, <1>6, <1>7 DEF Sent

\* What the host sends at a phase is what was sent at the next.
LEMMA SentGrows ==
  ASSUME NEW o, NEW p
  PROVE  /\ Sent("memory", o, p) = Append(Sent("started", o, p), "Started")
         /\ Sent("command", o, p) = Append(Sent("memory", o, p), "MemoryLoaded")
         /\ Sent("waiting", o, p) = Append(Sent("thinking", o, p), "CommanderThinking")
         /\ o = "ok" /\ ~p => Sent("stopping", o, p) = Append(Sent("output", o, p), "Output")
         /\ o = "ok" /\ p =>
              /\ Sent("persisted", o, p) = Append(Sent("compacted", o, p), "MemoryCompacted")
              /\ Sent("remove", o, p) = Append(Sent("persisted", o, p), "MemoryPersisted")
         /\ Sent("done", o, p) =
              Append(Sent("terminal", o, p), IF o = "ok" THEN "Finished" ELSE "Failed")
<1>1. /\ <<"Started">> = Append(<<>>, "Started")
      /\ <<"Started", "MemoryLoaded">> = Append(<<"Started">>, "MemoryLoaded")
      /\ Opening = Append(<<"Started", "MemoryLoaded">>, "CommanderThinking")
  BY DEF Opening
<1>2. o = "ok" /\ ~p => Sent("stopping", o, p) = WithOutput /\ Sent("output", o, p) = Opening
  BY DEF Sent, Before, Answered
<1>3. o = "ok" /\ p => /\ Sent("compacted", o, p) = WithOutput
                       /\ Sent("persisted", o, p) = Append(WithOutput, "MemoryCompacted")
                       /\ Sent("remove", o, p) = WithMemory
  BY DEF Sent, Before, Answered
<1>4. Before("done", o, p) = Before("terminal", o, p) /\ Sent("terminal", o, p) = Before("terminal", o, p)
  BY DEF Sent, Before, Answered
<1>5. /\ Sent("started", o, p) = <<>> /\ Sent("memory", o, p) = <<"Started">>
      /\ Sent("command", o, p) = <<"Started", "MemoryLoaded">>
      /\ Sent("thinking", o, p) = <<"Started", "MemoryLoaded">>
      /\ Sent("waiting", o, p) = Opening
      /\ Sent("done", o, p) = Append(Before("done", o, p), IF o = "ok" THEN "Finished" ELSE "Failed")
  BY DEF Sent
<1>6. WithOutput = Append(Opening, "Output")
  BY DEF WithOutput
<1>7. WithMemory = Append(Append(WithOutput, "MemoryCompacted"), "MemoryPersisted")
  BY DEF WithMemory
<1> QED  BY <1>1, <1>2, <1>3, <1>4, <1>5, <1>6, <1>7

\* The end of a stream is what it promises.
LEMMA SentIsPromised ==
  ASSUME NEW r, outcome[r] \in {"ok", "err", "unbuilt"}
  PROVE  Sent("done", outcome[r], r \in persisted) = Promised(r)
<1>1. CASE outcome[r] = "ok" /\ r \in persisted
  <2>1. /\ Promised(r) = <<"Started", "MemoryLoaded", "CommanderThinking", "Output">>
                           \o <<"MemoryCompacted", "MemoryPersisted">> \o <<"Finished">>
        /\ Sent("done", outcome[r], r \in persisted) = Append(WithMemory, "Finished")
    BY <1>1 DEF Promised, Sent, Before, Answered
  <2> QED  BY <2>1 DEF WithMemory, WithOutput, Opening
<1>2. CASE outcome[r] = "ok" /\ r \notin persisted
  <2>1. /\ Promised(r) = <<"Started", "MemoryLoaded", "CommanderThinking", "Output">>
                           \o <<>> \o <<"Finished">>
        /\ Sent("done", outcome[r], r \in persisted) = Append(WithOutput, "Finished")
    BY <1>2 DEF Promised, Sent, Before, Answered
  <2> QED  BY <2>1 DEF WithOutput, Opening
<1>3. CASE outcome[r] = "err"
  <2>1. /\ Promised(r) = <<"Started", "MemoryLoaded", "CommanderThinking", "Failed">>
        /\ Sent("done", outcome[r], r \in persisted) = Append(Opening, "Failed")
    BY <1>3 DEF Promised, Sent, Before
  <2> QED  BY <2>1 DEF Opening
<1>4. CASE outcome[r] = "unbuilt"
  <2>1. Promised(r) = <<"Failed">> /\ Sent("done", outcome[r], r \in persisted) = Append(<<>>, "Failed")
    BY <1>4 DEF Promised, Sent, Before
  <2> QED  BY <2>1
<1> QED  BY <1>1, <1>2, <1>3, <1>4

\* A step of one request leaves what the others were told.
LEMMA OneIsTold ==
  ASSUME ToldInv, NEW r \in Request, outcome' \in [Request -> Outcomes],
         \A q \in Request \ {r} :
           /\ host'[q] = host[q] /\ outcome'[q] = outcome[q] /\ client'[q] = client[q]
           /\ (q \in persisted' <=> q \in persisted) /\ Stream(q)' = Stream(q),
         IsTold(host'[r], outcome'[r], r \in persisted', client'[r], Stream(r)')
  PROVE  ToldInv'
<1>1. ASSUME NEW q \in Request \ {r}
      PROVE  IsTold(host'[q], outcome'[q], q \in persisted', client'[q], Stream(q)')
  <2>1. IsTold(host[q], outcome[q], q \in persisted, client[q], Stream(q))
    BY DEF ToldInv
  <2>2. (q \in persisted') = (q \in persisted)
    OBVIOUS
  <2> QED  BY <2>1, <2>2
<1> QED  BY <1>1 DEF ToldInv, Outcomes

\* The host goes on without sending.
LEMMA QuietTells ==
  ASSUME ToldInv, Typed, NEW r \in Request, NEW next, NEW o \in Outcomes,
         host' = [host EXCEPT ![r] = next], outcome' = [outcome EXCEPT ![r] = o],
         \A q \in Request \ {r} : q \in persisted' <=> q \in persisted,
         UNCHANGED <<client, events, received>>,
         IsTold(host[r], outcome[r], r \in persisted, client[r], Stream(r))
           => IsTold(next, o, r \in persisted', client[r], Stream(r))
  PROVE  ToldInv'
<1>1. outcome' \in [Request -> Outcomes] /\ outcome'[r] = o /\ host'[r] = next
  BY DEF ToldInv, Typed, Outcomes
<1>2. \A q \in Request : Stream(q)' = Stream(q)
  BY DEF Stream
<1>3. \A q \in Request \ {r} : host'[q] = host[q] /\ outcome'[q] = outcome[q]
  BY DEF ToldInv, Typed
<1>4. IsTold(next, o, r \in persisted', client[r], Stream(r))
  BY DEF ToldInv
<1> QED  BY <1>1, <1>2, <1>3, <1>4, OneIsTold

\* The host sends what comes next.
LEMMA EmitTells ==
  ASSUME ToldInv, Typed, NEW r \in Request, NEW phase \in Phase \ {"new", "panicked", "cancelled"},
         NEW next \in Phase \ {"new"}, NEW e \in Lifecycle, Emit(r, phase, e, next),
         Sent(next, outcome[r], r \in persisted) = Append(Sent(phase, outcome[r], r \in persisted), e),
         next = "output" => outcome[r] = "ok",
         next \in {"compacted", "persisted"} => outcome[r] = "ok" /\ r \in persisted,
         r \in persisted => next \in {"compacted", "persisted", "remove", "terminal", "done"},
         next \in {"stopping", "joining"} \cup Late => outcome[r] # "none"
  PROVE  ToldInv'
<1> DEFINE o == outcome[r]  p == r \in persisted  s == Stream(r)  cl == client[r]
<1>1. /\ host[r] = phase /\ host' = [host EXCEPT ![r] = next] /\ Send(r, e)
      /\ UNCHANGED <<outcome, persisted, client, received>>
  BY DEF Emit, At, Goto
<1>2. host'[r] = next /\ \A q \in Request \ {r} : host'[q] = host[q]
  BY <1>1 DEF Typed
<1>3. e \in Event
  BY DEF Event
<1>4. /\ cl = "listening" => Stream(r)' = Append(s, e)
      /\ cl # "listening" => Stream(r)' = s
      /\ \A q \in Request \ {r} : Stream(q)' = Stream(q)
  BY <1>1, <1>3, SendEffect
<1>5. IsTold(phase, o, p, cl, s)
  BY <1>1 DEF ToldInv
<1>6. cl = "listening" => Tells(Append(s, e), Sent(next, o, p))
  <2>1. s \in Seq(Event) /\ Sent(phase, o, p) \in Seq(Event)
    BY StreamIsTyped, SentIsTyped
  <2>2. cl = "listening" => Tells(s, Sent(phase, o, p))
    BY <1>5 DEF IsTold
  <2> QED  BY <2>1, <2>2, TellsMore
<1>7. IsTold(next, o, p, cl, Stream(r)')
  BY <1>4, <1>5, <1>6 DEF IsTold
<1> QED  BY <1>1, <1>2, <1>4, <1>7, OneIsTold DEF ToldInv, Outcomes

\* Steps of the commander and the client leave the host where it is.
LEMMA OthersTell ==
  ASSUME ToldInv, Typed, NEW r \in Request, UNCHANGED <<host, outcome, persisted>>,
         \/ UNCHANGED <<events, client, received>>
         \/ EmitProgress(r) \/ Read(r) \/ HangUp(r)
  PROVE  ToldInv'
<1>1. IsTold(host[r], outcome[r], r \in persisted, client[r], Stream(r))
  BY DEF ToldInv
<1>2. CASE UNCHANGED <<events, client, received>>
  BY <1>2 DEF ToldInv, Stream
<1>3. CASE EmitProgress(r)
  <2>1. Offer(r, "Progress") /\ UNCHANGED <<client, received>>
    BY <1>3 DEF EmitProgress
  <2>2. CASE client[r] = "listening" /\ HasRoom(r)
    <3>1. "Progress" \in Event \ Lifecycle
      BY DEF Event, Lifecycle
    <3>2. /\ Stream(r)' = Append(Stream(r), "Progress")
          /\ \A q \in Request \ {r} : Stream(q)' = Stream(q)
      BY <2>1, <2>2, <3>1, Enters DEF Offer
    <3>3. Stream(r) \in Seq(Event)
      BY StreamIsTyped
    <3>4. Tells(Stream(r), Sent(host[r], outcome[r], r \in persisted))
            => Tells(Append(Stream(r), "Progress"), Sent(host[r], outcome[r], r \in persisted))
      BY <3>1, <3>3, TellsNoMore
    <3>5. IsTold(host[r], outcome[r], r \in persisted, client[r], Append(Stream(r), "Progress"))
      BY <1>1, <2>2, <3>4 DEF IsTold
    <3> QED  BY <2>1, <3>2, <3>5, OneIsTold DEF ToldInv, Outcomes
  <2>3. CASE ~(client[r] = "listening" /\ HasRoom(r))
    <3>1. events' = events
      BY <2>1, <2>3 DEF Offer
    <3> QED  BY <2>1, <3>1 DEF ToldInv, Stream
  <2> QED  BY <2>2, <2>3
<1>4. CASE Read(r)
  <2>1. client' = client /\ \A q \in Request : Stream(q)' = Stream(q)
    BY <1>4, ReadEffect DEF Read
  <2> QED  BY <2>1 DEF ToldInv
<1>5. CASE HangUp(r)
  <2>1. /\ client[r] = "listening" /\ client'[r] = "gone"
        /\ \A q \in Request \ {r} : client'[q] = client[q] /\ Stream(q)' = Stream(q)
    BY <1>5 DEF HangUp, Typed, Stream
  <2>2. IsTold(host[r], outcome[r], r \in persisted, client'[r], Stream(r)')
    BY <1>1, <2>1 DEF IsTold
  <2> QED  BY <2>1, <2>2, OneIsTold DEF ToldInv, Outcomes
<1> QED  BY <1>2, <1>3, <1>4, <1>5

LEMMA SubmitTells ==
  ASSUME ToldInv, Typed, NEW r \in Request, Submit(r)
  PROVE  ToldInv'
<1>1. /\ host[r] = "new" /\ host' = [host EXCEPT ![r] = "build"]
      /\ client' = [client EXCEPT ![r] = IF r \in Streamed THEN "listening" ELSE @]
      /\ UNCHANGED <<outcome, persisted, events, received>>
  BY DEF Submit, At, Goto
<1>2. /\ host'[r] = "build" /\ \A q \in Request : Stream(q)' = Stream(q)
      /\ \A q \in Request \ {r} : host'[q] = host[q] /\ client'[q] = client[q]
  BY <1>1 DEF Typed, Stream
<1>3. Stream(r) = <<>> /\ r \notin persisted /\ client[r] = "none"
  BY <1>1 DEF ToldInv, IsTold
<1>4. IsTold("build", outcome[r], FALSE, client'[r], <<>>)
  <2>1. Sent("build", outcome[r], FALSE) = <<>>
    BY DEF Sent
  <2>2. Tells(<<>>, <<>>)
    BY TellsNothing
  <2> QED  BY <2>1, <2>2 DEF IsTold, Late
<1>5. (r \in persisted') = FALSE
  BY <1>1, <1>3
<1>6. IsTold(host'[r], outcome'[r], r \in persisted', client'[r], Stream(r)')
  BY <1>1, <1>2, <1>3, <1>4, <1>5
<1> QED  BY <1>1, <1>2, <1>6, OneIsTold DEF ToldInv, Outcomes

LEMMA HostTells ==
  ASSUME ToldInv, Typed, NEW r \in Request, HostStep(r)
  PROVE  ToldInv'
<1>0. /\ outcome \in [Request -> Outcomes] /\ outcome[r] \in Outcomes
      /\ IsTold(host[r], outcome[r], r \in persisted, client[r], Stream(r))
  BY DEF ToldInv, Outcomes
<1>1. CASE Build(r)
  <2>1. host[r] = "build" /\ UNCHANGED <<persisted, client, events, received>>
    BY <1>1 DEF Build, At, streamVars
  <2>2. CASE host' = [host EXCEPT ![r] = "started"] /\ outcome' = outcome
    <3>1. outcome' = [outcome EXCEPT ![r] = outcome[r]]
      BY <1>0, <2>2
    <3>2. IsTold("build", outcome[r], r \in persisted, client[r], Stream(r))
            => IsTold("started", outcome[r], r \in persisted, client[r], Stream(r))
      BY DEF IsTold, Sent, Late
    <3> QED  BY <1>0, <2>1, <2>2, <3>1, <3>2, QuietTells
  <2>3. CASE host' = [host EXCEPT ![r] = "remove"] /\ outcome' = [outcome EXCEPT ![r] = "unbuilt"]
    <3>1. IsTold("build", outcome[r], r \in persisted, client[r], Stream(r))
            => IsTold("remove", "unbuilt", r \in persisted, client[r], Stream(r))
      BY DEF IsTold, Sent, Before, Late
    <3> QED  BY <2>1, <2>3, <3>1, QuietTells DEF Outcomes
  <2> QED  BY <1>1, <2>2, <2>3 DEF Build, Goto
<1>2. CASE EmitStarted(r)
  <2>1. Emit(r, "started", "Started", "memory") /\ host[r] = "started"
    BY <1>2 DEF EmitStarted, Emit, At
  <2> QED  BY <1>0, <2>1, SentGrows, EmitTells DEF IsTold, Phase, Lifecycle, Late
<1>3. CASE EmitMemoryLoaded(r)
  <2>1. Emit(r, "memory", "MemoryLoaded", "command") /\ host[r] = "memory"
    BY <1>3 DEF EmitMemoryLoaded, Emit, At
  <2> QED  BY <1>0, <2>1, SentGrows, EmitTells DEF IsTold, Phase, Lifecycle, Late
<1>4. CASE SendCommand(r)
  <2>1. /\ host[r] = "command" /\ host' = [host EXCEPT ![r] = "thinking"]
        /\ UNCHANGED <<outcome, persisted, client, events, received>>
    BY <1>4 DEF SendCommand, At, Goto, streamVars
  <2>2. outcome' = [outcome EXCEPT ![r] = outcome[r]]
    BY <1>0, <2>1
  <2>3. IsTold("command", outcome[r], r \in persisted, client[r], Stream(r))
          => IsTold("thinking", outcome[r], r \in persisted, client[r], Stream(r))
    BY DEF IsTold, Sent, Before, Answered, Late
  <2> QED  BY <1>0, <2>1, <2>2, <2>3, QuietTells
<1>5. CASE EmitThinking(r)
  <2>1. Emit(r, "thinking", "CommanderThinking", "waiting") /\ host[r] = "thinking"
    BY <1>5 DEF EmitThinking, Emit, At
  <2> QED  BY <1>0, <2>1, SentGrows, EmitTells DEF IsTold, Phase, Lifecycle, Late
<1>6. CASE ReceiveAnswer(r)
  <2>1. /\ host[r] = "waiting" /\ host' = [host EXCEPT ![r] = "output"]
        /\ outcome' = [outcome EXCEPT ![r] = "ok"]
        /\ UNCHANGED <<persisted, client, events, received>>
    BY <1>6 DEF ReceiveAnswer, At, Goto, streamVars
  <2>2. IsTold("waiting", outcome[r], r \in persisted, client[r], Stream(r))
          => IsTold("output", "ok", r \in persisted, client[r], Stream(r))
    BY DEF IsTold, Sent, Before, Answered, Late
  <2> QED  BY <2>1, <2>2, QuietTells DEF Outcomes
<1>7. CASE GiveUp(r)
  <2>1. /\ host[r] = "waiting" /\ host' = [host EXCEPT ![r] = "stopping"]
        /\ outcome' = [outcome EXCEPT ![r] = "err"]
        /\ UNCHANGED <<persisted, client, events, received>>
    BY <1>7 DEF GiveUp, At, Goto, streamVars
  <2>2. IsTold("waiting", outcome[r], r \in persisted, client[r], Stream(r))
          => IsTold("stopping", "err", r \in persisted, client[r], Stream(r))
    BY DEF IsTold, Sent, Before, Answered, Late
  <2> QED  BY <2>1, <2>2, QuietTells DEF Outcomes
<1>8. CASE EmitOutput(r)
  <2>1. Emit(r, "output", "Output", "stopping") /\ host[r] = "output"
    BY <1>8 DEF EmitOutput, Emit, At
  <2> QED  BY <1>0, <2>1, SentGrows, EmitTells DEF IsTold, Phase, Lifecycle, Late
<1>9. CASE SendShutdown(r)
  <2>1. /\ host[r] = "stopping" /\ host' = [host EXCEPT ![r] = "joining"]
        /\ UNCHANGED <<outcome, persisted, client, events, received>>
    BY <1>9 DEF SendShutdown, At, Goto, streamVars
  <2>2. outcome' = [outcome EXCEPT ![r] = outcome[r]]
    BY <1>0, <2>1
  <2>3. IsTold("stopping", outcome[r], r \in persisted, client[r], Stream(r))
          => IsTold("joining", outcome[r], r \in persisted, client[r], Stream(r))
    BY DEF IsTold, Sent, Before, Answered, Late
  <2> QED  BY <1>0, <2>1, <2>2, <2>3, QuietTells
<1>10. CASE Join(r)
  <2>1. /\ host[r] = "joining" /\ host' = [host EXCEPT ![r] = "persist"]
        /\ UNCHANGED <<outcome, persisted, client, events, received>>
    BY <1>10 DEF Join, At, Goto, streamVars
  <2>2. outcome' = [outcome EXCEPT ![r] = outcome[r]]
    BY <1>0, <2>1
  <2>3. IsTold("joining", outcome[r], r \in persisted, client[r], Stream(r))
          => IsTold("persist", outcome[r], r \in persisted, client[r], Stream(r))
    BY DEF IsTold, Sent, Before, Answered, Late
  <2> QED  BY <1>0, <2>1, <2>2, <2>3, QuietTells
<1>11. CASE Persist(r)
  <2>1. host[r] = "persist" /\ UNCHANGED <<outcome, client, events, received>>
    BY <1>11 DEF Persist, At, streamVars
  <2>2. outcome' = [outcome EXCEPT ![r] = outcome[r]]
    BY <1>0, <2>1
  <2>3. CASE persisted' = persisted /\ host' = [host EXCEPT ![r] = "remove"]
    <3>1. IsTold("persist", outcome[r], r \in persisted, client[r], Stream(r))
            => IsTold("remove", outcome[r], r \in persisted, client[r], Stream(r))
      BY DEF IsTold, Sent, Before, Answered, Late
    <3> QED  BY <1>0, <2>1, <2>2, <2>3, <3>1, QuietTells
  <2>4. CASE /\ outcome[r] = "ok" /\ host' = [host EXCEPT ![r] = "compacted"]
             /\ persisted' = persisted \cup {r}
    <3>1. IsTold("persist", "ok", r \in persisted, client[r], Stream(r))
            => IsTold("compacted", "ok", TRUE, client[r], Stream(r))
      BY DEF IsTold, Sent, Before, Answered, Late
    <3>2. (r \in persisted') = TRUE /\ \A q \in Request \ {r} : q \in persisted' <=> q \in persisted
      BY <2>4
    <3>3. IsTold(host[r], outcome[r], r \in persisted, client[r], Stream(r))
            => IsTold("compacted", outcome[r], r \in persisted', client[r], Stream(r))
      BY <2>1, <2>4, <3>1, <3>2
    <3> QED  BY <1>0, <2>1, <2>2, <2>4, <3>2, <3>3, QuietTells
  <2>5. CASE persisted' = persisted /\ host' = [host EXCEPT ![r] = "panicked"]
    <3>1. IsTold("persist", outcome[r], r \in persisted, client[r], Stream(r))
            => IsTold("panicked", outcome[r], r \in persisted, client[r], Stream(r))
      BY DEF IsTold, Late
    <3> QED  BY <1>0, <2>1, <2>2, <2>5, <3>1, QuietTells
  <2> QED  BY <1>11, <2>3, <2>4, <2>5 DEF Persist, Goto
<1>12. CASE EmitCompacted(r)
  <2>1. Emit(r, "compacted", "MemoryCompacted", "persisted") /\ host[r] = "compacted"
    BY <1>12 DEF EmitCompacted, Emit, At
  <2> QED  BY <1>0, <2>1, SentGrows, EmitTells DEF IsTold, Phase, Lifecycle, Late
<1>13. CASE EmitPersisted(r)
  <2>1. Emit(r, "persisted", "MemoryPersisted", "remove") /\ host[r] = "persisted"
    BY <1>13 DEF EmitPersisted, Emit, At
  <2> QED  BY <1>0, <2>1, SentGrows, EmitTells DEF IsTold, Phase, Lifecycle, Late
<1>14. CASE Remove(r)
  <2>1. /\ host[r] = "remove" /\ host' = [host EXCEPT ![r] = "terminal"]
        /\ UNCHANGED <<outcome, persisted, client, events, received>>
    BY <1>14 DEF Remove, At, Goto, streamVars
  <2>2. outcome' = [outcome EXCEPT ![r] = outcome[r]]
    BY <1>0, <2>1
  <2>3. IsTold("remove", outcome[r], r \in persisted, client[r], Stream(r))
          => IsTold("terminal", outcome[r], r \in persisted, client[r], Stream(r))
    BY DEF IsTold, Sent, Before, Answered, Late
  <2> QED  BY <1>0, <2>1, <2>2, <2>3, QuietTells
<1>15. CASE EmitTerminal(r)
  <2> DEFINE e == IF outcome[r] = "ok" THEN "Finished" ELSE "Failed"
  <2>1. Emit(r, "terminal", e, "done") /\ host[r] = "terminal" /\ e \in Lifecycle
    BY <1>15 DEF EmitTerminal, Emit, At, Lifecycle
  <2>2. Sent("done", outcome[r], r \in persisted) = Append(Sent("terminal", outcome[r], r \in persisted), e)
    BY SentGrows
  <2> HIDE DEF e
  <2> QED  BY <1>0, <2>1, <2>2, EmitTells DEF IsTold, Phase, Late
<1> QED  BY <1>1, <1>2, <1>3, <1>4, <1>5, <1>6, <1>7, <1>8, <1>9, <1>10, <1>11, <1>12, <1>13,
            <1>14, <1>15 DEF HostStep

LEMMA NextTells ==
  ASSUME ToldInv, IInv, [Next]_vars PROVE ToldInv'
<1>1. CASE UNCHANGED vars
  BY <1>1 DEF vars, hostVars, streamVars, ToldInv, Stream
<1>2. ASSUME NEW r \in Request,
             \/ Submit(r) \/ HostStep(r) \/ Cancel(r)
             \/ CommanderStep(r) \/ EmitProgress(r) \/ Answer(r) \/ CommanderPanics(r)
             \/ Read(r) \/ HangUp(r)
      PROVE  ToldInv'
  <2> USE DEF IInv
  <2>1. CASE Submit(r)
    BY <2>1, SubmitTells
  <2>2. CASE HostStep(r)
    BY <2>2, HostTells
  <2>3. CASE Cancel(r)
    <3>1. /\ host[r] \in {"waiting", "joining"} /\ host' = [host EXCEPT ![r] = "cancelled"]
          /\ UNCHANGED <<outcome, persisted, client, events, received>>
      BY <2>3 DEF Cancel, Goto, streamVars
    <3>2. outcome' = [outcome EXCEPT ![r] = outcome[r]] /\ outcome[r] \in Outcomes
      BY <3>1 DEF ToldInv, Outcomes
    <3>3. IsTold(host[r], outcome[r], r \in persisted, client[r], Stream(r))
            => IsTold("cancelled", outcome[r], r \in persisted, client[r], Stream(r))
      BY <3>1 DEF IsTold, Late
    <3> QED  BY <3>1, <3>2, <3>3, QuietTells
  <2>4. CASE CommanderStep(r) \/ Answer(r) \/ CommanderPanics(r)
    <3>1. UNCHANGED <<host, outcome, persisted, events, client, received>>
      BY <2>4 DEF CommanderStep, TakeCommand, CommanderStops, Answer, CommanderPanics, hostVars, streamVars
    <3> QED  BY <3>1, OthersTell
  <2>5. CASE EmitProgress(r) \/ Read(r) \/ HangUp(r)
    <3>1. UNCHANGED <<host, outcome, persisted>>
      BY <2>5 DEF EmitProgress, Read, HangUp, hostVars
    <3> QED  BY <2>5, <3>1, OthersTell
  <2> QED  BY <1>2, <2>1, <2>2, <2>3, <2>4, <2>5
<1> QED  BY <1>1, <1>2 DEF Next

\* A client that listens to the end is told every event of the life of its request
\* once and in order (Send waits for room), however full the commander keeps the channel.
THEOREM StreamTellsAll == Spec => []LifecycleIsComplete
<1>1. Init => ToldInv
  <2> SUFFICES ASSUME Init PROVE ToldInv
    OBVIOUS
  <2>1. ASSUME NEW r \in Request
        PROVE  IsTold(host[r], outcome[r], r \in persisted, client[r], Stream(r))
    <3>1. Stream(r) = <<>>
      BY ConcatEmptySeq DEF Init, Stream
    <3>2. host[r] = "new" /\ outcome[r] = "none" /\ client[r] = "none" /\ r \notin persisted
      BY DEF Init
    <3> QED  BY <3>1, <3>2 DEF IsTold, Late
  <2>2. outcome \in [Request -> {"none", "ok", "err", "unbuilt"}]
    BY DEF Init
  <2> QED  BY <2>1, <2>2 DEF ToldInv
<1>2. ToldInv /\ IInv /\ [Next]_vars => ToldInv'
  BY NextTells
<1>3. ToldInv => LifecycleIsComplete
  <2> SUFFICES ASSUME ToldInv, NEW r \in Request, host[r] = "done", client[r] = "listening"
               PROVE  Tells(Stream(r), Promised(r))
    BY DEF LifecycleIsComplete, At
  <2>1. IsTold("done", outcome[r], r \in persisted, client[r], Stream(r)) /\ outcome[r] \in Outcomes
    BY DEF ToldInv, Outcomes
  <2>2. Tells(Stream(r), Sent("done", outcome[r], r \in persisted)) /\ outcome[r] # "none"
    BY <2>1 DEF IsTold, Late
  <2> QED  BY <2>1, <2>2, SentIsPromised DEF Outcomes
<1> QED  BY <1>1, <1>2, <1>3, StreamInvariant, PTL DEF Spec
=============================================================================
