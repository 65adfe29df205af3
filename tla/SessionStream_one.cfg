\* One streamed request, a channel of two and a commander of four events.
SPECIFICATION FairSpec
CONSTANTS
  Request = {r1}
  Streamed = {r1}
  SessionId = {s1}
  Buffer = 2
  MaxProgress = 4
  MaxPanics = 1
INVARIANTS
  LifecycleIsComplete
  ProgressAfterMemoryLoaded
  TerminalIsLast
PROPERTIES
  StreamEnds
CHECK_DEADLOCK FALSE
