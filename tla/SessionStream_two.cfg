\* A streamed request and a call, of the same session or of two.
SPECIFICATION Spec
CONSTANTS
  Request = {stream, call}
  Streamed = {stream}
  SessionId = {s1, s2}
  Buffer = 1
  MaxProgress = 1
  MaxPanics = 1
INVARIANTS
  InactiveAfterTerminal
  ActiveWhileWorkedOn
CHECK_DEADLOCK FALSE
