\* Every route over four workers (a route names at most three roles, so that a
\* target outside the route exists), one of which may panic.
SPECIFICATION FairSpec
CONSTANTS
  Worker = {w1, w2, w3, w4}
  MaxCrashes = 1
INVARIANTS
  PendingIffUnderWay
  SynthesisIsComplete
  AnswersAgree
  NeverStuck
PROPERTIES
  CommandIsAnswered
CHECK_DEADLOCK FALSE
