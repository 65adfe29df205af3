\* Two commands on one runtime: reports of the first graph reach the second.
SPECIFICATION Spec
CONSTANTS
  NodeCount = 2
  WorkerNames = {w1, w2}
  w1 = w1
  w2 = w2
  AttemptLimits = {1, 2}
  Node <- MCNode
  Rank <- MCRank
  Worker <- WorkerNames
  Plans <- PartialPlans
  MaxCommands = 2
  MaxCrashes = 1
INVARIANTS
  AttemptsBounded
  OneRunningPerWorker
  AnswerWhenFinished
CHECK_DEADLOCK FALSE
