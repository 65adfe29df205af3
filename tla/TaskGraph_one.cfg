\* One command, every plan over three nodes and two workers, up to the workers' names.
SPECIFICATION FairSpec
CONSTANTS
  NodeCount = 3
  WorkerNames = {w1, w2}
  w1 = w1
  w2 = w2
  AttemptLimits = {1, 2}
  Node <- MCNode
  Rank <- MCRank
  Worker <- WorkerNames
  Plans <- PlansUpToNames
  MaxCommands = 1
  MaxCrashes = 1
INVARIANTS
  RunningIffInFlight
  AssignmentsAreComplete
  SkippedIffBlocked
  NeverStalls
PROPERTIES
  KeepsPromise
  CommandIsAnswered
CHECK_DEADLOCK FALSE
