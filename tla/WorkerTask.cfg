\* An accounting and an ops worker, two messages, up to two skills in an answer.
SPECIFICATION Spec
CONSTANTS
  NotAnObject = NotAnObject
  Roles = {"accounting", "ops"}
  Value <- MCValue
  Later <- MCLater
  Other <- MCOther
  Blank = {}
  Policies <- MCPolicies
  Inputs <- MCInputs
  MaxMessages = 2
INVARIANTS
  SkillsAreAccountedFor
  SkillsOnlyFill
  RetriesAreJustified
PROPERTIES
  KeepsWorkerPromise
  TaskIsReported
CHECK_DEADLOCK FALSE
