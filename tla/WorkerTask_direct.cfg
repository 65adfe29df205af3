\* The report of a task that was started directly: one message, the same answers.
SPECIFICATION Spec
CONSTANTS
  NotAnObject = NotAnObject
  Roles = {"accounting", "ops"}
  Value <- MCValue
  Later <- MCLater
  Other <- MCOther
  Blank = {}
  Policies <- MCPolicies
  Inputs <- MCInputs
  MaxMessages = 1
INVARIANTS
  ResultsAreReported
CHECK_DEADLOCK FALSE
