\* Every registered skill, one that is not, and every input as far as it is read.
SPECIFICATION Spec
CONSTANT NotAnObject = NotAnObject
INVARIANTS
  ApprovalIsNeverSkipped
  StatusTellsTheTruth
CHECK_DEADLOCK FALSE
