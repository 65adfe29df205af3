\* Every keyword set, every rule over four nodes, flawed rules, pairs of rules;
\* every ranking of four roles, of the builtin catalog or of a roles file.
SPECIFICATION CommandSpec
CONSTANTS
  Node <- MCNode
  Worker <- MCWorker
  Roles <- MCRoles
  Requests <- MCRequests
  BuiltinCatalog <- MCBuiltinCatalog
  Commands <- MCCommands
INVARIANTS
  VerdictIsRight
  PlanIsValid
  RoutesAgree
PROPERTIES
  CommandIsDecided
CHECK_DEADLOCK FALSE
