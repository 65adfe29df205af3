\* Two groups that hold two records each, one of them without a key: the third
\* and fourth upsert have to drop something.
SPECIFICATION Spec
CONSTANTS
  Group = {g1, g2}
  Key = {k1, k2, k3}
  MaxConfidence = 1
  MaxRecords = 2
  MaxUnkeyed = 1
  MaxUpserts = 4
  Queries <- MCQueries
SYMMETRY GroupsAndKeys
INVARIANTS
  GroupsAreBounded
  ReloadKeepsRecords
  BundleIsLatest
  RetentionIsFair
CHECK_DEADLOCK FALSE
