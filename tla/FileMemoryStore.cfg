\* Two sessions of two records each in one scope and kind, a failing write and a
\* crash.
SPECIFICATION Spec
CONSTANTS
  Writer = {w1, w2}
  Group = {g1}
  Key = {k1}
  MaxConfidence = 0
  MaxRecords = 2
  MaxUnkeyed = 1
  MaxSession = 2
  MaxUpserts = 4
  MaxCrashes = 1
  MaxFailures = 1
SYMMETRY Writers
INVARIANTS
  FileIsWhole
  AckedIsDurable
  FileCatchesUp
PROPERTIES
  FileNeverGoesBack
CHECK_DEADLOCK FALSE
