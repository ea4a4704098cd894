\* Concurrent appends with deaths, a rolled back creation and a soft delete.
SPECIFICATION FairSpec
CONSTANTS
  Creator = c
  Requests = {c, r1, r2}
  MaxVersion = 3
  MaxFailures = 2
INVARIANTS
  TypeOK
  LogMatchesVersion
  UpdateMissesOnlyRemovedTask
PROPERTIES
  ImplementsLog
  ConflictHasWinner
CHECK_DEADLOCK FALSE
