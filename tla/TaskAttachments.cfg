\* Concurrent additions and removals, failures, a deleted task.
SPECIFICATION Spec
CONSTANTS
  None = None
  Attachments = {a, b, c}
  Requests = {r1, r2}
  MaxBatch = 2
  MaxOthers = 1
  MaxFailures = 1
SYMMETRY Symmetry
INVARIANTS
  TypeOK
  RecordsMatchTimeline
  CountMatchesList
CHECK_DEADLOCK FALSE
