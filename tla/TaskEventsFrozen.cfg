\* One request dies between its two writes.
SPECIFICATION FairSpec
CONSTANTS
  Creator = c
  Requests = {c, r1}
  MaxVersion = 2
  MaxFailures = 1
PROPERTIES
  ConflictMeansModified
CHECK_DEADLOCK FALSE
