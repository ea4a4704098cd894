\* Two instances, a restart, slow and failing database calls.
SPECIFICATION FairSpec
CONSTANTS
  None = None
  Instances = {s1, s2}
  MaxEvents = 2
  MaxCrashes = 1
  MaxStoreErrors = 1
INVARIANTS
  TypeOK
  ToldOrHeld
PROPERTIES
  EventuallyPushed
CHECK_DEADLOCK FALSE
