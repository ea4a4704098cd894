\* Two users, two tokens, one device, three jobs at a time.
SPECIFICATION Spec
CONSTANTS
  None = None
  User = {u1, u2}
  Token = {t1, t2}
  Device = {d1}
  Job = {j1, j2, j3}
  MaxJobs = 3
  MaxLogouts = 1
SYMMETRY Symmetry
INVARIANTS
  TypeOK
  OneOwner
  DevicesReached
CHECK_DEADLOCK FALSE
