\* Two complaints of an outlet, two people to tell, a restart.
SPECIFICATION FairSpec
CONSTANTS
  None = None
  User = {u1, u2}
  Review = {r1, r2}
  MaxRestarts = 1
INVARIANTS
  TypeOK
  

  
CHECK_DEADLOCK FALSE
