\* Concurrent completions, reopenings, delegations and revocations.
SPECIFICATION Spec
CONSTANTS
  None = None
  cr = cr
  mg = mg
  ad = ad
  r1 = r1
  r2 = r2
  Users <- MCUsers
  Admins <- MCAdmins
  AssigneeSets <- MCAssigneeSets
  Creator = cr
  Requests <- TwoRequests
  Sender <- TwoSenders
  Ops = {"status", "delegate", "reassign", "clear"}
  MaxVersion = 4
  MaxFailures = 0
INVARIANTS
  TypeOK
  
CHECK_DEADLOCK FALSE
