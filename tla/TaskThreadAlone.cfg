\* One request at a time.
SPECIFICATION Spec
CONSTANTS
  None = None
  cr = cr
  mg = mg
  ad = ad
  r1 = r1
  r2 = r2
  Users <- MCUsers
  Admins <- MCAdmins
  AssigneeSets <- MCAssigneeSets
  Creator = cr
  Requests <- OneRequest
  Sender <- OneSender
  Ops = {"comment", "status", "assignees", "delegate", "reassign", "clear", "view", "remove"}
  MaxVersion = 4
  MaxFailures = 0

  
PROPERTIES
  TimelineLegal
CHECK_DEADLOCK FALSE
