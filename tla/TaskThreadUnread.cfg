\* Concurrent comments, assignee changes and views, deaths, a removal.
SPECIFICATION Spec
CONSTANTS
  None = None
  cr = cr
  mg = mg
  ad = ad
  r1 = r1
  r2 = r2
  Users <- MCUsers
  Admins <- MCAdmins
  AssigneeSets <- MCAssigneeSets
  Creator = cr
  Requests <- TwoRequests
  Sender <- TwoSenders
  Ops = {"comment", "assignees", "view", "remove"}
  MaxVersion = 3
  MaxFailures = 1
INVARIANTS
  UnreadIsExact
CHECK_DEADLOCK FALSE
