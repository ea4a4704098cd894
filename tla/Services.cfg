\* Every component by itself, one after another.
SPECIFICATION AllSpec
CONSTANTS
  p1 = p1
  p2 = p2
  q1 = q1
  q2 = q2
  Parts = {"accounts", "admins", "reviews", "outlets", "forms", "receipts", "lists"}
  None = None
\* Two requests at a time.
  Request = {p1, p2}
  Customer = {"c"}
\* One number, with and without spaces, and one address.
  Account = {q1, q2}
  Number = {"n"}
  Email = {"e"}
\* Two calls at once, a minute of three ticks, queries of up to four.
  People = {"a"}
  Caller = {p1, p2}
  CacheTicks = 3
  SlowTicks = 4
\* One review, two outlets, an admin and a manager; two tables and names.
  Outlet = {"o1", "o2"}
  Admin = {"ad"}
  Manager = {"m"}
  Review = {"r"}
  PatchLimit = 2
  Table = {q1, q2}
  Name = {"n1", "n2"}
\* Two forms.
  Form = {q1, q2}
  Builtin <- MCBuiltin
  Asked <- MCAsked
  Required = {"overall"}
  WriteLimit = 2
  ChangeLimit = 2
\* Two devices and a token that is none of Expo's, two tickets, two instances.
  Token = {"a", "b", "j"}
  Junk = {"j"}
  Owner <- MCOwner
  Ticket = {p1, p2}
  Cron = {q1, q2}
  BatchLimit = 1
\* Two managers beside the admin, and one outlet with tasks.
  Staff = {p1, p2}
  Site = {"o"}
SYMMETRY Symmetry
INVARIANTS
  AllTypeOK
  OneAccountPerNumber
  
  
  TablesAgree
  
  
  
CHECK_DEADLOCK FALSE
