\* Overlapping runs, failing sends, deaths, edits.
SPECIFICATION Spec
CONSTANTS
  None = None
  early = early
  exact = exact
  Windows <- MCWindows
  Lead <- MCLead
  CatchUp = 2
  Runs = {c1, c2}
  Editors = {u1}
  Deadlines = {1, 3}
  MaxTime = 3
  MaxEdits = 1
  MaxFailures = 1
  MaxPartial = 1
  MaxCrashes = 1
SYMMETRY Symmetry
INVARIANTS
  TypeOK
  RemindedOnce
  RemindedInTime
CHECK_DEADLOCK FALSE
