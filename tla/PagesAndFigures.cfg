\* Every component by itself, one after another.
SPECIFICATION PagesSpec
CONSTANTS
  p1 = p1
  p2 = p2
  q1 = q1
  q2 = q2
  Areas = {"recurrence", "feed", "deadlines", "catalogue", "ratings", "dashboard"}
  MonthLength <- MCMonths
\* Two instances of the program, three templates, months of 31, 28 and 30 days.
  Runner = {p1, p2}
  Template = {"monthEnd", "twice", "monday"}
  Plan <- MCPlan
  Overseer = {"ad", "ad2"}
\* Lists of up to four rows, on pages of up to two.
  RowLimit = 4
  KeyLimit = 4
  Shape <- MCShape
  EditLimit = 1
  PageCap = 2
\* From one Indian afternoon, two days before the end of a month, to the next
\* month's first days; deadlines around the midnights of both zones.
  DueDates = {41309, 41310, 42000, 42749, 42750, 44189, 44190, 44640, 51389}
  DueTimes = {0, 20, 1410, 1439}
  FirstMinute = 41280
  LastMinute = 44700
\* Four documents of two tags.
  DocLimit = 4
  Tag = {1, 2}
\* Two answers on the scales the app offers and on one it does not.
  Scales = {3, 4, 5, 10}
  Stars = {0, 1, 2, 3, 7, 10}
  AnswerLimit = 2
  RatedLimit = 2
\* Two outlets and a hidden one; three moments of 45 days, the middle one at an
\* Indian, but not a UTC, new day.
  Shop = {q1, q2, "h"}
  Hidden = {"h"}
  Rating = {15, 22}
  Instants = {3000, 3648, 4300}
  ShutLimit = 1
SYMMETRY Symmetry
INVARIANTS
  PagesTypeOK
  
  ScrollFaithful
  CalendarsAgree
  
  RatingsAgree
  DashboardAddsUp
CHECK_DEADLOCK FALSE
