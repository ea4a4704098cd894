---------------------------- MODULE PagesAndFigures ----------------------------
(***************************************************************************)
(* What is computed from stored data: the tasks a calendar makes, the      *)
(* deadlines it counts, the pages of feeds and listings, the ratings and   *)
(* the dashboard.  The components share no state that these models tell    *)
(* apart: a behaviour is one of one component, which `area` names, while   *)
(* the variables of the others keep their initial values.                  *)
(***************************************************************************)
EXTENDS Integers, Sequences, FiniteSets

CONSTANTS
  Areas,                                     \* the components of interest
  MonthLength,                               \* the calendar, from month 1 on
  Runner, Template, Plan, Overseer,          \* Recurrence
  RowLimit, KeyLimit, Shape,                 \* Feed
  DueDates, DueTimes, FirstMinute, LastMinute,   \* Deadlines
  DocLimit, Tag,                             \* Catalogue
  EditLimit, PageCap,                        \* Feed and Catalogue
  Scales, Stars, AnswerLimit,                \* Ratings
  Shop, Hidden, Rating, Instants, ShutLimit, \* Dashboard
  RatedLimit                                 \* Ratings and Dashboard

VARIABLES
  area,
  today, tasks, run, ran, served, told, missed, overlapped,
  list, rows, counted, edits, walk,
  minute, due,
  service, docs, changes, reader,
  answers, ratings,
  now, posted, shut

recurrenceVars == <<today, tasks, run, ran, served, told, missed, overlapped>>
feedVars       == <<list, rows, counted, edits, walk>>
deadlineVars   == <<minute, due>>
catalogueVars  == <<service, docs, changes, reader>>
ratingVars     == <<answers, ratings>>
dashboardVars  == <<now, posted, shut>>

-------------------------------------------------------------------------------
Recurring == INSTANCE Recurrence WITH Admin <- Overseer
Scrolling == INSTANCE Feed WITH ChangeLimit <- EditLimit
Deadlines == INSTANCE Deadlines
Listings  == INSTANCE Catalogue WITH ChangeLimit <- EditLimit
Scores    == INSTANCE Ratings WITH ReviewLimit <- RatedLimit
Figures   == INSTANCE Dashboard WITH Outlet <- Shop, ReviewLimit <- RatedLimit

\* A calendar has a month, and a month at most 31 days.
ASSUME CalendarAssumption == MonthLength \in Seq(1..31) \ {<<>>}
\* A monthly plan names days of a month, and a person is no template.
ASSUME PlanAssumption ==
  /\ "user" \notin Template
  /\ \A t \in Template : Plan[t].type = "monthly" => Plan[t].days \subseteq Nat \ {0}

\* The calendar has every day the reminders and the overview look at, and the
\* times are those of a day.
ASSUME DeadlineAssumption ==
  /\ FirstMinute \in Nat /\ LastMinute \in Nat /\ FirstMinute <= LastMinute
  /\ DueDates \subseteq Nat /\ DueTimes \subseteq 0..(Deadlines!Day - 1)
  /\ \A t \in DueDates \cup {LastMinute} :
       Deadlines!IndianDay(t) < Deadlines!FirstDay[Len(MonthLength) + 1]
ASSUME BoundAssumption ==
  /\ RowLimit \in Nat /\ KeyLimit \in Nat /\ EditLimit \in Nat /\ DocLimit \in Nat
  /\ PageCap \in Nat \ {0}
\* Tags are numbers, and 0 stands for none.
ASSUME TagAssumption == Tag \subseteq Nat \ {0}
\* Scales and stars are whole numbers, of any size.
ASSUME StarAssumption ==
  Scales \subseteq Int /\ Stars \subseteq Int /\ AnswerLimit \in Nat /\ RatedLimit \in Nat
\* Time has a first and a last moment, after the moment 0 that stands for none;
\* there are finitely many outlets, and ratings are one to five stars in tenths.
ASSUME DashboardAssumption ==
  /\ Instants \subseteq Nat \ {0} /\ Instants # {} /\ IsFiniteSet(Instants)
  /\ IsFiniteSet(Shop) /\ Rating \subseteq 10..50 /\ ShutLimit \in Nat

-------------------------------------------------------------------------------
PagesInit ==
  /\ area \in Areas
  /\ Recurring!Init
  /\ Scrolling!Init
  /\ Deadlines!Init
  /\ Listings!Init
  /\ Scores!Init
  /\ Figures!Init

PagesVars == <<area, recurrenceVars, feedVars, deadlineVars, catalogueVars,
               ratingVars, dashboardVars>>

RecurrenceStep ==
  /\ area = "recurrence" /\ Recurring!Next
  /\ UNCHANGED <<area, feedVars, deadlineVars, catalogueVars,
                 ratingVars, dashboardVars>>

FeedStep ==
  /\ area = "feed" /\ Scrolling!Next
  /\ UNCHANGED <<area, recurrenceVars, deadlineVars, catalogueVars,
                 ratingVars, dashboardVars>>

DeadlineStep ==
  /\ area = "deadlines" /\ Deadlines!Next
  /\ UNCHANGED <<area, recurrenceVars, feedVars, catalogueVars,
                 ratingVars, dashboardVars>>

CatalogueStep ==
  /\ area = "catalogue" /\ Listings!Next
  /\ UNCHANGED <<area, recurrenceVars, feedVars, deadlineVars,
                 ratingVars, dashboardVars>>

RatingStep ==
  /\ area = "ratings" /\ Scores!Next
  /\ UNCHANGED <<area, recurrenceVars, feedVars, deadlineVars,
                 catalogueVars, dashboardVars>>

DashboardStep ==
  /\ area = "dashboard" /\ Figures!Next
  /\ UNCHANGED <<area, recurrenceVars, feedVars, deadlineVars,
                 catalogueVars, ratingVars>>

PagesNext ==
  \/ RecurrenceStep
  \/ FeedStep
  \/ DeadlineStep
  \/ CatalogueStep
  \/ RatingStep
  \/ DashboardStep

PagesSpec == PagesInit /\ [][PagesNext]_PagesVars

-------------------------------------------------------------------------------
(* Properties *)

\* Every component keeps its variables within their types.
PagesTypeOK ==
  /\ area \in Areas
  /\ area = "recurrence" => Recurring!TypeOK
  /\ area = "feed" => Scrolling!TypeOK
  /\ area = "deadlines" => Deadlines!TypeOK
  /\ area = "catalogue" => Listings!TypeOK
  /\ area = "ratings" => Scores!TypeOK
  /\ area = "dashboard" => Figures!TypeOK

\* TaskRecurrenceService: one instance a day, each planned day of every month,
\* and one push to everybody who sees the new task.
InstancesAsPlanned ==
  area = "recurrence" =>
    Recurring!OncePerDay /\ Recurring!EveryMonth /\ Recurring!ToldOnce

\* The cursors of the timeline, the attachments and the recently viewed tasks:
\* a client that scrolls down meets every row that stays, none twice, and gets
\* each with all it refers to.
ScrollFaithful ==
  area = "feed" =>
    /\ Scrolling!ScrollShowsOnce /\ Scrolling!ScrollComplete
    /\ Scrolling!HeaderNotAhead /\ Scrolling!PagesAreWhole

\* The reminder cron's database filter hides no task that is due in one of its
\* windows, and the overview counts by Indian days: two calendars of two
\* services around the midnights of two time zones.
CalendarsAgree ==
  area = "deadlines" =>
    Deadlines!DueIsCandidate /\ Deadlines!OverviewCountsIndianDays

\* The paged listings of all services: a client that walks the pages to the
\* end has met every document that stayed, and none twice.
WalkFaithful ==
  area = "catalogue" => Listings!WalkComplete /\ Listings!WalkShowsOnce

\* A review's rating follows its answers whatever their scales, the dashboard
\* scores an answer as the review does, and the summary's bars add up.
RatingsAgree ==
  area = "ratings" =>
    /\ Scores!RatingFollowsAnswers /\ Scores!DashboardAgrees
    /\ Scores!SummaryAddsUp

\* AnalyticsService: the figures add up and agree with the reviews' own list,
\* the ranking has every outlet once and in order, every review falls into one
\* bucket of the trend, and the insights are extremes.
DashboardAddsUp ==
  area = "dashboard" =>
    /\ Figures!OverviewMatchesList /\ Figures!FeedbackAddsUp
    /\ Figures!RankingWhole /\ Figures!TrendAddsUp /\ Figures!InsightsAreExtreme
===============================================================================
