------------------------------ MODULE Deadlines ------------------------------
(***************************************************************************)
(* The calendar of tasks: which tasks the reminder cron looks at and which *)
(* window a task falls into (task-reminder.service.ts), and the open tasks *)
(* the overview counts as due today, this week and this month              *)
(* (task.service.ts).  Both reckon in Indian days, and store instants in   *)
(* UTC.  The unit of time is a minute; the last millisecond of a day is    *)
(* its last minute here.                                                   *)
(***************************************************************************)
EXTENDS Integers, Sequences, FiniteSets, FiniteSetsExt

CONSTANTS
  MonthLength,   \* the lengths of the months, from the one day 0 is in
  DueDates,      \* the instants given as dueDate
  DueTimes,      \* the times given as dueTime, in minutes of the Indian day
  FirstMinute,   \* the minutes the model looks at
  LastMinute

VARIABLES
  minute,   \* the present
  due       \* an open task's dueDate and dueTime

vars == <<minute, due>>

Day == 1440

India == 330

Unset == [date |-> -1, time |-> 0]

TypeOK ==
  /\ minute \in FirstMinute..LastMinute
  /\ due \in {Unset} \cup [date : DueDates, time : DueTimes]

Init == minute = FirstMinute /\ due = Unset

\* create, or update of dueDate and dueTime.  (Once: a deadline changed later
\* leads to a state that setting it only then leads to.)
SetDue(date, time) ==
  /\ due = Unset
  /\ due' = [date |-> date, time |-> time]
  /\ UNCHANGED minute

Pass(minutes) ==
  /\ minute + minutes <= LastMinute
  /\ minute' = minute + minutes
  /\ UNCHANGED due

Next ==
  \/ \E date \in DueDates, time \in DueTimes : SetDue(date, time)
  \/ \E minutes \in {1, 240} : Pass(minutes)

Spec == Init /\ [][Next]_vars

----------------------------------------------------------------------------
(* Days and months, counted from day 0 and month 1.                        *)

IndianDay(t) == (t + India) \div Day

\* createDateInTimeZone: the UTC guess less the offset of the zone.
InZone(day, time) == day * Day + time - India

DayStartUtc(t) == (t \div Day) * Day

BusinessDayStart(t) == InZone(IndianDay(t), 0)

BusinessDayEnd(t) == BusinessDayStart(t) + Day - 1

FirstDay[month \in 1..(Len(MonthLength) + 1)] ==
  IF month = 1 THEN 0 ELSE FirstDay[month - 1] + MonthLength[month - 1]

Month(day) ==
  CHOOSE m \in 1..Len(MonthLength) : FirstDay[m] <= day /\ day < FirstDay[m + 1]

BusinessMonthEnd(t) ==
  BusinessDayStart(FirstDay[Month(IndianDay(t)) + 1] * Day) - 1

RangeEnd(start, days) == start + days * Day - 1

----------------------------------------------------------------------------
(* task-reminder.service.ts.                                               *)

Catchup == 5

Leads == {0, 30, 60}

WindowStart(lead) == minute + lead - Catchup

WindowEnd(lead) == minute + lead

\* getTaskDueDateTime: the Indian day of dueDate, at dueTime.
DueAt == InZone(IndianDay(due.date), due.time)

IsDueInReminderWindow(lead) == DueAt > WindowStart(lead) /\ DueAt <= WindowEnd(lead)

SearchStart == BusinessDayStart(WindowStart(Min(Leads)))

EndOfFirstWindow == BusinessDayEnd(WindowEnd(Min(Leads)))

SearchEnd == BusinessDayEnd(WindowEnd(Max(Leads)))

Candidate == due.date >= SearchStart /\ due.date <= SearchEnd

----------------------------------------------------------------------------
(* getOverview of task.service.ts.                                         *)

Between(from, to) == due.date >= from /\ due.date <= to

DueToday == Between(BusinessDayStart(minute), RangeEnd(BusinessDayStart(minute), 1))

DueThisWeek == Between(BusinessDayStart(minute), RangeEnd(BusinessDayStart(minute), 7))

DueThisMonth == Between(BusinessDayStart(minute), BusinessMonthEnd(minute))

----------------------------------------------------------------------------
(* Properties.                                                             *)

\* The database's filter on the stored instant, which knows nothing of
\* dueTime, hides no task whose deadline is in a reminder window, around
\* midnight too; and a deadline is in one window at most, so that a tick never
\* sends two reminders for it.
DueIsCandidate ==
  due # Unset =>
    /\ (\E lead \in Leads : IsDueInReminderWindow(lead)) => Candidate
    /\ Cardinality({lead \in Leads : IsDueInReminderWindow(lead)}) <= 1

\* The overview counts by the Indian calendar, whatever the UTC instants are:
\* a task is due today, within seven days or before the end of this month
\* exactly if the Indian day of its deadline is.
OverviewCountsIndianDays ==
  due # Unset =>
    LET day == IndianDay(DueAt)
        today == IndianDay(minute) IN
    /\ DueToday <=> day = today
    /\ DueThisWeek <=> day \in today..(today + 6)
    /\ DueThisMonth <=> day >= today /\ Month(day) = Month(today)

============================================================================
