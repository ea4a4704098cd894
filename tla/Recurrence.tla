----------------------------- MODULE Recurrence -----------------------------
(***************************************************************************)
(* TaskRecurrenceService: at 00:05 IST a cron makes today's instance of    *)
(* every recurring task that falls due, unless there is one.  A calendar   *)
(* of a few months is run through day by day.                              *)
(*                                                                         *)
(* An instant is a half hour since the epoch of the calendar, in UTC; IST  *)
(* is eleven half hours ahead.                                             *)
(***************************************************************************)
EXTENDS Integers, FiniteSets, Sequences

CONSTANTS
  Runner,       \* instances of the program, each of which has the cron
  Template,     \* recurring tasks
  Plan,         \* template -> type, days, and the fields an instance copies
  MonthLength,  \* the calendar: the number of days of each month
  Admin         \* users with the role admin

VARIABLES
  today,      \* the IST day, counted from 1
  tasks,      \* the tasks that do not recur and are due around today
  run,        \* runner -> templates to do, and the one found missing
  ran,        \* runners whose cron has fired today
  served,     \* history: template -> days of this month it has an instance
  told,       \* history: the pushes about today's instances
  missed,     \* history: this month a run died, failed or did not take place
  overlapped  \* history: today two runs were in progress at the same time

qvars == <<today, tasks, run, ran, served, told, missed, overlapped>>

------------------------------------------------------------------------------
(* ist-date.util *)

HalfHours == 48
IstOffset == 11

\* The IST calendar day an instant falls on.
IstDay(i) == (i + IstOffset) \div HalfHours

IstDayStart(i) == IstDay(i) * HalfHours - IstOffset
IstDayEnd(i)   == IstDayStart(i) + HalfHours - 1

\* The days of the calendar before a month, and of the whole of it.
DaysBefore[m \in 1..(Len(MonthLength) + 1)] ==
  IF m = 1 THEN 0 ELSE DaysBefore[m - 1] + MonthLength[m - 1]

LastDay == DaysBefore[Len(MonthLength) + 1]

\* getIstDateParts: month, day of the month and weekday.
DateParts(i) ==
  LET m == CHOOSE x \in 1..Len(MonthLength) :
             /\ DaysBefore[x] < IstDay(i)
             /\ IstDay(i) <= DaysBefore[x] + MonthLength[x]
  IN [month |-> m, day |-> IstDay(i) - DaysBefore[m], weekday |-> IstDay(i) % 7]

IsLastDayOfMonth(i) == DateParts(i).day = MonthLength[DateParts(i).month]

\* The cron fires at 00:05 IST, which is still yesterday in UTC.
Now == today * HalfHours - IstOffset

------------------------------------------------------------------------------
Idle == [todo |-> {}, missing |-> {}]

Keys == {Plan[t].key : t \in Template}

Init ==
  /\ today = 1
  /\ tasks = {}
  /\ run = [r \in Runner |-> Idle]
  /\ ran = {}
  /\ served = [t \in Template |-> {}]
  /\ told = {}
  /\ missed = FALSE
  /\ overlapped = FALSE

TypeOK ==
  /\ today \in 1..LastDay
  /\ \A x \in tasks : x.key \in Keys /\ IstDay(x.due) \in (today - 1)..(today + 1)
  /\ run \in [Runner -> [todo : SUBSET Template, missing : SUBSET Template]]
  /\ ran \subseteq Runner
  /\ served \in [Template -> SUBSET (1..31)]
  /\ missed \in BOOLEAN /\ overlapped \in BOOLEAN

\* The filter of the cron: on the last day of a month all later days count.
FallsDue(t, i) ==
  \/ Plan[t].type = "daily"
  \/ Plan[t].type = "weekly" /\ DateParts(i).weekday \in Plan[t].days
  \/ /\ Plan[t].type = "monthly"
     /\ IF IsLastDayOfMonth(i)
        THEN \E d \in Plan[t].days : d >= DateParts(i).day
        ELSE DateParts(i).day \in Plan[t].days

\* Mutant: a task due at the very start of the day is not found.
ExistsLater(key) ==
  \E x \in tasks : x.key = key /\ IstDayStart(Now) < x.due /\ x.due <= IstDayEnd(Now)

\* The idempotency check: the fields of an instance, and due today.
Exists(key) ==
  \E x \in tasks :
    x.key = key /\ IstDayStart(Now) <= x.due /\ x.due <= IstDayEnd(Now)

\* The cron fires and finds the templates; those that were removed keep
\* recurring, the filter does not ask.
Fire(r) ==
  /\ r \notin ran
  /\ ran' = ran \cup {r}
  /\ run' = [run EXCEPT ![r].todo = {t \in Template : FallsDue(t, Now)}]
  /\ overlapped' = (overlapped \/ \E q \in Runner : run[q] # Idle)
  /\ UNCHANGED <<today, tasks, served, told, missed>>

\* One template: is there an instance already?
Check(r, t) ==
  /\ run[r].missing = {}
  /\ t \in run[r].todo
  /\ IF Exists(Plan[t].key)
     THEN /\ run' = [run EXCEPT ![r].todo = @ \ {t}]
          /\ served' = [served EXCEPT ![t] = @ \cup {DateParts(Now).day}]
     ELSE /\ run' = [run EXCEPT ![r] = [todo |-> @.todo \ {t}, missing |-> {t}]]
          /\ UNCHANGED served
  /\ UNCHANGED <<today, tasks, ran, told, missed, overlapped>>

\* computeTaskAudience: everyone who can see the task.
Audience(t) == Admin \cup Plan[t].assignees \cup {Plan[t].creator}

\* notifyNewInstance: assignees are told of their task, the others of a new
\* one, its creator of nothing.
Pushes(t) ==
  LET audience == Audience(t) \ {Plan[t].creator} IN
  {[about |-> t, to |-> u, title |-> "New Task Assigned"] :
     u \in audience \cap Plan[t].assignees}
  \cup
  {[about |-> t, to |-> u, title |-> "New Task"] :
     u \in audience \ Plan[t].assignees}

\* The instance is stored, due at the start of the IST day.
Create(r) == \E t \in run[r].missing :
  /\ tasks' = tasks \cup {[key |-> Plan[t].key, due |-> IstDayStart(Now),
                           of |-> t, by |-> r]}
  /\ run' = [run EXCEPT ![r].missing = {}]
  /\ served' = [served EXCEPT ![t] = @ \cup {DateParts(Now).day}]
  /\ told' = told \cup Pushes(t)
  /\ UNCHANGED <<today, ran, missed, overlapped>>

\* Storing it fails, which is logged.
CreateFails(r) ==
  /\ run[r].missing # {}
  /\ run' = [run EXCEPT ![r].missing = {}]
  /\ missed' = TRUE
  /\ UNCHANGED <<today, tasks, ran, served, told, overlapped>>

\* The process dies during the run, which nothing takes up again.
Die(r) ==
  /\ run[r] # Idle
  /\ run' = [run EXCEPT ![r] = Idle]
  /\ missed' = TRUE
  /\ UNCHANGED <<today, tasks, ran, served, told, overlapped>>

\* A user adds an ordinary task with the same text (bound: one at a time, due
\* at the edges of today).
UserAdds(key, due) ==
  /\ \A x \in tasks : x.of # "user"
  /\ tasks' = tasks \cup {[key |-> key, due |-> due, of |-> "user", by |-> "user"]}
  /\ UNCHANGED <<today, run, ran, served, told, missed, overlapped>>

\* The day ends, long after its runs; a cron may not have fired at all.
NextDay ==
  /\ today < LastDay
  /\ \A r \in Runner : run[r] = Idle
  /\ today' = today + 1
  /\ tasks' = {x \in tasks : IstDay(x.due) >= today}
  /\ ran' = {}
  /\ told' = {}
  /\ overlapped' = FALSE
  /\ IF IsLastDayOfMonth(Now)
     THEN missed' = FALSE /\ served' = [t \in Template |-> {}]
     ELSE missed' = (missed \/ ran = {}) /\ UNCHANGED served
  /\ UNCHANGED run

Next ==
  \/ \E r \in Runner :
       \/ Fire(r) \/ Create(r) \/ CreateFails(r) \/ Die(r)
       \/ \E t \in Template : Check(r, t)
  \/ \E key \in Keys, off \in {-1, 0, HalfHours - 1, HalfHours} :
       UserAdds(key, Now + off)
  \/ NextDay

Spec == Init /\ [][Next]_qvars

------------------------------------------------------------------------------
(* Properties *)

\* A template has at most one instance a day, however often the cron runs that
\* day, as long as no two runs are in progress at once.
OncePerDay ==
  \A key \in Keys :
    Cardinality({x \in tasks : /\ x.key = key /\ x.of # "user"
                               /\ IstDay(x.due) = today}) > 1
      => overlapped

\* At the end of every month a monthly template has had its instance on each of
\* its days, and on the last day for those the month does not have: none is
\* skipped in a short month and none comes twice.
EveryMonth ==
  IsLastDayOfMonth(Now) /\ ran # {} /\ ~missed
    /\ (\A r \in Runner : run[r] = Idle)
  => \A t \in {x \in Template : Plan[x].type = "monthly"} :
       LET length == MonthLength[DateParts(Now).month] IN
       served[t] = {IF d > length THEN length ELSE d : d \in Plan[t].days}

\* Everybody who sees a new instance is told of it once, except its creator.
ToldOnce ==
  \A x \in tasks : x.of # "user" /\ IstDay(x.due) = today =>
    \A u \in (Admin \cup Plan[x.of].assignees) \ {Plan[x.of].creator} :
      Cardinality({p \in told : p.about = x.of /\ p.to = u}) = 1
==============================================================================
