-------------------------- MODULE TaskReminderProofs --------------------------
(***************************************************************************)
(* No deadline is reminded of twice (RemindedOnce), and a reminder goes    *)
(* out before its window closes unless as many minutes as the window has   *)
(* were lost (RemindedInTime), for any number of cron runs, editors and    *)
(* windows and any number of failures.                                     *)
(***************************************************************************)
EXTENDS TaskReminder, TLAPS

USE DEF history, counters

\* The model starts in a state in which every variable has its type.
LEMMA InitTypeOK == Init => TypeOK
<1> SUFFICES ASSUME Init PROVE TypeOK
  OBVIOUS
<1>1. task \in Task
  BY DEF Init, Task, Unsent
<1>2. reminded \in [0..arming -> [Windows -> Nat]]
  <2>1. reminded = [a \in {0} |-> Unreminded] /\ arming = 0
    BY DEF Init
  <2>2. 0..0 = {0}
    OBVIOUS
  <2>. QED
    BY <2>1, <2>2 DEF Unreminded
<1>3. job \in [Runs -> Job \cup {None}] /\ edit \in [Editors -> Edit \cup {None}]
  BY DEF Init
<1>4. now = 0 /\ arming = 0 /\ armedAt = 0 /\ missed = 0 /\ edits = 0
        /\ failures = 0 /\ partials = 0 /\ crashes = 0
  BY Zenon DEF Init
<1>5. ran \in BOOLEAN
  BY Zenon DEF Init
<1>6. /\ now \in 0..MaxTime /\ arming \in Nat /\ armedAt \in 0..now /\ missed \in 0..now
      /\ edits \in 0..MaxEdits /\ failures \in 0..MaxFailures
      /\ partials \in 0..MaxPartial /\ crashes \in 0..MaxCrashes
  BY <1>4, BoundsAssumption
<1>. QED
  BY <1>1, <1>2, <1>3, <1>5, <1>6, Zenon DEF TypeOK

\* What the actions write into a task, a run and an edit are again tasks, runs
\* and edits.
LEMMA TaskMarked ==
  ASSUME NEW t \in Task, NEW w \in Windows, NEW m \in Marker \cup {None}
  PROVE  [t EXCEPT !.sent[w] = m] \in Task
BY DEF Task

\* ... a new deadline (WriteEdit) ...
LEMMA TaskRearmed ==
  ASSUME NEW t \in Task, NEW due \in Deadlines
  PROVE  [t EXCEPT !.due = due, !.sent = Unsent] \in Task
BY DEF Task, Unsent

\* ... the status and the deletion flag ...
LEMMA TaskFlagged ==
  ASSUME NEW t \in Task, NEW b \in BOOLEAN
  PROVE  [t EXCEPT !.open = b] \in Task /\ [t EXCEPT !.deleted = b] \in Task
BY DEF Task

\* ... a run that goes on to its next step ...
LEMMA JobStepped ==
  ASSUME NEW j \in Job, NEW s \in {"reserve", "send", "release"}, NEW a \in Nat
  PROVE  [j EXCEPT !.step = s] \in Job /\ [j EXCEPT !.step = s, !.arming = a] \in Job
BY DEF Job

\* ... and an update that still has its event to append.
LEMMA EditStepped ==
  ASSUME NEW e \in Edit
  PROVE  [e EXCEPT !.step = "append"] \in Edit
BY DEF Edit

\* One more reminder keeps the type of the counts (SendAll and SendSome).
LEMMA RemindedType ==
  ASSUME TypeOK, NEW c \in Runs, job[c] \in Job, job[c].arming <= arming, Reminded(c)
  PROVE  reminded' \in [0..arming -> [Windows -> Nat]]
<1> DEFINE a == job[c].arming
           w == job[c].window
<1>1. a \in 0..arming /\ w \in Windows
  BY DEF Job, TypeOK
<1>2. reminded[a] \in [Windows -> Nat]
  BY <1>1 DEF TypeOK
<1>3. [reminded[a] EXCEPT ![w] = @ + 1] \in [Windows -> Nat]
  BY <1>1, <1>2
<1>4. reminded' = [reminded EXCEPT ![a] = [reminded[a] EXCEPT ![w] = @ + 1]]
  BY DEF Reminded
<1>. QED
  BY <1>1, <1>3, <1>4 DEF TypeOK

\* Every action keeps the types; that the arming of a run is not one of the
\* future (MarkersOwn) is needed for the counts.
LEMMA TypeStep == TypeOK /\ MarkersOwn /\ [Next]_vars => TypeOK'
<1> SUFFICES ASSUME TypeOK, MarkersOwn, [Next]_vars PROVE TypeOK'
  OBVIOUS
<1> USE BoundsAssumption DEF TypeOK
<1>1. ASSUME NEW c \in Runs, StartRun(c) PROVE TypeOK'
  <2>1. job' \in [Runs -> Job \cup {None}]
    <3>1. ASSUME NEW w \in Windows
          PROVE  [step |-> "reserve", window |-> w, arming |-> arming,
                  marker |-> [by |-> c, at |-> now, due |-> task.due]] \in Job
      BY DEF Job, Marker, Task
    <3>. QED
      BY <1>1, <3>1 DEF StartRun
  <2>. QED
    BY <1>1, <2>1 DEF StartRun
<1>2. ASSUME NEW c \in Runs, Reserve(c) PROVE TypeOK'
  <2>1. job[c] \in Job /\ job[c].window \in Windows /\ job[c].marker \in Marker
    BY <1>2 DEF Reserve, At, Job
  <2>2. task' \in Task
    BY <1>2, <2>1, TaskMarked DEF Reserve
  <2>3. job' \in [Runs -> Job \cup {None}]
    <3>1. [job[c] EXCEPT !.step = "send", !.arming = arming] \in Job
      BY <2>1, JobStepped
    <3>2. job' = [job EXCEPT ![c] = [job[c] EXCEPT !.step = "send", !.arming = arming]]
            \/ job' = [job EXCEPT ![c] = None]
      BY <1>2 DEF Reserve
    <3>. QED
      BY <3>1, <3>2
  <2>. QED
    BY <1>2, <2>2, <2>3 DEF Reserve
<1>3. ASSUME NEW c \in Runs, SendAll(c) PROVE TypeOK'
  <2>1. job[c] \in Job /\ job[c].arming <= arming
    BY <1>3 DEF SendAll, At, MarkersOwn
  <2>. QED
    BY <1>3, <2>1, RemindedType DEF SendAll
<1>4. ASSUME NEW c \in Runs, SendNone(c) PROVE TypeOK'
  <2>1. [job[c] EXCEPT !.step = "release"] \in Job
    BY <1>4, JobStepped DEF SendNone, At
  <2>2. job' \in [Runs -> Job \cup {None}]
    BY <1>4, <2>1 DEF SendNone
  <2>. QED
    BY <1>4, <2>2 DEF SendNone
<1>5. ASSUME NEW c \in Runs, SendSome(c) PROVE TypeOK'
  <2>1. job[c] \in Job /\ job[c].arming <= arming
    BY <1>5 DEF SendSome, At, MarkersOwn
  <2>2. job' \in [Runs -> Job \cup {None}]
    BY <1>5, <2>1, JobStepped DEF SendSome
  <2>3. partials' \in 0..MaxPartial
    BY <1>5 DEF SendSome
  <2>. QED
    BY <1>5, <2>1, <2>2, <2>3, RemindedType DEF SendSome
<1>6. ASSUME NEW c \in Runs, Release(c) PROVE TypeOK'
  <2>1. job[c] \in Job /\ job[c].window \in Windows
    BY <1>6 DEF Release, At, Job
  <2>2. task' \in Task
    BY <1>6, <2>1, TaskMarked DEF Release
  <2>. QED
    BY <1>6, <2>2 DEF Release
<1>7. ASSUME NEW c \in Runs, RunDies(c) PROVE TypeOK'
  BY <1>7 DEF RunDies
<1>8. ASSUME NEW r \in Editors, NEW due \in Deadlines, NEW reopen \in BOOLEAN,
             BeginEdit(r, due, reopen)
      PROVE  TypeOK'
  BY <1>8 DEF BeginEdit, Edit
<1>9. ASSUME NEW r \in Editors, WriteEdit(r) PROVE TypeOK'
  <2>1. CASE task.deleted
    BY <1>9, <2>1 DEF WriteEdit
  <2>2. CASE ~task.deleted
    <3>1. edit[r] \in Edit /\ edit[r].due \in Deadlines
      BY <1>9 DEF WriteEdit, Edit
    <3>2. task' \in Task
      <4>1. task' = [task EXCEPT !.due = edit[r].due, !.sent = Unsent]
        BY <1>9, <2>2, Zenon DEF WriteEdit, MarkersReset
      <4>. QED
        BY <3>1, <4>1, TaskRearmed
    <3>3. edit' \in [Editors -> Edit \cup {None}]
      <4>1. [edit[r] EXCEPT !.step = "append"] \in Edit
        BY <3>1, EditStepped
      <4>2. edit' = [edit EXCEPT ![r] = [edit[r] EXCEPT !.step = "append"]]
              \/ edit' = [edit EXCEPT ![r] = None]
        BY <1>9, <2>2 DEF WriteEdit
      <4>. QED
        BY <4>1, <4>2
    <3>4. reminded' \in [0..arming' -> [Windows -> Nat]]
      BY <1>9, <2>2 DEF WriteEdit, Unreminded
    <3>. QED
      BY <1>9, <2>2, <3>2, <3>3, <3>4 DEF WriteEdit
  <2>. QED
    BY <2>1, <2>2
<1>10. ASSUME NEW r \in Editors, ReopenTask(r) PROVE TypeOK'
  <2>1. task' \in Task
    BY <1>10, TaskFlagged DEF ReopenTask
  <2>. QED
    BY <1>10, <2>1 DEF ReopenTask
<1>11. CASE CompleteTask
  BY <1>11, TaskFlagged DEF CompleteTask
<1>12. CASE DeleteTask
  BY <1>12, TaskFlagged DEF DeleteTask
<1>13. CASE Minute
  <2>1. now' \in 0..MaxTime /\ armedAt' \in 0..now' /\ missed' \in 0..now'
    BY <1>13 DEF Minute
  <2>. QED
    BY <1>13, <2>1 DEF Minute
<1>14. CASE UNCHANGED vars
  BY <1>14 DEF vars
<1>. QED
  BY <1>1, <1>2, <1>3, <1>4, <1>5, <1>6, <1>7, <1>8, <1>9, <1>10, <1>11, <1>12,
     <1>13, <1>14 DEF Next

------------------------------------------------------------------------------
(* The bookkeeping of markers and reminders, action by action *)

\* Updates that leave the markers alone, completion, deletion and time.
LEMMA NoMarkerMoved ==
  ASSUME Bookkeeping, task'.sent = task.sent, UNCHANGED <<job, arming, reminded, partials>>
  PROVE  Bookkeeping'
BY DEF Bookkeeping, MarkersOwn, SendersHold, HoldersCurrent, OneSender,
       OnlyPartialsBefore, RemindedOnce, At, OwnReservation

\* A run that ends, or one that starts: it holds nothing.
LEMMA RunWithoutMarker ==
  ASSUME TypeOK, Bookkeeping, NEW c \in Runs, NEW j \in Job \cup {None},
         j # None => j.step = "reserve" /\ j.marker.by = c /\ j.arming = arming,
         job' = [job EXCEPT ![c] = j],
         task' = task, UNCHANGED <<arming, reminded, partials>>
  PROVE  Bookkeeping'
<1> USE DEF Bookkeeping, TypeOK
<1>1. \A d \in Runs : job'[d] = IF d = c THEN j ELSE job[d]
  OBVIOUS
<1>2. MarkersOwn'
  BY <1>1 DEF MarkersOwn
<1>3. SendersHold' /\ HoldersCurrent'
  BY <1>1 DEF SendersHold, HoldersCurrent, At, OwnReservation
<1>4. OneSender'
  BY <1>1 DEF OneSender, At
<1>5. OnlyPartialsBefore' /\ RemindedOnce'
  BY <1>1 DEF OnlyPartialsBefore, RemindedOnce, At, OwnReservation
<1>. QED
  BY <1>2, <1>3, <1>4, <1>5

\* The reservation.
LEMMA ReserveStep ==
  ASSUME TypeOK, Bookkeeping, NEW c \in Runs, Reserve(c)
  PROVE  Bookkeeping'
<1> DEFINE w == job[c].window
<1>1. /\ job[c] \in Job /\ job[c] # None /\ job[c].step = "reserve"
      /\ w \in Windows /\ job[c].marker \in Marker /\ arming \in Nat
  BY DEF TypeOK, Reserve, At, Job
<1>2. CASE ~Reservable(c)
  BY <1>2, RunWithoutMarker DEF Reserve
<1>3. CASE Reservable(c)
  <2>1. /\ task.sent[w] = None
        /\ UNCHANGED <<arming, reminded, partials>>
        /\ \A v \in Windows :
             task'.sent[v] = IF v = w THEN job[c].marker ELSE task.sent[v]
    BY <1>1, <1>3 DEF Reserve, Reservable, TypeOK, Task
  <2>2. /\ job'[c].step = "send" /\ job'[c].arming = arming /\ job'[c].window = w
        /\ job'[c].marker = job[c].marker /\ job'[c] # None
        /\ \A d \in Runs \ {c} : job'[d] = job[d]
    <3>1. job' = [job EXCEPT ![c] = [job[c] EXCEPT !.step = "send", !.arming = arming]]
      BY <1>3 DEF Reserve
    <3>2. job'[c] = [job[c] EXCEPT !.step = "send", !.arming = arming]
      BY <3>1 DEF TypeOK
    <3>3. \A d \in Runs \ {c} : job'[d] = job[d]
      BY <3>1 DEF TypeOK
    <3>4. job'[c] \in Job
      <4>1. [job[c] EXCEPT !.step = "send", !.arming = arming] \in Job
        BY <1>1, JobStepped
      <4>. QED
        BY <3>2, <4>1
    <3>5. job'[c] # None
      BY <3>4, NoneAssumption
    <3>. QED
      BY <1>1, <3>2, <3>3, <3>5 DEF Job
  <2>3. \A d \in Runs \ {c} : job[d] # None =>
          job[d].marker # job[c].marker /\ job[d].window \in Windows
    <3>1. \A d \in Runs : job[d] # None => job[d].marker.by = d
      BY DEF Bookkeeping, MarkersOwn
    <3>2. \A d \in Runs : job[d] # None => job[d].window \in Windows
      BY DEF TypeOK, Job
    <3>. QED
      BY <1>1, <3>1, <3>2
  <2>4. MarkersOwn'
    BY <2>1, <2>2, <1>1 DEF Bookkeeping, MarkersOwn, TypeOK
  <2>5. \A d \in Runs : At(d, "send") /\ job[d].arming = arming => job[d].window # w
    <3>1. \A d \in Runs : job[d] # None => job[d].marker # None
      BY NoneAssumption DEF TypeOK, Job
    <3>. QED
      BY <2>1, <3>1 DEF Bookkeeping, SendersHold, At, OwnReservation
  <2>6. SendersHold'
    BY <1>1, <2>1, <2>2, <2>3, <2>5 DEF Bookkeeping, SendersHold, At, OwnReservation
  <2>7. HoldersCurrent'
    BY <1>1, <2>1, <2>2, <2>3 DEF Bookkeeping, HoldersCurrent, At, OwnReservation
  <2>8. OneSender'
    BY <1>1, <2>1, <2>2, <2>5 DEF Bookkeeping, OneSender, At
  <2>9. OnlyPartialsBefore' /\ RemindedOnce'
    BY <1>1, <2>1, <2>2, <2>3, NoneAssumption
    DEF Bookkeeping, OnlyPartialsBefore, RemindedOnce, At, OwnReservation
  <2>. QED
    BY <2>4, <2>6, <2>7, <2>8, <2>9 DEF Bookkeeping
<1>. QED
  BY <1>2, <1>3

\* A run in its last steps, and what one more reminder does to the counts.
LEMMA SenderFacts ==
  ASSUME TypeOK, Bookkeeping, NEW c \in Runs, At(c, "send") \/ At(c, "release")
  PROVE  /\ job[c] \in Job /\ job[c] # None
         /\ job[c].window \in Windows /\ job[c].arming \in 0..arming
         /\ job[c].marker \in Marker /\ job[c].marker # None
         /\ \A d \in Runs \ {c} : job[d] # None => job[d].marker # job[c].marker
<1>1. job[c] \in Job /\ job[c] # None
  BY DEF TypeOK, At
<1>2. job[c].arming <= arming /\ arming \in Nat
  BY <1>1 DEF Bookkeeping, MarkersOwn, TypeOK
<1>3. \A d \in Runs : job[d] # None => job[d].marker.by = d
  BY DEF Bookkeeping, MarkersOwn
<1>4. \A d \in Runs \ {c} : job[d] # None => job[d].marker # job[c].marker
  BY <1>1, <1>3
<1>. QED
  BY <1>1, <1>2, <1>4, NoneAssumption DEF Job

\* Reminded adds one to the count of the run's arming and window, and to no other.
LEMMA RemindedCounts ==
  ASSUME TypeOK, NEW c \in Runs, job[c].arming \in 0..arming,
         job[c].window \in Windows, Reminded(c)
  PROVE  \A a \in 0..arming, v \in Windows :
           reminded'[a][v] = IF a = job[c].arming /\ v = job[c].window
                               THEN reminded[a][v] + 1 ELSE reminded[a][v]
<1>1. reminded' = [reminded EXCEPT ![job[c].arming] =
                     [reminded[job[c].arming] EXCEPT ![job[c].window] = @ + 1]]
  BY DEF Reminded
<1>2. \A a \in 0..arming : reminded[a] \in [Windows -> Nat]
  BY DEF TypeOK
<1>. QED
  BY <1>1, <1>2 DEF TypeOK

\* All chunks are submitted: the run ends.
LEMMA SendAllStep ==
  ASSUME TypeOK, Bookkeeping, NEW c \in Runs, SendAll(c)
  PROVE  Bookkeeping'
<1> DEFINE w == job[c].window
           a == job[c].arming
<1>1. /\ At(c, "send") /\ job[c] \in Job /\ w \in Windows /\ a \in 0..arming
      /\ job[c].marker # None
      /\ \A d \in Runs \ {c} : job[d] # None => job[d].marker # job[c].marker
  BY SenderFacts DEF SendAll
<1>2. /\ job'[c] = None /\ \A d \in Runs \ {c} : job'[d] = job[d]
      /\ task' = task /\ arming' = arming /\ partials' = partials
  BY DEF SendAll, TypeOK
<1>3. \A b \in 0..arming, v \in Windows :
        reminded'[b][v] = IF b = a /\ v = w THEN reminded[b][v] + 1 ELSE reminded[b][v]
  BY <1>1, RemindedCounts DEF SendAll
<1>4. MarkersOwn' /\ SendersHold' /\ HoldersCurrent' /\ OneSender'
  BY <1>2 DEF Bookkeeping, MarkersOwn, SendersHold, HoldersCurrent, OneSender, At,
              OwnReservation
<1>5. a = arming => task.sent[w] = job[c].marker
  BY <1>1 DEF Bookkeeping, SendersHold, OwnReservation
<1>6. \A d \in Runs : job[d] # None => job[d] \in Job /\ job[d].arming \in 0..arming
                                       /\ job[d].window \in Windows
  BY DEF Bookkeeping, MarkersOwn, TypeOK, Job
<1>7. ASSUME NEW d \in Runs, At(d, "send")'
      PROVE  reminded'[job'[d].arming][job'[d].window] <= partials'
  <2>1. d # c /\ At(d, "send") /\ job'[d] = job[d]
    BY <1>2, <1>7 DEF At
  <2>2. ~(job[d].arming = a /\ job[d].window = w)
    BY <1>1, <2>1 DEF Bookkeeping, OneSender
  <2>. QED
    BY <1>2, <1>3, <1>6, <2>1, <2>2 DEF Bookkeeping, OnlyPartialsBefore, At
<1>8. ASSUME NEW d \in Runs, At(d, "release")', OwnReservation(d)'
      PROVE  reminded'[arming'][job'[d].window] <= partials'
  <2>1. d # c /\ At(d, "release") /\ OwnReservation(d) /\ job'[d] = job[d]
    BY <1>2, <1>8 DEF At, OwnReservation
  <2>2. ~(arming = a /\ job[d].window = w)
    BY <1>1, <1>5, <2>1 DEF At, OwnReservation
  <2>. QED
    BY <1>2, <1>3, <1>6, <2>1, <2>2 DEF Bookkeeping, OnlyPartialsBefore, At, TypeOK
<1>9. ASSUME NEW v \in Windows, task'.sent[v] = None
      PROVE  reminded'[arming'][v] <= partials'
  <2>1. ~(arming = a /\ v = w)
    BY <1>1, <1>2, <1>5, <1>9
  <2>. QED
    BY <1>2, <1>3, <1>9, <2>1 DEF Bookkeeping, OnlyPartialsBefore, TypeOK
<1>10. RemindedOnce'
  <2>1. reminded[a][w] <= partials
    BY <1>1 DEF Bookkeeping, OnlyPartialsBefore
  <2>2. partials \in Nat
    BY BoundsAssumption DEF TypeOK
  <2>3. reminded[a][w] \in Nat
    BY <1>1 DEF TypeOK
  <2>. QED
    BY <1>2, <1>3, <2>1, <2>2, <2>3 DEF Bookkeeping, RemindedOnce
<1>. QED
  BY <1>4, <1>7, <1>8, <1>9, <1>10 DEF Bookkeeping, OnlyPartialsBefore

\* A send that counts as failed: the run goes on to release its marker.
LEMMA ToRelease ==
  ASSUME TypeOK, Bookkeeping, NEW c \in Runs, At(c, "send"),
         job' = [job EXCEPT ![c].step = "release"], task' = task, arming' = arming
  PROVE  /\ MarkersOwn' /\ SendersHold' /\ HoldersCurrent' /\ OneSender'
         /\ \A d \in Runs : /\ job'[d] # None <=> job[d] # None
                            /\ job'[d].window = job[d].window
                            /\ job'[d].arming = job[d].arming
                            /\ job'[d].marker = job[d].marker
                            /\ d # c => job'[d] = job[d]
         /\ job'[c].step = "release"
<1>1. job[c] \in Job /\ job[c] # None
  BY SenderFacts
<1>2. [job[c] EXCEPT !.step = "release"] \in Job
  BY <1>1, JobStepped DEF TypeOK
<1>3. job'[c] = [job[c] EXCEPT !.step = "release"] /\ job'[c] # None
  BY <1>2, NoneAssumption DEF TypeOK
<1>4. \A d \in Runs : d # c => job'[d] = job[d]
  BY DEF TypeOK
<1>5. /\ job'[c].window = job[c].window /\ job'[c].arming = job[c].arming
      /\ job'[c].marker = job[c].marker /\ job'[c].step = "release"
  BY <1>1, <1>3 DEF Job
<1>. QED
  BY <1>1, <1>3, <1>4, <1>5 DEF Bookkeeping, MarkersOwn, SendersHold, HoldersCurrent,
     OneSender, At, OwnReservation

\* Nothing was submitted.
LEMMA SendNoneStep ==
  ASSUME TypeOK, Bookkeeping, NEW c \in Runs, SendNone(c)
  PROVE  Bookkeeping'
<1>1. /\ At(c, "send") /\ job' = [job EXCEPT ![c].step = "release"] /\ task' = task
      /\ arming' = arming /\ reminded' = reminded /\ partials' = partials
  BY DEF SendNone
<1>2. OwnReservation(c) => reminded[arming][job[c].window] <= partials
  BY <1>1 DEF Bookkeeping, HoldersCurrent, OnlyPartialsBefore
<1>3. OnlyPartialsBefore' /\ RemindedOnce'
  BY <1>1, <1>2, ToRelease
  DEF Bookkeeping, OnlyPartialsBefore, RemindedOnce, At, OwnReservation
<1>. QED
  BY <1>1, <1>3, ToRelease DEF Bookkeeping

\* Some chunks were submitted: one more reminder, and one more partial send.
LEMMA SendSomeStep ==
  ASSUME TypeOK, Bookkeeping, NEW c \in Runs, SendSome(c)
  PROVE  Bookkeeping'
<1> DEFINE w == job[c].window
           a == job[c].arming
<1>1. /\ At(c, "send") /\ job' = [job EXCEPT ![c].step = "release"] /\ task' = task
      /\ arming' = arming /\ partials' = partials + 1 /\ partials \in Nat
  BY BoundsAssumption DEF SendSome, TypeOK
<1>2. w \in Windows /\ a \in 0..arming /\ arming \in 0..arming
  BY <1>1, SenderFacts DEF TypeOK
<1>3. \A b \in 0..arming, v \in Windows :
        reminded'[b][v] = IF b = a /\ v = w THEN reminded[b][v] + 1 ELSE reminded[b][v]
  BY <1>2, RemindedCounts DEF SendSome
<1>4. reminded[a][w] <= partials
  BY <1>1 DEF Bookkeeping, OnlyPartialsBefore
<1>5. \A b \in 0..arming, v \in Windows : reminded[b][v] \in Nat
  BY DEF TypeOK
<1>6. \A b \in 0..arming, v \in Windows :
        reminded'[b][v] \in Nat /\ reminded'[b][v] <= partials + 1
  BY <1>1, <1>3, <1>4, <1>5, <1>2 DEF Bookkeeping, RemindedOnce
<1>7. \A d \in Runs : job[d] # None => job[d].arming \in 0..arming
                                       /\ job[d].window \in Windows
  BY DEF Bookkeeping, MarkersOwn, TypeOK, Job
<1>8. OnlyPartialsBefore'
  <2>1. \A d \in Runs : job[d] # None =>
          /\ reminded'[job[d].arming][job[d].window] <= partials'
          /\ reminded'[arming][job[d].window] <= partials'
    BY <1>1, <1>2, <1>6, <1>7
  <2>2. \A d \in Runs : job'[d] # None =>
          /\ job[d] # None /\ job'[d].arming = job[d].arming
          /\ job'[d].window = job[d].window
    BY <1>1, ToRelease
  <2>3. \A v \in Windows : reminded'[arming'][v] <= partials'
    BY <1>1, <1>2, <1>6
  <2>4. \A d \in Runs : job'[d] # None =>
          /\ reminded'[job'[d].arming][job'[d].window] <= partials'
          /\ reminded'[arming'][job'[d].window] <= partials'
    BY <1>1, <2>1, <2>2
  <2>. QED
    BY <2>3, <2>4, Zenon DEF OnlyPartialsBefore, At
<1>9. RemindedOnce'
  BY <1>1, <1>2, <1>6 DEF RemindedOnce
<1>. QED
  BY <1>1, <1>8, <1>9, ToRelease DEF Bookkeeping

\* A marker is freed by the run that set it, or not at all.
LEMMA ReleaseStep ==
  ASSUME TypeOK, Bookkeeping, NEW c \in Runs, Release(c)
  PROVE  Bookkeeping'
<1> DEFINE w == job[c].window
<1>1. /\ At(c, "release") /\ job[c] \in Job /\ w \in Windows /\ job[c].marker # None
      /\ \A d \in Runs \ {c} : job[d] # None => job[d].marker # job[c].marker
  BY SenderFacts DEF Release
<1>2. CASE ~OwnReservation(c)
  BY <1>2, RunWithoutMarker DEF Release
<1>3. CASE OwnReservation(c)
  <2>1. /\ task.sent[w] = job[c].marker
        /\ UNCHANGED <<arming, reminded, partials>>
        /\ \A v \in Windows : task'.sent[v] = IF v = w THEN None ELSE task.sent[v]
    BY <1>1, <1>3 DEF Release, OwnReservation, TypeOK, Task
  <2>2. job'[c] = None /\ \A d \in Runs \ {c} : job'[d] = job[d]
    BY DEF Release, TypeOK
  <2>3. reminded[arming][w] <= partials
    BY <1>1, <1>3 DEF Bookkeeping, OnlyPartialsBefore
  <2>4. \A d \in Runs \ {c} : job[d] # None => job[d].marker # None
                                               /\ job[d].window \in Windows
    BY NoneAssumption DEF TypeOK, Job
  <2>5. \A d \in Runs \ {c} : At(d, "send") /\ job[d].arming = arming
                                => job[d].window # w
    BY <1>1, <2>1 DEF Bookkeeping, SendersHold, At, OwnReservation
  <2>6. MarkersOwn' /\ OneSender'
    BY <2>1, <2>2 DEF Bookkeeping, MarkersOwn, OneSender, At
  <2>7. SendersHold'
    BY <2>1, <2>2, <2>4, <2>5 DEF Bookkeeping, SendersHold, At, OwnReservation
  <2>8. HoldersCurrent'
    BY <2>1, <2>2, <2>4 DEF Bookkeeping, HoldersCurrent, At, OwnReservation
  <2>9. OnlyPartialsBefore' /\ RemindedOnce'
    BY <2>1, <2>2, <2>3, <2>4
    DEF Bookkeeping, OnlyPartialsBefore, RemindedOnce, At, OwnReservation
  <2>. QED
    BY <2>6, <2>7, <2>8, <2>9 DEF Bookkeeping
<1>. QED
  BY <1>2, <1>3

\* A new deadline: the markers are free, and nothing has been sent for it.
LEMMA WriteEditStep ==
  ASSUME TypeOK, Bookkeeping, NEW r \in Editors, WriteEdit(r)
  PROVE  Bookkeeping'
<1>1. CASE task.deleted
  BY <1>1, NoMarkerMoved DEF WriteEdit
<1>2. CASE ~task.deleted
  <2>1. /\ job' = job /\ partials' = partials /\ arming' = arming + 1
        /\ arming \in Nat /\ partials \in Nat
    BY <1>2, BoundsAssumption DEF WriteEdit, TypeOK
  <2>2. \A v \in Windows : task'.sent[v] = None
    <3>1. task' = [task EXCEPT !.due = edit[r].due, !.sent = Unsent]
      BY <1>2, Zenon DEF WriteEdit, MarkersReset
    <3>2. task'.sent = Unsent
      BY <3>1 DEF TypeOK, Task
    <3>. QED
      BY <3>2 DEF Unsent
  <2>3. /\ \A b \in 0..arming : reminded'[b] = reminded[b]
        /\ \A v \in Windows : reminded'[arming + 1][v] = 0
    BY <1>2, <2>1 DEF WriteEdit, Unreminded
  <2>4. \A d \in Runs : job[d] # None =>
          /\ job[d].marker # None /\ job[d].window \in Windows
          /\ job[d].arming \in 0..arming
    BY NoneAssumption DEF Bookkeeping, MarkersOwn, TypeOK, Job
  <2>5. MarkersOwn' /\ OneSender'
    BY <2>1, <2>4 DEF Bookkeeping, MarkersOwn, OneSender, At
  <2>6. SendersHold' /\ HoldersCurrent'
    BY <2>1, <2>2, <2>4 DEF SendersHold, HoldersCurrent, At, OwnReservation
  <2>7. OnlyPartialsBefore'
    BY <2>1, <2>2, <2>3, <2>4 DEF Bookkeeping, OnlyPartialsBefore, At, OwnReservation
  <2>8. RemindedOnce'
    <3>1. \A b \in 0..arming' : b \in 0..arming \/ b = arming + 1
      BY <2>1
    <3>. QED
      BY <2>1, <2>3, <3>1 DEF Bookkeeping, RemindedOnce
  <2>. QED
    BY <2>5, <2>6, <2>7, <2>8 DEF Bookkeeping
<1>. QED
  BY <1>1, <1>2

------------------------------------------------------------------------------

\* The types and the bookkeeping hold at first.
LEMMA Initially == Init => IInv
<1> SUFFICES ASSUME Init PROVE Bookkeeping
  BY InitTypeOK DEF IInv
<1>1. /\ \A c \in Runs : job[c] = None
      /\ arming = 0 /\ partials = 0 /\ \A w \in Windows : reminded[0][w] = 0
  BY DEF Init, Unreminded
<1>. QED
  BY <1>1 DEF Bookkeeping, MarkersOwn, SendersHold, HoldersCurrent, OneSender,
     OnlyPartialsBefore, RemindedOnce, At

\* Every action keeps the types and the bookkeeping.
LEMMA Inductive == IInv /\ [Next]_vars => IInv'
<1> SUFFICES ASSUME TypeOK, Bookkeeping, [Next]_vars PROVE Bookkeeping'
  BY TypeStep DEF IInv, Bookkeeping
<1>1. ASSUME NEW c \in Runs, StartRun(c) PROVE Bookkeeping'
  <2>1. /\ task' = task /\ UNCHANGED <<arming, reminded, partials>>
    BY <1>1 DEF StartRun
  <2>2. CASE UNCHANGED job
    BY <2>1, <2>2, NoMarkerMoved
  <2>3. CASE ~UNCHANGED job
    <3>1. PICK w \in Windows :
            job' = [job EXCEPT ![c] =
              [step |-> "reserve", window |-> w, arming |-> arming,
               marker |-> [by |-> c, at |-> now, due |-> task.due]]]
      BY <1>1, <2>3, Zenon DEF StartRun
    <3> DEFINE j == [step |-> "reserve", window |-> w, arming |-> arming,
                     marker |-> [by |-> c, at |-> now, due |-> task.due]]
    <3>2. j \in Job /\ j.step = "reserve" /\ j.marker.by = c /\ j.arming = arming
      BY DEF TypeOK, Job, Marker, Task
    <3>. QED
      BY <2>1, <3>1, <3>2, RunWithoutMarker
  <2>. QED
    BY <2>2, <2>3
<1>2. ASSUME NEW c \in Runs, Reserve(c) PROVE Bookkeeping'
  BY <1>2, ReserveStep
<1>3. ASSUME NEW c \in Runs, SendAll(c) PROVE Bookkeeping'
  BY <1>3, SendAllStep
<1>4. ASSUME NEW c \in Runs, SendNone(c) PROVE Bookkeeping'
  BY <1>4, SendNoneStep
<1>5. ASSUME NEW c \in Runs, SendSome(c) PROVE Bookkeeping'
  BY <1>5, SendSomeStep
<1>6. ASSUME NEW c \in Runs, Release(c) PROVE Bookkeeping'
  BY <1>6, ReleaseStep
<1>7. ASSUME NEW c \in Runs, RunDies(c) PROVE Bookkeeping'
  BY <1>7, RunWithoutMarker DEF RunDies
<1>8. ASSUME NEW r \in Editors, NEW due \in Deadlines, NEW reopen \in BOOLEAN,
             BeginEdit(r, due, reopen)
      PROVE  Bookkeeping'
  BY <1>8, NoMarkerMoved DEF BeginEdit
<1>9. ASSUME NEW r \in Editors, WriteEdit(r) PROVE Bookkeeping'
  BY <1>9, WriteEditStep
<1>10. ASSUME NEW r \in Editors, ReopenTask(r) PROVE Bookkeeping'
  <2>1. task'.sent = task.sent
    BY <1>10 DEF ReopenTask, TypeOK, Task
  <2>. QED
    BY <1>10, <2>1, NoMarkerMoved DEF ReopenTask
<1>11. CASE CompleteTask
  <2>1. task'.sent = task.sent
    BY <1>11 DEF CompleteTask, TypeOK, Task
  <2>. QED
    BY <1>11, <2>1, NoMarkerMoved DEF CompleteTask
<1>12. CASE DeleteTask
  <2>1. task'.sent = task.sent
    BY <1>12 DEF DeleteTask, TypeOK, Task
  <2>. QED
    BY <1>12, <2>1, NoMarkerMoved DEF DeleteTask
<1>13. CASE Minute
  BY <1>13, NoMarkerMoved DEF Minute
<1>14. CASE UNCHANGED vars
  BY <1>14, NoMarkerMoved DEF vars
<1>. QED
  BY <1>1, <1>2, <1>3, <1>4, <1>5, <1>6, <1>7, <1>8, <1>9, <1>10, <1>11, <1>12,
     <1>13, <1>14 DEF Next

\* Every variable of the reminders keeps its type.
THEOREM TypeCorrect == Spec => []TypeOK
<1>1. IInv => TypeOK
  BY DEF IInv
<1>. QED
  BY Initially, Inductive, <1>1, PTL DEF Spec

\* However the runs of all instances overlap, and however sends fail or runs
\* die, no deadline is reminded of twice in a window, except by sends that were
\* repeated because they got only some of their chunks through.
THEOREM NotTwice == Spec => []RemindedOnce
<1>1. IInv => RemindedOnce
  BY DEF IInv, Bookkeeping
<1>. QED
  BY Initially, Inductive, <1>1, PTL DEF Spec
------------------------------------------------------------------------------
(* A reminder goes out before its window closes *)

\* The minutes of window w that have passed.
Elapsed(w) ==
  LET opens == task.due - Lead[w]
  IN IF now < opens THEN 0 ELSE IF now >= opens + CatchUp THEN CatchUp ELSE now - opens

\* What may have cost a minute.
Lost == missed + failures + partials

\* The deadline stands since before window w opened, and its reminder is due or
\* will be.
Waiting(w) ==
  /\ armedAt < task.due - Lead[w]
  /\ task.open /\ ~task.deleted
  /\ crashes = 0
  /\ reminded[arming][w] = 0

\* Run c is about to reserve, or to send, the reminder.
OnIt(c, w) ==
  /\ job[c] # None /\ job[c].window = w
  /\ \/ job[c].step = "reserve"
     \/ job[c].step = "send" /\ job[c].arming = arming

\* Run c holds the marker of window w.
Holds(c, w) ==
  (At(c, "send") \/ At(c, "release")) /\ OwnReservation(c) /\ job[c].window = w

\* A run that releases has had a send go wrong.
ReleasedAfterFailure ==
  \A c \in Runs : At(c, "release") => failures + partials >= 1

\* While no run has died, a marker without a reminder is held by a run.
MarkersHeld ==
  crashes = 0 => \A w \in Windows : task.sent[w] # None =>
    reminded[arming][w] > 0 \/ \E c \in Runs : Holds(c, w)

\* Every minute of window w that has passed was lost; so is this one if a run
\* has still to release, or if a run was started and nobody is on it.
MinutesLost(w) ==
  /\ Lost >= Elapsed(w)
  /\ \A c \in Runs : At(c, "release") => Lost >= Elapsed(w) + 1
  /\ ran /\ DueInWindow(task.due, w) =>
       Lost >= Elapsed(w) + 1 \/ \E c \in Runs : OnIt(c, w)

WaitedFor == \A w \in Windows : Waiting(w) => MinutesLost(w)

InTimeInv == IInv /\ ReleasedAfterFailure /\ MarkersHeld /\ WaitedFor

\* The numbers are numbers.
LEMMA Numbers ==
  ASSUME TypeOK
  PROVE  /\ {now, armedAt, arming, missed, failures, partials, crashes, Lost,
             CatchUp, task.due} \subseteq Nat
         /\ \A w \in Windows : /\ Lead[w] \in Nat /\ Elapsed(w) \in Nat
                               /\ reminded[arming][w] \in Nat
<1>1. {now, armedAt, arming, missed, failures, partials, crashes, CatchUp} \subseteq Nat
  BY BoundsAssumption DEF TypeOK
<1>2. task.due \in Nat
  BY WindowsAssumption DEF TypeOK, Task
<1>3. \A w \in Windows : Lead[w] \in Nat
  BY WindowsAssumption
<1>4. arming \in 0..arming
  BY <1>1
<1>5. \A w \in Windows : reminded[arming][w] \in Nat
  BY <1>4 DEF TypeOK
<1>6. Lost \in Nat
  BY <1>1 DEF Lost
<1>7. \A w \in Windows : Elapsed(w) \in Nat
  BY <1>1, <1>2, <1>3 DEF Elapsed
<1>. QED
  BY <1>1, <1>2, <1>3, <1>5, <1>6, <1>7

\* A marker that is set while its reminder is waited for: this minute is lost, or
\* its holder is about to send.
LEMMA SomeoneOnIt ==
  ASSUME TypeOK, Bookkeeping, MarkersHeld, NEW w \in Windows, Waiting(w),
         MinutesLost(w), task.sent[w] # None
  PROVE  Lost >= Elapsed(w) + 1 \/ \E c \in Runs : At(c, "send") /\ OnIt(c, w)
<1>1. PICK c \in Runs : Holds(c, w)
  <2>1. crashes = 0 /\ ~(reminded[arming][w] > 0)
    BY Numbers DEF Waiting
  <2>. QED
    BY <2>1 DEF MarkersHeld
<1>2. CASE At(c, "release")
  BY <1>2 DEF MinutesLost
<1>3. CASE At(c, "send")
  <2>1. job[c].arming = arming
    BY <1>1 DEF Holds, Bookkeeping, HoldersCurrent
  <2>. QED
    BY <1>1, <1>3, <2>1 DEF Holds, At, OnIt
<1>. QED
  BY <1>1, <1>2, <1>3 DEF Holds

\* Two windows are never open at the same time.
LEMMA WindowsApart ==
  ASSUME TypeOK, NEW v \in Windows, NEW w \in Windows,
         DueInWindow(task.due, v), DueInWindow(task.due, w)
  PROVE  v = w
BY Numbers, LeadsApart DEF DueInWindow

\* A step that takes place within a minute and leaves the deadline, the markers'
\* reset and what was lost alone keeps a reminder waited for.
LEMMA SameMinute ==
  ASSUME TypeOK, WaitedFor, NEW w \in Windows, Waiting(w),
         task'.due = task.due, UNCHANGED <<now, missed, failures, partials>>,
         \A c \in Runs : At(c, "release")' => At(c, "release"),
         ran' /\ DueInWindow(task.due, w) =>
           Lost >= Elapsed(w) + 1 \/ \E c \in Runs : OnIt(c, w)'
  PROVE  MinutesLost(w)'
<1>1. Lost' = Lost /\ Elapsed(w)' = Elapsed(w)
        /\ DueInWindow(task.due, w)' = DueInWindow(task.due, w)
  BY DEF Lost, Elapsed, DueInWindow
<1>2. MinutesLost(w)
  BY DEF WaitedFor
<1>. QED
  BY <1>1, <1>2 DEF MinutesLost

\* Nor does a step matter that changes neither the task nor a run.
LEMMA NobodyMoves ==
  ASSUME InTimeInv, UNCHANGED <<task, job, now, armedAt, arming, reminded, ran,
                                missed, failures, partials, crashes>>
  PROVE  (ReleasedAfterFailure /\ MarkersHeld /\ WaitedFor)'
BY DEF InTimeInv, ReleasedAfterFailure, MarkersHeld, WaitedFor, Waiting, MinutesLost,
       Lost, Elapsed, DueInWindow, At, OnIt, Holds, OwnReservation

\* A run is started: it is on the reminder that is due, or someone else is.
LEMMA StartRunInTime ==
  ASSUME InTimeInv, NEW c \in Runs, StartRun(c)
  PROVE  (ReleasedAfterFailure /\ MarkersHeld /\ WaitedFor)'
<1> USE DEF InTimeInv, IInv
<1>1. /\ job[c] = None
      /\ task' = task /\ UNCHANGED <<now, history, missed, failures, partials, crashes>>
      /\ \A d \in Runs : d # c => job'[d] = job[d]
  BY DEF StartRun, TypeOK
<1>2. job'[c] = None \/ (job'[c] # None /\ job'[c].step = "reserve")
  <2>1. CASE UNCHANGED job
    BY <1>1, <2>1
  <2>2. CASE ~UNCHANGED job
    <3>1. PICK w \in Windows :
            job' = [job EXCEPT ![c] =
              [step |-> "reserve", window |-> w, arming |-> arming,
               marker |-> [by |-> c, at |-> now, due |-> task.due]]]
      BY <2>2, Zenon DEF StartRun
    <3>. QED
      BY <3>1, NoneAssumption DEF TypeOK, Job, Marker, Task
  <2>. QED
    BY <2>1, <2>2
<1>3. \A d \in Runs, s \in {"send", "release"} : At(d, s)' <=> At(d, s) /\ d # c
  BY <1>1, <1>2 DEF At
<1>4. ReleasedAfterFailure'
  BY <1>1, <1>3 DEF ReleasedAfterFailure
<1>5. MarkersHeld'
  <2>1. \A d \in Runs, w \in Windows : Holds(d, w) => Holds(d, w)'
    BY <1>1, <1>3 DEF Holds, OwnReservation, At
  <2>. QED
    BY <1>1, <2>1 DEF MarkersHeld
<1>6. ASSUME NEW w \in Windows, Waiting(w)' PROVE MinutesLost(w)'
  <2>1. Waiting(w) /\ MinutesLost(w)
    BY <1>1, <1>6 DEF Waiting, WaitedFor
  <2>2. ASSUME DueInWindow(task.due, w)
        PROVE  Lost >= Elapsed(w) + 1 \/ \E d \in Runs : OnIt(d, w)'
    <3>1. CASE task.sent[w] = None
      <4>1. Candidate
        BY <2>1, <3>1 DEF Candidate, Waiting
      <4>2. PICK v \in Windows :
              /\ DueInWindow(task.due, v)
              /\ job' = [job EXCEPT ![c] =
                   [step |-> "reserve", window |-> v, arming |-> arming,
                    marker |-> [by |-> c, at |-> now, due |-> task.due]]]
        BY <2>2, <4>1, Zenon DEF StartRun
      <4>3. v = w
        BY <2>2, <4>2, WindowsApart
      <4>4. job'[c] # None /\ job'[c].step = "reserve" /\ job'[c].window = w
        BY <4>2, <4>3, NoneAssumption DEF TypeOK, Job, Marker, Task
      <4>. QED
        BY <4>4 DEF OnIt
    <3>2. CASE task.sent[w] # None
      <4>1. \A d \in Runs : At(d, "send") /\ OnIt(d, w) => OnIt(d, w)'
        BY <1>1, <1>3 DEF OnIt, At
      <4>. QED
        BY <2>1, <3>2, <4>1, SomeoneOnIt
    <3>. QED
      BY <3>1, <3>2
  <2>. QED
    BY <1>1, <1>3, <2>1, <2>2, SameMinute
<1>. QED
  BY <1>4, <1>5, <1>6 DEF WaitedFor

\* The reservation: the run is still on it, or someone else is.
LEMMA ReserveInTime ==
  ASSUME InTimeInv, NEW c \in Runs, Reserve(c)
  PROVE  (ReleasedAfterFailure /\ MarkersHeld /\ WaitedFor)'
<1> USE DEF InTimeInv, IInv
<1> DEFINE v == job[c].window
<1>1. /\ job[c] \in Job /\ job[c] # None /\ job[c].step = "reserve" /\ v \in Windows
      /\ UNCHANGED <<now, history, counters>>
      /\ \A d \in Runs : d # c => job'[d] = job[d]
  BY DEF Reserve, At, TypeOK, Job
<1>2. ~At(c, "send") /\ ~At(c, "release") /\ ~At(c, "release")'
  <2>1. CASE Reservable(c)
    <3>1. job'[c] = [job[c] EXCEPT !.step = "send", !.arming = arming]
      <4>1. job' = [job EXCEPT ![c] = [job[c] EXCEPT !.step = "send", !.arming = arming]]
        BY <2>1 DEF Reserve
      <4>. QED
        BY <4>1 DEF TypeOK
    <3>. QED
      BY <1>1, <3>1 DEF At, Job
  <2>2. CASE ~Reservable(c)
    BY <1>1, <2>2 DEF Reserve, At, TypeOK
  <2>. QED
    BY <2>1, <2>2
<1>3. \A d \in Runs : At(d, "release")' => At(d, "release")
  BY <1>1, <1>2 DEF At
<1>4. ReleasedAfterFailure'
  BY <1>1, <1>3 DEF ReleasedAfterFailure
<1>5. CASE Reservable(c)
  <2>1. /\ task'.due = task.due /\ task'.open = task.open /\ task'.deleted = task.deleted
        /\ \A w \in Windows :
             task'.sent[w] = IF w = v THEN job[c].marker ELSE task.sent[w]
    BY <1>1, <1>5 DEF Reserve, TypeOK, Task
  <2>2. /\ job'[c] # None /\ job'[c].step = "send" /\ job'[c].window = v
        /\ job'[c].arming = arming /\ job'[c].marker = job[c].marker
    <3>1. [job[c] EXCEPT !.step = "send", !.arming = arming] \in Job
      BY <1>1, JobStepped DEF TypeOK
    <3>2. job' = [job EXCEPT ![c] = [job[c] EXCEPT !.step = "send", !.arming = arming]]
      BY <1>5 DEF Reserve
    <3>3. job'[c] = [job[c] EXCEPT !.step = "send", !.arming = arming]
      BY <3>2 DEF TypeOK
    <3>4. job'[c] # None
      BY <3>1, <3>3, NoneAssumption
    <3>. QED
      BY <1>1, <3>3, <3>4 DEF Job
  <2>3. MarkersHeld'
    <3>1. \A w \in Windows : w = v => Holds(c, w)'
      BY <1>1, <2>1, <2>2 DEF Holds, At, OwnReservation
    <3>2. \A d \in Runs, w \in Windows : w # v /\ Holds(d, w) => Holds(d, w)'
      BY <1>1, <1>2, <2>1 DEF Holds, At, OwnReservation
    <3>3. ASSUME NEW w \in Windows, task'.sent[w] # None, crashes = 0
          PROVE  reminded[arming][w] > 0 \/ \E d \in Runs : Holds(d, w)'
      <4>1. CASE w = v
        BY <1>1, <3>1, <4>1
      <4>2. CASE w # v
        <5>1. reminded[arming][w] > 0 \/ \E d \in Runs : Holds(d, w)
          <6>1. task.sent[w] # None
            BY <2>1, <3>3, <4>2
          <6>. QED
            BY <3>3, <6>1 DEF MarkersHeld
        <5>. QED
          BY <3>2, <4>2, <5>1
      <4>. QED
        BY <4>1, <4>2
    <3>. QED
      BY <1>1, <3>3 DEF MarkersHeld
  <2>4. ASSUME NEW w \in Windows, Waiting(w)' PROVE MinutesLost(w)'
    <3>1. Waiting(w) /\ MinutesLost(w)
      BY <1>1, <2>1, <2>4 DEF Waiting, WaitedFor
    <3>2. \A d \in Runs : OnIt(d, w) => OnIt(d, w)'
      BY <1>1, <2>2 DEF OnIt
    <3>. QED
      BY <1>1, <1>3, <2>1, <3>1, <3>2, SameMinute DEF MinutesLost
  <2>. QED
    BY <1>4, <2>3, <2>4 DEF WaitedFor
<1>6. CASE ~Reservable(c)
  <2>1. task' = task /\ job'[c] = None
    BY <1>6 DEF Reserve, TypeOK
  <2>2. MarkersHeld'
    <3>1. \A d \in Runs, w \in Windows : Holds(d, w) => Holds(d, w)'
      BY <1>1, <1>2, <2>1 DEF Holds, At, OwnReservation
    <3>. QED
      BY <1>1, <2>1, <3>1 DEF MarkersHeld
  <2>3. ASSUME NEW w \in Windows, Waiting(w)' PROVE MinutesLost(w)'
    <3>1. Waiting(w) /\ MinutesLost(w)
      BY <1>1, <2>1, <2>3 DEF Waiting, WaitedFor
    <3>2. ASSUME ran, DueInWindow(task.due, w)
          PROVE  Lost >= Elapsed(w) + 1 \/ \E d \in Runs : OnIt(d, w)'
      <4>1. \A d \in Runs : d # c /\ OnIt(d, w) => OnIt(d, w)'
        BY <1>1 DEF OnIt
      <4>2. CASE v = w
        <5>1. task.sent[w] # None
          BY <1>6, <3>1, <4>2 DEF Reservable, Waiting
        <5>. QED
          BY <1>2, <3>1, <4>1, <5>1, SomeoneOnIt
      <4>3. CASE v # w
        <5>1. ~OnIt(c, w)
          BY <4>3 DEF OnIt
        <5>. QED
          BY <3>1, <3>2, <4>1, <5>1 DEF MinutesLost
      <4>. QED
        BY <4>2, <4>3
    <3>. QED
      BY <1>1, <1>3, <2>1, <3>1, <3>2, SameMinute
  <2>. QED
    BY <1>4, <2>2, <2>3 DEF WaitedFor
<1>. QED
  BY <1>5, <1>6

\* All chunks are submitted: the reminder is no longer waited for.
LEMMA SendAllInTime ==
  ASSUME InTimeInv, NEW c \in Runs, SendAll(c)
  PROVE  (ReleasedAfterFailure /\ MarkersHeld /\ WaitedFor)'
<1> USE DEF InTimeInv, IInv
<1>1. /\ At(c, "send") /\ job[c].window \in Windows /\ job[c].arming \in 0..arming
      /\ job'[c] = None /\ \A d \in Runs : d # c => job'[d] = job[d]
      /\ task' = task /\ UNCHANGED <<now, arming, armedAt, counters>>
  BY SenderFacts DEF SendAll, TypeOK
<1>2. \A w \in Windows : reminded[arming][w] \in Nat /\ arming \in 0..arming
  BY Numbers DEF TypeOK
<1>3. \A w \in Windows :
        reminded'[arming][w] =
          IF job[c].arming = arming /\ job[c].window = w
            THEN reminded[arming][w] + 1 ELSE reminded[arming][w]
  BY <1>1, <1>2, RemindedCounts DEF SendAll
<1>4. \A d \in Runs : At(d, "release")' => At(d, "release")
  BY <1>1 DEF At
<1>5. ReleasedAfterFailure'
  BY <1>1, <1>4 DEF ReleasedAfterFailure
<1>6. MarkersHeld'
  <2>1. \A d \in Runs, w \in Windows : d # c /\ Holds(d, w) => Holds(d, w)'
    BY <1>1 DEF Holds, At, OwnReservation
  <2>2. \A w \in Windows : Holds(c, w) => reminded'[arming][w] > 0
    BY <1>2, <1>3 DEF Holds, Bookkeeping, HoldersCurrent
  <2>3. \A w \in Windows : reminded[arming][w] > 0 => reminded'[arming][w] > 0
    BY <1>2, <1>3
  <2>. QED
    BY <1>1, <2>1, <2>2, <2>3 DEF MarkersHeld
<1>7. ASSUME NEW w \in Windows, Waiting(w)' PROVE MinutesLost(w)'
  <2>1. reminded'[arming][w] = 0
    BY <1>1, <1>7 DEF Waiting
  <2>2. reminded[arming][w] = 0 /\ ~(job[c].arming = arming /\ job[c].window = w)
    BY <1>2, <1>3, <2>1
  <2>3. Waiting(w) /\ MinutesLost(w)
    BY <1>1, <1>7, <2>2 DEF Waiting, WaitedFor
  <2>4. ~OnIt(c, w)
    BY <1>1, <2>2 DEF OnIt, At
  <2>5. \A d \in Runs : OnIt(d, w) => OnIt(d, w)'
    BY <1>1, <2>4 DEF OnIt
  <2>. QED
    BY <1>1, <1>4, <2>3, <2>5, SameMinute DEF MinutesLost
<1>. QED
  BY <1>5, <1>6, <1>7 DEF WaitedFor

\* A send that counts as failed: one more minute may be lost.
LEMMA SendFailsInTime ==
  ASSUME InTimeInv, NEW c \in Runs, At(c, "send"),
         job' = [job EXCEPT ![c].step = "release"],
         UNCHANGED <<task, now, arming, armedAt, missed, crashes>>,
         \A w \in Windows : reminded'[arming][w] >= reminded[arming][w]
                            /\ reminded'[arming][w] \in Nat,
         failures' \in Nat, partials' \in Nat,
         failures' + partials' = failures + partials + 1
  PROVE  (ReleasedAfterFailure /\ MarkersHeld /\ WaitedFor)'
<1> USE DEF InTimeInv, IInv
<1>1. /\ \A d \in Runs : /\ job'[d] # None <=> job[d] # None
                         /\ job'[d].window = job[d].window
                         /\ job'[d].marker = job[d].marker
                         /\ d # c => job'[d] = job[d]
      /\ job'[c].step = "release"
  BY ToRelease, Zenon
<1>2. Lost' = Lost + 1 /\ Lost \in Nat /\ failures' + partials' >= 1
  BY Numbers DEF Lost
<1>3. ReleasedAfterFailure'
  BY <1>2 DEF ReleasedAfterFailure
<1>4. MarkersHeld'
  <2>1. \A d \in Runs, w \in Windows : Holds(d, w) => Holds(d, w)'
    BY <1>1 DEF Holds, At, OwnReservation
  <2>2. \A w \in Windows : reminded[arming][w] > 0 => reminded'[arming][w] > 0
    BY Numbers
  <2>. QED
    BY <2>1, <2>2 DEF MarkersHeld
<1>5. ASSUME NEW w \in Windows, Waiting(w)' PROVE MinutesLost(w)'
  <2>1. reminded[arming][w] = 0
    BY <1>5, Numbers DEF Waiting
  <2>2. MinutesLost(w)
    BY <1>5, <2>1 DEF Waiting, WaitedFor
  <2>3. Elapsed(w)' = Elapsed(w) /\ Elapsed(w) \in Nat
    BY Numbers DEF Elapsed
  <2>4. Lost' >= Elapsed(w)' + 1 /\ Lost' >= Elapsed(w)'
    BY <1>2, <2>2, <2>3 DEF MinutesLost
  <2>. QED
    BY <2>4 DEF MinutesLost
<1>. QED
  BY <1>3, <1>4, <1>5 DEF WaitedFor

\* The release: what it frees was a marker of its own, whose minute is lost.
LEMMA ReleaseInTime ==
  ASSUME InTimeInv, NEW c \in Runs, Release(c)
  PROVE  (ReleasedAfterFailure /\ MarkersHeld /\ WaitedFor)'
<1> USE DEF InTimeInv, IInv
<1> DEFINE v == job[c].window
<1>1. /\ At(c, "release") /\ v \in Windows
      /\ job'[c] = None /\ \A d \in Runs : d # c => job'[d] = job[d]
      /\ UNCHANGED <<now, history, counters>>
  BY SenderFacts DEF Release, TypeOK
<1>2. /\ task'.due = task.due /\ task'.open = task.open /\ task'.deleted = task.deleted
      /\ \A w \in Windows :
           task'.sent[w] = IF OwnReservation(c) /\ w = v THEN None ELSE task.sent[w]
  BY <1>1 DEF Release, TypeOK, Task
<1>3. \A d \in Runs : At(d, "release")' => At(d, "release")
  BY <1>1 DEF At
<1>4. ReleasedAfterFailure'
  BY <1>1, <1>3 DEF ReleasedAfterFailure
<1>5. MarkersHeld'
  <2>1. ASSUME NEW w \in Windows, task'.sent[w] # None, NEW d \in Runs, Holds(d, w)
        PROVE  Holds(d, w)'
    <3>1. task'.sent[w] = task.sent[w] /\ ~(OwnReservation(c) /\ w = v)
      BY <1>2, <2>1
    <3>2. d # c
      BY <2>1, <3>1 DEF Holds
    <3>. QED
      BY <1>1, <2>1, <3>1, <3>2 DEF Holds, At, OwnReservation
  <2>2. \A w \in Windows : task'.sent[w] # None => task.sent[w] # None
    BY <1>2
  <2>. QED
    BY <1>1, <2>1, <2>2 DEF MarkersHeld
<1>6. ASSUME NEW w \in Windows, Waiting(w)' PROVE MinutesLost(w)'
  <2>1. Waiting(w) /\ MinutesLost(w)
    BY <1>1, <1>2, <1>6 DEF Waiting, WaitedFor
  <2>2. \A d \in Runs : OnIt(d, w) => OnIt(d, w)'
    BY <1>1 DEF OnIt, At
  <2>. QED
    BY <1>1, <1>2, <1>3, <2>1, <2>2, SameMinute DEF MinutesLost
<1>. QED
  BY <1>4, <1>5, <1>6 DEF WaitedFor

\* A deadline that is set, or a task that is reopened, now: the windows that are
\* still to open have lost nothing.
LEMMA RearmedNow ==
  ASSUME TypeOK, ReleasedAfterFailure, UNCHANGED <<now, job, counters>>,
         armedAt' = now, task'.due \in Nat
  PROVE  ReleasedAfterFailure' /\ WaitedFor'
<1>1. ReleasedAfterFailure'
  BY DEF ReleasedAfterFailure, At
<1>2. ASSUME NEW w \in Windows, Waiting(w)' PROVE MinutesLost(w)'
  <2>1. now \in Nat /\ Lead[w] \in Nat /\ CatchUp \in Nat /\ now < task'.due - Lead[w]
    BY <1>2, Numbers DEF Waiting
  <2>2. Elapsed(w)' = 0 /\ ~DueInWindow(task.due, w)'
    BY <2>1 DEF Elapsed, DueInWindow
  <2>3. Lost' = Lost /\ Lost \in Nat
    BY Numbers DEF Lost
  <2>4. \A c \in Runs : At(c, "release")' => Lost >= 1
    BY Numbers DEF ReleasedAfterFailure, At, Lost
  <2>. QED
    BY <2>2, <2>3, <2>4 DEF MinutesLost
<1>. QED
  BY <1>1, <1>2 DEF WaitedFor

\* A new deadline frees all markers.
LEMMA WriteEditInTime ==
  ASSUME InTimeInv, NEW r \in Editors, WriteEdit(r)
  PROVE  (ReleasedAfterFailure /\ MarkersHeld /\ WaitedFor)'
<1> USE DEF InTimeInv, IInv
<1>1. CASE task.deleted
  BY <1>1, NobodyMoves DEF WriteEdit
<1>2. CASE ~task.deleted
  <2>1. UNCHANGED <<now, job, counters>> /\ armedAt' = now
    BY <1>2 DEF WriteEdit
  <2>2. edit[r].due \in Deadlines
    BY DEF WriteEdit, TypeOK, Edit
  <2>3. task' = [task EXCEPT !.due = edit[r].due, !.sent = Unsent]
    BY <1>2, Zenon DEF WriteEdit, MarkersReset
  <2>4. task'.due \in Nat /\ task'.sent = Unsent
    BY <2>2, <2>3, WindowsAssumption DEF TypeOK, Task
  <2>5. MarkersHeld'
    BY <2>4 DEF MarkersHeld, Unsent
  <2>. QED
    BY <2>1, <2>4, <2>5, RearmedNow
<1>. QED
  BY <1>1, <1>2

\* The deadline stands, but the task was not open until now.
LEMMA ReopenInTime ==
  ASSUME InTimeInv, NEW r \in Editors, ReopenTask(r)
  PROVE  (ReleasedAfterFailure /\ MarkersHeld /\ WaitedFor)'
<1> USE DEF InTimeInv, IInv
<1>1. UNCHANGED <<now, job, arming, reminded, counters>> /\ armedAt' = now
  BY DEF ReopenTask
<1>2. task'.due = task.due /\ task'.sent = task.sent
  BY DEF ReopenTask, TypeOK, Task
<1>3. task'.due \in Nat
  BY <1>2, Numbers
<1>4. MarkersHeld'
  BY <1>1, <1>2 DEF MarkersHeld, Holds, At, OwnReservation
<1>. QED
  BY <1>1, <1>3, <1>4, RearmedNow

\* A task that is completed or deleted waits for no reminder.
LEMMA ClosedInTime ==
  ASSUME InTimeInv, task'.sent = task.sent, ~(task'.open /\ ~task'.deleted),
         UNCHANGED <<now, job, history, counters>>
  PROVE  (ReleasedAfterFailure /\ MarkersHeld /\ WaitedFor)'
BY DEF InTimeInv, ReleasedAfterFailure, MarkersHeld, WaitedFor, Waiting, Holds, At,
       OwnReservation

\* A minute passes: it is counted as missed unless a run was started in it and
\* all have ended, and then the reminder did not wait or the minute was lost.
LEMMA MinuteInTime ==
  ASSUME InTimeInv, Minute
  PROVE  (ReleasedAfterFailure /\ MarkersHeld /\ WaitedFor)'
<1> USE DEF InTimeInv, IInv
<1>1. /\ now' = now + 1 /\ ran' = FALSE
      /\ UNCHANGED <<task, job, history, failures, partials, crashes>>
      /\ missed' = IF ran /\ \A c \in Runs : job[c] = None THEN missed ELSE missed + 1
  BY DEF Minute
<1>2. ReleasedAfterFailure' /\ MarkersHeld'
  BY <1>1 DEF ReleasedAfterFailure, MarkersHeld, Holds, At, OwnReservation
<1>3. ASSUME NEW w \in Windows, Waiting(w)' PROVE MinutesLost(w)'
  <2>1. MinutesLost(w)
    BY <1>1, <1>3 DEF Waiting, WaitedFor
  <2>2. /\ {now, missed, failures, partials, CatchUp, task.due, Lead[w]} \subseteq Nat
        /\ Elapsed(w) \in Nat /\ Lost \in Nat
    BY Numbers
  <2>3. Elapsed(w)' \in Nat /\ Elapsed(w)' <= Elapsed(w) + 1
    BY <1>1, <2>2 DEF Elapsed
  <2>4. CASE ran /\ \A c \in Runs : job[c] = None
    <3>1. Lost' = Lost
      BY <1>1, <2>4 DEF Lost
    <3>2. \A c \in Runs : ~At(c, "release")'
      BY <1>1, <2>4 DEF At
    <3>3. CASE DueInWindow(task.due, w)
      <4>1. Lost >= Elapsed(w) + 1
        BY <2>1, <2>4, <3>3 DEF MinutesLost, OnIt
      <4>. QED
        BY <1>1, <2>2, <2>3, <3>1, <3>2, <4>1 DEF MinutesLost
    <3>4. CASE ~DueInWindow(task.due, w)
      <4>1. Elapsed(w)' = Elapsed(w)
        BY <1>1, <2>2, <3>4 DEF Elapsed, DueInWindow
      <4>. QED
        BY <1>1, <2>1, <3>1, <3>2, <4>1 DEF MinutesLost
    <3>. QED
      BY <3>3, <3>4
  <2>5. CASE ~(ran /\ \A c \in Runs : job[c] = None)
    <3>1. Lost' = Lost + 1
      BY <1>1, <2>2, <2>5 DEF Lost
    <3>2. \A c \in Runs : At(c, "release")' => Lost >= Elapsed(w) + 1
      BY <1>1, <2>1 DEF At, MinutesLost
    <3>3. Lost >= Elapsed(w)
      BY <2>1 DEF MinutesLost
    <3>4. /\ Lost' >= Elapsed(w)'
          /\ \A c \in Runs : At(c, "release")' => Lost' >= Elapsed(w)' + 1
      BY <2>2, <2>3, <3>1, <3>2, <3>3
    <3>. QED
      BY <1>1, <3>4 DEF MinutesLost
  <2>. QED
    BY <2>4, <2>5
<1>. QED
  BY <1>2, <1>3 DEF WaitedFor

\* The invariant of the reminders in time holds at first.
LEMMA InTimeInitially == Init => InTimeInv
<1> SUFFICES ASSUME Init PROVE InTimeInv
  OBVIOUS
<1>1. IInv
  BY Initially
<1>2. \A c \in Runs : job[c] = None
  BY DEF Init
<1>3. ReleasedAfterFailure
  BY <1>2 DEF ReleasedAfterFailure, At
<1>4. MarkersHeld
  BY DEF Init, MarkersHeld, Unsent
<1>5. ASSUME NEW w \in Windows, Waiting(w) PROVE MinutesLost(w)
  <2>1. now = 0 /\ armedAt = 0 /\ ~ran
    BY DEF Init
  <2>2. Lead[w] \in Nat /\ task.due \in Nat /\ CatchUp \in Nat /\ Lost \in Nat
    BY <1>1, Numbers DEF IInv
  <2>3. Elapsed(w) = 0
    BY <1>5, <2>1, <2>2 DEF Waiting, Elapsed
  <2>. QED
    BY <1>2, <2>1, <2>2, <2>3 DEF MinutesLost, At
<1>. QED
  BY <1>1, <1>3, <1>4, <1>5 DEF InTimeInv, WaitedFor

\* Every action keeps the invariant of the reminders in time.
LEMMA InTimeInductive == InTimeInv /\ [Next]_vars => InTimeInv'
<1> SUFFICES ASSUME InTimeInv, [Next]_vars
             PROVE  (ReleasedAfterFailure /\ MarkersHeld /\ WaitedFor)'
  BY Inductive DEF InTimeInv
<1> DEFINE Kept == ReleasedAfterFailure /\ MarkersHeld /\ WaitedFor
<1>0. TypeOK /\ Bookkeeping
  BY DEF InTimeInv, IInv
<1>1. ASSUME NEW c \in Runs, StartRun(c) PROVE Kept'
  BY <1>1, StartRunInTime
<1>2. ASSUME NEW c \in Runs, Reserve(c) PROVE Kept'
  BY <1>2, ReserveInTime
<1>3. ASSUME NEW c \in Runs, SendAll(c) PROVE Kept'
  BY <1>3, SendAllInTime
<1>4. ASSUME NEW c \in Runs, SendNone(c) PROVE Kept'
  <2>1. \A w \in Windows : reminded'[arming][w] >= reminded[arming][w]
                           /\ reminded'[arming][w] \in Nat
    BY <1>0, <1>4, Numbers DEF SendNone
  <2>2. failures' \in Nat /\ partials' \in Nat
          /\ failures' + partials' = failures + partials + 1
    BY <1>0, <1>4, Numbers DEF SendNone
  <2>. QED
    BY <1>4, <2>1, <2>2, SendFailsInTime DEF SendNone
<1>5. ASSUME NEW c \in Runs, SendSome(c) PROVE Kept'
  <2>1. \A w \in Windows : reminded'[arming][w] >= reminded[arming][w]
                           /\ reminded'[arming][w] \in Nat
    <3>1. /\ job[c].window \in Windows
          /\ job[c].arming \in 0..arming /\ arming \in 0..arming
      BY <1>0, <1>5, SenderFacts DEF SendSome, TypeOK
    <3>. QED
      BY <1>0, <1>5, <3>1, RemindedCounts, Numbers DEF SendSome
  <2>2. failures' \in Nat /\ partials' \in Nat
          /\ failures' + partials' = failures + partials + 1
    BY <1>0, <1>5, Numbers DEF SendSome
  <2>. QED
    BY <1>5, <2>1, <2>2, SendFailsInTime DEF SendSome
<1>6. ASSUME NEW c \in Runs, Release(c) PROVE Kept'
  BY <1>6, ReleaseInTime
<1>7. ASSUME NEW c \in Runs, RunDies(c) PROVE Kept'
  <2>1. crashes' # 0
    BY <1>0, <1>7, Numbers DEF RunDies
  <2>2. \A d \in Runs : At(d, "release")' => At(d, "release")
    BY <1>0, <1>7 DEF RunDies, TypeOK, At
  <2>3. ReleasedAfterFailure'
    BY <1>7, <2>2 DEF RunDies, InTimeInv, ReleasedAfterFailure
  <2>. QED
    BY <2>1, <2>3 DEF MarkersHeld, WaitedFor, Waiting
<1>8. ASSUME NEW r \in Editors, NEW due \in Deadlines, NEW reopen \in BOOLEAN,
             BeginEdit(r, due, reopen)
      PROVE  Kept'
  BY <1>8, NobodyMoves DEF BeginEdit
<1>9. ASSUME NEW r \in Editors, WriteEdit(r) PROVE Kept'
  BY <1>9, WriteEditInTime
<1>10. ASSUME NEW r \in Editors, ReopenTask(r) PROVE Kept'
  BY <1>10, ReopenInTime
<1>11. CASE CompleteTask
  <2>1. task'.sent = task.sent /\ ~task'.open
    BY <1>0, <1>11 DEF CompleteTask, TypeOK, Task
  <2>. QED
    BY <1>11, <2>1, ClosedInTime DEF CompleteTask
<1>12. CASE DeleteTask
  <2>1. task'.sent = task.sent /\ task'.deleted
    BY <1>0, <1>12 DEF DeleteTask, TypeOK, Task
  <2>. QED
    BY <1>12, <2>1, ClosedInTime DEF DeleteTask
<1>13. CASE Minute
  BY <1>13, MinuteInTime
<1>14. CASE UNCHANGED vars
  BY <1>14, NobodyMoves DEF vars
<1>. QED
  BY <1>1, <1>2, <1>3, <1>4, <1>5, <1>6, <1>7, <1>8, <1>9, <1>10, <1>11, <1>12,
     <1>13, <1>14 DEF Next

\* When the window of a deadline that stood since before it opened has closed,
\* its reminder has gone out, if missed minutes, failed sends and partial sends
\* were fewer than the minutes of the window, and no run died.
THEOREM RemindedByDeadline == Spec => []RemindedInTime
<1>1. ASSUME InTimeInv PROVE RemindedInTime
  <2> SUFFICES ASSUME NEW w \in Windows,
                      armedAt < task.due - Lead[w],
                      now >= task.due - Lead[w] + CatchUp,
                      task.open /\ ~task.deleted,
                      missed + failures + partials < CatchUp, crashes = 0
               PROVE  reminded[arming][w] > 0
    BY DEF RemindedInTime
  <2>1. /\ {now, CatchUp, task.due, Lead[w], reminded[arming][w], Lost} \subseteq Nat
    BY <1>1, Numbers DEF InTimeInv, IInv
  <2>2. Elapsed(w) = CatchUp /\ Lost < CatchUp
    BY <2>1 DEF Elapsed, Lost
  <2>3. ~Waiting(w)
    BY <1>1, <2>1, <2>2 DEF InTimeInv, WaitedFor, MinutesLost
  <2>. QED
    BY <2>1, <2>3 DEF Waiting
<1>. QED
  BY InTimeInitially, InTimeInductive, <1>1, PTL DEF Spec
==============================================================================
