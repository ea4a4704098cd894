----------------------------- MODULE TaskReminder -----------------------------
(***************************************************************************)
(* The due-date reminders of TaskReminderService for ONE task.             *)
(*                                                                         *)
(* Every minute, on every server instance, a cron run finds the tasks that *)
(* are due for a reminder, and for each of them, one after the other,      *)
(* reserves the reminder (sets its "sent" marker if it is null), sends the *)
(* push and, if that failed, releases the marker again.  Runs overlap:     *)
(* between instances, and with the next minute's run.  Meanwhile users     *)
(* edit the deadline (TaskService.update), which re-arms the reminders,    *)
(* complete the task, reopen it or delete it.                              *)
(*                                                                         *)
(* Time is in minutes.  A run is concerned with one reminder window only:  *)
(* the windows of one task never overlap (LeadsApart).                     *)
(***************************************************************************)
EXTENDS Integers

CONSTANTS
  Runs,         \* cron runs that may be under way at once
  Editors,      \* update requests that may be under way at once
  Windows,      \* the reminder windows
  Lead,         \* minutes before the deadline, by window
  CatchUp,      \* REMINDER_CATCHUP_MS, in minutes
  Deadlines,    \* bound: the deadlines that are asked for
  MaxTime,      \* bound: minutes
  MaxEdits,     \* bound: updates
  MaxFailures,  \* bound: sends that submit nothing, or lose the database
  MaxPartial,   \* bound: sends that submit some chunks but not all
  MaxCrashes,   \* bound: runs that die
  None

ASSUME WindowsAssumption == Lead \in [Windows -> Nat] /\ Deadlines \subseteq Nat
ASSUME LeadsApart ==
  \A v, w \in Windows : v # w =>
    Lead[v] >= Lead[w] + CatchUp \/ Lead[w] >= Lead[v] + CatchUp
ASSUME BoundsAssumption ==
  {CatchUp, MaxTime, MaxEdits, MaxFailures, MaxPartial, MaxCrashes} \subseteq Nat

VARIABLES
  now,
  task,       \* the task document
  job,        \* what each cron run is doing
  edit,       \* what each update still has to do
  arming,     \* history: how often the markers have been reset
  armedAt,    \* history: when they were last reset
  reminded,   \* history: reminders sent, by arming and window
  ran,        \* has a run started in this minute?
  missed,     \* minutes without a run, or not long enough for one
  edits, failures, partials, crashes

history == <<arming, armedAt, reminded>>
counters == <<ran, missed, edits, failures, partials, crashes>>
vars == <<now, task, job, edit, history, counters>>

\* A marker is the reference time of the run that set it, which no two runs
\* share.  The deadline the run had found is kept beside it, as history.
Marker == [by : Runs, at : Nat, due : Deadlines]

\* status (OPEN or not), isDeleted, the deadline and reminderNotifications.
Task == [open : BOOLEAN, deleted : BOOLEAN, due : Deadlines,
         sent : [Windows -> Marker \cup {None}]]

Job == [step : {"reserve", "send", "release"}, window : Windows, marker : Marker,
        arming : Nat]

ASSUME NoneAssumption == None \notin Marker \cup Job

Edit == [step : {"write", "append"}, due : Deadlines, reopen : BOOLEAN]

TypeOK ==
  /\ now \in 0..MaxTime
  /\ task \in Task
  /\ job \in [Runs -> Job \cup {None}]
  /\ edit \in [Editors -> Edit \cup {None}]
  /\ arming \in Nat
  /\ armedAt \in 0..now
  /\ reminded \in [0..arming -> [Windows -> Nat]]
  /\ ran \in BOOLEAN
  /\ missed \in 0..now /\ edits \in 0..MaxEdits /\ failures \in 0..MaxFailures
  /\ partials \in 0..MaxPartial /\ crashes \in 0..MaxCrashes

Unsent == [w \in Windows |-> None]
Unreminded == [w \in Windows |-> 0]

Init ==
  /\ now = 0
  /\ \E due \in Deadlines :
       task = [open |-> TRUE, deleted |-> FALSE, due |-> due, sent |-> Unsent]
  /\ job = [c \in Runs |-> None]
  /\ edit = [r \in Editors |-> None]
  /\ arming = 0
  /\ armedAt = 0
  /\ reminded = [a \in {0} |-> Unreminded]
  /\ ran = FALSE
  /\ missed = 0 /\ edits = 0 /\ failures = 0 /\ partials = 0 /\ crashes = 0

------------------------------------------------------------------------------
(* handleReminders *)

\* Mutant: the window is open at its old end and closed at its new one.
DueInShiftedWindow(due, w) ==
  /\ due >= now + Lead[w] - CatchUp
  /\ due < now + Lead[w]

\* isDueInReminderWindow at reference time `now`.
DueInWindow(due, w) ==
  /\ due > now + Lead[w] - CatchUp
  /\ due <= now + Lead[w]

Candidate == ~task.deleted /\ task.open /\ \E w \in Windows : task.sent[w] = None

\* findCandidateTasks, and the window the task found is in, if any.
StartRun(c) ==
  /\ job[c] = None
  /\ ran' = TRUE
  /\ \/ /\ ~(Candidate /\ \E w \in Windows : DueInWindow(task.due, w))
        /\ UNCHANGED job
     \/ \E w \in Windows :
          /\ Candidate
          /\ DueInWindow(task.due, w)
          /\ job' = [job EXCEPT ![c] =
               [step |-> "reserve", window |-> w, arming |-> arming,
                marker |-> [by |-> c, at |-> now, due |-> task.due]]]
  /\ UNCHANGED <<now, task, edit, history, missed, edits, failures, partials, crashes>>

At(c, step) == job[c] # None /\ job[c].step = step

\* The filter of the reservation: it does not ask for the deadline.
Reservable(c) ==
  ~task.deleted /\ task.open /\ task.sent[job[c].window] = None

\* findOneAndUpdate({_id, isDeleted: false, status: OPEN, sentField: null}).
Reserve(c) ==
  /\ At(c, "reserve")
  /\ IF Reservable(c)
       THEN /\ task' = [task EXCEPT !.sent[job[c].window] = job[c].marker]
            /\ job' = [job EXCEPT ![c].step = "send", ![c].arming = arming]
       ELSE /\ job' = [job EXCEPT ![c] = None]
            /\ UNCHANGED task
  /\ UNCHANGED <<now, edit, history, counters>>

Reminded(c) == reminded' = [reminded EXCEPT ![job[c].arming][job[c].window] = @ + 1]

\* Every chunk was submitted (there may be none: no recipients, no tokens).
SendAll(c) ==
  /\ At(c, "send")
  /\ Reminded(c)
  /\ job' = [job EXCEPT ![c] = None]
  /\ UNCHANGED <<now, task, edit, arming, armedAt, counters>>

\* Expo or the database was out of reach before anything was submitted.
SendNone(c) ==
  /\ At(c, "send")
  /\ failures < MaxFailures
  /\ failures' = failures + 1
  /\ job' = [job EXCEPT ![c].step = "release"]
  /\ UNCHANGED <<now, task, edit, history, ran, missed, edits, partials, crashes>>

\* Some chunk was submitted and some was not: sendPush returns false.
SendSome(c) ==
  /\ At(c, "send")
  /\ partials < MaxPartial
  /\ partials' = partials + 1
  /\ Reminded(c)
  /\ job' = [job EXCEPT ![c].step = "release"]
  /\ UNCHANGED <<now, task, edit, arming, armedAt, ran, missed, edits, failures,
                 crashes>>

\* Mutant: the release does not ask whose reservation it is.
AnyReservation(c) == TRUE

OwnReservation(c) == task.sent[job[c].window] = job[c].marker

\* releaseReservation: updateOne({_id, sentField: reservedAt}).
Release(c) ==
  /\ At(c, "release")
  /\ task' = IF OwnReservation(c)
               THEN [task EXCEPT !.sent[job[c].window] = None] ELSE task
  /\ job' = [job EXCEPT ![c] = None]
  /\ UNCHANGED <<now, edit, history, counters>>

\* The process dies, or the release fails (it is not retried).
RunDies(c) ==
  /\ job[c] # None
  /\ crashes < MaxCrashes
  /\ crashes' = crashes + 1
  /\ job' = [job EXCEPT ![c] = None]
  /\ UNCHANGED <<now, task, edit, history, ran, missed, edits, failures, partials>>

------------------------------------------------------------------------------
(* What users do meanwhile *)

\* TaskService.update reads the task: a new deadline, a reopening, or both.
BeginEdit(r, due, reopen) ==
  /\ edit[r] = None
  /\ edits < MaxEdits
  /\ ~task.deleted
  /\ reopen => ~task.open
  /\ due # task.due \/ reopen
  /\ edits' = edits + 1
  /\ edit' = [edit EXCEPT ![r] = [step |-> "write", due |-> due, reopen |-> reopen]]
  /\ UNCHANGED <<now, task, job, history, ran, missed, failures, partials, crashes>>

\* Mutant: the whole sub-document is emptied.
MarkersLost == [w \in {} |-> None]

MarkersReset == Unsent

\* The direct write: the new deadline and the reset of the three markers.
WriteEdit(r) ==
  /\ edit[r] # None /\ edit[r].step = "write"
  /\ IF task.deleted
       THEN /\ edit' = [edit EXCEPT ![r] = None]
            /\ UNCHANGED <<task, history>>
       ELSE /\ task' = [task EXCEPT !.due = edit[r].due, !.sent = MarkersReset]
            /\ edit' = [edit EXCEPT ![r] =
                 IF edit[r].reopen THEN [@ EXCEPT !.step = "append"] ELSE None]
            /\ arming' = arming + 1
            /\ armedAt' = now
            /\ reminded' = [a \in 0..(arming + 1) |->
                 IF a = arming + 1 THEN Unreminded ELSE reminded[a]]
  /\ UNCHANGED <<now, job, counters>>

\* Its REOPENED event.
ReopenTask(r) ==
  /\ edit[r] # None /\ edit[r].step = "append"
  /\ task' = IF task.deleted THEN task ELSE [task EXCEPT !.open = TRUE]
  /\ edit' = [edit EXCEPT ![r] = None]
  /\ armedAt' = now
  /\ UNCHANGED <<now, job, arming, reminded, counters>>

\* A COMPLETED event.
CompleteTask ==
  /\ ~task.deleted /\ task.open
  /\ task' = [task EXCEPT !.open = FALSE]
  /\ UNCHANGED <<now, job, edit, history, counters>>

DeleteTask ==
  /\ ~task.deleted
  /\ task' = [task EXCEPT !.deleted = TRUE]
  /\ UNCHANGED <<now, job, edit, history, counters>>

Minute ==
  /\ now < MaxTime
  /\ now' = now + 1
  /\ ran' = FALSE
  /\ missed' = IF ran /\ \A c \in Runs : job[c] = None
                THEN missed ELSE missed + 1
  /\ UNCHANGED <<task, job, edit, history, edits, failures, partials, crashes>>

Next ==
  \/ \E c \in Runs : StartRun(c) \/ Reserve(c) \/ SendAll(c) \/ SendNone(c)
                       \/ SendSome(c) \/ Release(c) \/ RunDies(c)
  \/ \E r \in Editors :
       \/ \E due \in Deadlines, reopen \in BOOLEAN : BeginEdit(r, due, reopen)
       \/ WriteEdit(r)
       \/ ReopenTask(r)
  \/ CompleteTask
  \/ DeleteTask
  \/ Minute

Spec == Init /\ [][Next]_vars

------------------------------------------------------------------------------
(* Properties *)

\* Whatever the runs of all instances do, and however sends fail or runs die,
\* a reminder is sent at most once per deadline and window, unless a send got
\* only some of its chunks through.
RemindedOnce ==
  \A a \in 0..arming, w \in Windows : reminded[a][w] <= 1 + partials

\* What makes it inductive.  A run that is sending for the present deadline is the
\* one whose marker is set, so there is one of them per window; a run that finds
\* its own marker when it releases it set it for the present deadline.
SendersHold ==
  \A c \in Runs : At(c, "send") /\ job[c].arming = arming => OwnReservation(c)

HoldersCurrent ==
  \A c \in Runs : (At(c, "send") \/ At(c, "release")) /\ OwnReservation(c)
    => job[c].arming = arming

OneSender ==
  \A c, d \in Runs :
    (/\ At(c, "send") /\ At(d, "send")
     /\ job[c].arming = job[d].arming /\ job[c].window = job[d].window) => c = d

MarkersOwn ==
  \A c \in Runs : job[c] # None => job[c].marker.by = c /\ job[c].arming <= arming

\* While a reminder is still to be sent, or its marker is free or about to be
\* freed, all the reminders sent so far were partial.
OnlyPartialsBefore ==
  /\ \A c \in Runs : At(c, "send") =>
       reminded[job[c].arming][job[c].window] <= partials
  /\ \A c \in Runs : At(c, "release") /\ OwnReservation(c) =>
       reminded[arming][job[c].window] <= partials
  /\ \A w \in Windows : task.sent[w] = None => reminded[arming][w] <= partials

Bookkeeping ==
  /\ MarkersOwn
  /\ SendersHold
  /\ HoldersCurrent
  /\ OneSender
  /\ OnlyPartialsBefore
  /\ RemindedOnce

IInv == TypeOK /\ Bookkeeping

\* "Lets a later cron tick catch up when a tick was missed (...) or a send failed
\* and was released for retry" (task-reminder.service.ts:13-15): when the window
\* of a deadline that stood since before it opened closes, its reminder has gone
\* out, if fewer minutes than the window has were lost to missed runs and failed
\* sends, and no run died (MarkerForThisDeadline asks whether it was the right
\* one).
RemindedInTime ==
  \A w \in Windows :
    LET opens == task.due - Lead[w]
    IN (/\ armedAt < opens /\ now >= opens + CatchUp
        /\ task.open /\ ~task.deleted
        /\ missed + failures + partials < CatchUp /\ crashes = 0)
         => reminded[arming][w] > 0

\* "A new deadline (or a reopened task) must get its reminders again"
\* (task.service.ts:741): a marker speaks of the deadline the task has.
MarkerForThisDeadline ==
  \A w \in Windows : task.sent[w] # None => task.sent[w].due = task.due
==============================================================================
