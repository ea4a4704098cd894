----------------------------- MODULE ActivityPush -----------------------------
(***************************************************************************)
(* The debounced "New Activity" push of TaskEventService for ONE task.     *)
(*                                                                         *)
(* A notifiable event is buffered in the memory of the server instance     *)
(* that appended it (a Map with one batch per task) and, without waiting,  *)
(* upserted into the pendingtaskactivities collection (one row per task,   *)
(* shared by all instances).  When the timer of a batch fires, the         *)
(* instance claims the row by deleting it and sends one push.  A cron on   *)
(* every instance claims rows whose window ended a grace period ago: their *)
(* process died before its timer fired.                                    *)
(*                                                                         *)
(* Events are numbered in the order they are scheduled, and the number     *)
(* stands for flushAt as well: `closed` and `overdue` say up to which one  *)
(* the debounce window, and the grace period after it, have passed.        *)
(* Timers and database calls may be late by any time.                      *)
(***************************************************************************)
EXTENDS Naturals, FiniteSets

CONSTANTS
  Instances,       \* server processes
  MaxEvents,       \* bound: notifiable events
  MaxCrashes,      \* bound: restarts
  MaxStoreErrors,  \* bound: upserts and claims that throw
  None

ASSUME InstancesAssumption == Instances # {}
ASSUME BoundsAssumption ==
  MaxEvents \in Nat /\ MaxCrashes \in Nat /\ MaxStoreErrors \in Nat

VARIABLES
  scheduled,   \* number of notifiable events so far
  closed,      \* the window of the events up to here has ended
  overdue,     \* ... more than the recovery grace ago
  batch,       \* the batches, by number of their first event
  home,        \* the batch each event was added to
  upsert,      \* what became of the upsert of each event
  row,         \* the pendingtaskactivities row of the task
  recovery,    \* what the recovery cron of each instance is doing
  covered,     \* history: the events that some push was about
  told,        \* history: the number of updates announced, over all pushes
  late,        \* history: an upsert outlasted its window, or a flush the grace
  crashes, storeErrors

vars == <<scheduled, closed, overdue, batch, home, upsert, row, recovery,
          covered, told, late, crashes, storeErrors>>

clock  == <<closed, overdue, late>>
intake == <<scheduled, home>>
pushes == <<covered, told>>
faults == <<crashes, storeErrors>>

Events == 1..MaxEvents

\* A PendingNotification: `flushAt` is its newest event, whose timer is the
\* one that counts.  It leaves the Map ("buffered") when the timer fires, and
\* the flush then awaits the claim, decides, and sends; `claimed` is what was in
\* the row.  Of a set of events the code keeps the count and the actors.
Batch == [at : Instances, events : SUBSET Events, claimed : SUBSET Events,
          flushAt : Events, persisted : BOOLEAN,
          step : {"buffered", "claiming", "missed", "sending", "gone"}]

Row == [events : SUBSET Events, flushAt : Events]

Recovery == [step : {"claim"}, flushAt : Events, events : {{}}]
       \cup [step : {"send"}, flushAt : Events, events : SUBSET Events]

ASSUME NoneAssumption == None \notin Batch /\ None \notin Row /\ None \notin Recovery

TypeOK ==
  /\ scheduled \in 0..MaxEvents
  /\ closed \in 0..scheduled
  /\ overdue \in 0..closed
  /\ batch \in [Events -> Batch \cup {None}]
  /\ home \in [Events -> Events \cup {None}]
  /\ upsert \in [Events -> {"none", "sent", "stored", "acked", "failed"}]
  /\ row \in Row \cup {None}
  /\ recovery \in [Instances -> Recovery \cup {None}]
  /\ covered \subseteq Events
  /\ told \in Nat
  /\ late \in BOOLEAN
  /\ crashes \in 0..MaxCrashes
  /\ storeErrors \in 0..MaxStoreErrors

Init ==
  /\ scheduled = 0
  /\ closed = 0
  /\ overdue = 0
  /\ batch = [e \in Events |-> None]
  /\ home = [e \in Events |-> None]
  /\ upsert = [e \in Events |-> "none"]
  /\ row = None
  /\ recovery = [i \in Instances |-> None]
  /\ covered = {}
  /\ told = 0
  /\ late = FALSE
  /\ crashes = 0
  /\ storeErrors = 0

------------------------------------------------------------------------------
(* Buffering an event *)

\* Mutant: a batch stays in the Map after its timer has fired.
KeptAfterFlush(i) == {b \in Events : batch[b] # None /\ batch[b].at = i}

\* What is in the Map of instance i: one batch at most.
Buffered(i) == {b \in Events :
  batch[b] # None /\ batch[b].at = i /\ batch[b].step = "buffered"}

\* scheduleNotification: join the batch in the Map and reset its timer, or
\* start one; issue the upsert.
Schedule(i) ==
  LET e == scheduled + 1
  IN
  /\ scheduled < MaxEvents
  /\ scheduled' = e
  /\ \/ /\ Buffered(i) = {}
        /\ batch' = [batch EXCEPT ![e] =
             [at |-> i, events |-> {e}, claimed |-> {}, flushAt |-> e,
              persisted |-> FALSE, step |-> "buffered"]]
        /\ home' = [home EXCEPT ![e] = e]
     \/ \E b \in Buffered(i) :
          /\ batch' = [batch EXCEPT ![b].events = @ \cup {e}, ![b].flushAt = e]
          /\ home' = [home EXCEPT ![e] = b]
  /\ upsert' = [upsert EXCEPT ![e] = "sent"]
  /\ UNCHANGED <<clock, row, recovery, pushes, faults>>

\* Mutant: the upsert replaces the row instead of adding to it.
StoredAlone(e) == [events |-> {e}, flushAt |-> e]

\* Mutant: flushAt is not set.
StoredUndated(e) ==
  [events |-> {e} \cup (IF row = None THEN {} ELSE row.events), flushAt |-> 0]

\* $inc eventCount, $addToSet actorIds, $set flushAt, upsert.
StoredWith(e) ==
  [events |-> {e} \cup (IF row = None THEN {} ELSE row.events), flushAt |-> e]

\* The upsert reaches the database; upserts are not ordered among themselves.
UpsertLands(e) ==
  /\ upsert[e] = "sent"
  /\ upsert' = [upsert EXCEPT ![e] = "stored"]
  /\ row' = StoredWith(e)
  /\ UNCHANGED <<intake, clock, batch, recovery, pushes, faults>>

\* .then(): the batch object is marked, wherever it is by now.
UpsertAcked(e) ==
  /\ upsert[e] = "stored"
  /\ upsert' = [upsert EXCEPT ![e] = "acked"]
  /\ batch' = [batch EXCEPT ![home[e]].persisted = TRUE]
  /\ UNCHANGED <<intake, clock, row, recovery, pushes, faults>>

\* .catch(): logged.  The upsert may have been applied all the same.
UpsertFails(e) ==
  /\ upsert[e] = "sent"
  /\ storeErrors < MaxStoreErrors
  /\ storeErrors' = storeErrors + 1
  /\ upsert' = [upsert EXCEPT ![e] = "failed"]
  /\ row' \in {row, StoredWith(e)}
  /\ UNCHANGED <<intake, clock, batch, recovery, pushes, crashes>>

------------------------------------------------------------------------------
(* Time *)

\* NOTIFICATION_DEBOUNCE_MS after event closed + 1.
WindowCloses ==
  /\ closed < scheduled
  /\ closed' = closed + 1
  /\ late' = (late \/ upsert[closed + 1] \notin {"acked", "failed"})
  /\ UNCHANGED <<intake, overdue, batch, upsert, row, recovery, pushes, faults>>

\* PENDING_ACTIVITY_RECOVERY_GRACE_MS later.  The grace is several windows
\* long: unless something is late, every window has closed by then, and the
\* flushes have claimed their rows.
GracePasses ==
  /\ overdue < closed
  /\ overdue' = overdue + 1
  /\ late' = (late \/ closed < scheduled
                  \/ \E b \in Events : batch[b] # None
                       /\ batch[b].step \in {"buffered", "claiming", "missed"})
  /\ UNCHANGED <<intake, closed, batch, upsert, row, recovery, pushes, faults>>

------------------------------------------------------------------------------
(* flushNotification *)

\* A push about these events that announces n updates.
Push(events, n) == covered' = covered \cup events /\ told' = told + n

\* Math.max(pending.eventCount, claimed.eventCount).
EventCount(b) ==
  LET buffered == Cardinality(batch[b].events)
      claimed  == Cardinality(batch[b].claimed)
  IN IF claimed > buffered THEN claimed ELSE buffered

At(b, step) == batch[b] # None /\ batch[b].step = step

TimerFires(b) ==
  /\ At(b, "buffered")
  /\ batch[b].flushAt <= closed
  /\ batch' = [batch EXCEPT ![b].step = "claiming"]
  /\ UNCHANGED <<intake, clock, upsert, row, recovery, pushes, faults>>

\* findOneAndDelete({taskId}): hits whatever row is there.
Claim(b) ==
  /\ At(b, "claiming")
  /\ IF row = None
       THEN batch' = [batch EXCEPT ![b].step = "missed"]
       ELSE batch' = [batch EXCEPT ![b].step = "sending",
                                   ![b].claimed = row.events]
  /\ row' = None
  /\ UNCHANGED <<intake, clock, upsert, recovery, pushes, faults>>

\* `pending.persisted`: the row was there once, so somebody else claimed it.
SentElsewhere(b) == batch[b].persisted

\* The claim has returned null.
AfterMiss(b) ==
  /\ At(b, "missed")
  /\ batch' = [batch EXCEPT ![b].step =
                 IF SentElsewhere(b) THEN "gone" ELSE "sending"]
  /\ UNCHANGED <<intake, clock, upsert, row, recovery, pushes, faults>>

\* The claim has thrown, applied or not: send from memory.
ClaimFails(b) ==
  /\ At(b, "claiming")
  /\ storeErrors < MaxStoreErrors
  /\ storeErrors' = storeErrors + 1
  /\ batch' = [batch EXCEPT ![b].step = "sending"]
  /\ row' \in {row, None}
  /\ UNCHANGED <<intake, clock, upsert, recovery, pushes, crashes>>

\* sendBatchedNotification.
Send(b) ==
  /\ At(b, "sending")
  /\ batch' = [batch EXCEPT ![b].step = "gone"]
  /\ Push(batch[b].events \cup batch[b].claimed, EventCount(b))
  /\ UNCHANGED <<intake, clock, upsert, row, recovery, faults>>

------------------------------------------------------------------------------
(* recoverPendingActivity *)

\* The find, and the look into the instance's own Map that follows it.
RecoverFind(i) ==
  /\ recovery[i] = None
  /\ row # None
  /\ row.flushAt <= overdue
  /\ Buffered(i) = {}
  /\ recovery' = [recovery EXCEPT ![i] =
                    [step |-> "claim", flushAt |-> row.flushAt, events |-> {}]]
  /\ UNCHANGED <<intake, clock, batch, upsert, row, pushes, faults>>

ClaimsRow(i) == row # None /\ row.flushAt = recovery[i].flushAt

\* findOneAndDelete({_id, flushAt}).
RecoverClaim(i) ==
  /\ recovery[i] # None
  /\ recovery[i].step = "claim"
  /\ IF ClaimsRow(i)
       THEN /\ recovery' = [recovery EXCEPT ![i].step = "send",
                                            ![i].events = row.events]
            /\ row' = None
       ELSE /\ recovery' = [recovery EXCEPT ![i] = None]
            /\ UNCHANGED row
  /\ UNCHANGED <<intake, clock, batch, upsert, pushes, faults>>

RecoverSend(i) ==
  /\ recovery[i] # None
  /\ recovery[i].step = "send"
  /\ Push(recovery[i].events, Cardinality(recovery[i].events))
  /\ recovery' = [recovery EXCEPT ![i] = None]
  /\ UNCHANGED <<intake, clock, batch, upsert, row, faults>>

------------------------------------------------------------------------------

\* A process restarts: its Map, its flushes and its recovery are gone, and so
\* are some of the upserts it had not got an answer for.
Crash(i) ==
  LET mine == {e \in Events : home[e] # None /\ batch[home[e]].at = i}
  IN
  /\ crashes < MaxCrashes
  /\ crashes' = crashes + 1
  /\ batch' = [b \in Events |->
       IF batch[b] # None /\ batch[b].at = i
         THEN [batch[b] EXCEPT !.step = "gone"] ELSE batch[b]]
  /\ recovery' = [recovery EXCEPT ![i] = None]
  /\ \E lost \in SUBSET {e \in mine : upsert[e] = "sent"} :
       upsert' = [e \in Events |-> IF e \in lost THEN "failed" ELSE upsert[e]]
  /\ UNCHANGED <<intake, clock, row, pushes, storeErrors>>

Flush(b) == TimerFires(b) \/ Claim(b) \/ AfterMiss(b) \/ Send(b)
Recover(i) == RecoverFind(i) \/ RecoverClaim(i) \/ RecoverSend(i)

Next ==
  \/ \E i \in Instances : Schedule(i) \/ Recover(i) \/ Crash(i)
  \/ \E e \in Events : UpsertLands(e) \/ UpsertAcked(e) \/ UpsertFails(e)
  \/ \E b \in Events : Flush(b) \/ ClaimFails(b)
  \/ WindowCloses
  \/ GracePasses

Spec == Init /\ [][Next]_vars

\* Timers, database calls and the cron all come round; time passes.
FairSpec ==
  /\ Spec
  /\ WF_vars(WindowCloses)
  /\ WF_vars(GracePasses)
  /\ \A e \in Events : WF_vars(UpsertLands(e)) /\ WF_vars(UpsertAcked(e))
  /\ \A b \in Events : WF_vars(Flush(b))
  /\ \A i \in Instances : WF_vars(Recover(i))

------------------------------------------------------------------------------
(* Properties *)

NoErrors == storeErrors = 0
AllWell == crashes = 0 /\ NoErrors

\* Somebody is still going to tell about event e.
InHand(e) ==
  \/ upsert[e] = "sent"
  \/ row # None /\ e \in row.events
  \/ \E b \in Events :
       /\ batch[b] # None
       /\ batch[b].step # "gone"
       /\ e \in batch[b].events \cup batch[b].claimed
  \/ \E i \in Instances : recovery[i] # None /\ e \in recovery[i].events

\* No update is lost or told twice: however late upserts, timers and claims
\* are, and whichever instance claims a row, no event is forgotten while no
\* process restarts and no call fails; and "a recovering instance never sends
\* it a second time" (task-event.service.ts:381-382): what the row still holds,
\* and recovery would send, nobody has told about, as long as the database
\* answers in time.
ToldOrHeld ==
  /\ AllWell => \A e \in 1..scheduled : e \in covered \/ InHand(e)
  /\ NoErrors /\ ~late /\ row # None => row.events \cap covered = {}

\* Every event is told about in the end, by its own instance or another, unless
\* a process restarts or a call fails.
EventuallyPushed ==
  \A e \in Events : (scheduled >= e) ~> (e \in covered \/ ~AllWell)
==============================================================================
