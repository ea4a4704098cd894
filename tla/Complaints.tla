----------------------------- MODULE Complaints -----------------------------
(***************************************************************************)
(* The batched "New Complaint" push of ReviewService for ONE outlet.       *)
(*                                                                         *)
(* A complaint is added to the batch of its outlet in memory, and the      *)
(* batch is copied to the pendingcomplaints collection by an upsert that   *)
(* nobody awaits.  Two minutes after its first complaint the batch leaves  *)
(* the memory, its copy is deleted, again without waiting, and the push is *)
(* sent.  A restarted process takes over what it finds in the collection.  *)
(* Calls that nobody awaits are on their way at the same time: they may    *)
(* land in another order, late, or not at all.                             *)
(***************************************************************************)
EXTENDS Naturals, FiniteSets, Sequences

CONSTANTS
  Review,      \* complaints
  User,        \* admins and managers of the outlet
  None,
  MaxRestarts  \* bound: restarts

ASSUME BoundsAssumption == MaxRestarts \in Nat

VARIABLES
  up,        \* the process has started and serves requests
  complaint, \* review -> how far its notification has come in create()
  pending,   \* the entry of the outlet in the pendingComplaints Map
  row,       \* the pendingcomplaints document of the outlet
  calls,     \* the calls in flight, in the order they were issued
  sending,   \* the batches that flushes are sending
  told,      \* history: review -> number of pushes about it
  heard,     \* history: who was told of which review
  audience,  \* history: review -> the people found for it
  acked,     \* history: reviews whose upsert has succeeded
  cut,       \* history: reviews whose push a crash has cut off
  disorder,  \* history: calls failed, or landed in another order than issued
  restarts

vars == <<up, complaint, pending, row, calls, sending, told, heard, audience,
          acked, cut, disorder, restarts>>

\* A PendingComplaintNotification, and the document it is stored in.  The code
\* keeps the number of its events.
Batch == [events : SUBSET Review, users : SUBSET User]

ASSUME NoneAssumption == None \notin Batch

Call == [op : {"upsert"}, doc : Batch] \cup [op : {"delete"}]

TypeOK ==
  /\ up \in BOOLEAN
  /\ complaint \in [Review -> {"none", "saved", "done"}]
  /\ pending \in Batch \cup {None}
  /\ row \in Batch \cup {None}
  /\ calls \in Seq(Call)
  /\ sending \subseteq Batch
  /\ told \in [Review -> 0..(MaxRestarts + 1)]
  /\ heard \subseteq Review \X User
  /\ audience \in [Review -> SUBSET User]
  /\ acked \subseteq Review
  /\ cut \subseteq Review
  /\ disorder \in BOOLEAN
  /\ restarts \in 0..MaxRestarts

\* The process starts; a record of an older release may be left, which names
\* no users.
Init ==
  /\ up = FALSE
  /\ complaint = [r \in Review |-> "none"]
  /\ pending = None
  /\ row \in {None, [events |-> {}, users |-> {}]}
  /\ calls = <<>>
  /\ sending = {}
  /\ told = [r \in Review |-> 0]
  /\ heard = {}
  /\ audience = [r \in Review |-> {}]
  /\ acked = {}
  /\ cut = {}
  /\ disorder = FALSE
  /\ restarts = 0

history == <<told, heard, audience, acked, cut>>

------------------------------------------------------------------------------
(* A complaint arrives *)

\* create() has stored the review and looks for the people to notify.
Save(r) ==
  /\ up
  /\ complaint[r] = "none"
  /\ complaint' = [complaint EXCEPT ![r] = "saved"]
  /\ UNCHANGED <<up, pending, row, calls, sending, history, disorder, restarts>>

\* The look-up failed, or there is nobody: the review stays without a push.
NobodyToTell(r) ==
  /\ up
  /\ complaint[r] = "saved"
  /\ complaint' = [complaint EXCEPT ![r] = "done"]
  /\ UNCHANGED <<up, pending, row, calls, sending, history, disorder, restarts>>

\* The batch with one more complaint.
Joined(r, users) ==
  IF pending = None
  THEN [events |-> {r}, users |-> users]
  ELSE [events |-> pending.events \cup {r}, users |-> pending.users \cup users]

\* scheduleComplaintNotification: the timer of the batch is that of its first
\* complaint.
Schedule(r, users) ==
  /\ up
  /\ complaint[r] = "saved"
  /\ users # {}
  /\ complaint' = [complaint EXCEPT ![r] = "done"]
  /\ pending' = Joined(r, users)
  /\ calls' = Append(calls, [op |-> "upsert", doc |-> pending'])
  /\ audience' = [audience EXCEPT ![r] = users]
  /\ UNCHANGED <<up, row, sending, told, heard, acked, cut, disorder, restarts>>

------------------------------------------------------------------------------
(* Calls in flight *)

Without(i) == SubSeq(calls, 1, i - 1) \o SubSeq(calls, i + 1, Len(calls))

\* Mutant: the upsert touches the document only if it is there.
StoredIfThere(doc) == IF row = None THEN None ELSE doc

\* The upsert replaces the fields or inserts the document.
Stored(doc) == doc

\* A call takes effect; it is out of order if an earlier one has not.
Land(i) ==
  /\ i \in 1..Len(calls)
  /\ calls' = Without(i)
  /\ disorder' = (disorder \/ i > 1)
  /\ \/ /\ calls[i].op = "upsert"
        /\ row' = Stored(calls[i].doc)
        /\ acked' = acked \cup calls[i].doc.events
     \/ /\ calls[i].op = "delete"
        /\ row' = None
        /\ UNCHANGED acked
  /\ UNCHANGED <<up, complaint, pending, sending, told, heard, audience, cut,
                 restarts>>

\* A call fails, or was not sent before the process died; this is only logged.
CallFails(i) ==
  /\ i \in 1..Len(calls)
  /\ calls' = Without(i)
  /\ disorder' = TRUE
  /\ UNCHANGED <<up, complaint, pending, row, sending, history, restarts>>

------------------------------------------------------------------------------
(* The batch is sent *)

\* Mutant: the batch stays in the Map until it has been sent.
StillPending == pending

\* What is left in the Map once the timer has fired.
AfterTimer == None

\* The timer of the batch fires: flushComplaintNotification up to the send.
TimerFires ==
  /\ up
  /\ pending # None
  /\ pending' = AfterTimer
  /\ calls' = Append(calls, [op |-> "delete"])
  /\ sending' = IF pending.users = {} THEN sending ELSE sending \cup {pending}
  /\ UNCHANGED <<up, complaint, row, history, disorder, restarts>>

\* One push to everyone in the batch about all of its complaints.
Send(b) ==
  /\ b \in sending
  /\ sending' = sending \ {b}
  /\ told' = [r \in Review |->
                IF r \in b.events THEN told[r] + 1 ELSE told[r]]
  /\ heard' = heard \cup (b.events \X b.users)
  /\ UNCHANGED <<up, complaint, pending, row, calls, audience, acked, cut,
                 disorder, restarts>>

\* The send throws, which is only logged.
SendFails(b) ==
  /\ b \in sending
  /\ sending' = sending \ {b}
  /\ cut' = cut \cup b.events
  /\ UNCHANGED <<up, complaint, pending, row, calls, told, heard, audience,
                 acked, disorder, restarts>>

------------------------------------------------------------------------------
(* Restarts *)

\* The process dies.  Calls it has sent may still land.
Crash ==
  /\ up
  /\ restarts < MaxRestarts
  /\ restarts' = restarts + 1
  /\ up' = FALSE
  /\ complaint' = [r \in Review |->
       IF complaint[r] = "saved" THEN "done" ELSE complaint[r]]
  /\ pending' = None
  /\ sending' = {}
  /\ cut' = cut \cup UNION {b.events : b \in sending}
  /\ UNCHANGED <<row, calls, told, heard, audience, acked, disorder>>

\* Mutant: the stored batch is left where it is.
NotRecovered == None

\* The batch a starting process takes over, with a fresh timer.
Recovered == row

\* onModuleInit, before any request is served: take the stored batch over; a
\* record without users is deleted.  Calls of the dead process that are still
\* on their way will land out of order with this read.
StartUp ==
  /\ ~up
  /\ up' = TRUE
  /\ disorder' = (disorder \/ calls # <<>>)
  /\ IF row # None /\ row.users = {}
       THEN row' = None /\ UNCHANGED pending
       ELSE pending' = Recovered /\ UNCHANGED row
  /\ UNCHANGED <<complaint, calls, sending, history, restarts>>

Next ==
  \/ \E r \in Review :
       \/ Save(r)
       \/ NobodyToTell(r)
       \/ \E users \in SUBSET User : Schedule(r, users)
  \/ \E i \in 1..Len(calls) : Land(i) \/ CallFails(i)
  \/ TimerFires
  \/ \E b \in sending : Send(b) \/ SendFails(b)
  \/ Crash
  \/ StartUp

Spec == Init /\ [][Next]_vars

\* Timers fire, what was sent off lands or fails, and a dead process is started
\* again.
FairSpec ==
  /\ Spec
  /\ WF_vars(TimerFires)
  /\ WF_vars(calls # <<>> /\ Land(1))
  /\ WF_vars(\E b \in sending : Send(b))
  /\ WF_vars(StartUp)

------------------------------------------------------------------------------
(* Properties *)

Held(r) ==
  \/ pending # None /\ r \in pending.events
  \/ \E b \in sending : r \in b.events

\* The notification survives restarts: as long as the calls land in order, a
\* complaint that has been stored is being held, is still stored, has been
\* announced, or its push was cut off by the crash itself.
Survives ==
  \A r \in acked :
    \/ disorder
    \/ Held(r)
    \/ row # None /\ r \in row.events
    \/ told[r] > 0
    \/ r \in cut

\* A restart sends nothing again: a complaint is announced twice only if a call
\* failed or was overtaken.
NotAgain == \A r \in Review : told[r] > 1 => disorder

\* Everybody found for a complaint hears of it when it is announced, although
\* the people of a batch are collected over its complaints and, after a
\* restart, from whatever copy of it is stored.
AudienceHears ==
  \A r \in Review : told[r] > 0 => {r} \X audience[r] \subseteq heard

\* A stored complaint survives a restart, is not announced again after it, and
\* reaches everybody it was kept for: what the pendingcomplaints collection is
\* there for, although no call to it is awaited.
ComplaintsSurvive == Survives /\ NotAgain /\ AudienceHears

\* A complaint that has reached the collection is announced in the end, across
\* any restart, unless calls go astray or its push is cut off.
EventuallyAnnounced ==
  \A r \in Review :
    (r \in acked) ~> (told[r] > 0 \/ disorder \/ r \in cut)
==============================================================================
