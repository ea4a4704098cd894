-------------------------- MODULE ActivityPushProofs --------------------------
(***************************************************************************)
(* Proofs about ActivityPush, for any number of instances, events, crashes *)
(* and failed calls: no notifiable event is forgotten, and recovery never  *)
(* finds one in the row that has been told about.                          *)
(***************************************************************************)
EXTENDS ActivityPush, FiniteSetTheorems, TLAPS

\* The batches and the upserts keep step with the events: a batch exists from
\* its first event on, an event that is scheduled has one, and the batch's
\* timer is that of its newest event.
Bookkeeping ==
  /\ \A e \in Events : (upsert[e] = "none") <=> (e > scheduled)
  /\ \A e \in 1..scheduled : home[e] \in Events /\ batch[home[e]] # None
  /\ \A b \in Events : batch[b] # None =>
       /\ b <= scheduled
       /\ batch[b].flushAt <= scheduled
       /\ \A e \in batch[b].events : e <= batch[b].flushAt
       /\ batch[b].step \in {"claiming", "missed", "sending"} =>
            batch[b].flushAt <= closed
       /\ batch[b].step \in {"buffered", "claiming", "missed"} =>
            batch[b].claimed = {}

\* The events whose upsert has been applied.
Landed == {e \in Events : upsert[e] \in {"stored", "acked"}}

\* Somebody has told about event e, or holds it: the row, or who claimed it.
Held(e) ==
  \/ e \in covered
  \/ row # None /\ e \in row.events
  \/ \E b \in Events :
       batch[b] # None /\ batch[b].step # "gone" /\ e \in batch[b].claimed
  \/ \E i \in Instances : recovery[i] # None /\ e \in recovery[i].events

\* Without failures an event whose upsert has been applied is held.
LandedIsKept ==
  AllWell => \A e \in 1..scheduled :
    upsert[e] # "failed" /\ (e \in Landed => Held(e))

\* Unless a call failed, the row and what is claimed from it have landed.
ClaimedLanded ==
  NoErrors =>
    /\ row # None => row.events \subseteq Landed
    /\ \A b \in Events : batch[b] # None => batch[b].claimed \subseteq Landed
    /\ \A i \in Instances : recovery[i] # None => recovery[i].events \subseteq Landed

\* Unless the database is late, an upsert is answered before its window ends.
AnsweredInTime ==
  ~late => \A e \in 1..closed : upsert[e] \in {"acked", "failed"}

\* Somebody has told about event e, or is about to.
Out(e) ==
  \/ e \in covered
  \/ \E b \in Events :
       /\ batch[b] # None
       /\ batch[b].step \in {"missed", "sending"}
       /\ e \in batch[b].events \cup batch[b].claimed
  \/ \E i \in Instances : recovery[i] # None /\ e \in recovery[i].events

\* Then the upsert of such an event is through, and the event is not in the row:
\* it never gets back there.
TakenFromRow ==
  NoErrors /\ ~late => \A e \in Events : Out(e) =>
    /\ upsert[e] \in {"stored", "acked", "failed"}
    /\ row # None => e \notin row.events

\* The inductive invariant behind ToldOrHeld.
Inv ==
  /\ TypeOK
  /\ Bookkeeping
  /\ LandedIsKept
  /\ ClaimedLanded
  /\ AnsweredInTime
  /\ TakenFromRow

------------------------------------------------------------------------------
(* What becomes of a batch *)

\* Sets of events are finite.
LEMMA EventsFinite ==
  /\ Events \subseteq Nat
  /\ \A S \in SUBSET Events : IsFiniteSet(S) /\ Cardinality(S) \in Nat
<1>1. MaxEvents \in Nat /\ Events \subseteq Nat
  BY BoundsAssumption DEF Events
<1>2. IsFiniteSet(Events)
  BY <1>1, FS_Interval DEF Events
<1>. QED
  BY <1>1, <1>2, FS_Subset, FS_CardinalityType

\* The fields of a batch.
LEMMA BatchFields ==
  ASSUME TypeOK, NEW b \in Events, batch[b] # None
  PROVE  /\ batch[b] \in Batch
         /\ batch[b].at \in Instances
         /\ batch[b].events \in SUBSET Events
         /\ batch[b].claimed \in SUBSET Events
         /\ batch[b].flushAt \in Events
         /\ batch[b].persisted \in BOOLEAN
         /\ batch[b].step \in {"buffered", "claiming", "missed", "sending", "gone"}
<1>1. batch[b] \in Batch
  BY DEF TypeOK
<1>. QED
  BY <1>1 DEF Batch

\* Batch b gets to a step, holding what it has claimed; its events stay.
Moved(b, step, claimed) ==
  /\ batch' \in [Events -> Batch \cup {None}]
  /\ batch'[b] # None
  /\ batch'[b].step = step
  /\ batch'[b].claimed = claimed
  /\ batch'[b].events = batch[b].events
  /\ batch'[b].flushAt = batch[b].flushAt
  /\ \A c \in Events \ {b} : batch'[c] = batch[c]

\* Changing the step alone is such a move.
LEMMA StepMoves ==
  ASSUME TypeOK, NEW b \in Events, batch[b] # None,
         NEW step \in {"buffered", "claiming", "missed", "sending", "gone"},
         batch' = [batch EXCEPT ![b].step = step]
  PROVE  Moved(b, step, batch[b].claimed)
<1>. DEFINE x == [batch[b] EXCEPT !.step = step]
<1>1. batch[b] \in Batch /\ batch \in [Events -> Batch \cup {None}]
  BY DEF TypeOK
<1>2. /\ x \in Batch /\ x.step = step /\ x.claimed = batch[b].claimed
      /\ x.events = batch[b].events /\ x.flushAt = batch[b].flushAt
  BY <1>1 DEF Batch
<1>3. batch' = [batch EXCEPT ![b] = x]
  OBVIOUS
<1>. HIDE DEF x
<1>4. /\ batch' \in [Events -> Batch \cup {None}] /\ batch'[b] = x
      /\ \A c \in Events \ {b} : batch'[c] = batch[c]
  BY <1>1, <1>2, <1>3
<1>. QED
  BY <1>2, <1>4, NoneAssumption DEF Moved

\* A claim that finds the row.
LEMMA ClaimMoves ==
  ASSUME TypeOK, NEW b \in Events, batch[b] # None, row # None,
         batch' = [batch EXCEPT ![b].step = "sending", ![b].claimed = row.events]
  PROVE  Moved(b, "sending", row.events)
<1>. DEFINE x == [batch[b] EXCEPT !.step = "sending", !.claimed = row.events]
<1>1. batch[b] \in Batch /\ batch \in [Events -> Batch \cup {None}] /\ row \in Row
  BY DEF TypeOK
<1>2. /\ x \in Batch /\ x.step = "sending" /\ x.claimed = row.events
      /\ x.events = batch[b].events /\ x.flushAt = batch[b].flushAt
  BY <1>1 DEF Batch, Row
<1>3. /\ batch'[b] = x /\ \A c \in Events \ {b} : batch'[c] = batch[c]
      /\ batch' = [c \in Events |-> batch'[c]]
  BY <1>1 DEF Batch
<1>. HIDE DEF x
<1>4. batch' \in [Events -> Batch \cup {None}]
  BY <1>1, <1>2, <1>3
<1>. QED
  BY <1>2, <1>3, <1>4, NoneAssumption DEF Moved

\* The answer to an upsert only marks the batch.
LEMMA AckMoves ==
  ASSUME TypeOK, NEW b \in Events, batch[b] # None,
         batch' = [batch EXCEPT ![b].persisted = TRUE]
  PROVE  Moved(b, batch[b].step, batch[b].claimed)
<1>. DEFINE x == [batch[b] EXCEPT !.persisted = TRUE]
<1>1. batch[b] \in Batch /\ batch \in [Events -> Batch \cup {None}]
  BY DEF TypeOK
<1>2. /\ x \in Batch /\ x.step = batch[b].step /\ x.claimed = batch[b].claimed
      /\ x.events = batch[b].events /\ x.flushAt = batch[b].flushAt
  BY <1>1 DEF Batch
<1>3. batch' = [batch EXCEPT ![b] = x]
  OBVIOUS
<1>. HIDE DEF x
<1>4. /\ batch' \in [Events -> Batch \cup {None}] /\ batch'[b] = x
      /\ \A c \in Events \ {b} : batch'[c] = batch[c]
  BY <1>1, <1>2, <1>3
<1>. QED
  BY <1>2, <1>4, NoneAssumption DEF Moved

\* Event e is now the newest of batch b, a new one or the one in the Map, and
\* its timer is that of the batch.
Takes(b, e) ==
  /\ batch' \in [Events -> Batch \cup {None}]
  /\ home' \in [Events -> Events \cup {None}]
  /\ home' = [home EXCEPT ![e] = b]
  /\ b <= e
  /\ batch'[b] # None
  /\ batch'[b].step = "buffered"
  /\ batch'[b].flushAt = e
  /\ batch'[b].claimed = {}
  /\ \/ batch[b] = None /\ batch'[b].events = {e}
     \/ /\ batch[b] # None
        /\ batch[b].step = "buffered"
        /\ batch'[b].events = batch[b].events \cup {e}
  /\ \A c \in Events \ {b} : batch'[c] = batch[c]

\* The next event is scheduled.
LEMMA ScheduleEffect ==
  ASSUME TypeOK, Bookkeeping, NEW i \in Instances, Schedule(i)
  PROVE  /\ scheduled \in Nat /\ scheduled' = scheduled + 1
         /\ scheduled + 1 \in Events
         /\ upsert' = [upsert EXCEPT ![scheduled + 1] = "sent"]
         /\ \E b \in Events : Takes(b, scheduled + 1)
<1>. DEFINE e == scheduled + 1
<1>1. scheduled \in Nat /\ e \in Events /\ scheduled' = e
      /\ upsert' = [upsert EXCEPT ![e] = "sent"]
  BY BoundsAssumption DEF TypeOK, Schedule, Events
<1>2. batch \in [Events -> Batch \cup {None}] /\ home \in [Events -> Events \cup {None}]
  BY DEF TypeOK
<1>3. ~(e <= scheduled) /\ e <= e /\ \A b \in Nat : b <= scheduled => b <= e
  BY <1>1
<1>4. \A b \in Events : batch[b] # None =>
        b <= scheduled /\ (batch[b].step = "buffered" => batch[b].claimed = {})
  BY DEF Bookkeeping
<1>5. batch[e] = None
  BY <1>1, <1>3, <1>4
<1>. DEFINE x == [at |-> i, events |-> {e}, claimed |-> {}, flushAt |-> e,
                  persisted |-> FALSE, step |-> "buffered"]
<1>6. ASSUME batch' = [batch EXCEPT ![e] = x], home' = [home EXCEPT ![e] = e]
      PROVE  Takes(e, e)
  <2>1. x \in Batch /\ x.step = "buffered" /\ x.flushAt = e /\ x.claimed = {}
        /\ x.events = {e}
    BY <1>1 DEF Batch
  <2>. HIDE DEF x
  <2>2. /\ batch' \in [Events -> Batch \cup {None}] /\ batch'[e] = x
        /\ \A c \in Events \ {e} : batch'[c] = batch[c]
    BY <1>1, <1>2, <1>6, <2>1
  <2>3. home' \in [Events -> Events \cup {None}]
    BY <1>1, <1>2, <1>6
  <2>4. x # None
    BY <2>1, NoneAssumption
  <2>. HIDE DEF e
  <2>. QED
    BY <1>3, <1>5, <1>6, <2>1, <2>2, <2>3, <2>4 DEF Takes
<1>7. ASSUME NEW b \in Buffered(i), home' = [home EXCEPT ![e] = b],
             batch' = [batch EXCEPT ![b].events = batch[b].events \cup {e},
                                    ![b].flushAt = e]
      PROVE  b \in Events /\ Takes(b, e)
  <2>. DEFINE y == [batch[b] EXCEPT !.events = batch[b].events \cup {e}, !.flushAt = e]
  <2>1. b \in Events /\ batch[b] # None /\ batch[b].step = "buffered"
    BY DEF Buffered
  <2>2. batch[b] \in Batch
    BY <2>1, BatchFields
  <2>3. /\ y \in Batch /\ y.step = "buffered" /\ y.flushAt = e
        /\ y.claimed = batch[b].claimed /\ y.events = batch[b].events \cup {e}
    BY <1>1, <2>1, <2>2 DEF Batch
  <2>4. /\ batch'[b] = y /\ \A c \in Events \ {b} : batch'[c] = batch[c]
        /\ batch' = [c \in Events |-> batch'[c]]
    BY <1>2, <1>7, <2>1, <2>2 DEF Batch
  <2>. HIDE DEF y
  <2>5. batch' \in [Events -> Batch \cup {None}] /\ y # None
    BY <1>2, <2>1, <2>3, <2>4, NoneAssumption
  <2>6. home' \in [Events -> Events \cup {None}]
    BY <1>1, <1>2, <1>7, <2>1
  <2>7. b <= e /\ y.claimed = {}
    BY <1>3, <1>4, <2>1, <2>3, EventsFinite
  <2>. HIDE DEF e
  <2>. QED
    BY <1>7, <2>1, <2>3, <2>4, <2>5, <2>6, <2>7 DEF Takes
<1>8. \E b \in Events : Takes(b, e)
  <2>1. CASE batch' = [batch EXCEPT ![e] = x] /\ home' = [home EXCEPT ![e] = e]
    BY <1>1, <1>6, <2>1
  <2>2. CASE \E b \in Buffered(i) :
               /\ home' = [home EXCEPT ![e] = b]
               /\ batch' = [batch EXCEPT ![b].events = batch[b].events \cup {e},
                                         ![b].flushAt = e]
    <3>. HIDE DEF e
    <3>. QED
      BY <1>7, <2>2
  <2>. QED
    BY <2>1, <2>2 DEF Schedule
<1>. QED
  BY <1>1, <1>8

\* A restart leaves events and claims where they are, on batches that are gone,
\* and loses upserts that were on their way.
LEMMA CrashEffect ==
  ASSUME TypeOK, NEW i \in Instances, Crash(i)
  PROVE  /\ batch' \in [Events -> Batch \cup {None}]
         /\ recovery' \in [Instances -> Recovery \cup {None}]
         /\ upsert' \in [Events -> {"none", "sent", "stored", "acked", "failed"}]
         /\ \A b \in Events : (batch'[b] = None) <=> (batch[b] = None)
         /\ \A b \in Events : batch[b] # None =>
              /\ batch'[b].step \in {batch[b].step, "gone"}
              /\ batch'[b].claimed = batch[b].claimed
              /\ batch'[b].events = batch[b].events
              /\ batch'[b].flushAt = batch[b].flushAt
         /\ \A j \in Instances : recovery'[j] \in {None, recovery[j]}
         /\ \A e \in Events : \/ upsert'[e] = upsert[e]
                              \/ upsert[e] = "sent" /\ upsert'[e] = "failed"
<1>1. /\ batch \in [Events -> Batch \cup {None}]
      /\ recovery \in [Instances -> Recovery \cup {None}]
      /\ upsert \in [Events -> {"none", "sent", "stored", "acked", "failed"}]
  BY DEF TypeOK
<1>. DEFINE x(b) == [batch[b] EXCEPT !.step = "gone"]
<1>2. batch' = [b \in Events |->
        IF batch[b] # None /\ batch[b].at = i THEN x(b) ELSE batch[b]]
      /\ recovery' = [recovery EXCEPT ![i] = None]
  BY DEF Crash
<1>3. \A b \in Events : batch[b] # None =>
        /\ x(b) \in Batch /\ x(b).step = "gone" /\ x(b).claimed = batch[b].claimed
        /\ x(b).events = batch[b].events /\ x(b).flushAt = batch[b].flushAt
  BY <1>1, BatchFields DEF Batch
<1>4. \A b \in Events : batch[b] # None => x(b) # None
  BY <1>3, NoneAssumption
<1>. HIDE DEF x
<1>5. /\ batch' \in [Events -> Batch \cup {None}]
      /\ \A b \in Events : (batch'[b] = None) <=> (batch[b] = None)
      /\ \A b \in Events : batch[b] # None =>
           /\ batch'[b].step \in {batch[b].step, "gone"}
           /\ batch'[b].claimed = batch[b].claimed
           /\ batch'[b].events = batch[b].events
           /\ batch'[b].flushAt = batch[b].flushAt
  BY <1>1, <1>2, <1>3, <1>4
<1>6. /\ recovery' \in [Instances -> Recovery \cup {None}]
      /\ \A j \in Instances : recovery'[j] \in {None, recovery[j]}
  BY <1>1, <1>2
<1>7. PICK lost \in SUBSET {e \in Events : upsert[e] = "sent"} :
        upsert' = [e \in Events |-> IF e \in lost THEN "failed" ELSE upsert[e]]
  BY DEF Crash
<1>8. /\ upsert' \in [Events -> {"none", "sent", "stored", "acked", "failed"}]
      /\ \A e \in Events : \/ upsert'[e] = upsert[e]
                           \/ upsert[e] = "sent" /\ upsert'[e] = "failed"
  BY <1>1, <1>7
<1>. QED
  BY <1>5, <1>6, <1>8

\* What an upsert leaves in the row.
LEMMA StoredRow ==
  ASSUME TypeOK, NEW e \in Events
  PROVE  /\ StoredWith(e) \in Row
         /\ StoredWith(e) # None
         /\ StoredWith(e).events = {e} \cup (IF row = None THEN {} ELSE row.events)
<1>1. row # None => row.events \in SUBSET Events
  BY DEF TypeOK, Row
<1>2. StoredWith(e) \in Row
  BY <1>1 DEF StoredWith, Row
<1>. QED
  BY <1>2, NoneAssumption DEF StoredWith

\* An upsert that has been sent is for an event that has its batch.
LEMMA AckedBatch ==
  ASSUME TypeOK, Bookkeeping, NEW e \in Events, upsert[e] # "none"
  PROVE  /\ e \in 1..scheduled
         /\ home[e] \in Events /\ batch[home[e]] # None
<1>1. scheduled \in Nat /\ e \in Nat /\ 1 <= e
  BY BoundsAssumption DEF TypeOK, Events
<1>2. ~(e > scheduled)
  BY DEF Bookkeeping
<1>3. e \in 1..scheduled
  BY <1>1, <1>2
<1>. QED
  BY <1>3 DEF Bookkeeping

\* The instance takes the row it has found, or gives up.
LEMMA RecoverClaimEffect ==
  ASSUME TypeOK, NEW i \in Instances, RecoverClaim(i)
  PROVE  /\ recovery' \in [Instances -> Recovery \cup {None}]
         /\ recovery[i].events = {}
         /\ \A j \in Instances \ {i} : recovery'[j] = recovery[j]
         /\ \/ /\ row # None /\ row' = None
               /\ recovery'[i] # None /\ recovery'[i].events = row.events
            \/ row' = row /\ recovery'[i] = None
<1>. DEFINE x == [recovery[i] EXCEPT !.step = "send", !.events = row.events]
<1>1. recovery \in [Instances -> Recovery \cup {None}] /\ row \in Row \cup {None}
  BY DEF TypeOK
<1>2. recovery[i] \in Recovery /\ recovery[i].step = "claim"
  BY <1>1 DEF RecoverClaim
<1>3. recovery[i] \in [step : {"claim"}, flushAt : Events, events : {{}}]
  BY <1>2 DEF Recovery
<1>4. recovery[i].events = {}
  BY <1>3
<1>5. CASE ClaimsRow(i)
  <2>1. row \in Row /\ row # None /\ row.events \in SUBSET Events
    BY <1>1, <1>5 DEF ClaimsRow, Row
  <2>2. x \in [step : {"send"}, flushAt : Events, events : SUBSET Events]
        /\ x.events = row.events
    BY <1>3, <2>1
  <2>3. x \in Recovery
    BY <2>2 DEF Recovery
  <2>4. /\ recovery'[i] = x /\ \A j \in Instances \ {i} : recovery'[j] = recovery[j]
        /\ recovery' = [j \in Instances |-> recovery'[j]]
        /\ row' = None
    BY <1>1, <1>3, <1>5 DEF RecoverClaim
  <2>. HIDE DEF x
  <2>5. recovery' \in [Instances -> Recovery \cup {None}]
    BY <1>1, <2>3, <2>4
  <2>. QED
    BY <1>4, <2>1, <2>2, <2>3, <2>4, <2>5, NoneAssumption
<1>6. CASE ~ClaimsRow(i)
  <2>1. recovery' = [recovery EXCEPT ![i] = None] /\ row' = row
    BY <1>6 DEF RecoverClaim
  <2>. QED
    BY <1>1, <1>4, <2>1
<1>. QED
  BY <1>5, <1>6

------------------------------------------------------------------------------
(* Types *)

\* The initial state is typed.
LEMMA InitType == Init => TypeOK
<1>. SUFFICES ASSUME Init PROVE TypeOK
  OBVIOUS
<1>1. /\ scheduled \in 0..MaxEvents /\ closed \in 0..scheduled
      /\ overdue \in 0..closed /\ told \in Nat
      /\ crashes \in 0..MaxCrashes /\ storeErrors \in 0..MaxStoreErrors
  BY BoundsAssumption DEF Init
<1>2. /\ batch \in [Events -> Batch \cup {None}]
      /\ home \in [Events -> Events \cup {None}]
      /\ upsert \in [Events -> {"none", "sent", "stored", "acked", "failed"}]
      /\ recovery \in [Instances -> Recovery \cup {None}]
  BY DEF Init
<1>. QED
  BY <1>1, <1>2 DEF Init, TypeOK

\* Every step keeps the types.
LEMMA NextType == TypeOK /\ Bookkeeping /\ [Next]_vars => TypeOK'
<1>. SUFFICES ASSUME TypeOK, Bookkeeping, [Next]_vars PROVE TypeOK'
  OBVIOUS
<1>. USE DEF clock, intake, pushes, faults
<1>0. /\ batch \in [Events -> Batch \cup {None}]
      /\ home \in [Events -> Events \cup {None}]
      /\ upsert \in [Events -> {"none", "sent", "stored", "acked", "failed"}]
      /\ recovery \in [Instances -> Recovery \cup {None}]
      /\ row \in Row \cup {None}
      /\ covered \in SUBSET Events /\ told \in Nat /\ late \in BOOLEAN
      /\ scheduled \in Nat /\ closed \in Nat /\ overdue \in Nat
      /\ scheduled <= MaxEvents /\ closed <= scheduled /\ overdue <= closed
      /\ crashes \in 0..MaxCrashes /\ storeErrors \in 0..MaxStoreErrors
      /\ MaxEvents \in Nat /\ MaxCrashes \in Nat /\ MaxStoreErrors \in Nat
  BY BoundsAssumption DEF TypeOK
<1>1. ASSUME NEW i \in Instances, Schedule(i) PROVE TypeOK'
  <2>1. /\ batch' \in [Events -> Batch \cup {None}]
        /\ home' \in [Events -> Events \cup {None}]
    BY <1>1, ScheduleEffect DEF Takes
  <2>2. upsert' \in [Events -> {"none", "sent", "stored", "acked", "failed"}]
    BY <1>0, <1>1, ScheduleEffect
  <2>3. scheduled' \in 0..MaxEvents /\ closed' \in 0..scheduled' /\ overdue' \in 0..closed'
    BY <1>0, <1>1 DEF Schedule
  <2>. QED
    BY <1>1, <2>1, <2>2, <2>3 DEF Schedule, TypeOK
<1>2. ASSUME NEW e \in Events, UpsertLands(e) PROVE TypeOK'
  <2>1. upsert' \in [Events -> {"none", "sent", "stored", "acked", "failed"}]
    BY <1>0, <1>2 DEF UpsertLands
  <2>2. row' \in Row \cup {None}
    BY <1>2, StoredRow DEF UpsertLands
  <2>. QED
    BY <1>2, <2>1, <2>2 DEF UpsertLands, TypeOK
<1>3. ASSUME NEW e \in Events, UpsertAcked(e) PROVE TypeOK'
  <2>1. upsert' \in [Events -> {"none", "sent", "stored", "acked", "failed"}]
    BY <1>0, <1>3 DEF UpsertAcked
  <2>2. batch' \in [Events -> Batch \cup {None}]
    BY <1>3, AckedBatch, AckMoves DEF UpsertAcked, Moved
  <2>. QED
    BY <1>3, <2>1, <2>2 DEF UpsertAcked, TypeOK
<1>4. ASSUME NEW e \in Events, UpsertFails(e) PROVE TypeOK'
  <2>1. upsert' \in [Events -> {"none", "sent", "stored", "acked", "failed"}]
    BY <1>0, <1>4 DEF UpsertFails
  <2>2. row' \in Row \cup {None}
    BY <1>0, <1>4, StoredRow DEF UpsertFails
  <2>3. storeErrors' \in 0..MaxStoreErrors
    BY <1>0, <1>4 DEF UpsertFails
  <2>. QED
    BY <1>4, <2>1, <2>2, <2>3 DEF UpsertFails, TypeOK
<1>5. CASE WindowCloses
  <2>1. closed' \in 0..scheduled' /\ overdue' \in 0..closed' /\ late' \in BOOLEAN
    BY <1>0, <1>5 DEF WindowCloses
  <2>. QED
    BY <1>5, <2>1 DEF WindowCloses, TypeOK
<1>6. CASE GracePasses
  <2>1. overdue' \in 0..closed' /\ late' \in BOOLEAN
    BY <1>0, <1>6 DEF GracePasses
  <2>. QED
    BY <1>6, <2>1 DEF GracePasses, TypeOK
<1>7. ASSUME NEW b \in Events, TimerFires(b) PROVE TypeOK'
  <2>1. batch' \in [Events -> Batch \cup {None}]
    BY <1>7, StepMoves DEF TimerFires, At, Moved
  <2>. QED
    BY <1>7, <2>1 DEF TimerFires, TypeOK
<1>8. ASSUME NEW b \in Events, Claim(b) PROVE TypeOK'
  <2>1. batch' \in [Events -> Batch \cup {None}]
    BY <1>8, StepMoves, ClaimMoves DEF Claim, At, Moved
  <2>. QED
    BY <1>8, <2>1 DEF Claim, TypeOK
<1>9. ASSUME NEW b \in Events, AfterMiss(b) PROVE TypeOK'
  <2>1. batch' \in [Events -> Batch \cup {None}]
    BY <1>9, StepMoves DEF AfterMiss, At, Moved
  <2>. QED
    BY <1>9, <2>1 DEF AfterMiss, TypeOK
<1>10. ASSUME NEW b \in Events, ClaimFails(b) PROVE TypeOK'
  <2>1. batch' \in [Events -> Batch \cup {None}]
    BY <1>10, StepMoves DEF ClaimFails, At, Moved
  <2>2. storeErrors' \in 0..MaxStoreErrors
    BY <1>0, <1>10 DEF ClaimFails
  <2>. QED
    BY <1>10, <2>1, <2>2 DEF ClaimFails, TypeOK
<1>11. ASSUME NEW b \in Events, Send(b) PROVE TypeOK'
  <2>1. batch[b] # None
    BY <1>11 DEF Send, At
  <2>2. batch' \in [Events -> Batch \cup {None}]
    BY <1>11, <2>1, StepMoves DEF Send, Moved
  <2>3. batch[b].events \in SUBSET Events /\ batch[b].claimed \in SUBSET Events
    BY <2>1, BatchFields
  <2>4. EventCount(b) \in Nat
    BY <2>3, EventsFinite DEF EventCount
  <2>5. covered' \subseteq Events /\ told' \in Nat
    BY <1>0, <1>11, <2>3, <2>4 DEF Send, Push
  <2>. QED
    BY <1>11, <2>2, <2>5 DEF Send, TypeOK
<1>12. ASSUME NEW i \in Instances, RecoverFind(i) PROVE TypeOK'
  <2>. DEFINE x == [step |-> "claim", flushAt |-> row.flushAt, events |-> {}]
  <2>1. row.flushAt \in Events
    BY <1>0, <1>12 DEF RecoverFind, Row
  <2>2. x \in Recovery
    BY <2>1 DEF Recovery
  <2>3. recovery' = [recovery EXCEPT ![i] = x]
    BY <1>12 DEF RecoverFind
  <2>. HIDE DEF x
  <2>4. recovery' \in [Instances -> Recovery \cup {None}]
    BY <1>0, <2>2, <2>3
  <2>. QED
    BY <1>12, <2>4 DEF RecoverFind, TypeOK
<1>13. ASSUME NEW i \in Instances, RecoverClaim(i) PROVE TypeOK'
  <2>1. recovery' \in [Instances -> Recovery \cup {None}]
    BY <1>13, RecoverClaimEffect
  <2>2. row' \in Row \cup {None}
    BY <1>0, <1>13 DEF RecoverClaim
  <2>. QED
    BY <1>13, <2>1, <2>2 DEF RecoverClaim, TypeOK
<1>14. ASSUME NEW i \in Instances, RecoverSend(i) PROVE TypeOK'
  <2>1. recovery[i] # None /\ recovery[i] \in Recovery
    BY <1>0, <1>14 DEF RecoverSend
  <2>2. recovery[i].events \in SUBSET Events
    BY <2>1 DEF Recovery
  <2>3. Cardinality(recovery[i].events) \in Nat
    BY <2>2, EventsFinite
  <2>4. recovery' \in [Instances -> Recovery \cup {None}]
    BY <1>0, <1>14 DEF RecoverSend
  <2>5. covered' \subseteq Events /\ told' \in Nat
    BY <1>0, <1>14, <2>2, <2>3 DEF RecoverSend, Push
  <2>. QED
    BY <1>14, <2>4, <2>5 DEF RecoverSend, TypeOK
<1>15. ASSUME NEW i \in Instances, Crash(i) PROVE TypeOK'
  <2>1. /\ batch' \in [Events -> Batch \cup {None}]
        /\ recovery' \in [Instances -> Recovery \cup {None}]
        /\ upsert' \in [Events -> {"none", "sent", "stored", "acked", "failed"}]
    BY <1>15, CrashEffect
  <2>2. crashes' \in 0..MaxCrashes
    BY <1>0, <1>15 DEF Crash
  <2>. QED
    BY <1>15, <2>1, <2>2 DEF Crash, TypeOK
<1>16. CASE UNCHANGED vars
  BY <1>16 DEF vars, TypeOK
<1>. QED
  BY <1>1, <1>2, <1>3, <1>4, <1>5, <1>6, <1>7, <1>8, <1>9, <1>10, <1>11, <1>12,
     <1>13, <1>14, <1>15, <1>16 DEF Next, Flush, Recover

------------------------------------------------------------------------------
(* Bookkeeping *)

\* What a step other than a new event does to the bookkeeping.
LEMMA KeepsBook ==
  ASSUME TypeOK, Bookkeeping, scheduled' = scheduled, home' = home,
         closed' \in Nat, closed <= closed',
         \A e \in Events : (upsert'[e] = "none") <=> (upsert[e] = "none"),
         \A b \in Events : (batch'[b] = None) <=> (batch[b] = None),
         \A b \in Events : batch[b] # None =>
           /\ batch'[b].events = batch[b].events
           /\ batch'[b].flushAt = batch[b].flushAt
           /\ batch'[b].step \in {"claiming", "missed", "sending"} =>
                batch[b].step \in {"claiming", "missed", "sending"}
                  \/ batch[b].flushAt <= closed
           /\ batch'[b].step \in {"buffered", "claiming", "missed"} =>
                /\ batch[b].step \in {"buffered", "claiming", "missed"}
                /\ batch'[b].claimed = batch[b].claimed
  PROVE  Bookkeeping'
<1>1. \A e \in Events : (upsert'[e] = "none") <=> (e > scheduled')
  BY DEF Bookkeeping
<1>2. \A e \in 1..scheduled' : home'[e] \in Events /\ batch'[home'[e]] # None
  BY DEF Bookkeeping
<1>3. ASSUME NEW b \in Events, batch'[b] # None
      PROVE  /\ b <= scheduled'
             /\ batch'[b].flushAt <= scheduled'
             /\ \A e \in batch'[b].events : e <= batch'[b].flushAt
             /\ batch'[b].step \in {"claiming", "missed", "sending"} =>
                  batch'[b].flushAt <= closed'
             /\ batch'[b].step \in {"buffered", "claiming", "missed"} =>
                  batch'[b].claimed = {}
  <2>1. batch[b] # None
    BY <1>3
  <2>2. batch[b].flushAt \in Nat /\ closed \in Nat
    <3>1. batch[b].flushAt \in Events
      BY <2>1, BatchFields
    <3>2. scheduled \in Nat /\ closed \in 0..scheduled
      BY DEF TypeOK
    <3>3. closed \in Nat
      BY ONLY <3>2
    <3>. QED
      BY ONLY <3>1, <3>3, EventsFinite
  <2>3. /\ b <= scheduled
        /\ batch[b].flushAt <= scheduled
        /\ \A e \in batch[b].events : e <= batch[b].flushAt
        /\ batch[b].step \in {"claiming", "missed", "sending"} =>
             batch[b].flushAt <= closed
        /\ batch[b].step \in {"buffered", "claiming", "missed"} =>
             batch[b].claimed = {}
    BY <2>1 DEF Bookkeeping
  <2>. QED
    BY <2>1, <2>2, <2>3
<1>. QED
  BY <1>1, <1>2, <1>3 DEF Bookkeeping

\* A batch that moves on without its timer having to fire for it.
LEMMA MovedBook ==
  ASSUME TypeOK, Bookkeeping, scheduled' = scheduled, home' = home,
         closed' = closed,
         \A e \in Events : (upsert'[e] = "none") <=> (upsert[e] = "none"),
         NEW b \in Events, batch[b] # None, NEW step, NEW claimed,
         Moved(b, step, claimed),
         step \in {"claiming", "missed", "sending"} =>
           \/ batch[b].step \in {"claiming", "missed", "sending"}
           \/ batch[b].flushAt <= closed,
         step \in {"buffered", "claiming", "missed"} =>
           /\ batch[b].step \in {"buffered", "claiming", "missed"}
           /\ claimed = batch[b].claimed
  PROVE  Bookkeeping'
<1>1. closed \in Nat /\ closed <= closed
  BY DEF TypeOK
<1>2. \A c \in Events : (batch'[c] = None) <=> (batch[c] = None)
  BY DEF Moved
<1>3. \A c \in Events : batch[c] # None =>
        /\ batch'[c].events = batch[c].events
        /\ batch'[c].flushAt = batch[c].flushAt
        /\ batch'[c].step \in {"claiming", "missed", "sending"} =>
             batch[c].step \in {"claiming", "missed", "sending"}
               \/ batch[c].flushAt <= closed
        /\ batch'[c].step \in {"buffered", "claiming", "missed"} =>
             /\ batch[c].step \in {"buffered", "claiming", "missed"}
             /\ batch'[c].claimed = batch[c].claimed
  BY DEF Moved
<1>. QED
  BY <1>1, <1>2, <1>3, KeepsBook

\* Every step keeps the books.
LEMMA NextBook == TypeOK /\ Bookkeeping /\ [Next]_vars => Bookkeeping'
<1>. SUFFICES ASSUME TypeOK, Bookkeeping, [Next]_vars PROVE Bookkeeping'
  OBVIOUS
<1>. USE DEF clock, intake, pushes, faults
<1>0. /\ upsert \in [Events -> {"none", "sent", "stored", "acked", "failed"}]
      /\ scheduled \in Nat /\ closed \in Nat /\ closed <= scheduled /\ closed <= closed
      /\ home \in [Events -> Events \cup {None}]
  BY DEF TypeOK
<1>1. ASSUME NEW i \in Instances, Schedule(i) PROVE Bookkeeping'
  <2>. DEFINE e == scheduled + 1
  <2>1. e \in Events /\ scheduled' = e /\ upsert' = [upsert EXCEPT ![e] = "sent"]
        /\ closed' = closed
    BY <1>1, ScheduleEffect DEF Schedule
  <2>2. PICK b \in Events : Takes(b, e)
    BY <1>1, ScheduleEffect
  <2>3. \A d \in Nat : (d > e <=> d > scheduled /\ d # e) /\ (d <= scheduled => d <= e)
    BY <1>0
  <2>4. \A d \in 1..e : d = e \/ d \in 1..scheduled
    BY <1>0
  <2>5. Events \subseteq Nat /\ ~(e > e) /\ e <= e /\ e \in Nat
    BY <1>0, EventsFinite
  <2>. HIDE DEF e
  <2>6. \A d \in Events : (upsert'[d] = "none") <=> (d > scheduled')
    <3>1. \A d \in Events : (upsert[d] = "none") <=> (d > scheduled)
      BY DEF Bookkeeping
    <3>2. \A d \in Events : (upsert'[d] = "none") <=> (upsert[d] = "none" /\ d # e)
      BY <1>0, <2>1
    <3>. QED
      BY <2>1, <2>3, <2>5, <3>1, <3>2
  <2>7. \A d \in 1..scheduled' : home'[d] \in Events /\ batch'[home'[d]] # None
    <3>1. ASSUME NEW d \in 1..scheduled
          PROVE  home[d] \in Events /\ batch[home[d]] # None
      BY DEF Bookkeeping
    <3>2. \A c \in Events : batch[c] # None => batch'[c] # None
      BY <2>2 DEF Takes
    <3>3. 1..scheduled \subseteq Events
      BY <1>0, BoundsAssumption DEF TypeOK, Events
    <3>. QED
      BY <1>0, <2>1, <2>2, <2>4, <3>1, <3>2, <3>3 DEF Takes
  <2>8. ASSUME NEW c \in Events, batch'[c] # None
        PROVE  /\ c <= scheduled'
               /\ batch'[c].flushAt <= scheduled'
               /\ \A d \in batch'[c].events : d <= batch'[c].flushAt
               /\ batch'[c].step \in {"claiming", "missed", "sending"} =>
                    batch'[c].flushAt <= closed'
               /\ batch'[c].step \in {"buffered", "claiming", "missed"} =>
                    batch'[c].claimed = {}
    <3>1. \A f \in Events : batch[f] # None =>
            /\ f <= scheduled /\ f \in Nat
            /\ batch[f].flushAt <= scheduled /\ batch[f].flushAt \in Nat
            /\ batch[f].events \subseteq Nat
            /\ \A d \in batch[f].events : d <= batch[f].flushAt
      BY <2>5, BatchFields DEF Bookkeeping
    <3>2. CASE c = b
      <4>1. \A d \in batch'[c].events :
              d = e \/ (batch[b] # None /\ d \in batch[b].events)
        BY <2>2, <3>2 DEF Takes
      <4>2. \A d \in batch'[c].events : d <= e
        <5>. SUFFICES ASSUME NEW d \in batch'[c].events PROVE d <= e
          OBVIOUS
        <5>1. CASE d = e
          BY <2>5, <5>1
        <5>2. CASE batch[b] # None /\ d \in batch[b].events
          <6>1. d \in Nat /\ batch[b].flushAt \in Nat /\ d <= batch[b].flushAt
                /\ batch[b].flushAt <= scheduled
            BY <3>1, <5>2
          <6>. QED
            BY <1>0, <2>3, <6>1
        <5>. QED
          BY <4>1, <5>1, <5>2
      <4>. QED
        BY <2>1, <2>2, <2>5, <3>2, <4>2 DEF Takes
    <3>3. CASE c # b
      <4>1. batch'[c] = batch[c]
        BY <2>2, <3>3 DEF Takes
      <4>. QED
        BY <2>1, <2>3, <2>8, <3>1, <4>1 DEF Bookkeeping
    <3>. QED
      BY <3>2, <3>3
  <2>. QED
    BY <2>6, <2>7, <2>8 DEF Bookkeeping
<1>2. ASSUME scheduled' = scheduled, home' = home, batch' = batch,
             closed' \in {closed, closed + 1},
             \A e \in Events : (upsert'[e] = "none") <=> (upsert[e] = "none")
      PROVE  Bookkeeping'
  <2>1. closed' \in Nat /\ closed <= closed'
    BY <1>0, <1>2
  <2>. QED
    BY <1>2, <2>1, KeepsBook
<1>3. ASSUME NEW e \in Events, UpsertLands(e) PROVE Bookkeeping'
  <2>1. \A d \in Events : (upsert'[d] = "none") <=> (upsert[d] = "none")
    BY <1>0, <1>3 DEF UpsertLands
  <2>. QED
    BY <1>2, <1>3, <2>1 DEF UpsertLands
<1>4. ASSUME NEW e \in Events, UpsertAcked(e) PROVE Bookkeeping'
  <2>1. \A d \in Events : (upsert'[d] = "none") <=> (upsert[d] = "none")
    BY <1>0, <1>4 DEF UpsertAcked
  <2>2. home[e] \in Events /\ batch[home[e]] # None
    BY <1>4, AckedBatch DEF UpsertAcked
  <2>3. Moved(home[e], batch[home[e]].step, batch[home[e]].claimed)
    BY <1>4, <2>2, AckMoves DEF UpsertAcked
  <2>. QED
    BY <1>4, <2>1, <2>2, <2>3, MovedBook DEF UpsertAcked
<1>5. ASSUME NEW e \in Events, UpsertFails(e) PROVE Bookkeeping'
  <2>1. \A d \in Events : (upsert'[d] = "none") <=> (upsert[d] = "none")
    BY <1>0, <1>5 DEF UpsertFails
  <2>. QED
    BY <1>2, <1>5, <2>1 DEF UpsertFails
<1>6. ASSUME NEW b \in Events, TimerFires(b) PROVE Bookkeeping'
  <2>1. batch[b] # None /\ batch[b].step = "buffered" /\ batch[b].flushAt <= closed
        /\ Moved(b, "claiming", batch[b].claimed)
    BY <1>6, StepMoves DEF TimerFires, At
  <2>. QED
    BY <1>6, <2>1, MovedBook DEF TimerFires
<1>7. ASSUME NEW b \in Events, Claim(b) PROVE Bookkeeping'
  <2>1. batch[b] # None /\ batch[b].step = "claiming"
    BY <1>7 DEF Claim, At
  <2>2. CASE row = None
    <3>1. Moved(b, "missed", batch[b].claimed)
      BY <1>7, <2>1, <2>2, StepMoves DEF Claim
    <3>. QED
      BY <1>7, <2>1, <3>1, MovedBook DEF Claim
  <2>3. CASE row # None
    <3>1. Moved(b, "sending", row.events)
      BY <1>7, <2>1, <2>3, ClaimMoves DEF Claim
    <3>. QED
      BY <1>7, <2>1, <3>1, MovedBook DEF Claim
  <2>. QED
    BY <2>2, <2>3
<1>8. ASSUME NEW b \in Events, AfterMiss(b) PROVE Bookkeeping'
  <2>. DEFINE step == IF SentElsewhere(b) THEN "gone" ELSE "sending"
  <2>1. batch[b] # None /\ batch[b].step = "missed" /\ step \in {"gone", "sending"}
    BY <1>8 DEF AfterMiss, At
  <2>2. batch' = [batch EXCEPT ![b].step = step]
    BY <1>8 DEF AfterMiss
  <2>. HIDE DEF step
  <2>3. Moved(b, step, batch[b].claimed)
    BY <2>1, <2>2, StepMoves
  <2>. QED
    BY <1>8, <2>1, <2>3, MovedBook DEF AfterMiss
<1>9. ASSUME NEW b \in Events, ClaimFails(b) PROVE Bookkeeping'
  <2>1. batch[b] # None /\ batch[b].step = "claiming"
        /\ Moved(b, "sending", batch[b].claimed)
    BY <1>9, StepMoves DEF ClaimFails, At
  <2>. QED
    BY <1>9, <2>1, MovedBook DEF ClaimFails
<1>10. ASSUME NEW b \in Events, Send(b) PROVE Bookkeeping'
  <2>1. batch[b] # None /\ Moved(b, "gone", batch[b].claimed)
    BY <1>10, StepMoves DEF Send, At
  <2>. QED
    BY <1>10, <2>1, MovedBook DEF Send
<1>11. ASSUME NEW i \in Instances, Crash(i) PROVE Bookkeeping'
  <2>1. \A e \in Events : (upsert'[e] = "none") <=> (upsert[e] = "none")
    BY <1>11, CrashEffect
  <2>2. /\ \A b \in Events : (batch'[b] = None) <=> (batch[b] = None)
        /\ \A b \in Events : batch[b] # None =>
             /\ batch'[b].step \in {batch[b].step, "gone"}
             /\ batch'[b].claimed = batch[b].claimed
             /\ batch'[b].events = batch[b].events
             /\ batch'[b].flushAt = batch[b].flushAt
    BY <1>11, CrashEffect
  <2>3. scheduled' = scheduled /\ home' = home /\ closed' = closed
    BY <1>11 DEF Crash
  <2>. QED
    BY <1>0, <2>1, <2>2, <2>3, KeepsBook
<1>. QED
  BY <1>0, <1>1, <1>2, <1>3, <1>4, <1>5, <1>6, <1>7, <1>8, <1>9, <1>10, <1>11
  DEF Next, Flush, Recover, RecoverFind, RecoverClaim, RecoverSend,
      WindowCloses, GracePasses, vars

------------------------------------------------------------------------------
(* Nothing is forgotten *)

\* An upsert is sent, applied and answered in this order, or fails.
LEMMA UpsertForward ==
  ASSUME TypeOK, Bookkeeping, [Next]_vars, NEW e \in Events
  PROVE  \/ upsert'[e] = upsert[e]
         \/ upsert[e] = "none" /\ upsert'[e] = "sent"
         \/ upsert[e] = "sent" /\ upsert'[e] \in {"stored", "failed"}
         \/ upsert[e] = "stored" /\ upsert'[e] = "acked"
<1>1. upsert \in [Events -> {"none", "sent", "stored", "acked", "failed"}]
  BY DEF TypeOK
<1>2. CASE upsert' = upsert
  BY <1>2
<1>3. ASSUME NEW i \in Instances, Schedule(i)
      PROVE  upsert'[e] = upsert[e] \/ (upsert[e] = "none" /\ upsert'[e] = "sent")
  <2>1. scheduled \in Nat /\ upsert' = [upsert EXCEPT ![scheduled + 1] = "sent"]
    BY <1>3, ScheduleEffect
  <2>2. scheduled + 1 > scheduled
    BY <2>1
  <2>3. e = scheduled + 1 => upsert[e] = "none"
    BY <2>2 DEF Bookkeeping
  <2>. QED
    BY <1>1, <2>1, <2>3
<1>4. ASSUME NEW d \in Events, UpsertLands(d) \/ UpsertAcked(d) \/ UpsertFails(d)
      PROVE  \/ upsert'[e] = upsert[e]
             \/ upsert[e] = "sent" /\ upsert'[e] \in {"stored", "failed"}
             \/ upsert[e] = "stored" /\ upsert'[e] = "acked"
  BY <1>1, <1>4 DEF UpsertLands, UpsertAcked, UpsertFails
<1>5. ASSUME NEW i \in Instances, Crash(i)
      PROVE  upsert'[e] = upsert[e] \/ (upsert[e] = "sent" /\ upsert'[e] = "failed")
  BY <1>5, CrashEffect
<1>. QED
  BY <1>2, <1>3, <1>4, <1>5
  DEF Next, Flush, Recover, TimerFires, Claim, AfterMiss, ClaimFails, Send,
      RecoverFind, RecoverClaim, RecoverSend, WindowCloses, GracePasses, vars

\* Only an upsert that lands gets stored.
LEMMA LandedStep ==
  ASSUME TypeOK, Bookkeeping, [Next]_vars, NEW e \in Events,
         upsert[e] = "sent", upsert'[e] = "stored"
  PROVE  UpsertLands(e)
<1>1. upsert \in [Events -> {"none", "sent", "stored", "acked", "failed"}]
  BY DEF TypeOK
<1>2. upsert' # upsert
  OBVIOUS
<1>3. ASSUME NEW i \in Instances, Schedule(i) PROVE FALSE
  <2>1. scheduled \in Nat /\ scheduled + 1 \in Events
        /\ upsert' = [upsert EXCEPT ![scheduled + 1] = "sent"]
    BY <1>3, ScheduleEffect
  <2>. QED
    BY <1>1, <2>1
<1>4. ASSUME NEW d \in Events, UpsertLands(d) PROVE d = e
  BY <1>1, <1>4 DEF UpsertLands
<1>5. ASSUME NEW d \in Events, UpsertAcked(d) \/ UpsertFails(d) PROVE FALSE
  BY <1>1, <1>5 DEF UpsertAcked, UpsertFails
<1>6. ASSUME NEW i \in Instances, Crash(i) PROVE FALSE
  <2>1. upsert'[e] = upsert[e] \/ upsert'[e] = "failed"
    BY <1>6, CrashEffect
  <2>. QED
    BY <2>1
<1>. QED
  BY <1>2, <1>3, <1>4, <1>5, <1>6
  DEF Next, Flush, Recover, TimerFires, Claim, AfterMiss, ClaimFails, Send,
      RecoverFind, RecoverClaim, RecoverSend, WindowCloses, GracePasses, vars

\* An upsert only fails when a call does, or a process restarts.
LEMMA FailedFault ==
  ASSUME TypeOK, Bookkeeping, [Next]_vars, NEW e \in Events,
         upsert[e] # "failed", upsert'[e] = "failed"
  PROVE  storeErrors' # 0 \/ crashes' # 0
<1>1. /\ upsert \in [Events -> {"none", "sent", "stored", "acked", "failed"}]
      /\ crashes \in Nat /\ storeErrors \in Nat
  BY BoundsAssumption DEF TypeOK
<1>2. upsert' # upsert
  OBVIOUS
<1>3. ASSUME NEW i \in Instances, Schedule(i) PROVE FALSE
  <2>1. scheduled \in Nat /\ scheduled + 1 \in Events
        /\ upsert' = [upsert EXCEPT ![scheduled + 1] = "sent"]
    BY <1>3, ScheduleEffect
  <2>. QED
    BY <1>1, <2>1
<1>4. ASSUME NEW d \in Events, UpsertLands(d) \/ UpsertAcked(d) PROVE FALSE
  BY <1>1, <1>4 DEF UpsertLands, UpsertAcked
<1>5. ASSUME NEW d \in Events, UpsertFails(d) PROVE storeErrors' # 0
  BY <1>1, <1>5 DEF UpsertFails
<1>6. ASSUME NEW i \in Instances, Crash(i) PROVE crashes' # 0
  BY <1>1, <1>6 DEF Crash
<1>. QED
  BY <1>2, <1>3, <1>4, <1>5, <1>6
  DEF Next, Flush, Recover, TimerFires, Claim, AfterMiss, ClaimFails, Send,
      RecoverFind, RecoverClaim, RecoverSend, WindowCloses, GracePasses, vars

\* Failures are never forgotten.
LEMMA FaultsStay ==
  ASSUME TypeOK, [Next]_vars
  PROVE  (NoErrors' => NoErrors) /\ (AllWell' => AllWell) /\ (~late' => ~late)
<1>1. crashes \in Nat /\ storeErrors \in Nat
  BY BoundsAssumption DEF TypeOK
<1>2. /\ crashes' \in {crashes, crashes + 1}
      /\ storeErrors' \in {storeErrors, storeErrors + 1}
  BY DEF Next, Schedule, UpsertLands, UpsertAcked, UpsertFails, WindowCloses,
         GracePasses, Flush, TimerFires, Claim, AfterMiss, ClaimFails, Send,
         Recover, RecoverFind, RecoverClaim, RecoverSend, Crash, faults, vars
<1>3. ~late' => ~late
  BY DEF Next, Schedule, UpsertLands, UpsertAcked, UpsertFails, WindowCloses,
         GracePasses, Flush, TimerFires, Claim, AfterMiss, ClaimFails, Send,
         Recover, RecoverFind, RecoverClaim, RecoverSend, Crash, clock, vars
<1>4. NoErrors' => NoErrors
  BY <1>1, <1>2 DEF NoErrors
<1>5. AllWell' => AllWell
  BY <1>1, <1>2, <1>4 DEF AllWell
<1>. QED
  BY <1>3, <1>4, <1>5

\* What the claims of the batches hold stays held as a batch moves on.
LEMMA MovedHeld ==
  ASSUME TypeOK, NEW e \in Events, Held(e), covered' = covered, row' = row,
         recovery' = recovery,
         NEW b \in Events, batch[b] # None, NEW step, NEW claimed,
         Moved(b, step, claimed),
         batch[b].claimed \subseteq claimed,
         step = "gone" => claimed = {}
  PROVE  Held(e)'
<1>1. CASE \E c \in Events :
             batch[c] # None /\ batch[c].step # "gone" /\ e \in batch[c].claimed
  <2>1. PICK c \in Events :
          batch[c] # None /\ batch[c].step # "gone" /\ e \in batch[c].claimed
    BY <1>1
  <2>2. batch'[c] # None /\ batch'[c].step # "gone" /\ e \in batch'[c].claimed
    BY <2>1 DEF Moved
  <2>. QED
    BY <2>2 DEF Held
<1>2. CASE ~(\E c \in Events :
               batch[c] # None /\ batch[c].step # "gone" /\ e \in batch[c].claimed)
  BY <1>2 DEF Held
<1>. QED
  BY <1>1, <1>2

\* Unless a process restarts or a call fails, what is held stays held until
\* somebody tells about it.
LEMMA HeldStays ==
  ASSUME TypeOK, Bookkeeping, [Next]_vars, AllWell', NEW e \in Events, Held(e)
  PROVE  Held(e)'
<1>. USE DEF clock, intake, pushes, faults
<1>0. /\ recovery \in [Instances -> Recovery \cup {None}]
      /\ crashes \in Nat /\ storeErrors \in Nat
      /\ crashes' = 0 /\ storeErrors' = 0
  BY BoundsAssumption DEF TypeOK, AllWell, NoErrors
<1>1. ASSUME NEW i \in Instances, Schedule(i) PROVE Held(e)'
  <2>1. PICK b \in Events : Takes(b, scheduled + 1)
    BY <1>1, ScheduleEffect
  <2>2. \A c \in Events : batch[c] # None /\ batch[c].claimed # {} =>
          batch'[c] = batch[c]
    BY <2>1 DEF Takes, Bookkeeping
  <2>3. covered' = covered /\ row' = row /\ recovery' = recovery
    BY <1>1 DEF Schedule
  <2>. QED
    BY <2>2, <2>3 DEF Held
<1>2. ASSUME NEW d \in Events, UpsertLands(d) PROVE Held(e)'
  <2>1. row' = StoredWith(d) /\ batch' = batch /\ recovery' = recovery
        /\ covered' = covered
    BY <1>2 DEF UpsertLands
  <2>2. row' # None /\ (row # None => row.events \subseteq row'.events)
    BY <2>1, StoredRow
  <2>. QED
    BY <2>1, <2>2 DEF Held
<1>3. ASSUME NEW d \in Events, UpsertAcked(d) PROVE Held(e)'
  <2>1. home[d] \in Events /\ batch[home[d]] # None
    BY <1>3, AckedBatch DEF UpsertAcked
  <2>2. Moved(home[d], batch[home[d]].step, batch[home[d]].claimed)
    BY <1>3, <2>1, AckMoves DEF UpsertAcked
  <2>3. /\ covered' = covered /\ row' = row /\ recovery' = recovery
    BY <1>3 DEF UpsertAcked
  <2>4. \A c \in Events :
          batch[c] # None /\ batch[c].step # "gone" /\ e \in batch[c].claimed =>
            batch'[c] # None /\ batch'[c].step # "gone" /\ e \in batch'[c].claimed
    BY <2>1, <2>2 DEF Moved
  <2>. QED
    BY <2>3, <2>4 DEF Held
<1>4. ASSUME batch' = batch, row' = row, recovery' = recovery, covered' = covered
      PROVE  Held(e)'
  BY <1>4 DEF Held
<1>5. ASSUME NEW b \in Events, TimerFires(b) PROVE Held(e)'
  <2>1. batch[b] # None /\ Moved(b, "claiming", batch[b].claimed)
    BY <1>5, StepMoves DEF TimerFires, At
  <2>. QED
    BY <1>5, <2>1, MovedHeld DEF TimerFires
<1>6. ASSUME NEW b \in Events, Claim(b) PROVE Held(e)'
  <2>1. batch[b] # None /\ batch[b].step = "claiming" /\ batch[b].claimed = {}
    BY <1>6 DEF Claim, At, Bookkeeping
  <2>2. CASE row = None
    <3>1. Moved(b, "missed", batch[b].claimed) /\ row' = row
      BY <1>6, <2>1, <2>2, StepMoves DEF Claim
    <3>. QED
      BY <1>6, <2>1, <3>1, MovedHeld DEF Claim
  <2>3. CASE row # None
    <3>1. Moved(b, "sending", row.events)
      BY <1>6, <2>1, <2>3, ClaimMoves DEF Claim
    <3>2. covered' = covered /\ recovery' = recovery
      BY <1>6 DEF Claim
    <3>3. CASE e \in row.events
      BY <3>1, <3>3 DEF Held, Moved
    <3>4. CASE e \notin row.events
      <4>1. \A c \in Events : batch[c] # None /\ e \in batch[c].claimed =>
              batch'[c] = batch[c]
        BY <2>1, <3>1 DEF Moved
      <4>. QED
        BY <3>2, <3>4, <4>1 DEF Held
    <3>. QED
      BY <3>3, <3>4
  <2>. QED
    BY <2>2, <2>3
<1>7. ASSUME NEW b \in Events, AfterMiss(b) PROVE Held(e)'
  <2>. DEFINE step == IF SentElsewhere(b) THEN "gone" ELSE "sending"
  <2>1. batch[b] # None /\ batch[b].claimed = {} /\ step \in {"gone", "sending"}
    BY <1>7 DEF AfterMiss, At, Bookkeeping
  <2>2. batch' = [batch EXCEPT ![b].step = step]
    BY <1>7 DEF AfterMiss
  <2>. HIDE DEF step
  <2>3. Moved(b, step, batch[b].claimed)
    BY <2>1, <2>2, StepMoves
  <2>. QED
    BY <1>7, <2>1, <2>3, MovedHeld DEF AfterMiss
<1>8. ASSUME NEW b \in Events, Send(b) PROVE Held(e)'
  <2>1. batch[b] # None /\ Moved(b, "gone", batch[b].claimed)
    BY <1>8, StepMoves DEF Send, At
  <2>2. covered' = covered \cup (batch[b].events \cup batch[b].claimed)
        /\ row' = row /\ recovery' = recovery
    BY <1>8 DEF Send, Push
  <2>3. CASE e \in covered'
    BY <2>3 DEF Held
  <2>4. CASE e \notin covered'
    <3>1. \A c \in Events : batch[c] # None /\ e \in batch[c].claimed =>
            batch'[c] = batch[c]
      BY <2>1, <2>2, <2>4 DEF Moved
    <3>. QED
      BY <2>2, <2>4, <3>1 DEF Held
  <2>. QED
    BY <2>3, <2>4
<1>9. ASSUME NEW i \in Instances, RecoverFind(i) PROVE Held(e)'
  <2>1. recovery[i] = None /\ (\A j \in Instances \ {i} : recovery'[j] = recovery[j])
        /\ batch' = batch /\ row' = row /\ covered' = covered
    BY <1>0, <1>9 DEF RecoverFind
  <2>. QED
    BY <2>1 DEF Held
<1>10. ASSUME NEW i \in Instances, RecoverClaim(i) PROVE Held(e)'
  <2>1. /\ recovery[i].events = {}
        /\ \A j \in Instances \ {i} : recovery'[j] = recovery[j]
        /\ \/ /\ row # None /\ row' = None
              /\ recovery'[i] # None /\ recovery'[i].events = row.events
           \/ row' = row /\ recovery'[i] = None
    BY <1>10, RecoverClaimEffect
  <2>2. batch' = batch /\ covered' = covered
    BY <1>10 DEF RecoverClaim
  <2>. QED
    BY <2>1, <2>2 DEF Held
<1>11. ASSUME NEW i \in Instances, RecoverSend(i) PROVE Held(e)'
  <2>1. /\ covered' = covered \cup recovery[i].events
        /\ \A j \in Instances \ {i} : recovery'[j] = recovery[j]
        /\ batch' = batch /\ row' = row
    BY <1>0, <1>11 DEF RecoverSend, Push
  <2>. QED
    BY <2>1 DEF Held
<1>12. ~(\E d \in Events : UpsertFails(d) \/ ClaimFails(d))
  BY <1>0 DEF UpsertFails, ClaimFails
<1>13. ~(\E i \in Instances : Crash(i))
  BY <1>0 DEF Crash
<1>. QED
  BY <1>1, <1>2, <1>3, <1>4, <1>5, <1>6, <1>7, <1>8, <1>9, <1>10, <1>11, <1>12,
     <1>13 DEF Next, Flush, Recover, WindowCloses, GracePasses, vars

\* An applied upsert is held by the row.
LEMMA NextKept ==
  ASSUME TypeOK, Bookkeeping, LandedIsKept, [Next]_vars
  PROVE  LandedIsKept'
<1>. SUFFICES ASSUME AllWell', NEW e \in 1..scheduled'
              PROVE  upsert'[e] # "failed" /\ (e \in Landed' => Held(e)')
  BY DEF LandedIsKept
<1>1. AllWell
  BY FaultsStay
<1>2. TypeOK' /\ Bookkeeping'
  BY NextType, NextBook
<1>3. e \in Events
  BY <1>2, BoundsAssumption DEF TypeOK, Events
<1>4. \/ upsert'[e] = upsert[e]
      \/ upsert[e] = "none" /\ upsert'[e] = "sent"
      \/ upsert[e] = "sent" /\ upsert'[e] \in {"stored", "failed"}
      \/ upsert[e] = "stored" /\ upsert'[e] = "acked"
  BY <1>3, UpsertForward
<1>5. CASE upsert[e] = "none"
  <2>1. upsert'[e] = "sent"
    <3>1. scheduled' \in Nat /\ e \in Nat /\ e <= scheduled'
      BY <1>2 DEF TypeOK
    <3>2. ~(e > scheduled')
      BY <3>1
    <3>3. upsert'[e] # "none"
      BY <1>2, <1>3, <3>2 DEF Bookkeeping
    <3>. QED
      BY <1>4, <1>5, <3>3
  <2>. QED
    BY <2>1 DEF Landed
<1>6. CASE upsert[e] # "none"
  <2>1. e \in 1..scheduled
    BY <1>3, <1>6, AckedBatch
  <2>2. upsert[e] # "failed" /\ (e \in Landed => Held(e))
    BY <1>1, <2>1 DEF LandedIsKept
  <2>3. CASE upsert'[e] = "failed"
    <3>1. upsert[e] = "sent"
      BY <1>4, <1>6, <2>2, <2>3
    <3>2. storeErrors' # 0 \/ crashes' # 0
      BY <1>3, <2>2, <2>3, <3>1, FailedFault
    <3>. QED
      BY <3>2 DEF AllWell, NoErrors
  <2>4. CASE upsert[e] = "sent" /\ upsert'[e] = "stored"
    <3>1. UpsertLands(e)
      BY <1>3, <2>4, LandedStep
    <3>2. row' # None /\ e \in row'.events
      BY <1>3, <3>1, StoredRow DEF UpsertLands
    <3>. QED
      BY <2>4, <3>2 DEF Held
  <2>5. CASE upsert'[e] # "failed" /\ ~(upsert[e] = "sent" /\ upsert'[e] = "stored")
    <3>1. e \in Landed' => e \in Landed
      BY <1>3, <1>4, <2>5 DEF Landed
    <3>. QED
      BY <1>3, <2>2, <2>5, <3>1, HeldStays
  <2>. QED
    BY <2>3, <2>4, <2>5
<1>. QED
  BY <1>5, <1>6

------------------------------------------------------------------------------
(* Nothing is told twice *)

\* What lands has been sent, and a claim takes what has landed.
LEMMA NextLanded ==
  ASSUME TypeOK, Bookkeeping, ClaimedLanded, [Next]_vars
  PROVE  ClaimedLanded'
<1>. SUFFICES ASSUME NoErrors'
              PROVE  /\ row' # None => row'.events \subseteq Landed'
                     /\ \A b \in Events :
                          batch'[b] # None => batch'[b].claimed \subseteq Landed'
                     /\ \A i \in Instances :
                          recovery'[i] # None => recovery'[i].events \subseteq Landed'
  BY DEF ClaimedLanded
<1>. USE DEF clock, intake, pushes, faults
<1>0. /\ storeErrors' = 0 /\ storeErrors \in Nat
      /\ recovery \in [Instances -> Recovery \cup {None}]
      /\ upsert \in [Events -> {"none", "sent", "stored", "acked", "failed"}]
  BY BoundsAssumption DEF TypeOK, NoErrors
<1>1. /\ row # None => row.events \subseteq Landed
      /\ \A b \in Events : batch[b] # None => batch[b].claimed \subseteq Landed
      /\ \A i \in Instances : recovery[i] # None => recovery[i].events \subseteq Landed
  BY FaultsStay DEF ClaimedLanded
<1>2. Landed \subseteq Landed'
  BY UpsertForward DEF Landed
<1>3. ASSUME row' = row \/ row' = None,
             \A b \in Events : batch'[b] # None =>
               \/ batch'[b].claimed = {}
               \/ batch[b] # None /\ batch'[b].claimed = batch[b].claimed
               \/ row # None /\ batch'[b].claimed = row.events,
             \A i \in Instances : recovery'[i] # None =>
               \/ recovery'[i].events = {}
               \/ recovery'[i] = recovery[i]
               \/ row # None /\ recovery'[i].events = row.events
      PROVE  /\ row' # None => row'.events \subseteq Landed'
             /\ \A b \in Events :
                  batch'[b] # None => batch'[b].claimed \subseteq Landed'
             /\ \A i \in Instances :
                  recovery'[i] # None => recovery'[i].events \subseteq Landed'
  BY <1>1, <1>2, <1>3
<1>4. ASSUME NEW i \in Instances, Schedule(i)
      PROVE  \A b \in Events : batch'[b] # None =>
               \/ batch'[b].claimed = {}
               \/ batch[b] # None /\ batch'[b].claimed = batch[b].claimed
  <2>1. PICK b \in Events : Takes(b, scheduled + 1)
    BY <1>4, ScheduleEffect
  <2>. QED
    BY <2>1 DEF Takes
<1>5. ASSUME NEW b \in Events, batch[b] # None, NEW step, NEW claimed,
             Moved(b, step, claimed),
             claimed = batch[b].claimed \/ (row # None /\ claimed = row.events)
      PROVE  \A c \in Events : batch'[c] # None =>
               \/ batch[c] # None /\ batch'[c].claimed = batch[c].claimed
               \/ row # None /\ batch'[c].claimed = row.events
  BY <1>5 DEF Moved
<1>6. ASSUME NEW d \in Events, UpsertLands(d)
      PROVE  /\ row' # None => row'.events \subseteq Landed'
             /\ \A b \in Events :
                  batch'[b] # None => batch'[b].claimed \subseteq Landed'
             /\ \A i \in Instances :
                  recovery'[i] # None => recovery'[i].events \subseteq Landed'
  <2>1. /\ row' = StoredWith(d) /\ batch' = batch /\ recovery' = recovery
        /\ upsert' = [upsert EXCEPT ![d] = "stored"]
    BY <1>6 DEF UpsertLands
  <2>2. d \in Landed'
    BY <1>0, <2>1 DEF Landed
  <2>3. row'.events = {d} \cup (IF row = None THEN {} ELSE row.events)
    BY <2>1, StoredRow
  <2>4. row'.events \subseteq Landed'
    BY <1>1, <1>2, <2>2, <2>3
  <2>. QED
    BY <1>1, <1>2, <2>1, <2>4
<1>7. ASSUME NEW d \in Events, UpsertAcked(d)
      PROVE  \A b \in Events : batch'[b] # None =>
               batch[b] # None /\ batch'[b].claimed = batch[b].claimed
  <2>1. home[d] \in Events /\ batch[home[d]] # None
    BY <1>7, AckedBatch DEF UpsertAcked
  <2>2. Moved(home[d], batch[home[d]].step, batch[home[d]].claimed)
    BY <1>7, <2>1, AckMoves DEF UpsertAcked
  <2>. QED
    BY <2>1, <2>2 DEF Moved
<1>8. ASSUME NEW b \in Events, TimerFires(b) \/ Claim(b) \/ Send(b)
      PROVE  \A c \in Events : batch'[c] # None =>
               \/ batch[c] # None /\ batch'[c].claimed = batch[c].claimed
               \/ row # None /\ batch'[c].claimed = row.events
  <2>1. batch[b] # None
    BY <1>8 DEF TimerFires, Claim, Send, At
  <2>2. \/ \E step : Moved(b, step, batch[b].claimed)
        \/ row # None /\ Moved(b, "sending", row.events)
    BY <1>8, <2>1, StepMoves, ClaimMoves DEF TimerFires, Claim, Send
  <2>. QED
    BY <1>5, <2>1, <2>2
<1>9. ASSUME NEW b \in Events, AfterMiss(b)
      PROVE  \A c \in Events : batch'[c] # None =>
               batch[c] # None /\ batch'[c].claimed = batch[c].claimed
  <2>. DEFINE step == IF SentElsewhere(b) THEN "gone" ELSE "sending"
  <2>1. batch[b] # None /\ step \in {"gone", "sending"}
        /\ batch' = [batch EXCEPT ![b].step = step]
    BY <1>9 DEF AfterMiss, At
  <2>. HIDE DEF step
  <2>2. Moved(b, step, batch[b].claimed)
    BY <2>1, StepMoves
  <2>. QED
    BY <2>1, <2>2 DEF Moved
<1>10. ASSUME NEW i \in Instances, Recover(i)
       PROVE  /\ row' = row \/ row' = None
              /\ batch' = batch
              /\ \A j \in Instances : recovery'[j] # None =>
                   \/ recovery'[j].events = {}
                   \/ recovery'[j] = recovery[j]
                   \/ row # None /\ recovery'[j].events = row.events
  <2>1. CASE RecoverFind(i)
    BY <1>0, <2>1 DEF RecoverFind
  <2>2. CASE RecoverClaim(i)
    <3>1. batch' = batch
      BY <2>2 DEF RecoverClaim
    <3>. QED
      BY <2>2, <3>1, RecoverClaimEffect
  <2>3. CASE RecoverSend(i)
    BY <1>0, <2>3 DEF RecoverSend
  <2>. QED
    BY <1>10, <2>1, <2>2, <2>3 DEF Recover
<1>11. ASSUME NEW i \in Instances, Crash(i)
       PROVE  /\ \A b \in Events : batch'[b] # None =>
                   batch[b] # None /\ batch'[b].claimed = batch[b].claimed
              /\ \A j \in Instances : recovery'[j] # None => recovery'[j] = recovery[j]
  BY <1>11, CrashEffect
<1>12. ~(\E d \in Events : UpsertFails(d) \/ ClaimFails(d))
  BY <1>0 DEF UpsertFails, ClaimFails
<1>13. CASE \E i \in Instances : Schedule(i)
  BY <1>3, <1>4, <1>13 DEF Schedule
<1>14. CASE \E d \in Events : UpsertAcked(d)
  BY <1>3, <1>7, <1>14 DEF UpsertAcked
<1>15. CASE \E b \in Events : Flush(b)
  <2>1. row' = row \/ row' = None
    BY <1>15 DEF Flush, TimerFires, Claim, AfterMiss, Send
  <2>2. recovery' = recovery
    BY <1>15 DEF Flush, TimerFires, Claim, AfterMiss, Send
  <2>. QED
    BY <1>3, <1>8, <1>9, <1>15, <2>1, <2>2 DEF Flush
<1>16. CASE \E i \in Instances : Recover(i)
  BY <1>3, <1>10, <1>16
<1>17. CASE \E i \in Instances : Crash(i)
  BY <1>3, <1>11, <1>17 DEF Crash
<1>18. CASE WindowCloses \/ GracePasses \/ UNCHANGED vars
  BY <1>3, <1>18 DEF WindowCloses, GracePasses, vars
<1>. QED
  BY <1>6, <1>12, <1>13, <1>14, <1>15, <1>16, <1>17, <1>18 DEF Next

\* An answer is not taken back.
LEMMA NextAnswered ==
  ASSUME TypeOK, Bookkeeping, AnsweredInTime, [Next]_vars
  PROVE  AnsweredInTime'
<1>. SUFFICES ASSUME ~late', NEW e \in 1..closed'
              PROVE  upsert'[e] \in {"acked", "failed"}
  BY DEF AnsweredInTime
<1>1. ~late
  BY FaultsStay
<1>2. /\ closed \in Nat /\ closed <= scheduled /\ scheduled \in Nat
      /\ scheduled <= MaxEvents /\ MaxEvents \in Nat
  BY BoundsAssumption DEF TypeOK
<1>3. CASE closed' = closed
  <2>1. e \in Events /\ upsert[e] \in {"acked", "failed"}
    BY <1>1, <1>2, <1>3 DEF AnsweredInTime, Events
  <2>. QED
    BY <2>1, UpsertForward
<1>4. CASE WindowCloses
  <2>1. closed' = closed + 1 /\ upsert' = upsert
        /\ upsert[closed + 1] \in {"acked", "failed"}
    BY <1>4 DEF WindowCloses
  <2>2. e = closed + 1 \/ e \in 1..closed
    BY <1>2, <2>1
  <2>. QED
    BY <1>1, <2>1, <2>2 DEF AnsweredInTime
<1>. QED
  BY <1>3, <1>4
  DEF Next, Schedule, UpsertLands, UpsertAcked, UpsertFails, GracePasses, Flush,
      TimerFires, Claim, AfterMiss, ClaimFails, Send, Recover, RecoverFind,
      RecoverClaim, RecoverSend, Crash, clock, vars

\* A batch that moves on with what it holds has nothing more to tell, unless
\* it was still waiting for its timer or its claim.
LEMMA MovedOut ==
  ASSUME NEW e \in Events, Out(e)', covered' = covered, recovery' = recovery,
         NEW b \in Events, batch[b] # None, NEW step,
         Moved(b, step, batch[b].claimed),
         step \in {"missed", "sending"} => batch[b].step \in {"missed", "sending"}
  PROVE  Out(e)
<1>1. CASE \E c \in Events :
             /\ batch'[c] # None
             /\ batch'[c].step \in {"missed", "sending"}
             /\ e \in batch'[c].events \cup batch'[c].claimed
  <2>1. PICK c \in Events :
             /\ batch'[c] # None
             /\ batch'[c].step \in {"missed", "sending"}
             /\ e \in batch'[c].events \cup batch'[c].claimed
    BY <1>1
  <2>2. /\ batch[c] # None
        /\ batch[c].step \in {"missed", "sending"}
        /\ e \in batch[c].events \cup batch[c].claimed
    BY <2>1 DEF Moved
  <2>. QED
    BY <2>2 DEF Out
<1>2. CASE ~(\E c \in Events :
               /\ batch'[c] # None
               /\ batch'[c].step \in {"missed", "sending"}
               /\ e \in batch'[c].events \cup batch'[c].claimed)
  BY <1>2 DEF Out
<1>. QED
  BY <1>1, <1>2

\* Only a claim, of its own batch or by recovery, has somebody begin to tell
\* about an event; and then nothing is left in the row.
LEMMA OutGrows ==
  ASSUME TypeOK, Bookkeeping, NoErrors', [Next]_vars, NEW e \in Events, Out(e)'
  PROVE  \/ Out(e)
         \/ /\ row' = None
            /\ \/ row # None /\ e \in row.events
               \/ \E b \in Events :
                    /\ batch[b] # None
                    /\ batch[b].flushAt <= closed
                    /\ e \in batch[b].events
<1>. USE DEF clock, intake, pushes, faults
<1>0. /\ storeErrors' = 0 /\ storeErrors \in Nat
      /\ recovery \in [Instances -> Recovery \cup {None}]
  BY BoundsAssumption DEF TypeOK, NoErrors
<1>1. ASSUME NEW i \in Instances, Schedule(i) PROVE Out(e)
  <2>1. PICK b \in Events : Takes(b, scheduled + 1)
    BY <1>1, ScheduleEffect
  <2>2. \A c \in Events : batch'[c] # None /\ batch'[c].step # "buffered" =>
          batch'[c] = batch[c]
    BY <2>1 DEF Takes
  <2>3. covered' = covered /\ recovery' = recovery
    BY <1>1 DEF Schedule
  <2>. QED
    BY <2>2, <2>3 DEF Out
<1>2. ASSUME NEW d \in Events, UpsertAcked(d) PROVE Out(e)
  <2>1. home[d] \in Events /\ batch[home[d]] # None
    BY <1>2, AckedBatch DEF UpsertAcked
  <2>2. Moved(home[d], batch[home[d]].step, batch[home[d]].claimed)
    BY <1>2, <2>1, AckMoves DEF UpsertAcked
  <2>. QED
    BY <1>2, <2>1, <2>2, MovedOut DEF UpsertAcked
<1>3. ASSUME batch' = batch, recovery' = recovery, covered' = covered PROVE Out(e)
  BY <1>3 DEF Out
<1>4. ASSUME NEW b \in Events, TimerFires(b) PROVE Out(e)
  <2>1. batch[b] # None /\ Moved(b, "claiming", batch[b].claimed)
    BY <1>4, StepMoves DEF TimerFires, At
  <2>. QED
    BY <1>4, <2>1, MovedOut DEF TimerFires
<1>5. ASSUME NEW b \in Events, Claim(b)
      PROVE  \/ Out(e)
             \/ /\ row' = None
                /\ \/ row # None /\ e \in row.events
                   \/ /\ batch[b] # None
                      /\ batch[b].flushAt <= closed
                      /\ e \in batch[b].events
  <2>1. batch[b] # None /\ batch[b].flushAt <= closed /\ batch[b].claimed = {}
        /\ row' = None /\ covered' = covered /\ recovery' = recovery
    BY <1>5 DEF Claim, At, Bookkeeping
  <2>2. \/ Moved(b, "missed", {})
        \/ row # None /\ Moved(b, "sending", row.events)
    BY <1>5, <2>1, StepMoves, ClaimMoves DEF Claim
  <2>. QED
    BY <2>1, <2>2 DEF Out, Moved
<1>6. ASSUME NEW b \in Events, AfterMiss(b) PROVE Out(e)
  <2>. DEFINE step == IF SentElsewhere(b) THEN "gone" ELSE "sending"
  <2>1. batch[b] # None /\ batch[b].step = "missed" /\ step \in {"gone", "sending"}
        /\ batch' = [batch EXCEPT ![b].step = step]
    BY <1>6 DEF AfterMiss, At
  <2>. HIDE DEF step
  <2>2. Moved(b, step, batch[b].claimed)
    BY <2>1, StepMoves
  <2>. QED
    BY <1>6, <2>1, <2>2, MovedOut DEF AfterMiss
<1>7. ASSUME NEW b \in Events, Send(b) PROVE Out(e)
  <2>1. batch[b] # None /\ batch[b].step = "sending" /\ recovery' = recovery
        /\ covered' = covered \cup (batch[b].events \cup batch[b].claimed)
    BY <1>7 DEF Send, At, Push
  <2>2. Moved(b, "gone", batch[b].claimed)
    BY <1>7, <2>1, StepMoves DEF Send
  <2>3. \A c \in Events : batch'[c] # None /\ batch'[c].step # "gone" =>
          batch'[c] = batch[c]
    BY <2>2 DEF Moved
  <2>. QED
    BY <2>1, <2>3 DEF Out
<1>8. ASSUME NEW i \in Instances, RecoverFind(i) PROVE Out(e)
  <2>1. /\ batch' = batch /\ covered' = covered
        /\ recovery'[i].events = {}
        /\ \A j \in Instances \ {i} : recovery'[j] = recovery[j]
    BY <1>0, <1>8 DEF RecoverFind
  <2>. QED
    BY <2>1 DEF Out
<1>9. ASSUME NEW i \in Instances, RecoverClaim(i)
      PROVE  Out(e) \/ (row' = None /\ row # None /\ e \in row.events)
  <2>1. /\ \A j \in Instances \ {i} : recovery'[j] = recovery[j]
        /\ \/ /\ row # None /\ row' = None
              /\ recovery'[i] # None /\ recovery'[i].events = row.events
           \/ row' = row /\ recovery'[i] = None
    BY <1>9, RecoverClaimEffect
  <2>2. batch' = batch /\ covered' = covered
    BY <1>9 DEF RecoverClaim
  <2>. QED
    BY <2>1, <2>2 DEF Out
<1>10. ASSUME NEW i \in Instances, RecoverSend(i) PROVE Out(e)
  <2>1. /\ recovery[i] # None /\ recovery'[i] = None /\ batch' = batch
        /\ covered' = covered \cup recovery[i].events
        /\ \A j \in Instances \ {i} : recovery'[j] = recovery[j]
    BY <1>0, <1>10 DEF RecoverSend, Push
  <2>. QED
    BY <2>1 DEF Out
<1>11. ASSUME NEW i \in Instances, Crash(i) PROVE Out(e)
  <2>1. /\ \A b \in Events : batch'[b] # None =>
             /\ batch[b] # None
             /\ batch'[b].step \in {batch[b].step, "gone"}
             /\ batch'[b].claimed = batch[b].claimed
             /\ batch'[b].events = batch[b].events
        /\ \A j \in Instances : recovery'[j] \in {None, recovery[j]}
    BY <1>11, CrashEffect
  <2>2. covered' = covered
    BY <1>11 DEF Crash
  <2>. QED
    BY <2>1, <2>2 DEF Out
<1>12. ~(\E d \in Events : UpsertFails(d) \/ ClaimFails(d))
  BY <1>0 DEF UpsertFails, ClaimFails
<1>. QED
  BY <1>1, <1>2, <1>3, <1>4, <1>5, <1>6, <1>7, <1>8, <1>9, <1>10, <1>11, <1>12
  DEF Next, Flush, Recover, UpsertLands, WindowCloses, GracePasses, vars

\* The row only gets events whose upsert was on its way.
LEMMA RowGrows ==
  ASSUME TypeOK, NoErrors', [Next]_vars, row' # None, NEW e \in row'.events
  PROVE  \/ row # None /\ e \in row.events
         \/ e \in Events /\ upsert[e] = "sent"
<1>1. storeErrors' = 0 /\ storeErrors \in Nat
  BY BoundsAssumption DEF TypeOK, NoErrors
<1>2. ASSUME NEW d \in Events, UpsertLands(d)
      PROVE  (row # None /\ e \in row.events) \/ (e \in Events /\ upsert[e] = "sent")
  <2>1. upsert[d] = "sent" /\ row' = StoredWith(d)
    BY <1>2 DEF UpsertLands
  <2>2. row'.events = {d} \cup (IF row = None THEN {} ELSE row.events)
    BY <2>1, StoredRow
  <2>. QED
    BY <2>1, <2>2
<1>3. CASE row' = row \/ row' = None
  BY <1>3
<1>4. ~(\E d \in Events : UpsertFails(d) \/ ClaimFails(d))
  BY <1>1 DEF UpsertFails, ClaimFails
<1>. QED
  BY <1>2, <1>3, <1>4
  DEF Next, Schedule, UpsertAcked, WindowCloses, GracePasses, Flush, TimerFires,
      Claim, AfterMiss, Send, Recover, RecoverFind, RecoverClaim, RecoverSend,
      Crash, vars

\* What somebody tells about is through and stays out of the row.
LEMMA NextTaken ==
  ASSUME TypeOK, Bookkeeping, ClaimedLanded, AnsweredInTime, TakenFromRow,
         [Next]_vars
  PROVE  TakenFromRow'
<1>. SUFFICES ASSUME NoErrors', ~late', NEW e \in Events, Out(e)'
              PROVE  /\ upsert'[e] \in {"stored", "acked", "failed"}
                     /\ row' # None => e \notin row'.events
  BY DEF TakenFromRow
<1>1. NoErrors /\ ~late
  BY FaultsStay
<1>2. CASE Out(e)
  <2>1. upsert[e] \in {"stored", "acked", "failed"}
        /\ (row # None => e \notin row.events)
    BY <1>1, <1>2 DEF TakenFromRow
  <2>2. upsert'[e] \in {"stored", "acked", "failed"}
    BY <2>1, UpsertForward
  <2>3. row' # None => e \notin row'.events
    BY <2>1, RowGrows
  <2>. QED
    BY <2>2, <2>3
<1>3. CASE row' = None /\ row # None /\ e \in row.events
  <2>1. upsert[e] \in {"stored", "acked"}
    BY <1>1, <1>3 DEF ClaimedLanded, Landed
  <2>. QED
    BY <1>3, <2>1, UpsertForward
<1>4. ASSUME row' = None, NEW b \in Events, batch[b] # None,
             batch[b].flushAt <= closed, e \in batch[b].events
      PROVE  /\ upsert'[e] \in {"stored", "acked", "failed"}
             /\ row' # None => e \notin row'.events
  <2>1. e <= batch[b].flushAt
    BY <1>4 DEF Bookkeeping
  <2>2. e \in Nat /\ 1 <= e /\ batch[b].flushAt \in Nat /\ closed \in Nat
    <3>1. batch[b].flushAt \in Events
      BY <1>4, BatchFields
    <3>2. scheduled \in Nat /\ closed \in 0..scheduled
      BY DEF TypeOK
    <3>3. closed \in Nat
      BY ONLY <3>2
    <3>4. 1 <= e
      BY BoundsAssumption DEF Events
    <3>. QED
      BY <3>1, <3>3, <3>4, EventsFinite
  <2>3. e \in 1..closed
    BY <1>4, <2>1, <2>2
  <2>4. upsert[e] \in {"acked", "failed"}
    BY <1>1, <2>3 DEF AnsweredInTime
  <2>. QED
    BY <1>4, <2>4, UpsertForward
<1>. QED
  BY <1>2, <1>3, <1>4, OutGrows

------------------------------------------------------------------------------
(* The theorems *)

\* At first there is nothing to tell.
LEMMA InitInv == Init => Inv
<1>. SUFFICES ASSUME Init PROVE Inv
  OBVIOUS
<1>1. /\ scheduled = 0 /\ closed = 0 /\ row = None /\ covered = {}
      /\ \A e \in Events : upsert[e] = "none" /\ batch[e] = None
      /\ \A i \in Instances : recovery[i] = None
  BY DEF Init
<1>2. \A e \in Events : e > 0
  BY BoundsAssumption DEF Events
<1>3. Bookkeeping
  BY <1>1, <1>2 DEF Bookkeeping
<1>4. LandedIsKept /\ ClaimedLanded /\ AnsweredInTime
  BY <1>1 DEF LandedIsKept, ClaimedLanded, AnsweredInTime
<1>5. TakenFromRow
  BY <1>1 DEF TakenFromRow, Out
<1>. QED
  BY <1>3, <1>4, <1>5, InitType DEF Inv

\* Every step keeps the invariant.
LEMMA NextInv == Inv /\ [Next]_vars => Inv'
BY NextType, NextBook, NextKept, NextLanded, NextAnswered, NextTaken DEF Inv

\* The variables keep their types, whatever crashes, fails or comes late.
THEOREM ActivityTyped == Spec => []TypeOK
<1>1. Inv => TypeOK
  BY DEF Inv
<1>. QED
  BY <1>1, InitInv, NextInv, PTL DEF Spec

\* While no process restarts and no call fails, no notifiable event is
\* forgotten, by flushNotification or by recoverPendingActivity; and while the
\* database answers in time, what the row still holds nobody has told about.
THEOREM EventsAreToldOrHeld == Spec => []ToldOrHeld
<1>1. Inv => ToldOrHeld
  <2>. SUFFICES ASSUME Inv PROVE ToldOrHeld
    OBVIOUS
  <2>1. TypeOK /\ Bookkeeping /\ LandedIsKept /\ TakenFromRow
    BY DEF Inv
  <2>2. upsert \in [Events -> {"none", "sent", "stored", "acked", "failed"}]
        /\ scheduled \in Nat /\ scheduled <= MaxEvents /\ MaxEvents \in Nat
    BY <2>1, BoundsAssumption DEF TypeOK
  <2>3. ASSUME AllWell, NEW e \in 1..scheduled PROVE e \in covered \/ InHand(e)
    <3>1. e \in Events /\ ~(e > scheduled)
      BY <2>2 DEF Events
    <3>2. upsert[e] \in {"sent", "stored", "acked"}
      BY <2>1, <2>2, <2>3, <3>1 DEF Bookkeeping, LandedIsKept
    <3>3. CASE upsert[e] = "sent"
      BY <3>3 DEF InHand
    <3>4. CASE Held(e)
      BY <3>4 DEF Held, InHand
    <3>. QED
      BY <2>1, <2>3, <3>1, <3>2, <3>3, <3>4 DEF LandedIsKept, Landed
  <2>4. ASSUME NoErrors, ~late, row # None PROVE row.events \cap covered = {}
    <3>1. covered \subseteq Events
      BY <2>1 DEF TypeOK
    <3>2. \A e \in covered : Out(e)
      BY DEF Out
    <3>. QED
      BY <2>1, <2>4, <3>1, <3>2 DEF TakenFromRow
  <2>. QED
    BY <2>3, <2>4 DEF ToldOrHeld
<1>. QED
  BY <1>1, InitInv, NextInv, PTL DEF Spec

==============================================================================
