---------------------------- MODULE TaskAttachments ----------------------------
(***************************************************************************)
(* The attachments of ONE task: the taskattachments collection, and the    *)
(* count the task document keeps of them.                                  *)
(*                                                                         *)
(* addAttachments stores the records of a batch and then appends one       *)
(* ATTACHMENT_ADDED event per record, deleting the record again when its   *)
(* append is refused.  removeAttachment flags the record and then appends  *)
(* ATTACHMENT_REMOVED, ignoring a refusal.  The count moves only with the  *)
(* events.  appendEvent is AppendRead and AppendCommit here, as in         *)
(* TaskThread; the appends of other requests to the task are OtherEvent.   *)
(***************************************************************************)
EXTENDS Integers, Sequences, FiniteSets

CONSTANTS
  Attachments,   \* the files that are ever attached
  Requests,      \* concurrent requests
  MaxBatch,      \* MAX_ATTACHMENTS_PER_BATCH
  MaxOthers,     \* bound: events of other requests
  MaxFailures,   \* bound: requests that die, or whose database call throws
  None

ASSUME BoundsAssumption ==
  MaxBatch \in Nat \ {0} /\ {MaxOthers, MaxFailures} \subseteq Nat

VARIABLES
  live,       \* the task exists and is not deleted
  version,    \* its version
  count,      \* its threadStats.attachmentCount
  log,        \* its ATTACHMENT_ADDED and ATTACHMENT_REMOVED events, in order
  record,     \* the attachment records
  job,        \* what each request is doing
  others, failures

vars == <<live, version, count, log, record, job, others, failures>>

Event == [type : {"added", "removed"}, attachment : Attachments]

Batches == {q \in UNION {[1..n -> Attachments] : n \in 1..MaxBatch} :
              \A i, j \in DOMAIN q : i # j => q[i] # q[j]}

\* queue: the attachments whose event is still to be appended.
Job == [type : {"added", "removed"}, queue : Batches, seen : Nat,
        step : {"store", "mark", "append", "commit", "cleanup"}]

ASSUME NoneAssumption == None \notin Job

TypeOK ==
  /\ live \in BOOLEAN
  /\ version \in Nat
  /\ count \in Int
  /\ log \in Seq(Event)
  /\ record \in [Attachments -> {"none", "stored", "flagged", "gone"}]
  /\ job \in [Requests -> Job \cup {None}]
  /\ others \in 0..MaxOthers
  /\ failures \in 0..MaxFailures

Init ==
  /\ live = TRUE
  /\ version = 0
  /\ count = 0
  /\ log = <<>>
  /\ record = [a \in Attachments |-> "none"]
  /\ job = [r \in Requests |-> None]
  /\ others = 0
  /\ failures = 0

At(r, step) == job[r] # None /\ job[r].step = step
Current(r) == Head(job[r].queue)

Move(r, step) == job' = [job EXCEPT ![r].step = step]

\* Mutant: the end of the batch is missed.
NextPastEnd(r) ==
  job' = [job EXCEPT ![r] =
    [@ EXCEPT !.step = "append", !.queue = Tail(job[r].queue)]]

\* On to the next attachment of the batch, or done.
NextInBatch(r) ==
  job' = [job EXCEPT ![r] =
    IF Len(job[r].queue) = 1 THEN None
    ELSE [@ EXCEPT !.step = "append", !.queue = Tail(job[r].queue)]]

\* appendEvent has thrown: addAttachments cleans up, removeAttachment ignores.
Refused(r) ==
  IF job[r].type = "added" THEN Move(r, "cleanup") ELSE NextInBatch(r)

------------------------------------------------------------------------------
(* addAttachments *)

\* Every file gets a record of its own: ids are never used twice.
BeginAdd(r, batch) ==
  /\ job[r] = None
  /\ live
  /\ \A i \in DOMAIN batch : record[batch[i]] = "none"
  /\ \A s \in Requests : job[s] # None =>
       \A i \in DOMAIN batch, j \in DOMAIN job[s].queue : batch[i] # job[s].queue[j]
  /\ job' = [job EXCEPT ![r] =
              [type |-> "added", queue |-> batch, seen |-> 0, step |-> "store"]]
  /\ UNCHANGED <<live, version, count, log, record, others, failures>>

BatchOf(r) == {job[r].queue[i] : i \in DOMAIN job[r].queue}

\* taskAttachmentModel.create(): one insert per record.
StoreRecords(r) ==
  /\ At(r, "store")
  /\ record' = [a \in Attachments |->
                  IF a \in BatchOf(r) THEN "stored" ELSE record[a]]
  /\ Move(r, "append")
  /\ UNCHANGED <<live, version, count, log, others, failures>>

\* One of them fails: the request ends, the others may be stored.
StoreSome(r) ==
  /\ At(r, "store")
  /\ failures < MaxFailures
  /\ failures' = failures + 1
  /\ \E stored \in SUBSET BatchOf(r) :
       record' = [a \in Attachments |-> IF a \in stored THEN "stored" ELSE record[a]]
  /\ job' = [job EXCEPT ![r] = None]
  /\ UNCHANGED <<live, version, count, log, others>>

\* Mutant: the cleanup removes every record of the batch that is left.
CleanedUpAll(r) == BatchOf(r)

CleanedUp(r) == {Current(r)}

\* Best effort: the record stays if the delete fails.
Cleanup(r) ==
  /\ At(r, "cleanup")
  /\ \/ /\ record' = [a \in Attachments |->
                        IF a \in CleanedUp(r) THEN "gone" ELSE record[a]]
        /\ UNCHANGED failures
     \/ /\ failures < MaxFailures
        /\ failures' = failures + 1
        /\ UNCHANGED record
  /\ NextInBatch(r)
  /\ UNCHANGED <<live, version, count, log, others>>

------------------------------------------------------------------------------
(* removeAttachment *)

\* findOne({_id, isDeleted: false}).
BeginRemove(r, a) ==
  /\ job[r] = None
  /\ record[a] = "stored"
  /\ job' = [job EXCEPT ![r] =
              [type |-> "removed", queue |-> <<a>>, seen |-> 0, step |-> "mark"]]
  /\ UNCHANGED <<live, version, count, log, record, others, failures>>

Flag(state) == IF state = "stored" THEN "flagged" ELSE state

\* updateOne({_id}, {isDeleted: true}): does not ask whether it still is not.
MarkRemoved(r) ==
  /\ At(r, "mark")
  /\ record' = [record EXCEPT ![Current(r)] = Flag(@)]
  /\ Move(r, "append")
  /\ UNCHANGED <<live, version, count, log, others, failures>>

------------------------------------------------------------------------------
(* appendEvent *)

AppendRead(r) ==
  /\ At(r, "append")
  /\ IF live
       THEN job' = [job EXCEPT ![r].step = "commit", ![r].seen = version]
       ELSE Refused(r)
  /\ UNCHANGED <<live, version, count, log, record, others, failures>>

\* Mutant: removing does not count.
OnlyAddedCounts(type) == IF type = "added" THEN 1 ELSE 0

\* computeProjection's $inc of threadStats.attachmentCount.
CountStep(type) == IF type = "added" THEN 1 ELSE -1

Apply(r) ==
  /\ version' = version + 1
  /\ count' = count + CountStep(job[r].type)
  /\ log' = Append(log, [type |-> job[r].type, attachment |-> Current(r)])

AppendCommit(r) ==
  /\ At(r, "commit")
  /\ IF job[r].seen = version
       THEN Apply(r) /\ NextInBatch(r)
       ELSE Refused(r) /\ UNCHANGED <<version, count, log>>
  /\ UNCHANGED <<live, record, others, failures>>

\* The append is applied, but the request sees its call throw.
ReplyLost(r) ==
  /\ At(r, "commit")
  /\ job[r].seen = version
  /\ failures < MaxFailures
  /\ failures' = failures + 1
  /\ Apply(r)
  /\ Refused(r)
  /\ UNCHANGED <<live, record, others>>

OtherEvent ==
  /\ live
  /\ others < MaxOthers
  /\ others' = others + 1
  /\ version' = version + 1
  /\ UNCHANGED <<live, count, log, record, job, failures>>

DeleteTask ==
  /\ live
  /\ live' = FALSE
  /\ UNCHANGED <<version, count, log, record, job, others, failures>>

\* The process dies.
Crash(r) ==
  /\ job[r] # None
  /\ failures < MaxFailures
  /\ failures' = failures + 1
  /\ job' = [job EXCEPT ![r] = None]
  /\ UNCHANGED <<live, version, count, log, record, others>>

Next ==
  \/ \E r \in Requests :
       \/ \E batch \in Batches : BeginAdd(r, batch)
       \/ \E a \in Attachments : BeginRemove(r, a)
       \/ StoreRecords(r) \/ StoreSome(r) \/ Cleanup(r) \/ MarkRemoved(r)
       \/ AppendRead(r) \/ AppendCommit(r) \/ ReplyLost(r) \/ Crash(r)
  \/ OtherEvent
  \/ DeleteTask

Spec == Init /\ [][Next]_vars

------------------------------------------------------------------------------
(* Properties *)

Logged(type, a) == \E i \in DOMAIN log : log[i] = [type |-> type, attachment |-> a]

Listed == {a \in Attachments : record[a] = "stored"}
Quiet == \A r \in Requests : job[r] = None

Removals(a) ==
  Cardinality({i \in DOMAIN log : log[i] = [type |-> "removed", attachment |-> a]})

\* Two removals of one file both count, a removal whose event is refused does
\* not, and one that overtakes a refused addition counts for nothing.
RemovalsMatchRecords ==
  \A a \in Attachments : Removals(a) = IF record[a] = "flagged" THEN 1 ELSE 0

\* Otherwise, and unless something failed, the count kept on the task is the
\* length of the list getTaskAttachments returns, in whatever order records are
\* stored, flagged and cleaned up and events appended.
CountMatchesList ==
  (Quiet /\ failures = 0 /\ RemovalsMatchRecords) => count = Cardinality(Listed)

\* Records and timeline tell the same: a file the timeline shows as added has
\* its record, flagged or not, since only a refused append makes addAttachments
\* delete one; and a file is listed with no event behind it only while its
\* addAttachments is under way.  (A lost reply is one of the failures.)
RecordsMatchTimeline ==
  failures = 0 => \A a \in Attachments :
    /\ Logged("added", a) => record[a] # "gone"
    /\ Quiet /\ a \in Listed => Logged("added", a)
==============================================================================
