------------------------------ MODULE TaskThread ------------------------------
(***************************************************************************)
(* What the requests of several users do to ONE task document: its status, *)
(* owner, delegation, assignees and per-user unread counts, and the event  *)
(* log these fields are projected from.                                    *)
(*                                                                         *)
(* A request reads the task and validates (Begin...), may write the        *)
(* document directly (TaskService.update), and then appends its events one *)
(* by one; each of these is a separate database call, so requests          *)
(* interleave between them.  An append is two steps here, AppendRead and   *)
(* AppendCommit: TaskEvents shows that the two writes of appendEvent are   *)
(* one atomic append that succeeds only at the version that was read.      *)
(*                                                                         *)
(* A REASSIGNED event comes with three payloads, which are told apart by   *)
(* type here: DELEGATED (delegatedTo, delegatedBy), TRANSFERRED (only to)  *)
(* and REVOKED (revokeDelegation).                                         *)
(***************************************************************************)
EXTENDS Naturals, Sequences, FiniteSets

CONSTANTS
  Users,          \* managers and admins
  AssigneeSets,   \* bound: the assignee lists an update may ask for
  Admins,         \* the admins among them
  Creator,        \* createdBy
  Requests,       \* concurrent requests
  Sender,         \* bound: the user each request is made by
  Ops,            \* bound: the kinds of requests that are made
  MaxVersion,     \* bound: no append starts at a version this high
  MaxFailures,    \* bound: how many requests may die half-way
  None            \* no owner, no delegation, no change

ASSUME UsersAssumption ==
  /\ Admins \subseteq Users /\ Creator \in Users
  /\ AssigneeSets \subseteq SUBSET Users
  /\ Sender \in [Requests -> Users]
  /\ Ops \subseteq {"comment", "status", "assignees", "delegate", "reassign",
                   "clear", "view", "remove"}
ASSUME NoneAssumption ==
  /\ None \notin Users /\ \A S \in SUBSET Users : None # S
  /\ None \notin {"OPEN", "COMPLETED"}
ASSUME BoundsAssumption == MaxVersion \in Nat /\ MaxFailures \in Nat

VARIABLES
  task,       \* the task document
  log,        \* its events, in version order
  job,        \* what each request still has to do, None if it is idle
  viewedAt,   \* history: length of the log when each user last viewed it
  failures    \* number of requests that died

vars == <<task, log, job, viewedAt, failures>>

Delegation == [to : Users, by : Users]
Task ==
  [status : {"OPEN", "COMPLETED"}, completedAt : BOOLEAN,
   assignees : SUBSET Users, owner : Users \cup {None},
   delegation : Delegation \cup {None}, unread : [Users -> Nat],
   deleted : BOOLEAN]
SilentTypes == {"COMMENTED", "COMPLETED", "REOPENED", "REVOKED"}
Event ==
       [type : SilentTypes, by : Users, to : {None}, assignees : {None}]
  \cup [type : {"DELEGATED", "TRANSFERRED"}, by : Users, to : Users,
        assignees : {None}]
  \cup [type : {"UPDATED"}, by : Users, to : {None},
        assignees : (SUBSET Users) \cup {None}]

\* What appendEvent remembers of the task between its read and its write.
Snapshot == [version : Nat, assignees : SUBSET Users,
             delegation : Delegation \cup {None}, unread : SUBSET Users]

\* set: assignees to write directly, None if none; queue: events to append.
Job == [step : {"write", "append", "commit"}, set : (SUBSET Users) \cup {None},
        queue : Seq(Event), snap : Snapshot \cup {None}]

ASSUME JobAssumption == None \notin Job

NewEvent(type, by) ==
  [type |-> type, by |-> by, to |-> None, assignees |-> None]
Handover(type, by, to) == [NewEvent(type, by) EXCEPT !.to = to]
AssigneesChanged(by, set) == [NewEvent("UPDATED", by) EXCEPT !.assignees = set]

\* Everyone who can see a task with these assignees.
Audience(assignees) == Admins \cup assignees \cup {Creator}

TypeOK ==
  /\ task \in Task
  /\ log \in Seq(Event)
  /\ job \in [Requests -> Job \cup {None}]
  /\ viewedAt \in [Users -> Nat]
  /\ failures \in 0..MaxFailures

\* The version of the document is the length of the log (see TaskEvents).
version == Len(log)

\* A task that TaskService.create has just saved without assignees, or saved
\* and delegated to the first of them.
SavedTask(assignees) ==
  [status |-> "OPEN", completedAt |-> FALSE, assignees |-> assignees,
   owner |-> None, delegation |-> None, unread |-> [u \in Users |-> 0],
   deleted |-> FALSE]

Init ==
  /\ \/ task = SavedTask({}) /\ log = <<>>
     \/ \E u \in Users \ {Creator} :
          /\ log = <<Handover("DELEGATED", Creator, u)>>
          /\ task = [SavedTask({u}) EXCEPT
                      !.owner = u,
                      !.delegation = [to |-> u, by |-> Creator],
                      !.unread = [v \in Users |->
                         IF v \in Audience({u}) \ {Creator} THEN 1 ELSE 0]]
  /\ job = [r \in Requests |-> None]
  /\ viewedAt = [u \in Users |-> 0]
  /\ failures = 0

------------------------------------------------------------------------------
(* Beginning a request: read the task, validate, decide what to do *)

Idle(r) == job[r] = None
Live == ~task.deleted

Begin(r, set, queue) ==
  /\ job' = [job EXCEPT ![r] =
              [step |-> IF set = None THEN "append" ELSE "write",
               set |-> set, queue |-> queue, snap |-> None]]
  /\ UNCHANGED <<task, log, viewedAt, failures>>

\* TaskController.addComment appends without a check of its own (on a deleted
\* task appendEvent answers NotFound, and nothing has changed).
Comment(r, by) ==
  /\ Idle(r)
  /\ Live
  /\ Begin(r, None, <<NewEvent("COMMENTED", by)>>)

StatusToChange(status) == IF status = task.status THEN None ELSE status

\* TaskService.update with a new status, new assignees, or both (None: the
\* field is absent from the request or equal to the stored one).  Other fields
\* take the same path as the assignees.
Update(r, by, status, assignees) ==
  LET newStatus == StatusToChange(status)
      newSet    == IF assignees = task.assignees THEN None ELSE assignees
  IN
  /\ Idle(r)
  /\ Live
  /\ newStatus # None \/ newSet # None
  /\ newSet # None => (task.status = "OPEN" \/ newStatus = "OPEN")
  /\ Begin(r, newSet,
       (IF newStatus = "COMPLETED" THEN <<NewEvent("COMPLETED", by)>>
        ELSE IF newStatus = "OPEN" THEN <<NewEvent("REOPENED", by)>>
        ELSE <<>>)
       \o (IF newSet = None THEN <<>> ELSE <<AssigneesChanged(by, newSet)>>))

\* Mutant: only self-delegation is refused.
MayHandOverAnyTask(by, to) == by # to

\* delegateTask and reassignTask refuse completed tasks and the actor as
\* target.
MayHandOver(by, to) == task.status # "COMPLETED" /\ by # to

Delegate(r, by, to) ==
  /\ Idle(r)
  /\ Live
  /\ MayHandOver(by, to)
  /\ Begin(r, None, <<Handover("DELEGATED", by, to)>>)

Reassign(r, by, to) ==
  /\ Idle(r)
  /\ Live
  /\ MayHandOver(by, to)
  /\ Begin(r, None, <<Handover("TRANSFERRED", by, to)>>)

\* clearDelegation refuses a task without an active delegation.
ClearDelegation(r, by) ==
  /\ Idle(r)
  /\ Live
  /\ task.delegation # None
  /\ Begin(r, None, <<NewEvent("REVOKED", by)>>)

------------------------------------------------------------------------------
(* Running a request *)

\* updateOne({_id, isDeleted: false}, {$set}): no version is checked or moved.
DirectWrite(r) ==
  /\ job[r] # None /\ job[r].step = "write"
  /\ IF Live
       THEN task' = [task EXCEPT !.assignees = job[r].set]
       ELSE UNCHANGED task
  /\ job' = [job EXCEPT ![r].step = "append"]
  /\ UNCHANGED <<log, viewedAt, failures>>

\* appendEvent reads the task; NotFound ends the request.
AppendRead(r) ==
  /\ job[r] # None /\ job[r].step = "append"
  /\ version < MaxVersion
  /\ IF Live
       THEN job' = [job EXCEPT
              ![r].step = "commit",
              ![r].snap = [version |-> version, assignees |-> task.assignees,
                           delegation |-> task.delegation,
                           unread |-> {u \in Users : task.unread[u] > 0}]]
       ELSE job' = [job EXCEPT ![r] = None]
  /\ UNCHANGED <<task, log, viewedAt, failures>>

\* computeProjection: the fields an event sets, given the snapshot s.
NextStatus(e) ==
  CASE e.type = "COMPLETED" -> "COMPLETED"
    [] e.type = "REOPENED"  -> "OPEN"
    [] OTHER                -> task.status

NextCompletedAt(e) ==
  CASE e.type = "COMPLETED" -> TRUE
    [] e.type = "REOPENED"  -> FALSE
    [] OTHER                -> task.completedAt

NextOwner(e, s) ==
  CASE e.type \in {"DELEGATED", "TRANSFERRED"} -> e.to
    [] e.type = "REVOKED" ->
         IF s.delegation = None THEN Creator ELSE s.delegation.by
    [] OTHER -> task.owner

NextDelegation(e) ==
  CASE e.type = "DELEGATED" -> [to |-> e.to, by |-> e.by]
    [] e.type \in {"TRANSFERRED", "REVOKED"} -> None
    [] OTHER -> task.delegation

\* Mutant: the target of any event is added, even when there is none.
AddedAlways(e) == {e.to}

\* Mutant: handing a task over does not assign it.
AddedNever(e) == {}

AddedAssignees(e) ==
  IF e.type \in {"DELEGATED", "TRANSFERRED"} THEN {e.to} ELSE {}

\* Mutant: the actor is counted too.
UnreadForActorToo(e, s) ==
  LET audience == Audience(s.assignees \cup AddedAssignees(e))
  IN [u \in Users |->
        IF u \in audience THEN task.unread[u] + 1
        ELSE IF u \in s.unread \ audience THEN 0
        ELSE task.unread[u]]

\* Everyone who will see the task, except the actor, gets +1; whoever had a
\* count but will not see the task loses it.  Both sets come from s.
NextUnread(e, s) ==
  LET audience == Audience(s.assignees \cup AddedAssignees(e))
  IN [u \in Users |->
        IF u \in audience \ {e.by} THEN task.unread[u] + 1
        ELSE IF u \in s.unread \ audience THEN 0
        ELSE task.unread[u]]

\* Mutant: the read-model update does not check the version.
AnyVersion(s) == TRUE

\* The version filter of appendEvent's read-model update.
VersionUnchanged(s) == s.version = version

\* The read model takes the event if it still has the version that was read;
\* otherwise the request ends with a Conflict.
AppendCommit(r) ==
  LET e == Head(job[r].queue)
      s == job[r].snap
  IN
  /\ job[r] # None /\ job[r].step = "commit"
  /\ IF VersionUnchanged(s)
       THEN /\ log' = Append(log, e)
            /\ task' = [task EXCEPT
                 !.status      = NextStatus(e),
                 !.completedAt = NextCompletedAt(e),
                 !.owner       = NextOwner(e, s),
                 !.delegation  = NextDelegation(e),
                 !.assignees   = @ \cup AddedAssignees(e),
                 !.unread      = NextUnread(e, s)]
            /\ job' = [job EXCEPT ![r] =
                 IF Len(job[r].queue) = 1 THEN None
                 ELSE [@ EXCEPT !.step = "append", !.snap = None,
                                !.queue = Tail(job[r].queue)]]
       ELSE /\ job' = [job EXCEPT ![r] = None]
            /\ UNCHANGED <<task, log>>
  /\ UNCHANGED <<viewedAt, failures>>

\* markTaskViewed: the existence check and the TaskView record do not matter
\* here, the $unset of the user's unread entry does.
View(u) ==
  /\ Live
  /\ task' = [task EXCEPT !.unread[u] = 0]
  /\ viewedAt' = [viewedAt EXCEPT ![u] = version]
  /\ UNCHANGED <<log, job, failures>>

\* TaskService.remove.
SoftDelete ==
  /\ Live
  /\ task' = [task EXCEPT !.deleted = TRUE]
  /\ UNCHANGED <<log, job, viewedAt, failures>>

\* The process dies or a database call throws.
Fail(r) ==
  /\ job[r] # None
  /\ failures < MaxFailures
  /\ failures' = failures + 1
  /\ job' = [job EXCEPT ![r] = None]
  /\ UNCHANGED <<task, log, viewedAt>>

------------------------------------------------------------------------------

NewStatuses == {None} \cup (IF "status" \in Ops THEN {"OPEN", "COMPLETED"} ELSE {})
NewAssignees == {None} \cup (IF "assignees" \in Ops THEN AssigneeSets ELSE {})

Request(r, by) ==
  \/ "comment" \in Ops /\ Comment(r, by)
  \/ \E status \in NewStatuses, set \in NewAssignees : Update(r, by, status, set)
  \/ "delegate" \in Ops /\ \E to \in Users : Delegate(r, by, to)
  \/ "reassign" \in Ops /\ \E to \in Users : Reassign(r, by, to)
  \/ "clear" \in Ops /\ ClearDelegation(r, by)

Next ==
  \/ \E r \in Requests :
       Request(r, Sender[r]) \/ DirectWrite(r) \/ AppendRead(r)
         \/ AppendCommit(r) \/ Fail(r)
  \/ "view" \in Ops /\ \E r \in Requests : View(Sender[r])
  \/ "remove" \in Ops /\ SoftDelete

Spec == Init /\ [][Next]_vars

------------------------------------------------------------------------------
(* Properties *)

\* What an event means to a reader of the timeline.
Replay(v, e) ==
  CASE e.type = "COMPLETED" ->
         [v EXCEPT !.status = "COMPLETED", !.completedAt = TRUE]
    [] e.type = "REOPENED" ->
         [v EXCEPT !.status = "OPEN", !.completedAt = FALSE]
    [] e.type = "DELEGATED" ->
         [v EXCEPT !.owner = e.to, !.assignees = @ \cup {e.to},
                   !.delegation = [to |-> e.to, by |-> e.by]]
    [] e.type = "TRANSFERRED" ->
         [v EXCEPT !.owner = e.to, !.assignees = @ \cup {e.to},
                   !.delegation = None]
    [] e.type = "REVOKED" ->
         [v EXCEPT !.owner = IF v.delegation = None THEN Creator
                             ELSE v.delegation.by,
                   !.delegation = None]
    [] e.type = "UPDATED" /\ e.assignees # None ->
         [v EXCEPT !.assignees = e.assignees]
    [] OTHER -> v

\* A timeline read from its first event to its last.
Replayed(events) ==
  LET upTo[n \in 0..Len(events)] ==
        IF n = 0 THEN SavedTask({}) ELSE Replay(upTo[n - 1], events[n])
  IN upTo[Len(events)]

FromLog == Replayed(log)

\* The status, completion date, owner and delegation of the task are what its
\* timeline says, however requests interleave: computeProjection works on the
\* snapshot appendEvent read, so a revoke must not restore the owner of a
\* delegation that another request has replaced meanwhile.  And while a
\* delegation is active its target owns the task, and nobody has delegated to
\* themselves (the REASSIGNED branch writes the two fields from different parts
\* of the payload).
ReadModelReplaysLog ==
  /\ task.status      = FromLog.status
  /\ task.completedAt = FromLog.completedAt
  /\ task.owner       = FromLog.owner
  /\ task.delegation  = FromLog.delegation
  /\ task.delegation # None =>
       /\ task.owner = task.delegation.to
       /\ task.delegation.to # task.delegation.by

\* For those who can always see the task, the unread count is exactly the
\* number of events others appended since they last viewed it: the $inc of
\* appendEvent and the $unset of markTaskViewed never lose one another.
UnreadIsExact ==
  \A u \in Admins \cup {Creator} :
    task.unread[u] =
      Cardinality({i \in (viewedAt[u] + 1)..Len(log) : log[i].by # u})

Quiet == Live /\ \A r \in Requests : Idle(r)

\* "Every state change goes through appendEvent" (task-event.service.ts:80):
\* once nobody is at work the assignees, too, are what the timeline says; and
\* "no badge points at a task that is missing from their list" (238-240).
AssigneesInLog ==
  Quiet =>
    /\ task.assignees = FromLog.assignees
    /\ \A u \in Users : task.unread[u] > 0 => u \in Audience(FromLog.assignees)

Appended == log'[Len(log')]
Appends(types) == log' # log /\ Appended.type \in types

\* The timeline is one the documentation allows: "Completed tasks can't be
\* delegated or reassigned. Reopen the task first." (task-delegation.service.ts
\* 155-158), clearDelegation throws "if the task has no active delegation"
\* (290), and a task that is completed is not completed again, nor an open one
\* reopened (task.service.ts:738).
TimelineLegal ==
  [][/\ Appends({"DELEGATED", "TRANSFERRED"}) => task.status # "COMPLETED"
     /\ Appends({"REVOKED"}) => task.delegation # None
     /\ Appends({"COMPLETED"}) => task.status = "OPEN"
     /\ Appends({"REOPENED"}) => task.status = "COMPLETED"]_vars
==============================================================================
