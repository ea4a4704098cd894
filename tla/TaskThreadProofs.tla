--------------------------- MODULE TaskThreadProofs ---------------------------
(***************************************************************************)
(* Proofs about TaskThread, for any number of users, requests, events and  *)
(* failures: the projection kept on the task is the one its timeline gives *)
(* (ReadModelReplaysLog), unread counts are exact (UnreadIsExact), and     *)
(* with one request at a time the timeline is legal (TimelineLegal) and    *)
(* the assignees are those of the timeline (AssigneesInLog).               *)
(***************************************************************************)
EXTENDS TaskThread, SequenceTheorems, FiniteSetTheorems,
        WellFoundedInduction, TLAPS

\* The events of a request are one event that is not a change of assignees,
\* or the change that its direct write makes, which may come after a change of
\* status; nobody delegates to themselves.
Plan(set, queue) ==
  \/ \E e \in Event :
       /\ queue = <<e>>
       /\ e.type = "DELEGATED" => e.to # e.by
       /\ IF set = None THEN e.type # "UPDATED"
                        ELSE e.type = "UPDATED" /\ e.assignees = set
  \/ \E e, u \in Event :
       /\ queue = <<e, u>>
       /\ set # None
       /\ e.type \in {"COMPLETED", "REOPENED"}
       /\ u.type = "UPDATED" /\ u.assignees = set

\* The task after an append of event e that has read s.
Projected(e, s) ==
  [task EXCEPT !.status      = NextStatus(e),
               !.completedAt = NextCompletedAt(e),
               !.owner       = NextOwner(e, s),
               !.delegation  = NextDelegation(e),
               !.assignees   = @ \cup AddedAssignees(e),
               !.unread      = NextUnread(e, s)]

\* What a request still has to do is well-formed: its events are a plan, a
\* direct write has something to write, and a commit has read the task.
JobsWellFormed ==
  \A r \in Requests : job[r] # None =>
    /\ Plan(job[r].set, job[r].queue)
    /\ job[r].step = "write" => job[r].set # None
    /\ job[r].step = "commit" => job[r].snap \in Snapshot

\* The task is in a state in which the timeline may go on with event e.
MayFollow(e) ==
  /\ e.type \in {"DELEGATED", "TRANSFERRED"} => task.status # "COMPLETED"
  /\ e.type = "REVOKED" => task.delegation # None
  /\ e.type = "COMPLETED" => task.status = "OPEN"
  /\ e.type = "REOPENED" => task.status = "COMPLETED"

\* The events the requests of the model begin with are events.
LEMMA NewEventType ==
  ASSUME NEW by \in Users
  PROVE  /\ \A type \in SilentTypes : NewEvent(type, by) \in Event
         /\ \A type \in {"DELEGATED", "TRANSFERRED"}, to \in Users :
              Handover(type, by, to) \in Event
         /\ \A set \in SUBSET Users : AssigneesChanged(by, set) \in Event
<1>1. \A type \in SilentTypes : NewEvent(type, by) \in Event
  BY DEF NewEvent, Event
<1>2. \A type \in {"DELEGATED", "TRANSFERRED"}, to \in Users :
        Handover(type, by, to) \in Event
  <2>. TAKE type \in {"DELEGATED", "TRANSFERRED"}, to \in Users
  <2>1. Handover(type, by, to)
          = [type |-> type, by |-> by, to |-> to, assignees |-> None]
    BY DEF Handover, NewEvent
  <2>. QED
    BY <2>1 DEF Event
<1>3. \A set \in SUBSET Users : AssigneesChanged(by, set) \in Event
  <2>. TAKE set \in SUBSET Users
  <2>1. AssigneesChanged(by, set)
          = [type |-> "UPDATED", by |-> by, to |-> None, assignees |-> set]
    BY DEF AssigneesChanged, NewEvent
  <2>. QED
    BY <2>1 DEF Event
<1>. QED
  BY <1>1, <1>2, <1>3

\* Two events in a row are the pair of them.
LEMMA PairOfEvents ==
  ASSUME NEW e \in Event, NEW u \in Event
  PROVE  <<e>> \o <<u>> = <<e, u>>
<1>1. /\ <<e>> \in Seq(Event) /\ <<u>> \in Seq(Event)
      /\ <<e, u>> \in Seq(Event)
  OBVIOUS
<1>2. Len(<<e>> \o <<u>>) = Len(<<e, u>>) /\ <<e>> \o <<u>> \in Seq(Event)
  BY <1>1
<1>3. \A i \in 1..2 : (<<e>> \o <<u>>)[i] = <<e, u>>[i]
  BY <1>1
<1>. QED
  BY <1>1, <1>2, <1>3, SeqEqual

\* The events of a plan can be appended one after the other.
LEMMA PlanSteps ==
  ASSUME NEW set, NEW queue, Plan(set, queue)
  PROVE  /\ queue \in Seq(Event)
         /\ Head(queue) \in Event
         /\ Head(queue).type = "DELEGATED" => Head(queue).to # Head(queue).by
         /\ Len(queue) # 1 =>
              /\ Tail(queue) \in Seq(Event)
              /\ Plan(set, Tail(queue))
              /\ set # None
              /\ Head(queue).type \in {"COMPLETED", "REOPENED"}
              /\ Head(Tail(queue)).type = "UPDATED"
         /\ Len(queue) = 1 =>
              IF set = None THEN Head(queue).type # "UPDATED"
              ELSE Head(queue).type = "UPDATED" /\ Head(queue).assignees = set
<1>1. CASE \E e \in Event :
             /\ queue = <<e>>
             /\ e.type = "DELEGATED" => e.to # e.by
             /\ IF set = None THEN e.type # "UPDATED"
                              ELSE e.type = "UPDATED" /\ e.assignees = set
  BY <1>1
<1>2. CASE \E e, u \in Event :
             /\ queue = <<e, u>>
             /\ set # None
             /\ e.type \in {"COMPLETED", "REOPENED"}
             /\ u.type = "UPDATED" /\ u.assignees = set
  <2>1. PICK e \in Event, u \in Event :
             /\ queue = <<e, u>>
             /\ set # None
             /\ e.type \in {"COMPLETED", "REOPENED"}
             /\ u.type = "UPDATED" /\ u.assignees = set
    BY <1>2
  <2>2. Head(queue) = e /\ Tail(queue) = <<u>> /\ Len(queue) = 2
        /\ queue \in Seq(Event) /\ Tail(queue) \in Seq(Event)
    BY <2>1
  <2>3. Plan(set, <<u>>)
    BY <2>1 DEF Plan
  <2>. QED
    BY <2>1, <2>2, <2>3
<1>. QED
  BY <1>1, <1>2 DEF Plan

\* A request begins with a well-formed job if its events are a plan.
LEMMA BeginType ==
  ASSUME TypeOK, JobsWellFormed,
         NEW r \in Requests,
         NEW set \in (SUBSET Users) \cup {None},
         NEW queue, Plan(set, queue),
         Begin(r, set, queue)
  PROVE  TypeOK' /\ JobsWellFormed'
<1>. DEFINE j == [step |-> IF set = None THEN "append" ELSE "write",
                  set |-> set, queue |-> queue, snap |-> None]
<1>1. j \in Job
  <2>1. queue \in Seq(Event)
    BY PlanSteps
  <2>. QED
    BY <2>1 DEF Job
<1>2. job' = [job EXCEPT ![r] = j]
  BY DEF Begin
<1>3. /\ j.queue = queue /\ j.set = set
      /\ j.step = "write" => j.set # None
      /\ j.step # "commit"
  OBVIOUS
<1>. HIDE DEF j
<1>4. TypeOK'
  BY <1>1, <1>2 DEF TypeOK, Begin
<1>5. JobsWellFormed'
  BY <1>2, <1>3 DEF TypeOK, JobsWellFormed
<1>. QED
  BY <1>4, <1>5

\* Every request of a user begins with a plan whose first event may follow in
\* the timeline of the task as it is.
LEMMA RequestBegins ==
  ASSUME TypeOK, NEW r \in Requests, Request(r, Sender[r])
  PROVE  /\ Live /\ Idle(r)
         /\ \E set \in (SUBSET Users) \cup {None}, queue \in Seq(Event) :
              /\ Plan(set, queue)
              /\ MayFollow(Head(queue))
              /\ Begin(r, set, queue)
<1>. DEFINE by == Sender[r]
            Goal == /\ Live /\ Idle(r)
                    /\ \E set \in (SUBSET Users) \cup {None}, queue \in Seq(Event) :
                         /\ Plan(set, queue)
                         /\ MayFollow(Head(queue))
                         /\ Begin(r, set, queue)
<1>1. by \in Users /\ Request(r, by)
  BY UsersAssumption
<1>2. task.status \in {"OPEN", "COMPLETED"}
  BY DEF TypeOK, Task
<1>. HIDE DEF by
<1>3. ASSUME NEW e \in Event, e.type # "UPDATED",
             e.type = "DELEGATED" => e.to # e.by,
             MayFollow(e), Live, Idle(r), Begin(r, None, <<e>>)
      PROVE  Goal
  <2>1. <<e>> \in Seq(Event) /\ Head(<<e>>) = e
    OBVIOUS
  <2>2. Plan(None, <<e>>)
    BY <1>3 DEF Plan
  <2>. QED
    BY <1>3, <2>1, <2>2
<1>4. CASE Comment(r, by)
  <2>1. NewEvent("COMMENTED", by) \in Event
    BY <1>1, NewEventType DEF SilentTypes
  <2>2. NewEvent("COMMENTED", by).type = "COMMENTED"
    BY DEF NewEvent
  <2>. QED
    BY <1>3, <1>4, <2>1, <2>2 DEF Comment, MayFollow
<1>5. CASE \E to \in Users : Delegate(r, by, to)
  <2>1. PICK to \in Users : Delegate(r, by, to)
    BY <1>5
  <2>. DEFINE e == Handover("DELEGATED", by, to)
  <2>2. e \in Event
    BY <1>1, NewEventType
  <2>3. e.type = "DELEGATED" /\ e.to = to /\ e.by = by
    BY DEF Handover, NewEvent
  <2>4. task.status # "COMPLETED" /\ by # to /\ Live /\ Idle(r)
        /\ Begin(r, None, <<e>>)
    BY <2>1 DEF Delegate, MayHandOver
  <2>. HIDE DEF e
  <2>. QED
    BY <1>3, <2>2, <2>3, <2>4 DEF MayFollow
<1>6. CASE \E to \in Users : Reassign(r, by, to)
  <2>1. PICK to \in Users : Reassign(r, by, to)
    BY <1>6
  <2>. DEFINE e == Handover("TRANSFERRED", by, to)
  <2>2. e \in Event
    BY <1>1, NewEventType
  <2>3. e.type = "TRANSFERRED"
    BY DEF Handover, NewEvent
  <2>4. task.status # "COMPLETED" /\ Live /\ Idle(r) /\ Begin(r, None, <<e>>)
    BY <2>1 DEF Reassign, MayHandOver
  <2>. HIDE DEF e
  <2>. QED
    BY <1>3, <2>2, <2>3, <2>4 DEF MayFollow
<1>7. CASE ClearDelegation(r, by)
  <2>1. NewEvent("REVOKED", by) \in Event
    BY <1>1, NewEventType DEF SilentTypes
  <2>2. NewEvent("REVOKED", by).type = "REVOKED"
    BY DEF NewEvent
  <2>. QED
    BY <1>3, <1>7, <2>1, <2>2 DEF ClearDelegation, MayFollow
<1>8. CASE \E status \in NewStatuses, set \in NewAssignees :
             Update(r, by, status, set)
  <2>1. PICK status \in NewStatuses, set \in NewAssignees :
               Update(r, by, status, set)
    BY <1>8
  <2>. DEFINE newStatus == StatusToChange(status)
              newSet == IF set = task.assignees THEN None ELSE set
              type == IF newStatus = "COMPLETED" THEN "COMPLETED" ELSE "REOPENED"
              e == NewEvent(type, by)
              u == AssigneesChanged(by, newSet)
              first == IF newStatus = "COMPLETED" THEN <<NewEvent("COMPLETED", by)>>
                       ELSE IF newStatus = "OPEN" THEN <<NewEvent("REOPENED", by)>>
                       ELSE <<>>
              second == IF newSet = None THEN <<>> ELSE <<u>>
  <2>2. newSet \in (SUBSET Users) \cup {None}
    BY UsersAssumption DEF NewAssignees
  <2>3. newStatus \in {None, "OPEN", "COMPLETED"}
        /\ (newStatus # None => newStatus # task.status)
    BY DEF NewStatuses, StatusToChange
  <2>4. newStatus # None \/ newSet # None
    BY <2>1 DEF Update
  <2>5. Live /\ Idle(r) /\ Begin(r, newSet, first \o second)
    BY <2>1 DEF Update
  <2>6. newStatus # None => first = <<e>>
    BY <2>3
  <2>7. newStatus = None => first = <<>>
    BY NoneAssumption
  <2>8. e \in Event /\ e.type = type
    BY <1>1, NewEventType DEF SilentTypes, NewEvent
  <2>9. newSet # None => u \in Event /\ u.type = "UPDATED" /\ u.assignees = newSet
    <3>1. u = [type |-> "UPDATED", by |-> by, to |-> None, assignees |-> newSet]
      BY DEF AssigneesChanged, NewEvent
    <3>. QED
      BY <1>1, <2>2, <3>1, NewEventType
  <2>10. newStatus # None => MayFollow(e)
    BY <1>2, <2>3, <2>8 DEF MayFollow
  <2>11. newSet # None => MayFollow(u)
    BY <2>9 DEF MayFollow
  <2>12. type \in {"COMPLETED", "REOPENED"}
    OBVIOUS
  <2>. HIDE DEF newStatus, newSet, e, u, type, first
  <2>13. CASE first = <<e>> /\ newSet = None /\ MayFollow(e)
    BY <1>3, <2>5, <2>8, <2>12, <2>13
  <2>14. CASE first = <<e>> /\ newSet # None /\ MayFollow(e)
    <3>1. first \o second = <<e>> \o <<u>> /\ <<e>> \o <<u>> = <<e, u>>
      BY <2>8, <2>9, <2>14, PairOfEvents
    <3>2. <<e, u>> \in Seq(Event) /\ Head(<<e, u>>) = e
      BY <2>8, <2>9, <2>14
    <3>3. Plan(newSet, <<e, u>>)
      BY <2>8, <2>9, <2>12, <2>14 DEF Plan
    <3>. HIDE DEF second
    <3>. QED
      BY <2>2, <2>5, <2>14, <3>1, <3>2, <3>3
  <2>15. CASE first = <<>> /\ newSet # None
    <3>1. first \o second = <<u>>
      BY <2>15
    <3>2. <<u>> \in Seq(Event) /\ Head(<<u>>) = u
      BY <2>9, <2>15
    <3>3. Plan(newSet, <<u>>)
      BY <2>9, <2>15 DEF Plan
    <3>. HIDE DEF second
    <3>. QED
      BY <2>2, <2>5, <2>11, <2>15, <3>1, <3>2, <3>3
  <2>. QED
    BY <2>4, <2>6, <2>7, <2>10, <2>13, <2>14, <2>15
<1>. QED
  BY <1>1, <1>4, <1>5, <1>6, <1>7, <1>8 DEF Request

\* An append leaves a task, with the fields computeProjection sets.
LEMMA ProjectionType ==
  ASSUME TypeOK, NEW e \in Event, NEW s \in Snapshot
  PROVE  /\ Projected(e, s) \in Task
         /\ Projected(e, s).status = NextStatus(e)
         /\ Projected(e, s).completedAt = NextCompletedAt(e)
         /\ Projected(e, s).owner = NextOwner(e, s)
         /\ Projected(e, s).delegation = NextDelegation(e)
         /\ Projected(e, s).assignees = task.assignees \cup AddedAssignees(e)
         /\ Projected(e, s).unread = NextUnread(e, s)
         /\ Projected(e, s).deleted = task.deleted
<1>1. e.by \in Users /\ (e.type \in {"DELEGATED", "TRANSFERRED"} => e.to \in Users)
  BY DEF Event, SilentTypes
<1>2. NextStatus(e) \in {"OPEN", "COMPLETED"} /\ NextCompletedAt(e) \in BOOLEAN
  BY DEF NextStatus, NextCompletedAt, TypeOK, Task
<1>3. NextOwner(e, s) \in Users \cup {None}
  BY <1>1, UsersAssumption DEF NextOwner, TypeOK, Task, Snapshot, Delegation
<1>4. NextDelegation(e) \in Delegation \cup {None}
  BY <1>1 DEF NextDelegation, TypeOK, Task, Delegation
<1>5. AddedAssignees(e) \in SUBSET Users
  BY <1>1 DEF AddedAssignees
<1>6. NextUnread(e, s) \in [Users -> Nat]
  BY DEF NextUnread, TypeOK, Task
<1>7. task \in Task
  BY DEF TypeOK
<1>. QED
  BY <1>2, <1>3, <1>4, <1>5, <1>6, <1>7 DEF Projected, Task

\* A new task is a task, and nobody is at work on it.
LEMMA InitType == Init => TypeOK /\ JobsWellFormed
<1>. SUFFICES ASSUME Init PROVE TypeOK /\ JobsWellFormed
  OBVIOUS
<1>1. JobsWellFormed
  BY DEF Init, JobsWellFormed
<1>2. /\ job \in [Requests -> Job \cup {None}]
      /\ viewedAt \in [Users -> Nat]
      /\ failures \in 0..MaxFailures
  <2>1. job = [r \in Requests |-> None] /\ viewedAt = [u \in Users |-> 0]
        /\ failures = 0
    BY DEF Init
  <2>. QED
    BY <2>1, BoundsAssumption
<1>3. CASE task = SavedTask({}) /\ log = <<>>
  <2>1. log \in Seq(Event)
    BY <1>3
  <2>2. task \in Task
    BY <1>3 DEF SavedTask, Task
  <2>. QED
    BY <1>1, <1>2, <2>1, <2>2 DEF TypeOK
<1>4. CASE \E u \in Users \ {Creator} :
          /\ log = <<Handover("DELEGATED", Creator, u)>>
          /\ task = [SavedTask({u}) EXCEPT
                      !.owner = u,
                      !.delegation = [to |-> u, by |-> Creator],
                      !.unread = [v \in Users |->
                         IF v \in Audience({u}) \ {Creator} THEN 1 ELSE 0]]
  <2>1. PICK u \in Users \ {Creator} :
          /\ log = <<Handover("DELEGATED", Creator, u)>>
          /\ task = [SavedTask({u}) EXCEPT
                      !.owner = u,
                      !.delegation = [to |-> u, by |-> Creator],
                      !.unread = [v \in Users |->
                         IF v \in Audience({u}) \ {Creator} THEN 1 ELSE 0]]
    BY <1>4
  <2>2. log \in Seq(Event)
    BY <2>1, NewEventType, UsersAssumption
  <2>3. task \in Task
    BY <2>1, UsersAssumption DEF SavedTask, Delegation, Task
  <2>. QED
    BY <1>1, <1>2, <2>2, <2>3 DEF TypeOK
<1>. QED
  BY <1>3, <1>4 DEF Init

\* Every step keeps the types and the shape of the jobs.
LEMMA NextType == TypeOK /\ JobsWellFormed /\ [Next]_vars => TypeOK' /\ JobsWellFormed'
<1>. SUFFICES ASSUME TypeOK, JobsWellFormed, [Next]_vars
     PROVE TypeOK' /\ JobsWellFormed'
  OBVIOUS
<1>1. ASSUME NEW r \in Requests, Request(r, Sender[r])
      PROVE  TypeOK' /\ JobsWellFormed'
  <2>1. PICK set \in (SUBSET Users) \cup {None}, queue \in Seq(Event) :
          Plan(set, queue) /\ Begin(r, set, queue)
    BY <1>1, RequestBegins
  <2>. QED
    BY <2>1, BeginType
<1>2. ASSUME NEW r \in Requests, DirectWrite(r)
      PROVE  TypeOK' /\ JobsWellFormed'
  <2>1. job[r] \in Job /\ job[r].set \in SUBSET Users
    BY <1>2 DEF DirectWrite, TypeOK, JobsWellFormed, Job
  <2>. DEFINE j == [job[r] EXCEPT !.step = "append"]
  <2>2. /\ j \in Job /\ j.step = "append"
        /\ j.queue = job[r].queue /\ j.set = job[r].set
    BY <2>1 DEF Job
  <2>3. job' = [job EXCEPT ![r] = j]
    BY <1>2 DEF DirectWrite
  <2>. HIDE DEF j
  <2>4. task' \in Task
    <3>1. task' = task \/ task' = [task EXCEPT !.assignees = job[r].set]
      BY <1>2 DEF DirectWrite
    <3>. QED
      BY <2>1, <3>1 DEF TypeOK, Task
  <2>6. job' \in [Requests -> Job \cup {None}]
    BY <2>2, <2>3 DEF TypeOK
  <2>7. TypeOK'
    BY <1>2, <2>4, <2>6 DEF DirectWrite, TypeOK
  <2>5. JobsWellFormed'
    BY <1>2, <2>2, <2>3 DEF DirectWrite, TypeOK, JobsWellFormed
  <2>. QED
    BY <2>5, <2>7
<1>3. ASSUME NEW r \in Requests, AppendRead(r)
      PROVE  TypeOK' /\ JobsWellFormed'
  <2>1. job[r] \in Job /\ Plan(job[r].set, job[r].queue)
    BY <1>3 DEF AppendRead, TypeOK, JobsWellFormed
  <2>. DEFINE s == [version |-> version, assignees |-> task.assignees,
                    delegation |-> task.delegation,
                    unread |-> {u \in Users : task.unread[u] > 0}]
              j == [job[r] EXCEPT !.step = "commit", !.snap = s]
  <2>2. s \in Snapshot
    BY DEF TypeOK, Task, Snapshot, version
  <2>. HIDE DEF s
  <2>3. /\ j \in Job /\ j.step = "commit" /\ j.snap = s
        /\ j.queue = job[r].queue /\ j.set = job[r].set
    BY <2>1, <2>2 DEF Job
  <2>4. job' = [job EXCEPT ![r] = j] \/ job' = [job EXCEPT ![r] = None]
    BY <1>3 DEF AppendRead, s
  <2>. HIDE DEF j
  <2>5. TypeOK'
    BY <1>3, <2>3, <2>4 DEF AppendRead, TypeOK
  <2>6. JobsWellFormed'
    BY <2>1, <2>2, <2>3, <2>4 DEF TypeOK, JobsWellFormed
  <2>. QED
    BY <2>5, <2>6
<1>4. ASSUME NEW r \in Requests, AppendCommit(r)
      PROVE  TypeOK' /\ JobsWellFormed'
  <2>. DEFINE e == Head(job[r].queue)
              s == job[r].snap
              j == [job[r] EXCEPT !.step = "append", !.snap = None,
                                  !.queue = Tail(@)]
  <2>1. job[r] \in Job /\ Plan(job[r].set, job[r].queue) /\ s \in Snapshot
    BY <1>4 DEF AppendCommit, TypeOK, JobsWellFormed
  <2>2. log \in Seq(Event) /\ task \in Task
    BY DEF TypeOK
  <2>3. e \in Event
    BY <2>1, PlanSteps
  <2>4. Len(job[r].queue) # 1 => /\ Tail(job[r].queue) \in Seq(Event)
                                 /\ Plan(job[r].set, Tail(job[r].queue))
    BY <2>1, PlanSteps
  <2>5. Len(job[r].queue) # 1 =>
          j \in Job /\ j.step = "append" /\ Plan(j.set, j.queue)
    BY <2>1, <2>4 DEF Job
  <2>6. \/ job' = [job EXCEPT ![r] = None]
        \/ Len(job[r].queue) # 1 /\ job' = [job EXCEPT ![r] = j]
    BY <1>4 DEF AppendCommit
  <2>7. \/ UNCHANGED <<task, log>>
        \/ /\ log' = Append(log, e)
           /\ task' = Projected(e, s)
    BY <1>4 DEF AppendCommit, Projected
  <2>8. UNCHANGED <<viewedAt, failures>>
    BY <1>4 DEF AppendCommit
  <2>. HIDE DEF j, e, s
  <2>9. job' \in [Requests -> Job \cup {None}]
    BY <2>5, <2>6 DEF TypeOK
  <2>10. log' \in Seq(Event)
    BY <2>2, <2>3, <2>7
  <2>11. task' \in Task
    <3>1. CASE task' = task
      BY <2>2, <3>1
    <3>2. CASE task' = Projected(e, s)
      BY <2>1, <2>3, <3>2, ProjectionType
    <3>. QED
      BY <2>7, <3>1, <3>2
  <2>12. TypeOK'
    BY <2>8, <2>9, <2>10, <2>11 DEF TypeOK
  <2>13. JobsWellFormed'
    BY <2>5, <2>6 DEF TypeOK, JobsWellFormed
  <2>. QED
    BY <2>12, <2>13
<1>5. ASSUME NEW r \in Requests, Fail(r)
      PROVE  TypeOK' /\ JobsWellFormed'
  <2>1. failures + 1 \in 0..MaxFailures
    BY <1>5, BoundsAssumption DEF Fail, TypeOK
  <2>. QED
    BY <1>5, <2>1 DEF Fail, TypeOK, JobsWellFormed
<1>6. ASSUME NEW u \in Users, View(u)
      PROVE  TypeOK' /\ JobsWellFormed'
  <2>1. version \in Nat
    BY DEF TypeOK, version
  <2>. QED
    BY <1>6, <2>1 DEF View, TypeOK, Task, JobsWellFormed
<1>7. CASE SoftDelete
  BY <1>7 DEF SoftDelete, TypeOK, Task, JobsWellFormed
<1>8. CASE UNCHANGED vars
  BY <1>8 DEF vars, TypeOK, JobsWellFormed
<1>. QED
  BY <1>1, <1>2, <1>3, <1>4, <1>5, <1>6, <1>7, <1>8, UsersAssumption DEF Next

\* The task, its log and the requests always have the types the code gives them.
THEOREM ThreadTyped == Spec => []TypeOK
<1>1. Spec => [](TypeOK /\ JobsWellFormed)
  BY InitType, NextType, PTL DEF Spec
<1>. QED
  BY <1>1, PTL

\* Induction over the naturals, for a set of them: a set that has 0 and with
\* each number its successor has them all.
LEMMA NatSetInduction ==
  ASSUME NEW S, 0 \in S, \A n \in Nat : n \in S => n + 1 \in S
  PROVE  Nat \subseteq S
<1>. SUFFICES ASSUME NEW m \in Nat, m \notin S PROVE FALSE
  OBVIOUS
<1>. DEFINE T == Nat \ S
<1>1. T \subseteq Nat /\ T # {}
  OBVIOUS
<1>2. IsWellFoundedOn(OpToRel(<, Nat), Nat)
  BY NatLessThanWellFounded
<1>. HIDE DEF T
<1>3. PICK x \in T : \A y \in T : <<y, x>> \notin OpToRel(<, Nat)
  BY <1>1, <1>2, WFMin
<1>. USE DEF T
<1>4. x \in Nat /\ x # 0 /\ x - 1 \in Nat
  OBVIOUS
<1>5. <<x - 1, x>> \in OpToRel(<, Nat)
  BY <1>4 DEF OpToRel
<1>6. x - 1 \in S
  BY <1>3, <1>4, <1>5
<1>7. (x - 1) + 1 \in S /\ (x - 1) + 1 = x
  BY <1>4, <1>6
<1>. QED
  BY <1>7

\* f is the function that Replayed defines, reading n events: what the task
\* looks like after each of them.
IsReplay(f, n, events) ==
  f = [i \in 0..n |-> IF i = 0 THEN SavedTask({}) ELSE Replay(f[i - 1], events[i])]

\* However many events are read, there is such a function.
LEMMA ReplayExists ==
  ASSUME NEW events, NEW n \in Nat
  PROVE  \E f : IsReplay(f, n, events)
<1>. DEFINE S == {m \in Nat : \E f : IsReplay(f, m, events)}
<1>1. 0 \in S
  <2>. DEFINE f == [i \in 0..0 |-> SavedTask({})]
  <2>1. IsReplay(f, 0, events)
    BY DEF IsReplay
  <2>. QED
    BY <2>1
<1>2. ASSUME NEW m \in Nat, m \in S PROVE m + 1 \in S
  <2>1. PICK f : IsReplay(f, m, events)
    BY <1>2
  <2>. DEFINE g == [i \in 0..(m + 1) |->
                      IF i = m + 1 THEN Replay(f[m], events[i]) ELSE f[i]]
  <2>2. \A i \in 0..m :
          f[i] = IF i = 0 THEN SavedTask({}) ELSE Replay(f[i - 1], events[i])
    BY <2>1 DEF IsReplay
  <2>3. \A i \in 0..(m + 1) :
          g[i] = IF i = 0 THEN SavedTask({}) ELSE Replay(g[i - 1], events[i])
    BY <2>2
  <2>4. IsReplay(g, m + 1, events)
    <3>. HIDE DEF g
    <3>1. g = [i \in 0..(m + 1) |-> g[i]]
      BY DEF g
    <3>. QED
      BY <2>3, <3>1 DEF IsReplay
  <2>. QED
    BY <2>4
<1>. HIDE DEF S
<1>3. Nat \subseteq S
  BY <1>1, <1>2, NatSetInduction
<1>. QED
  BY <1>3 DEF S

\* Two of them agree as far as both go.
LEMMA ReplayUnique ==
  ASSUME NEW events, NEW n \in Nat, NEW m \in Nat, n <= m,
         NEW f, IsReplay(f, n, events), NEW g, IsReplay(g, m, events)
  PROVE  \A i \in 0..n : f[i] = g[i]
<1>. DEFINE S == {i \in Nat : i <= n => f[i] = g[i]}
<1>1. \A i \in 0..n :
        f[i] = IF i = 0 THEN SavedTask({}) ELSE Replay(f[i - 1], events[i])
  BY DEF IsReplay
<1>2. \A i \in 0..n :
        g[i] = IF i = 0 THEN SavedTask({}) ELSE Replay(g[i - 1], events[i])
  BY DEF IsReplay
<1>3. 0 \in S
  BY <1>1, <1>2
<1>4. ASSUME NEW i \in Nat, i \in S PROVE i + 1 \in S
  BY <1>1, <1>2, <1>4
<1>. HIDE DEF S
<1>5. Nat \subseteq S
  BY <1>3, <1>4, NatSetInduction
<1>. QED
  BY <1>5 DEF S

\* A timeline without events shows the task as it was saved.
LEMMA ReplayedEmpty == Replayed(<<>>) = SavedTask({})
<1>1. PICK f : IsReplay(f, 0, <<>>)
  BY ReplayExists
<1>. DEFINE h == CHOOSE g : IsReplay(g, 0, <<>>)
<1>2. IsReplay(h, 0, <<>>)
  BY <1>1
<1>3. Replayed(<<>>) = h[0]
  BY DEF Replayed, IsReplay
<1>. QED
  BY <1>2, <1>3 DEF IsReplay

\* One more event changes what the timeline shows by that event: the function
\* FromLog is computed with is determined by its first and its last step.
LEMMA ReplayedAppend ==
  ASSUME NEW events \in Seq(Event), NEW e \in Event
  PROVE  Replayed(Append(events, e)) = Replay(Replayed(events), e)
<1>. DEFINE n == Len(events)
           longer == Append(events, e)
           h == CHOOSE f : IsReplay(f, n, events)
           k == CHOOSE f : IsReplay(f, n + 1, longer)
<1>1. n \in Nat /\ Len(longer) = n + 1 /\ longer[n + 1] = e
      /\ \A i \in 1..n : longer[i] = events[i]
  OBVIOUS
<1>2. IsReplay(h, n, events)
  BY <1>1, ReplayExists
<1>3. IsReplay(k, n + 1, longer)
  BY <1>1, ReplayExists
<1>4. Replayed(events) = h[n]
  BY DEF Replayed, IsReplay
<1>5. Replayed(longer) = k[n + 1]
  BY <1>1 DEF Replayed, IsReplay
<1>. HIDE DEF h, k, n, longer
<1>6. IsReplay(h, n, longer)
  <2>1. \A i \in 0..n : i # 0 => longer[i] = events[i]
    BY <1>1
  <2>. QED
    BY <1>2, <2>1 DEF IsReplay
<1>7. h[n] = k[n]
  BY <1>1, <1>3, <1>6, ReplayUnique
<1>8. k[n + 1] = Replay(k[n], e)
  BY <1>1, <1>3 DEF IsReplay
<1>. QED
  BY <1>4, <1>5, <1>7, <1>8 DEF longer

------------------------------------------------------------------------------
(* The read model and the timeline *)

\* An event turns a task into a task, and changes its assignees if it is a
\* change of assignees or hands the task over.
LEMMA ReplayType ==
  ASSUME NEW v \in Task, NEW e \in Event
  PROVE  /\ Replay(v, e) \in Task
         /\ Replay(v, e).assignees =
              IF e.type = "UPDATED" /\ e.assignees # None THEN e.assignees
              ELSE v.assignees \cup AddedAssignees(e)
<1>1. /\ e.by \in Users
      /\ e.type \in {"DELEGATED", "TRANSFERRED"} => e.to \in Users
      /\ e.assignees # None => e.assignees \in SUBSET Users
      /\ e.type \in {"COMMENTED", "COMPLETED", "REOPENED", "REVOKED",
                     "DELEGATED", "TRANSFERRED", "UPDATED"}
  BY DEF Event, SilentTypes
<1>2. CASE e.type \in {"COMPLETED", "REOPENED"}
  BY <1>2 DEF Replay, Task, AddedAssignees
<1>3. CASE e.type \in {"DELEGATED", "TRANSFERRED"}
  BY <1>1, <1>3 DEF Replay, Task, Delegation, AddedAssignees
<1>4. CASE e.type = "REVOKED"
  BY <1>4, UsersAssumption DEF Replay, Task, Delegation, AddedAssignees
<1>5. CASE e.type = "UPDATED" /\ e.assignees # None
  BY <1>1, <1>5 DEF Replay, Task
<1>6. CASE e.type = "COMMENTED" \/ (e.type = "UPDATED" /\ e.assignees = None)
  BY <1>6 DEF Replay, Task, AddedAssignees
<1>. QED
  BY <1>1, <1>2, <1>3, <1>4, <1>5, <1>6

\* What appendEvent writes is what its event means to the timeline, if the
\* delegation it has read is still there.
LEMMA ReplayAgrees ==
  ASSUME NEW v \in Task, NEW e \in Event, NEW s, TypeOK,
         v.status = task.status, v.completedAt = task.completedAt,
         v.owner = task.owner, v.delegation = task.delegation,
         s.delegation = task.delegation
  PROVE  /\ Replay(v, e).status = NextStatus(e)
         /\ Replay(v, e).completedAt = NextCompletedAt(e)
         /\ Replay(v, e).owner = NextOwner(e, s)
         /\ Replay(v, e).delegation = NextDelegation(e)
<1>1. /\ e.by \in Users
      /\ e.type \in {"DELEGATED", "TRANSFERRED"} => e.to \in Users
      /\ e.assignees # None => e.assignees \in SUBSET Users
      /\ e.type \in {"COMMENTED", "COMPLETED", "REOPENED", "REVOKED",
                     "DELEGATED", "TRANSFERRED", "UPDATED"}
  BY DEF Event, SilentTypes
<1>2. CASE e.type = "COMPLETED"
  BY <1>2 DEF Replay, Task, NextStatus, NextCompletedAt, NextOwner, NextDelegation
<1>3. CASE e.type = "REOPENED"
  BY <1>3 DEF Replay, Task, NextStatus, NextCompletedAt, NextOwner, NextDelegation
<1>4. CASE e.type = "DELEGATED"
  BY <1>1, <1>4 DEF Replay, Task, Delegation, NextStatus, NextCompletedAt,
                    NextOwner, NextDelegation
<1>5. CASE e.type = "TRANSFERRED"
  BY <1>1, <1>5 DEF Replay, Task, NextStatus, NextCompletedAt, NextOwner,
                    NextDelegation
<1>6. CASE e.type = "REVOKED"
  BY <1>6, UsersAssumption DEF Replay, Task, Delegation, NextStatus,
                    NextCompletedAt, NextOwner, NextDelegation
<1>7. CASE e.type = "UPDATED" /\ e.assignees # None
  BY <1>1, <1>7 DEF Replay, Task, NextStatus, NextCompletedAt, NextOwner,
                    NextDelegation
<1>8. CASE e.type = "COMMENTED" \/ (e.type = "UPDATED" /\ e.assignees = None)
  BY <1>8 DEF Replay, Task, NextStatus, NextCompletedAt, NextOwner,
              NextDelegation
<1>. QED
  BY <1>1, <1>2, <1>3, <1>4, <1>5, <1>6, <1>7, <1>8

\* What a step of appendEvent's write does: nothing but end the request, if
\* the version has moved, and otherwise append the event and project it.
LEMMA CommitStep ==
  ASSUME TypeOK, JobsWellFormed, NEW r \in Requests, AppendCommit(r),
         NEW e, e = Head(job[r].queue), NEW s, s = job[r].snap
  PROVE  /\ job[r] # None /\ job[r] \in Job /\ job[r].step = "commit"
         /\ e \in Event /\ s \in Snapshot
         /\ e.type = "DELEGATED" => e.to # e.by
         /\ UNCHANGED <<viewedAt, failures>>
         /\ \A q \in Requests : job'[q] # None =>
              q # r \/ job'[q].step = "append"
         /\ \A q \in Requests \ {r} : job'[q] = job[q]
         /\ IF s.version = Len(log)
            THEN /\ log' = Append(log, e)
                 /\ task' = Projected(e, s)
            ELSE job'[r] = None /\ UNCHANGED <<task, log>>
<1>1. job[r] # None /\ job[r] \in Job /\ job[r].step = "commit"
  BY DEF AppendCommit, TypeOK
<1>2. Plan(job[r].set, job[r].queue) /\ s \in Snapshot
  BY <1>1 DEF JobsWellFormed
<1>3. e \in Event /\ (e.type = "DELEGATED" => e.to # e.by)
  BY <1>2, PlanSteps
<1>4. /\ UNCHANGED <<viewedAt, failures>>
      /\ IF s.version = Len(log)
         THEN /\ log' = Append(log, e)
              /\ task' = Projected(e, s)
         ELSE job' = [job EXCEPT ![r] = None] /\ UNCHANGED <<task, log>>
  BY DEF AppendCommit, VersionUnchanged, version, Projected
<1>. DEFINE j == [job[r] EXCEPT !.step = "append", !.snap = None,
                                !.queue = Tail(job[r].queue)]
<1>5. job' = [job EXCEPT ![r] = None] \/ job' = [job EXCEPT ![r] = j]
  BY DEF AppendCommit
<1>6. j.step = "append"
  BY <1>1 DEF Job
<1>. HIDE DEF j
<1>7. \A q \in Requests : job'[q] # None => q # r \/ job'[q].step = "append"
  BY <1>5, <1>6 DEF TypeOK
<1>8. \A q \in Requests \ {r} : job'[q] = job[q]
  BY <1>5 DEF TypeOK
<1>9. job' = [job EXCEPT ![r] = None] => job'[r] = None
  BY DEF TypeOK
<1>. QED
  BY <1>1, <1>2, <1>3, <1>4, <1>7, <1>8, <1>9

\* A write can only succeed with the delegation the task still has: the version
\* it was read at has not passed.
SnapshotsFresh ==
  \A r \in Requests : job[r] # None /\ job[r].step = "commit" =>
    /\ job[r].snap.version <= Len(log)
    /\ job[r].snap.version = Len(log) =>
         job[r].snap.delegation = task.delegation

\* The inductive invariant behind ReadModelReplaysLog.
ReadInv ==
  /\ TypeOK
  /\ JobsWellFormed
  /\ FromLog \in Task
  /\ SnapshotsFresh
  /\ ReadModelReplaysLog

\* A new task, also one that is saved and delegated at once, agrees with its
\* timeline.
LEMMA InitRead == Init => ReadInv
<1>. SUFFICES ASSUME Init PROVE ReadInv
  OBVIOUS
<1>1. TypeOK /\ JobsWellFormed
  BY InitType
<1>2. SnapshotsFresh
  BY DEF Init, SnapshotsFresh
<1>3. SavedTask({}) \in Task
  BY DEF SavedTask, Task
<1>4. CASE task = SavedTask({}) /\ log = <<>>
  <2>1. FromLog = task
    BY <1>4, ReplayedEmpty DEF FromLog
  <2>2. task.delegation = None
    BY <1>4 DEF SavedTask
  <2>. QED
    BY <1>1, <1>2, <1>3, <1>4, <2>1, <2>2 DEF ReadInv, ReadModelReplaysLog
<1>5. CASE \E u \in Users \ {Creator} :
          /\ log = <<Handover("DELEGATED", Creator, u)>>
          /\ task = [SavedTask({u}) EXCEPT
                      !.owner = u,
                      !.delegation = [to |-> u, by |-> Creator],
                      !.unread = [v \in Users |->
                         IF v \in Audience({u}) \ {Creator} THEN 1 ELSE 0]]
  <2>1. PICK u \in Users \ {Creator} :
          /\ log = <<Handover("DELEGATED", Creator, u)>>
          /\ task = [SavedTask({u}) EXCEPT
                      !.owner = u,
                      !.delegation = [to |-> u, by |-> Creator],
                      !.unread = [v \in Users |->
                         IF v \in Audience({u}) \ {Creator} THEN 1 ELSE 0]]
    BY <1>5
  <2>. DEFINE e == Handover("DELEGATED", Creator, u)
  <2>2. e \in Event
    BY NewEventType, UsersAssumption
  <2>3. e.type = "DELEGATED" /\ e.to = u /\ e.by = Creator
    BY DEF Handover, NewEvent
  <2>. HIDE DEF e
  <2>4. log = Append(<<>>, e) /\ <<>> \in Seq(Event)
    BY <2>1 DEF e
  <2>5. FromLog = Replay(SavedTask({}), e)
    BY <2>2, <2>4, ReplayedAppend, ReplayedEmpty DEF FromLog
  <2>6. FromLog = [SavedTask({}) EXCEPT !.owner = u, !.assignees = @ \cup {u},
                                        !.delegation = [to |-> u, by |-> Creator]]
    BY <2>3, <2>5 DEF Replay
  <2>7. FromLog \in Task
    BY <2>6, UsersAssumption DEF SavedTask, Task, Delegation
  <2>8. ReadModelReplaysLog
    BY <2>1, <2>6 DEF ReadModelReplaysLog, SavedTask
  <2>. QED
    BY <1>1, <1>2, <2>7, <2>8 DEF ReadInv
<1>. QED
  BY <1>4, <1>5 DEF Init

\* No step makes the task and its timeline disagree: in the commit the version
\* check makes the snapshot the delegation of the task, and elsewhere neither
\* the log nor these fields change.
LEMMA NextRead == ReadInv /\ [Next]_vars => ReadInv'
<1>. SUFFICES ASSUME ReadInv, [Next]_vars PROVE ReadInv'
  OBVIOUS
<1>1. TypeOK' /\ JobsWellFormed' /\ TypeOK /\ JobsWellFormed
  BY NextType DEF ReadInv
<1>. DEFINE Still == /\ log' = log
                     /\ task'.status = task.status
                     /\ task'.completedAt = task.completedAt
                     /\ task'.owner = task.owner
                     /\ task'.delegation = task.delegation
<1>2. ASSUME Still,
             \A r \in Requests : job'[r] # None /\ job'[r].step = "commit" =>
               \/ job'[r] = job[r]
               \/ /\ job'[r].snap.version = Len(log)
                  /\ job'[r].snap.delegation = task.delegation
      PROVE  ReadInv'
  <2>1. FromLog' = FromLog
    BY <1>2 DEF FromLog
  <2>2. SnapshotsFresh'
    <3>1. Len(log) \in Nat
      BY <1>1 DEF TypeOK
    <3>. QED
      BY <1>2, <3>1 DEF SnapshotsFresh, ReadInv
  <2>3. ReadModelReplaysLog'
    BY <1>2, <2>1 DEF ReadModelReplaysLog, ReadInv
  <2>. QED
    BY <1>1, <2>1, <2>2, <2>3 DEF ReadInv
<1>. HIDE DEF Still
<1>3. ASSUME NEW r \in Requests, Request(r, Sender[r]) PROVE ReadInv'
  <2>1. PICK set \in (SUBSET Users) \cup {None}, queue \in Seq(Event) :
          Begin(r, set, queue)
    BY <1>1, <1>3, RequestBegins
  <2>2. Still
    BY <2>1 DEF Begin, Still
  <2>. DEFINE j == [step |-> IF set = None THEN "append" ELSE "write",
                    set |-> set, queue |-> queue, snap |-> None]
  <2>3. j.step # "commit" /\ job' = [job EXCEPT ![r] = j]
    BY <2>1 DEF Begin
  <2>. HIDE DEF j
  <2>4. \A q \in Requests : job'[q] = job[q] \/ job'[q].step # "commit"
    BY <1>1, <2>3 DEF TypeOK
  <2>. QED
    BY <1>2, <2>2, <2>4
<1>4. ASSUME NEW r \in Requests, DirectWrite(r) PROVE ReadInv'
  <2>1. Still
    BY <1>1, <1>4 DEF DirectWrite, Still, TypeOK, Task
  <2>. DEFINE j == [job[r] EXCEPT !.step = "append"]
  <2>2. j.step # "commit" /\ job' = [job EXCEPT ![r] = j]
    BY <1>1, <1>4 DEF DirectWrite, TypeOK, Job
  <2>. HIDE DEF j
  <2>3. \A q \in Requests : job'[q] = job[q] \/ job'[q].step # "commit"
    BY <1>1, <2>2 DEF TypeOK
  <2>. QED
    BY <1>2, <2>1, <2>3
<1>5. ASSUME NEW r \in Requests, AppendRead(r) PROVE ReadInv'
  <2>. DEFINE s == [version |-> version, assignees |-> task.assignees,
                    delegation |-> task.delegation,
                    unread |-> {u \in Users : task.unread[u] > 0}]
              j == [job[r] EXCEPT !.step = "commit", !.snap = s]
  <2>1. Still
    BY <1>5 DEF AppendRead, Still
  <2>2. s.version = Len(log) /\ s.delegation = task.delegation
    BY DEF version
  <2>. HIDE DEF s
  <2>3. j.snap = s
    BY <1>1, <1>5 DEF AppendRead, TypeOK, Job
  <2>4. job' = [job EXCEPT ![r] = j] \/ job' = [job EXCEPT ![r] = None]
    BY <1>5 DEF AppendRead, s
  <2>. HIDE DEF j
  <2>5. \A q \in Requests : job'[q] = job[q] \/ job'[q] = None \/ job'[q].snap = s
    BY <1>1, <2>3, <2>4 DEF TypeOK
  <2>. QED
    BY <1>2, <2>1, <2>2, <2>5
<1>6. ASSUME NEW r \in Requests, AppendCommit(r) PROVE ReadInv'
  <2>. DEFINE e == Head(job[r].queue)
              s == job[r].snap
  <2>0. e = Head(job[r].queue) /\ s = job[r].snap
    OBVIOUS
  <2>. HIDE DEF e, s
  <2>1. /\ job[r] # None /\ job[r].step = "commit"
        /\ e \in Event /\ s \in Snapshot
        /\ e.type = "DELEGATED" => e.to # e.by
        /\ \A q \in Requests : job'[q] # None => q # r \/ job'[q].step = "append"
        /\ \A q \in Requests \ {r} : job'[q] = job[q]
        /\ IF s.version = Len(log)
            THEN /\ log' = Append(log, e)
                 /\ task' = Projected(e, s)
            ELSE job'[r] = None /\ UNCHANGED <<task, log>>
    BY <1>1, <1>6, <2>0, CommitStep
  <2>. USE DEF e, s
  <2>2. s.version = Len(log) => s.delegation = task.delegation
    BY <2>1 DEF ReadInv, SnapshotsFresh
  <2>. HIDE DEF e, s
  <2>3. CASE s.version # Len(log)
    <3>1. Still
      BY <2>1, <2>3 DEF Still
    <3>. QED
      BY <1>2, <2>1, <2>3, <3>1
  <2>4. CASE s.version = Len(log)
    <3>1. /\ task'.status = NextStatus(e)
          /\ task'.completedAt = NextCompletedAt(e)
          /\ task'.owner = NextOwner(e, s)
          /\ task'.delegation = NextDelegation(e)
      BY <1>1, <2>1, <2>4, ProjectionType
    <3>2. log \in Seq(Event) /\ log' = Append(log, e)
      BY <1>1, <2>1, <2>4 DEF TypeOK
    <3>3. FromLog' = Replay(FromLog, e)
      BY <2>1, <3>2, ReplayedAppend DEF FromLog
    <3>10. FromLog' \in Task
      BY <2>1, <3>3, ReplayType DEF ReadInv
    <3>4. /\ FromLog'.status = NextStatus(e)
          /\ FromLog'.completedAt = NextCompletedAt(e)
          /\ FromLog'.owner = NextOwner(e, s)
          /\ FromLog'.delegation = NextDelegation(e)
      BY <1>1, <2>1, <2>2, <2>4, <3>3, ReplayAgrees DEF ReadInv, ReadModelReplaysLog
    <3>5. NextDelegation(e) # None =>
            /\ NextOwner(e, s) = NextDelegation(e).to
            /\ NextDelegation(e).to # NextDelegation(e).by
      <4>1. task.delegation # None =>
              /\ task.owner = task.delegation.to
              /\ task.delegation.to # task.delegation.by
        BY DEF ReadInv, ReadModelReplaysLog
      <4>. QED
        BY <2>1, <4>1 DEF NextDelegation, NextOwner
    <3>6. ReadModelReplaysLog'
      BY <3>1, <3>4, <3>5 DEF ReadModelReplaysLog
    <3>7. Len(log) \in Nat /\ Len(log') = Len(log) + 1
      BY <2>1, <3>2
    <3>8. ASSUME NEW q \in Requests, job'[q] # None, job'[q].step = "commit"
          PROVE  /\ job'[q].snap.version <= Len(log')
                 /\ job'[q].snap.version # Len(log')
      <4>1. job'[q] = job[q]
        BY <2>1, <3>8
      <4>2. job[q].snap.version <= Len(log) /\ job[q].snap.version \in Nat
        BY <1>1, <3>8, <4>1 DEF ReadInv, SnapshotsFresh, JobsWellFormed, Snapshot
      <4>. QED
        BY <3>7, <4>1, <4>2
    <3>9. SnapshotsFresh'
      BY <3>8 DEF SnapshotsFresh
    <3>. QED
      BY <1>1, <3>6, <3>9, <3>10 DEF ReadInv
  <2>. QED
    BY <2>3, <2>4
<1>7. ASSUME NEW r \in Requests, Fail(r) PROVE ReadInv'
  <2>1. Still
    BY <1>7 DEF Fail, Still
  <2>2. \A q \in Requests : job'[q] = job[q] \/ job'[q] = None
    BY <1>1, <1>7 DEF Fail, TypeOK
  <2>. QED
    BY <1>2, <2>1, <2>2
<1>8. ASSUME NEW u \in Users, View(u) PROVE ReadInv'
  <2>1. Still /\ job' = job
    BY <1>1, <1>8 DEF View, Still, TypeOK, Task
  <2>. QED
    BY <1>2, <2>1
<1>9. CASE SoftDelete
  <2>1. Still /\ job' = job
    BY <1>1, <1>9 DEF SoftDelete, Still, TypeOK, Task
  <2>. QED
    BY <1>2, <2>1
<1>10. CASE UNCHANGED vars
  <2>1. Still /\ job' = job
    BY <1>10 DEF vars, Still
  <2>. QED
    BY <1>2, <2>1
<1>. QED
  BY <1>3, <1>4, <1>5, <1>6, <1>7, <1>8, <1>9, <1>10, UsersAssumption DEF Next

\* However requests interleave, the status, completion date, owner and
\* delegation of the task are what its timeline says, and an active delegation
\* belongs to the owner: appendEvent's version check makes computeProjection
\* work on the delegation that is there.
THEOREM ReadModelFollowsTimeline == Spec => []ReadModelReplaysLog
<1>1. ReadInv => ReadModelReplaysLog
  BY DEF ReadInv
<1>. QED
  BY <1>1, InitRead, NextRead, PTL DEF Spec

------------------------------------------------------------------------------
(* Unread counts *)

\* The number of events after the n-th that are not by u.
News(events, n, u) ==
  Cardinality({i \in (n + 1)..Len(events) : events[i].by # u})

\* One more event of somebody else is one more unread event.
LEMMA OneMoreUnread ==
  ASSUME NEW events \in Seq(Event), NEW e \in Event, NEW u,
         NEW n \in Nat, n <= Len(events)
  PROVE  News(Append(events, e), n, u)
         = News(events, n, u) + (IF e.by = u THEN 0 ELSE 1)
<1>. DEFINE m == Len(events)
            longer == Append(events, e)
            S == {i \in (n + 1)..m : events[i].by # u}
            T == {i \in (n + 1)..(m + 1) : longer[i].by # u}
<1>1. m \in Nat /\ Len(longer) = m + 1 /\ longer[m + 1] = e
      /\ \A i \in 1..m : longer[i] = events[i]
  OBVIOUS
<1>2. IsFiniteSet(S)
  <2>1. IsFiniteSet((n + 1)..m)
    BY <1>1, FS_Interval
  <2>. QED
    BY <2>1, FS_Subset
<1>. HIDE DEF m, longer
<1>3. T = IF e.by = u THEN S ELSE S \cup {m + 1}
  <2>1. \A i \in (n + 1)..m : longer[i] = events[i]
    BY <1>1
  <2>2. ASSUME NEW i PROVE i \in T <=> i \in S \/ (i = m + 1 /\ e.by # u)
    BY <1>1, <2>1 DEF m
  <2>. QED
    BY <2>2
<1>4. m + 1 \notin S
  BY <1>1
<1>. HIDE DEF S, T
<1>5. Cardinality(T) = Cardinality(S) + (IF e.by = u THEN 0 ELSE 1)
  <2>1. Cardinality(S) \in Nat
    BY <1>2, FS_CardinalityType
  <2>2. CASE e.by = u
    BY <1>3, <2>1, <2>2
  <2>3. CASE e.by # u
    <3>1. Cardinality(S \cup {m + 1}) = Cardinality(S) + 1
      BY <1>2, <1>4, FS_AddElement
    <3>. QED
      BY <1>3, <2>3, <3>1
  <2>. QED
    BY <2>2, <2>3
<1>. QED
  BY <1>1, <1>5 DEF S, T, longer, m, News

\* The inductive invariant behind UnreadIsExact.
UnreadInv ==
  /\ TypeOK
  /\ JobsWellFormed
  /\ \A u \in Users : viewedAt[u] <= Len(log)
  /\ UnreadIsExact

\* A task that was delegated when it was created is unread for everybody who
\* can see it but the creator.
LEMMA InitUnread == Init => UnreadInv
<1>. SUFFICES ASSUME Init PROVE UnreadInv
  OBVIOUS
<1>1. TypeOK /\ JobsWellFormed
  BY InitType
<1>2. \A u \in Users : viewedAt[u] = 0
  BY DEF Init
<1>3. \A u \in Users : viewedAt[u] <= Len(log)
  BY <1>1, <1>2 DEF TypeOK
<1>4. ASSUME NEW v \in Admins \cup {Creator}
      PROVE  task.unread[v] =
               Cardinality({i \in (viewedAt[v] + 1)..Len(log) : log[i].by # v})
  <2>1. v \in Users /\ viewedAt[v] = 0
    BY <1>2, <1>4, UsersAssumption
  <2>2. {i \in (0 + 1)..Len(<<>>) : <<>>[i].by # v} = {}
    OBVIOUS
  <2>3. CASE task = SavedTask({}) /\ log = <<>>
    <3>1. task.unread[v] = 0
      BY <2>1, <2>3 DEF SavedTask
    <3>. QED
      BY <2>1, <2>2, <2>3, <3>1, FS_EmptySet
  <2>4. CASE \E u \in Users \ {Creator} :
          /\ log = <<Handover("DELEGATED", Creator, u)>>
          /\ task = [SavedTask({u}) EXCEPT
                      !.owner = u,
                      !.delegation = [to |-> u, by |-> Creator],
                      !.unread = [w \in Users |->
                         IF w \in Audience({u}) \ {Creator} THEN 1 ELSE 0]]
    <3>1. PICK u \in Users \ {Creator} :
          /\ log = <<Handover("DELEGATED", Creator, u)>>
          /\ task = [SavedTask({u}) EXCEPT
                      !.owner = u,
                      !.delegation = [to |-> u, by |-> Creator],
                      !.unread = [w \in Users |->
                         IF w \in Audience({u}) \ {Creator} THEN 1 ELSE 0]]
      BY <2>4
    <3>. DEFINE e == Handover("DELEGATED", Creator, u)
    <3>2. e \in Event
      BY NewEventType, UsersAssumption
    <3>3. e.by = Creator
      BY DEF Handover, NewEvent
    <3>4. task.unread[v] = IF v = Creator THEN 0 ELSE 1
      BY <1>4, <2>1, <3>1 DEF SavedTask, Audience
    <3>. HIDE DEF e
    <3>5. log = <<e>> /\ Len(<<e>>) = 1 /\ <<e>>[1] = e
      BY <3>1 DEF e
    <3>6. {i \in (0 + 1)..Len(log) : log[i].by # v}
            = IF e.by = v THEN {} ELSE {1}
      BY <3>5
    <3>7. Cardinality({i \in (0 + 1)..Len(log) : log[i].by # v})
            = IF e.by = v THEN 0 ELSE 1
      BY <3>6, FS_EmptySet, FS_Singleton
    <3>. QED
      BY <2>1, <3>3, <3>4, <3>7
  <2>. QED
    BY <2>3, <2>4 DEF Init
<1>. QED
  BY <1>1, <1>3, <1>4 DEF UnreadInv, UnreadIsExact

\* An append counts for everybody who always sees the task, except its actor,
\* whatever snapshot it works on; a view starts over.
LEMMA NextUnreadExact == UnreadInv /\ [Next]_vars => UnreadInv'
<1>. SUFFICES ASSUME UnreadInv, [Next]_vars PROVE UnreadInv'
  OBVIOUS
<1>1. TypeOK' /\ JobsWellFormed' /\ TypeOK /\ JobsWellFormed
  BY NextType DEF UnreadInv
<1>2. ASSUME log' = log, viewedAt' = viewedAt, task'.unread = task.unread
      PROVE  UnreadInv'
  BY <1>1, <1>2 DEF UnreadInv, UnreadIsExact
<1>3. ASSUME NEW r \in Requests, Request(r, Sender[r]) PROVE UnreadInv'
  <2>1. PICK set \in (SUBSET Users) \cup {None}, queue \in Seq(Event) :
          Begin(r, set, queue)
    BY <1>1, <1>3, RequestBegins
  <2>. QED
    BY <1>2, <2>1 DEF Begin
<1>4. ASSUME NEW r \in Requests, DirectWrite(r) PROVE UnreadInv'
  <2>1. task'.unread = task.unread
    BY <1>1, <1>4 DEF DirectWrite, TypeOK, Task
  <2>. QED
    BY <1>2, <1>4, <2>1 DEF DirectWrite
<1>5. ASSUME NEW r \in Requests, AppendRead(r) PROVE UnreadInv'
  BY <1>2, <1>5 DEF AppendRead
<1>6. ASSUME NEW r \in Requests, AppendCommit(r) PROVE UnreadInv'
  <2>. DEFINE e == Head(job[r].queue)
              s == job[r].snap
  <2>1. e = Head(job[r].queue) /\ s = job[r].snap
    OBVIOUS
  <2>. HIDE DEF e, s
  <2>2. /\ e \in Event /\ s \in Snapshot /\ viewedAt' = viewedAt
        /\ IF s.version = Len(log)
            THEN log' = Append(log, e) /\ task' = Projected(e, s)
            ELSE UNCHANGED <<task, log>>
    BY <1>1, <1>6, <2>1, CommitStep
  <2>3. CASE s.version # Len(log)
    BY <1>2, <2>2, <2>3
  <2>4. CASE s.version = Len(log)
    <3>1. log \in Seq(Event) /\ log' = Append(log, e)
          /\ task'.unread = NextUnread(e, s)
      BY <1>1, <2>2, <2>4, ProjectionType DEF TypeOK
    <3>2. ASSUME NEW u \in Users
          PROVE  viewedAt[u] \in Nat /\ viewedAt[u] <= Len(log)
                 /\ task.unread[u] \in Nat
      BY <1>1 DEF UnreadInv, TypeOK, Task
    <3>3. Len(log) \in Nat /\ Len(log') = Len(log) + 1
      BY <2>2, <3>1
    <3>4. \A u \in Users : viewedAt'[u] <= Len(log')
      BY <2>2, <3>2, <3>3
    <3>5. ASSUME NEW u \in Admins \cup {Creator}
          PROVE  task'.unread[u] = Cardinality(
                   {i \in (viewedAt'[u] + 1)..Len(log') : log'[i].by # u})
      <4>1. u \in Users
        BY UsersAssumption
      <4>2. task'.unread[u] = task.unread[u] + (IF e.by = u THEN 0 ELSE 1)
        BY <3>1, <3>2, <4>1 DEF NextUnread, Audience
      <4>3. task.unread[u] = News(log, viewedAt[u], u)
        BY DEF UnreadInv, UnreadIsExact, News
      <4>4. News(log', viewedAt[u], u)
              = News(log, viewedAt[u], u) + (IF e.by = u THEN 0 ELSE 1)
        BY <2>2, <3>1, <3>2, <4>1, OneMoreUnread
      <4>. QED
        BY <2>2, <4>2, <4>3, <4>4 DEF News
    <3>. QED
      BY <1>1, <3>4, <3>5 DEF UnreadInv, UnreadIsExact
  <2>. QED
    BY <2>3, <2>4
<1>7. ASSUME NEW r \in Requests, Fail(r) PROVE UnreadInv'
  BY <1>2, <1>7 DEF Fail
<1>8. ASSUME NEW v \in Users, View(v) PROVE UnreadInv'
  <2>1. log' = log /\ Len(log) \in Nat
    BY <1>1, <1>8 DEF View, TypeOK
  <2>2. viewedAt' = [viewedAt EXCEPT ![v] = Len(log)]
        /\ task' = [task EXCEPT !.unread[v] = 0]
    BY <1>8 DEF View, version
  <2>3. task'.unread = [task.unread EXCEPT ![v] = 0]
    BY <1>1, <2>2 DEF TypeOK, Task
  <2>4. \A u \in Users : viewedAt'[u] <= Len(log')
    BY <1>1, <2>1, <2>2 DEF UnreadInv, TypeOK
  <2>5. ASSUME NEW u \in Admins \cup {Creator}
        PROVE  task'.unread[u] = Cardinality(
                 {i \in (viewedAt'[u] + 1)..Len(log') : log'[i].by # u})
    <3>1. u \in Users
      BY UsersAssumption
    <3>2. CASE u # v
      <4>1. task'.unread[u] = task.unread[u] /\ viewedAt'[u] = viewedAt[u]
        BY <1>1, <2>2, <2>3, <3>1, <3>2 DEF TypeOK, Task
      <4>. QED
        BY <2>1, <4>1 DEF UnreadInv, UnreadIsExact
    <3>3. CASE u = v
      <4>1. task'.unread[u] = 0 /\ viewedAt'[u] = Len(log)
        BY <1>1, <2>2, <2>3, <3>1, <3>3 DEF TypeOK, Task
      <4>2. {i \in (viewedAt'[u] + 1)..Len(log') : log'[i].by # u} = {}
        BY <2>1, <4>1
      <4>. QED
        BY <4>1, <4>2, FS_EmptySet
    <3>. QED
      BY <3>2, <3>3
  <2>. QED
    BY <1>1, <2>4, <2>5 DEF UnreadInv, UnreadIsExact
<1>9. CASE SoftDelete
  <2>1. task'.unread = task.unread
    BY <1>1, <1>9 DEF SoftDelete, TypeOK, Task
  <2>. QED
    BY <1>2, <1>9, <2>1 DEF SoftDelete
<1>10. CASE UNCHANGED vars
  BY <1>2, <1>10 DEF vars
<1>. QED
  BY <1>3, <1>4, <1>5, <1>6, <1>7, <1>8, <1>9, <1>10, UsersAssumption DEF Next

\* For admins and the creator the unread count is the number of events others
\* appended since the last view: the $inc of appendEvent and the $unset of
\* markTaskViewed never lose one another, however requests interleave or die.
THEOREM UnreadCounts == Spec => []UnreadIsExact
<1>1. UnreadInv => UnreadIsExact
  BY DEF UnreadInv
<1>. QED
  BY <1>1, InitUnread, NextUnreadExact, PTL DEF Spec

------------------------------------------------------------------------------
(* One request at a time *)

\* At most one request is at work.
Alone == \A r, q \in Requests : r = q

\* The next event of the request may follow in the timeline of the task.
FollowInv ==
  /\ TypeOK
  /\ JobsWellFormed
  /\ \A r \in Requests : job[r] # None => MayFollow(Head(job[r].queue))

\* Without competitors the guards that were checked when the request began
\* still hold when it appends.
LEMMA NextFollows ==
  ASSUME Alone, FollowInv, [Next]_vars
  PROVE  FollowInv'
<1>1. TypeOK' /\ JobsWellFormed' /\ TypeOK /\ JobsWellFormed
  BY NextType DEF FollowInv
<1>2. ASSUME task'.status = task.status, task'.delegation = task.delegation,
             \A r \in Requests : job'[r] # None =>
               job[r] # None /\ job'[r].queue = job[r].queue
      PROVE  FollowInv'
  BY <1>1, <1>2 DEF FollowInv, MayFollow
<1>3. ASSUME NEW r \in Requests, Request(r, Sender[r]) PROVE FollowInv'
  <2>1. PICK set \in (SUBSET Users) \cup {None}, queue \in Seq(Event) :
          MayFollow(Head(queue)) /\ Begin(r, set, queue)
    BY <1>1, <1>3, RequestBegins
  <2>2. \A q \in Requests : q = r
    BY DEF Alone
  <2>. DEFINE j == [step |-> IF set = None THEN "append" ELSE "write",
                    set |-> set, queue |-> queue, snap |-> None]
  <2>3. task' = task /\ job' = [job EXCEPT ![r] = j]
    BY <2>1 DEF Begin
  <2>4. job'[r].queue = queue
    BY <1>1, <2>3 DEF TypeOK
  <2>5. MayFollow(Head(queue))'
    BY <2>1, <2>3 DEF MayFollow
  <2>. QED
    BY <1>1, <2>2, <2>4, <2>5 DEF FollowInv
<1>4. ASSUME NEW r \in Requests, DirectWrite(r) PROVE FollowInv'
  <2>1. task'.status = task.status /\ task'.delegation = task.delegation
    BY <1>1, <1>4 DEF DirectWrite, TypeOK, Task
  <2>2. \A q \in Requests : job'[q] # None =>
               job[q] # None /\ job'[q].queue = job[q].queue
    BY <1>1, <1>4 DEF DirectWrite, TypeOK, Job
  <2>. QED
    BY <1>2, <2>1, <2>2
<1>5. ASSUME NEW r \in Requests, AppendRead(r) PROVE FollowInv'
  <2>1. task' = task
    BY <1>5 DEF AppendRead
  <2>. DEFINE j == [job[r] EXCEPT !.step = "commit",
                !.snap = [version |-> version, assignees |-> task.assignees,
                          delegation |-> task.delegation,
                          unread |-> {u \in Users : task.unread[u] > 0}]]
  <2>3. job' = [job EXCEPT ![r] = j] \/ job' = [job EXCEPT ![r] = None]
    BY <1>5 DEF AppendRead
  <2>4. job[r] # None /\ j.queue = job[r].queue
    BY <1>1, <1>5 DEF AppendRead, TypeOK, Job
  <2>. HIDE DEF j
  <2>2. \A q \in Requests : job'[q] # None =>
               job[q] # None /\ job'[q].queue = job[q].queue
    BY <1>1, <2>3, <2>4 DEF TypeOK
  <2>. QED
    BY <1>2, <2>1, <2>2
<1>6. ASSUME NEW r \in Requests, AppendCommit(r) PROVE FollowInv'
  <2>1. \A q \in Requests : q = r
    BY DEF Alone
  <2>2. job[r] # None /\ job[r] \in Job /\ Plan(job[r].set, job[r].queue)
    BY <1>1, <1>6 DEF AppendCommit, TypeOK, JobsWellFormed
  <2>3. CASE job' = [job EXCEPT ![r] = None]
    BY <1>1, <2>1, <2>3 DEF FollowInv, TypeOK
  <2>4. CASE Len(job[r].queue) # 1 /\
             job' = [job EXCEPT ![r] =
                       [job[r] EXCEPT !.step = "append", !.snap = None,
                                      !.queue = Tail(job[r].queue)]]
    <3>1. job'[r].queue = Tail(job[r].queue)
      BY <1>1, <2>2, <2>4 DEF TypeOK, Job
    <3>2. Head(Tail(job[r].queue)).type = "UPDATED"
      BY <2>2, <2>4, PlanSteps
    <3>3. MayFollow(Head(job[r].queue))'
      BY <3>1, <3>2 DEF MayFollow
    <3>. QED
      BY <1>1, <2>1, <3>3 DEF FollowInv
  <2>. QED
    BY <1>6, <2>3, <2>4 DEF AppendCommit
<1>7. ASSUME NEW r \in Requests, Fail(r) PROVE FollowInv'
  <2>1. task' = task /\ \A q \in Requests : job'[q] = job[q] \/ job'[q] = None
    BY <1>1, <1>7 DEF Fail, TypeOK
  <2>. QED
    BY <1>2, <2>1
<1>8. ASSUME NEW u \in Users, View(u) PROVE FollowInv'
  BY <1>1, <1>2, <1>8 DEF View, TypeOK, Task
<1>9. CASE SoftDelete
  BY <1>1, <1>2, <1>9 DEF SoftDelete, TypeOK, Task
<1>10. CASE UNCHANGED vars
  BY <1>2, <1>10 DEF vars
<1>. QED
  BY <1>3, <1>4, <1>5, <1>6, <1>7, <1>8, <1>9, <1>10, UsersAssumption DEF Next

\* With one request at a time the timeline is the one the documentation allows:
\* no hand-over of a completed task, no revocation without a delegation, no
\* second completion and no reopening of an open task.
THEOREM AloneLegal ==
  ASSUME Alone
  PROVE  Spec => TimelineLegal
<1>1. Init => FollowInv
  <2>1. Init => \A r \in Requests : job[r] = None
    BY DEF Init
  <2>. QED
    BY <2>1, InitType DEF FollowInv
<1>2. FollowInv /\ [Next]_vars => FollowInv'
  BY NextFollows
<1>3. FollowInv /\ [Next]_vars =>
        [/\ Appends({"DELEGATED", "TRANSFERRED"}) => task.status # "COMPLETED"
         /\ Appends({"REVOKED"}) => task.delegation # None
         /\ Appends({"COMPLETED"}) => task.status = "OPEN"
         /\ Appends({"REOPENED"}) => task.status = "COMPLETED"]_vars
  <2>. SUFFICES ASSUME FollowInv, [Next]_vars
       PROVE  /\ Appends({"DELEGATED", "TRANSFERRED"}) => task.status # "COMPLETED"
              /\ Appends({"REVOKED"}) => task.delegation # None
              /\ Appends({"COMPLETED"}) => task.status = "OPEN"
              /\ Appends({"REOPENED"}) => task.status = "COMPLETED"
    OBVIOUS
  <2>1. TypeOK /\ JobsWellFormed
    BY DEF FollowInv
  <2>2. CASE log' = log
    BY <2>2 DEF Appends
  <2>3. ASSUME NEW r \in Requests, AppendCommit(r), log' # log
        PROVE  MayFollow(Appended)
    <3>. DEFINE e == Head(job[r].queue)
                s == job[r].snap
    <3>1. e = Head(job[r].queue) /\ s = job[r].snap
      OBVIOUS
    <3>. HIDE DEF e, s
    <3>2. job[r] # None /\ e \in Event /\ log' = Append(log, e)
      BY <2>1, <2>3, <3>1, CommitStep
    <3>3. log \in Seq(Event)
      BY <2>1 DEF TypeOK
    <3>4. Appended = e
      BY <3>2, <3>3 DEF Appended
    <3>. QED
      BY <3>1, <3>2, <3>4 DEF FollowInv
  <2>4. log' = log \/ \E r \in Requests : AppendCommit(r)
    <3>1. \A r \in Requests : Request(r, Sender[r]) => log' = log
      <4>1. ASSUME NEW r \in Requests, Request(r, Sender[r]) PROVE log' = log
        <5>1. PICK set \in (SUBSET Users) \cup {None}, queue \in Seq(Event) :
                Begin(r, set, queue)
          BY <2>1, <4>1, RequestBegins
        <5>. QED
          BY <5>1 DEF Begin
      <4>. QED
        BY <4>1
    <3>2. \A r \in Requests : DirectWrite(r) \/ AppendRead(r) \/ Fail(r) => log' = log
      BY DEF DirectWrite, AppendRead, Fail
    <3>3. (\E r \in Requests : View(Sender[r])) \/ SoftDelete \/ UNCHANGED vars
            => log' = log
      BY DEF View, SoftDelete, vars
    <3>. QED
      BY <3>1, <3>2, <3>3 DEF Next
  <2>5. CASE log' # log /\ MayFollow(Appended)
    BY <2>5 DEF Appends, MayFollow
  <2>. QED
    BY <2>2, <2>3, <2>4, <2>5
<1>. QED
  BY <1>1, <1>2, <1>3, PTL DEF Spec, TimelineLegal

\* Nobody has an unread count who cannot see the task, and the assignees are
\* those of the timeline.
Settled ==
  /\ task.assignees = FromLog.assignees
  /\ \A u \in Users : task.unread[u] > 0 => u \in Audience(task.assignees)

\* The request has written assignees that the timeline does not have yet.
Ahead(r) == job[r] # None /\ job[r].set # None /\ job[r].step # "write"

\* The inductive invariant behind AssigneesInLog: while the request is ahead of
\* the timeline the assignees are those it will append, and a commit works on a
\* snapshot that is still true.
AssigneesInv ==
  /\ TypeOK
  /\ JobsWellFormed
  /\ FromLog \in Task
  /\ \A r \in Requests : job[r] # None /\ job[r].step = "commit" =>
       /\ job[r].snap.version = Len(log)
       /\ job[r].snap.assignees = task.assignees
       /\ \A u \in Users : task.unread[u] > 0 => u \in job[r].snap.unread
  /\ Live => \A r \in Requests : Ahead(r) => task.assignees = job[r].set
  /\ Live /\ (\A r \in Requests : ~Ahead(r)) => Settled

\* A new task has nothing to append and agrees with its timeline.
LEMMA InitAssignees == Init => AssigneesInv
<1>. SUFFICES ASSUME Init PROVE AssigneesInv
  OBVIOUS
<1>1. ReadInv
  BY InitRead
<1>2. \A r \in Requests : job[r] = None
  BY DEF Init
<1>3. Settled
  <2>1. CASE task = SavedTask({}) /\ log = <<>>
    <3>1. FromLog = task
      BY <2>1, ReplayedEmpty DEF FromLog
    <3>2. \A u \in Users : task.unread[u] = 0
      BY <2>1 DEF SavedTask
    <3>. QED
      BY <3>1, <3>2 DEF Settled
  <2>2. CASE \E u \in Users \ {Creator} :
          /\ log = <<Handover("DELEGATED", Creator, u)>>
          /\ task = [SavedTask({u}) EXCEPT
                      !.owner = u,
                      !.delegation = [to |-> u, by |-> Creator],
                      !.unread = [v \in Users |->
                         IF v \in Audience({u}) \ {Creator} THEN 1 ELSE 0]]
    <3>1. PICK u \in Users \ {Creator} :
          /\ log = <<Handover("DELEGATED", Creator, u)>>
          /\ task = [SavedTask({u}) EXCEPT
                      !.owner = u,
                      !.delegation = [to |-> u, by |-> Creator],
                      !.unread = [v \in Users |->
                         IF v \in Audience({u}) \ {Creator} THEN 1 ELSE 0]]
      BY <2>2
    <3>. DEFINE e == Handover("DELEGATED", Creator, u)
    <3>2. e \in Event
      BY NewEventType, UsersAssumption
    <3>3. e.type = "DELEGATED" /\ e.to = u
      BY DEF Handover, NewEvent
    <3>. HIDE DEF e
    <3>4. log = Append(<<>>, e) /\ <<>> \in Seq(Event)
      BY <3>1 DEF e
    <3>5. FromLog = Replay(SavedTask({}), e)
      BY <3>2, <3>4, ReplayedAppend, ReplayedEmpty DEF FromLog
    <3>6. SavedTask({}) \in Task /\ SavedTask({}).assignees = {}
      BY DEF SavedTask, Task
    <3>7. FromLog.assignees = {u}
      BY <3>2, <3>3, <3>5, <3>6, ReplayType DEF AddedAssignees
    <3>8. /\ task.assignees = {u}
          /\ task.unread = [v \in Users |->
               IF v \in Audience({u}) \ {Creator} THEN 1 ELSE 0]
      BY <3>1 DEF SavedTask
    <3>. QED
      BY <3>7, <3>8 DEF Settled
  <2>. QED
    BY <2>1, <2>2 DEF Init
<1>. QED
  BY <1>1, <1>2, <1>3 DEF AssigneesInv, ReadInv, Ahead

\* Without competitors, and if no request dies half-way, what a direct write
\* changes is what the last event of the request records.
LEMMA NextAssignees ==
  ASSUME Alone, MaxFailures = 0, AssigneesInv, [Next]_vars
  PROVE  AssigneesInv'
<1>1. TypeOK' /\ JobsWellFormed' /\ TypeOK /\ JobsWellFormed
  BY NextType DEF AssigneesInv
<1>2. \A r, q \in Requests : q = r
  BY DEF Alone
<1>3. ASSUME NEW r \in Requests, Request(r, Sender[r]) PROVE AssigneesInv'
  <2>1. /\ Live /\ Idle(r)
        /\ \E set \in (SUBSET Users) \cup {None}, queue \in Seq(Event) :
             Begin(r, set, queue)
    BY <1>1, <1>3, RequestBegins
  <2>2. PICK set \in (SUBSET Users) \cup {None}, queue \in Seq(Event) :
          Begin(r, set, queue)
    BY <2>1
  <2>. DEFINE j == [step |-> IF set = None THEN "append" ELSE "write",
                    set |-> set, queue |-> queue, snap |-> None]
  <2>3. UNCHANGED <<task, log>> /\ job' = [job EXCEPT ![r] = j]
    BY <2>2 DEF Begin
  <2>4. j.step # "commit" /\ (j.set # None => j.step = "write")
    OBVIOUS
  <2>. HIDE DEF j
  <2>5. \A q \in Requests : job[q] = None /\ job'[q] = j
    BY <1>1, <1>2, <2>1, <2>3 DEF TypeOK, Idle
  <2>6. (\A q \in Requests : ~Ahead(q)) /\ (\A q \in Requests : ~Ahead(q))'
    BY <2>4, <2>5 DEF Ahead
  <2>7. FromLog' = FromLog /\ Live' = Live /\ Settled' = Settled
    BY <2>3 DEF FromLog, Live, Settled
  <2>8. \A q \in Requests : job'[q].step # "commit"
    BY <2>4, <2>5
  <2>. QED
    BY <1>1, <2>1, <2>6, <2>7, <2>8 DEF AssigneesInv
<1>4. ASSUME NEW r \in Requests, DirectWrite(r) PROVE AssigneesInv'
  <2>. DEFINE j == [job[r] EXCEPT !.step = "append"]
  <2>1. job[r] \in Job /\ job[r] # None /\ job[r].step = "write"
        /\ job[r].set # None
    BY <1>1, <1>4 DEF DirectWrite, TypeOK, JobsWellFormed
  <2>2. j \in Job /\ j.step = "append" /\ j.set = job[r].set
    BY <2>1 DEF Job
  <2>3. log' = log /\ job' = [job EXCEPT ![r] = j]
    BY <1>4 DEF DirectWrite
  <2>. HIDE DEF j
  <2>4. \A q \in Requests : q = r /\ job'[q] = j /\ j # None
    BY <1>1, <1>2, <2>2, <2>3, JobAssumption DEF TypeOK
  <2>5. \A q \in Requests : Ahead(q)'
    BY <2>1, <2>2, <2>4 DEF Ahead
  <2>6. Live' => task'.assignees = job[r].set
    BY <1>1, <1>4 DEF DirectWrite, Live, TypeOK, Task
  <2>7. FromLog' = FromLog
    BY <2>3 DEF FromLog
  <2>. QED
    BY <1>1, <2>2, <2>4, <2>5, <2>6, <2>7 DEF AssigneesInv
<1>5. ASSUME NEW r \in Requests, AppendRead(r) PROVE AssigneesInv'
  <2>. DEFINE s == [version |-> version, assignees |-> task.assignees,
                    delegation |-> task.delegation,
                    unread |-> {u \in Users : task.unread[u] > 0}]
              j == [job[r] EXCEPT !.step = "commit", !.snap = s]
  <2>1. /\ job[r] \in Job /\ job[r] # None /\ job[r].step = "append"
        /\ UNCHANGED <<task, log>>
    BY <1>1, <1>5 DEF AppendRead, TypeOK
  <2>2. s.version = Len(log) /\ s.assignees = task.assignees
        /\ \A u \in Users : task.unread[u] > 0 => u \in s.unread
    BY DEF version
  <2>8. s \in Snapshot
    <3>1. task \in Task /\ Len(log) \in Nat
      BY <1>1 DEF TypeOK
    <3>. QED
      BY <3>1 DEF Task, Snapshot, version
  <2>. HIDE DEF s
  <2>3. j \in Job /\ j.step = "commit" /\ j.snap = s /\ j.set = job[r].set
    BY <2>1, <2>8 DEF Job
  <2>4. IF Live THEN job' = [job EXCEPT ![r] = j] ELSE job' = [job EXCEPT ![r] = None]
    BY <1>5 DEF AppendRead, s
  <2>. HIDE DEF j
  <2>5. FromLog' = FromLog /\ Live' = Live /\ Settled' = Settled
    BY <2>1 DEF FromLog, Live, Settled
  <2>6. CASE Live
    <3>1. \A q \in Requests : q = r /\ job'[q] = j
      BY <1>1, <1>2, <2>4, <2>6 DEF TypeOK
    <3>2. \A q \in Requests : Ahead(q)' => Ahead(q)
      BY <2>1, <2>3, <3>1 DEF Ahead
    <3>3. \A q \in Requests : Ahead(q) /\ j # None => Ahead(q)'
      BY <2>1, <2>3, <3>1 DEF Ahead
    <3>4. j # None
      BY <2>3, JobAssumption
    <3>. QED
      BY <1>1, <2>1, <2>2, <2>3, <2>5, <3>1, <3>2, <3>3, <3>4 DEF AssigneesInv
  <2>7. CASE ~Live
    <3>1. \A q \in Requests : job'[q] = None
      BY <1>1, <1>2, <2>4, <2>7 DEF TypeOK
    <3>. QED
      BY <1>1, <2>5, <2>7, <3>1 DEF AssigneesInv
  <2>. QED
    BY <2>6, <2>7
<1>6. ASSUME NEW r \in Requests, AppendCommit(r) PROVE AssigneesInv'
  <2>. DEFINE e == Head(job[r].queue)
              s == job[r].snap
              set == job[r].set
              queue == job[r].queue
              j == [job[r] EXCEPT !.step = "append", !.snap = None,
                                  !.queue = Tail(queue)]
  <2>1. e = Head(job[r].queue) /\ s = job[r].snap
    OBVIOUS
  <2>2. /\ job[r] # None /\ job[r] \in Job /\ job[r].step = "commit"
        /\ Plan(set, queue)
    BY <1>1, <1>6 DEF AppendCommit, TypeOK, JobsWellFormed
  <2>3. /\ Len(queue) # 1 => set # None /\ e.type \in {"COMPLETED", "REOPENED"}
                             /\ Tail(queue) \in Seq(Event)
        /\ Len(queue) = 1 => IF set = None THEN e.type # "UPDATED"
                             ELSE e.type = "UPDATED" /\ e.assignees = set
    BY <2>2, PlanSteps
  <2>4. /\ s.version = Len(log)
        /\ s.assignees = task.assignees
        /\ \A u \in Users : task.unread[u] > 0 => u \in s.unread
    BY <2>2 DEF AssigneesInv
  <2>5. job' = [job EXCEPT ![r] = IF Len(queue) = 1 THEN None ELSE j]
    BY <1>6, <2>4 DEF AppendCommit, VersionUnchanged, version
  <2>6. Len(queue) # 1 => j \in Job /\ j.step = "append" /\ j.set = set
    BY <2>2, <2>3 DEF Job
  <2>. HIDE DEF e, s, queue, j, set
  <2>7. e \in Event /\ s \in Snapshot /\ log' = Append(log, e)
        /\ task' = Projected(e, s)
    BY <1>1, <1>6, <2>1, <2>4, CommitStep
  <2>8. /\ task'.assignees = task.assignees \cup AddedAssignees(e)
        /\ task'.unread = NextUnread(e, s)
        /\ task'.deleted = task.deleted
    BY <1>1, <2>7, ProjectionType
  <2>9. FromLog' = Replay(FromLog, e) /\ FromLog \in Task
    BY <1>1, <2>7, ReplayedAppend DEF FromLog, TypeOK, AssigneesInv
  <2>10. /\ FromLog' \in Task
         /\ FromLog'.assignees =
              IF e.type = "UPDATED" /\ e.assignees # None THEN e.assignees
              ELSE FromLog.assignees \cup AddedAssignees(e)
    BY <2>7, <2>9, ReplayType
  <2>11. \A u \in Users : task'.unread[u] > 0 => u \in Audience(task'.assignees)
    <3>1. ASSUME NEW u \in Users,
                 u \notin Audience(task.assignees \cup AddedAssignees(e))
          PROVE  task'.unread[u] = 0
      <4>1. task.unread[u] \in Nat
        BY <1>1 DEF TypeOK, Task
      <4>. QED
        BY <2>4, <2>8, <3>1, <4>1 DEF NextUnread
    <3>. QED
      BY <2>8, <3>1
  <2>12. \A q \in Requests : q = r /\ job'[q] = IF Len(queue) = 1 THEN None ELSE j
    BY <1>1, <1>2, <2>5 DEF TypeOK
  <2>13. Live' = Live
    BY <2>8 DEF Live
  <2>14. e.type \in {"COMPLETED", "REOPENED", "UPDATED"} => AddedAssignees(e) = {}
    BY DEF AddedAssignees
  <2>15. CASE Len(queue) = 1
    <3>1. (\A q \in Requests : ~Ahead(q))' /\ \A q \in Requests : job'[q] = None
      BY <2>12, <2>15 DEF Ahead
    <3>2. Live => task'.assignees = FromLog'.assignees
      <4>1. CASE set = None
        <5>1. \A q \in Requests : ~Ahead(q)
          BY <1>2, <4>1 DEF Ahead, set
        <5>2. Live => task.assignees = FromLog.assignees
          BY <5>1 DEF AssigneesInv, Settled
        <5>. QED
          BY <2>3, <2>8, <2>10, <2>15, <4>1, <5>2
      <4>2. CASE set # None
        <5>1. Live => task.assignees = set
          BY <2>2, <4>2 DEF AssigneesInv, Ahead, set
        <5>. QED
          BY <2>3, <2>8, <2>10, <2>14, <2>15, <4>2, <5>1
      <4>. QED
        BY <4>1, <4>2
    <3>3. Live' => Settled'
      BY <2>11, <2>13, <3>2 DEF Settled
    <3>. QED
      BY <1>1, <2>10, <3>1, <3>3 DEF AssigneesInv
  <2>16. CASE Len(queue) # 1
    <3>1. set # None /\ j # None /\ j.step = "append" /\ j.set = set
          /\ task'.assignees = task.assignees
      BY <2>3, <2>6, <2>8, <2>14, <2>16, JobAssumption
    <3>2. \A q \in Requests : job'[q] = j
      BY <2>12, <2>16
    <3>3. \A q \in Requests : Ahead(q)'
      BY <3>1, <3>2 DEF Ahead
    <3>4. Live => task.assignees = set
      BY <2>2, <3>1 DEF AssigneesInv, Ahead, set
    <3>. QED
      BY <1>1, <2>10, <2>12, <2>13, <3>1, <3>2, <3>3, <3>4 DEF AssigneesInv
  <2>. QED
    BY <2>15, <2>16
<1>7. ASSUME NEW r \in Requests, Fail(r) PROVE AssigneesInv'
  BY <1>1, <1>7 DEF Fail, TypeOK
<1>8. ASSUME NEW u \in Users, View(u) PROVE AssigneesInv'
  <2>1. UNCHANGED <<log, job>> /\ task' = [task EXCEPT !.unread[u] = 0]
    BY <1>8 DEF View
  <2>2. /\ task'.assignees = task.assignees /\ task'.deleted = task.deleted
        /\ \A v \in Users : task'.unread[v] > 0 => task.unread[v] > 0
    BY <1>1, <2>1 DEF TypeOK, Task
  <2>3. FromLog' = FromLog /\ Live' = Live /\ (Settled => Settled')
    BY <2>1, <2>2 DEF FromLog, Live, Settled
  <2>4. \A q \in Requests : Ahead(q)' = Ahead(q)
    BY <2>1 DEF Ahead
  <2>. QED
    BY <1>1, <2>1, <2>2, <2>3, <2>4 DEF AssigneesInv
<1>9. CASE SoftDelete
  <2>1. /\ UNCHANGED <<log, job>> /\ ~Live'
        /\ task'.assignees = task.assignees /\ task'.unread = task.unread
    BY <1>1, <1>9 DEF SoftDelete, Live, TypeOK, Task
  <2>2. FromLog' = FromLog
    BY <2>1 DEF FromLog
  <2>. QED
    BY <1>1, <2>1, <2>2 DEF AssigneesInv
<1>10. CASE UNCHANGED vars
  <2>1. UNCHANGED <<task, log, job>>
    BY <1>10 DEF vars
  <2>2. FromLog' = FromLog /\ Live' = Live /\ Settled' = Settled
        /\ \A q \in Requests : Ahead(q)' = Ahead(q)
    BY <2>1 DEF FromLog, Live, Settled, Ahead
  <2>. QED
    BY <1>1, <2>1, <2>2 DEF AssigneesInv
<1>. QED
  BY <1>3, <1>4, <1>5, <1>6, <1>7, <1>8, <1>9, <1>10, UsersAssumption DEF Next

\* With one request at a time, none of which dies half-way, the assignees are
\* those of the timeline once nobody is at work, although a direct write sets
\* them before its event is appended, and only those who can see the task have
\* an unread count.
THEOREM AloneAssignees ==
  ASSUME Alone, MaxFailures = 0
  PROVE  Spec => []AssigneesInLog
<1>1. Init => AssigneesInv
  BY InitAssignees
<1>2. AssigneesInv /\ [Next]_vars => AssigneesInv'
  BY NextAssignees
<1>3. AssigneesInv => AssigneesInLog
  <2>. SUFFICES ASSUME AssigneesInv, Quiet PROVE Settled
    BY DEF AssigneesInLog, Settled
  <2>. QED
    BY DEF AssigneesInv, Quiet, Idle, Ahead
<1>. QED
  BY <1>1, <1>2, <1>3, PTL DEF Spec
====
