------------------------------ MODULE TaskLists ------------------------------
(***************************************************************************)
(* Who finds a task where: the lists and the detail of task.service.ts,    *)
(* which know outlets and roles, and the unread badges of                  *)
(* task-view.service.ts, which know the visibility rule of                 *)
(* task-visibility.util.ts.  Every list judges each task by itself, so one *)
(* task stands for all.  The requests are atomic here (TaskThread has      *)
(* their interleavings), and every event an update appends has the same    *)
(* effect on the badges.                                                   *)
(***************************************************************************)
EXTENDS Integers, FiniteSets

CONSTANTS
  Admin,      \* users with the role admin
  Manager,    \* and with the role manager
  Outlet,
  NoOutlet,
  Nobody

Person == Admin \cup Manager

Task == [outlet : Outlet \cup {NoOutlet}, creator : Person, assignees : SUBSET Person,
         delegatedTo : Person \cup {Nobody}, status : {"OPEN", "COMPLETED"},
         recurring : BOOLEAN]

NoTask == [status |-> "none"]

VARIABLES
  task,       \* the task, if there is one
  unread,     \* the users with an entry in its unreadMap
  managers,   \* managerIds of the outlets
  linked,     \* the outlets on the users' profiles
  settled     \* neither these nor the task's outlet changed since it was created

vars == <<task, unread, managers, linked, settled>>

TypeOK ==
  /\ task \in Task \cup {NoTask}
  /\ unread \subseteq Person
  /\ managers \in [Outlet -> SUBSET Manager]
  /\ linked \in [Person -> SUBSET Outlet]
  /\ settled \in BOOLEAN

Init ==
  /\ task = NoTask /\ unread = {} /\ settled = TRUE
  /\ managers = [o \in Outlet |-> {}]
  /\ linked = [u \in Person |-> {}]

Live == task # NoTask

----------------------------------------------------------------------------
(* Rules.                                                                  *)

\* assertManagerOutletAccess; validateOutletAccess has the same rule.
HasOutletAccess(u, o) == (u \in Manager /\ o \in Outlet) => (u \in managers[o] \/ o \in linked[u])

AssigneesAllowed(o, assignees) ==
  o # NoOutlet =>
    \A a \in assignees : a \in managers[o] /\ (linked[a] = {} \/ o \in linked[a])

\* buildTaskVisibilityFilter, of a user who is no admin.
AssignedOnly(u) == u \in task.assignees

VisibleTo(u) == u \in task.assignees \/ u = task.creator

Audience(t) == Admin \cup t.assignees \cup {t.creator}

\* appendEvent: the audience but the actor has something new, and whoever is
\* no longer in it has nothing.
Noted(t, actor) == (unread \cap Audience(t)) \cup (Audience(t) \ {actor})

Append(t, actor) ==
  /\ task' = t
  /\ unread' = Noted(t, actor)

----------------------------------------------------------------------------
(* Writes.                                                                 *)

\* create: with assignees the task is delegated to the first of them, which
\* must not be its creator nor a completed task's; else it is not kept.
Create(u, o, assignees, first, status, recurring) ==
  /\ task = NoTask
  /\ o # NoOutlet => HasOutletAccess(u, o)
  /\ AssigneesAllowed(o, assignees)
  /\ LET t == [outlet |-> o, creator |-> u, assignees |-> assignees, delegatedTo |-> Nobody,
               status |-> status, recurring |-> recurring] IN
     IF assignees = {}
       THEN first = Nobody /\ task' = t /\ unread' = {}
       ELSE /\ first \in assignees \ {u} /\ status = "OPEN"
            /\ HasOutletAccess(first, o)
            /\ Append([t EXCEPT !.delegatedTo = first], u)
  /\ settled' = TRUE
  /\ UNCHANGED <<managers, linked>>

\* update.
MayUpdate(u) == Live /\ HasOutletAccess(u, task.outlet)

SetStatus(u, status) ==
  /\ MayUpdate(u) /\ task.status # status
  /\ Append([task EXCEPT !.status = status], u)
  /\ UNCHANGED <<managers, linked, settled>>

Assign(u, assignees) ==
  /\ MayUpdate(u) /\ task.assignees # assignees
  /\ task.status = "OPEN" /\ AssigneesAllowed(task.outlet, assignees)
  /\ Append([task EXCEPT !.assignees = assignees], u)
  /\ UNCHANGED <<managers, linked, settled>>

\* The assignees are not looked at again when the outlet alone changes.
MoveTask(u, o) ==
  /\ MayUpdate(u) /\ task.outlet # o
  /\ HasOutletAccess(u, o)
  /\ Append([task EXCEPT !.outlet = o], u)
  /\ settled' = FALSE
  /\ UNCHANGED <<managers, linked>>

\* delegateTask, reassignTask and clearDelegation.
Delegate(u, to) ==
  /\ Live /\ task.status = "OPEN" /\ u # to /\ HasOutletAccess(to, task.outlet)
  /\ Append([task EXCEPT !.delegatedTo = to, !.assignees = @ \cup {to}], u)
  /\ UNCHANGED <<managers, linked, settled>>

ClearDelegation(u) ==
  /\ Live /\ task.delegatedTo # Nobody
  /\ Append([task EXCEPT !.delegatedTo = Nobody], u)
  /\ UNCHANGED <<managers, linked, settled>>

\* A comment, or a file.
Comment(u) ==
  /\ Live
  /\ Append(task, u)
  /\ UNCHANGED <<managers, linked, settled>>

\* markTaskViewed and markMultipleTasksViewed.
View(u) ==
  /\ Live /\ unread' = unread \ {u}
  /\ UNCHANGED <<task, managers, linked, settled>>

Remove(u) ==
  /\ MayUpdate(u)
  /\ task' = NoTask /\ unread' = {}
  /\ UNCHANGED <<managers, linked, settled>>

\* Outlets get other managers, and managers other outlets.
SetManagers(o, set) ==
  /\ managers[o] # set
  /\ managers' = [managers EXCEPT ![o] = set]
  /\ settled' = (task = NoTask)
  /\ UNCHANGED <<task, unread, linked>>

SetLinked(m, set) ==
  /\ linked[m] # set
  /\ linked' = [linked EXCEPT ![m] = set]
  /\ settled' = (task = NoTask)
  /\ UNCHANGED <<task, unread, managers>>

Next ==
  \/ \E u \in Person :
       \/ \E o \in Outlet \cup {NoOutlet}, set \in SUBSET Person, first \in Person \cup {Nobody},
             status \in {"OPEN", "COMPLETED"}, recurring \in BOOLEAN :
            Create(u, o, set, first, status, recurring)
       \/ \E status \in {"OPEN", "COMPLETED"} : SetStatus(u, status)
       \/ \E set \in SUBSET Person : Assign(u, set)
       \/ \E o \in Outlet \cup {NoOutlet} : MoveTask(u, o)
       \/ \E to \in Person : Delegate(u, to)
       \/ ClearDelegation(u) \/ Comment(u) \/ View(u) \/ Remove(u)
  \/ \E o \in Outlet, set \in SUBSET Manager : SetManagers(o, set)
  \/ \E m \in Manager, set \in SUBSET Outlet : SetLinked(m, set)

Spec == Init /\ [][Next]_vars

----------------------------------------------------------------------------
(* Reads: is the task on the list of u?                                    *)

\* buildListMatchStages: all tasks; of an outlet; and those with an assignee.
InList(u) ==
  \/ u \in Admin
  \/ task.outlet # NoOutlet /\ HasOutletAccess(u, task.outlet)
  \/ u = task.delegatedTo
  \/ u \in task.assignees
  \/ u = task.creator

InListOfOutlet(u, o) == HasOutletAccess(u, o) /\ task.outlet = o

InListOfAssignee(u, a) ==
  CASE u \in Admin -> a \in task.assignees
    [] u \notin Admin /\ a = u -> InList(u) /\ VisibleTo(u)
    [] OTHER -> InList(u) /\ a \in task.assignees /\ VisibleTo(u)

\* The Tasks screen: all tasks for an admin, 'my tasks' for a manager.
OnScreen(u) == IF u \in Admin THEN InList(u) ELSE InListOfAssignee(u, u)

Segment ==
  IF task.status = "COMPLETED" THEN "done" ELSE IF task.recurring THEN "recurring" ELSE "open"

\* The filters the segments of the screen ask with.
OnSegment(u, segment) ==
  /\ OnScreen(u)
  /\ CASE segment = "open" -> task.status = "OPEN" /\ ~task.recurring
       [] segment = "recurring" -> task.status = "OPEN" /\ task.recurring
       [] segment = "done" -> task.status = "COMPLETED"

\* findOneTaskById.
MayOpen(u) == IF task.outlet # NoOutlet THEN HasOutletAccess(u, task.outlet)
              ELSE u \in Admin \/ VisibleTo(u)

\* getUnreadSummary, getNavCountsForUsers, getUnreadTaskIdsFiltered of the
\* screen, and getAggregatedUnreadCount (getUnreadCount, getUnreadTaskIds).
UnreadMatch(u) == u \in unread /\ (u \in Admin \/ VisibleTo(u))

InNav(u) == UnreadMatch(u) /\ Segment \in {"open", "recurring"}

InPushBadge(u) == UnreadMatch(u) /\ task.status = "OPEN"

InUnreadIds(u) == OnScreen(u) /\ u \in unread

InAggregate(u) == u \in unread

----------------------------------------------------------------------------
(* Properties.                                                             *)

\* The unread badges agree with one another and with the screen: the app's
\* nav bar and the badge on its icon count the same tasks, every segment's
\* badge counts tasks of that segment's list, and no counter counts a task the
\* user cannot see.
BadgesMatchLists ==
  Live => \A u \in Person :
    /\ InNav(u) <=> InPushBadge(u)
    /\ UnreadMatch(u) <=> InUnreadIds(u)
    /\ UnreadMatch(u) <=> InAggregate(u)
    /\ UnreadMatch(u) => OnSegment(u, Segment)

\* What is on the screen can be opened, although the list goes by assignees
\* and creator and the detail by outlets: until the task moves to another
\* outlet, or outlets and managers are linked otherwise.
ScreenOpens ==
  (Live /\ settled) => \A u \in Person : OnScreen(u) => MayOpen(u)

============================================================================
