------------------------------ MODULE Reviews ------------------------------
(***************************************************************************)
(* Reviews after they are written (review.service.ts): who has read them,  *)
(* the badge that counts the unread complaints, and the complaint's        *)
(* resolution with its push to the administrators.  Every handler reads    *)
(* and then writes in requests of its own, so other requests run in        *)
(* between: the outlets a manager sees, the review's status and its        *)
(* deletion may all have changed when the write arrives.                   *)
(*                                                                         *)
(* Who is told of a new complaint, and when, is the module Complaints.     *)
(***************************************************************************)
EXTENDS Integers, FiniteSets

CONSTANTS
  Outlet,       \* the outlets
  Admin,        \* users with role ADMIN
  Manager,      \* users with role MANAGER
  Review,       \* reviews that may be written
  Request,      \* requests in flight
  PatchLimit    \* changes of outlets, and of a review by PATCH, in a behaviour

Person == Admin \cup Manager

Status == {"pending", "resolved", "dismissed"}

\* What a review holds, apart from its answers.
ReviewDoc == [stored : BOOLEAN, deleted : BOOLEAN, outlet : Outlet,
              complaint : BOOLEAN, status : Status,
              readBy : [Person -> 0..2]]

VARIABLES
  closed,     \* the soft-deleted outlets
  managed,    \* managed[o] is outlet o's managerIds
  profile,    \* profile[p] is user p's own list of outlets
  reviews,    \* reviews[r] is the stored review
  requests,   \* requests[q] is what the request q has read so far
  owed,       \* owed[r]: moves of r to RESOLVED by resolveComplaint whose
              \* push was neither sent nor lost
  patches     \* changes so far

vars == <<closed, managed, profile, reviews, requests, owed, patches>>

Idle == [step |-> "idle"]

RequestState ==
  {Idle}
    \cup [step : {"find", "mark"}, review : Review, person : Person, scope : SUBSET Outlet]
    \cup [step : {"tell", "save"}, review : Review]
    \cup [step : {"patch"}, review : Review, outlet : Outlet, complaint : BOOLEAN,
          status : Status]

TypeOK ==
  /\ closed \subseteq Outlet
  /\ managed \in [Outlet -> SUBSET Manager]
  /\ profile \in [Manager -> SUBSET Outlet]
  /\ reviews \in [Review -> ReviewDoc]
  /\ requests \in [Request -> RequestState]
  /\ owed \in [Review -> 0..Cardinality(Request)]
  /\ patches \in 0..PatchLimit

Init ==
  /\ closed = {}
  /\ managed = [o \in Outlet |-> {}]
  /\ profile = [p \in Manager |-> {}]
  /\ reviews = [r \in Review |->
       [stored |-> FALSE, deleted |-> FALSE, outlet |-> CHOOSE o \in Outlet : TRUE,
        complaint |-> FALSE, status |-> "pending", readBy |-> [p \in Person |-> 0]]]
  /\ requests = [q \in Request |-> Idle]
  /\ owed = [r \in Review |-> 0]
  /\ patches = 0

----------------------------------------------------------------------------
(* What a user may see, and the two counts of it.                          *)

Live(r) == reviews[r].stored /\ ~reviews[r].deleted

Open == Outlet \ closed

\* getBadgeScopeForUser; the empty set is scopeType 'none'.
BadgeScope(p) ==
  IF p \in Admin THEN Open ELSE profile[p] \cup {o \in Open : p \in managed[o]}

\* getManagerOutletIds: the user's own list, deleted outlets included, and
\* the live outlets that list the user.
ManagerOutlets(p) == profile[p] \cup {o \in Open : p \in managed[o]}

\* getUnreadCountsForUsers finds the same outlets on its own.
BatchScope(p) == IF p \in Admin THEN Open ELSE ManagerOutlets(p)

\* buildPendingBadgeMatch: no outlets means no filter on the outlet.
PendingIn(scope) ==
  {r \in Review : /\ Live(r)
                  /\ reviews[r].complaint
                  /\ reviews[r].status = "pending"
                  /\ scope # {} => reviews[r].outlet \in scope}

UnreadOf(p, found) == {r \in found : reviews[r].readBy[p] = 0}

\* getBadgeStatus().unreadCount, and the count pushes carry.
BadgeStatus(p) ==
  IF BadgeScope(p) = {} THEN {} ELSE UnreadOf(p, PendingIn(BadgeScope(p)))

UnreadCount(p) ==
  IF BatchScope(p) = {} THEN {} ELSE UnreadOf(p, PendingIn(BatchScope(p)))

\* findAll({isComplaint, complaintStatus: pending}): reviews of deleted
\* outlets are filtered out before they are counted.
Listed ==
  {r \in Review : /\ Live(r) /\ reviews[r].outlet \notin closed
                  /\ reviews[r].complaint /\ reviews[r].status = "pending"}

\* buildAccessibleReviewMatch.
Accessible(r, scope) ==
  Live(r) /\ (scope # {} => reviews[r].outlet \in scope)

----------------------------------------------------------------------------
(* The operations.                                                         *)

\* create: the review is stored in one insert, after the checks of the form's
\* required answers and of the table.
Create(r, o, complaint) ==
  /\ ~reviews[r].stored
  /\ reviews' = [reviews EXCEPT ![r].stored = TRUE, ![r].outlet = o,
                                ![r].complaint = complaint]
  /\ UNCHANGED <<closed, managed, profile, requests, owed, patches>>

\* markReviewAsRead, three requests to the database: the scope ...
BeginMarkRead(q, r, p) ==
  /\ requests[q] = Idle
  /\ BadgeScope(p) # {}
  /\ requests' = [requests EXCEPT ![q] =
       [step |-> "find", review |-> r, person |-> p, scope |-> BadgeScope(p)]]
  /\ UNCHANGED <<closed, managed, profile, reviews, owed, patches>>

\* ... the review, NotFoundException when it is not there ...
FindToMark(q) ==
  /\ requests[q].step = "find"
  /\ requests' = [requests EXCEPT ![q] =
       IF Accessible(@.review, @.scope) THEN [@ EXCEPT !.step = "mark"] ELSE Idle]
  /\ UNCHANGED <<closed, managed, profile, reviews, owed, patches>>

\* The update's filter: no entry of this user yet.
NotYetRead(r, p) == reviews[r].readBy[p] = 0

\* ... and the filtered $push.
Mark(q) ==
  LET m == requests[q] IN
  /\ m.step = "mark"
  /\ reviews' = IF Accessible(m.review, m.scope) /\ NotYetRead(m.review, m.person)
                  THEN [reviews EXCEPT ![m.review].readBy[m.person] = @ + 1]
                  ELSE reviews
  /\ requests' = [requests EXCEPT ![q] = Idle]
  /\ UNCHANGED <<closed, managed, profile, owed, patches>>

\* Only a change to RESOLVED is announced, not a re-send.
EveryResolution(previous, status) == status = "resolved"

Announced(previous, status) == status = "resolved" /\ previous # "resolved"

\* resolveComplaint: findOneAndUpdate answers the document as it was.  The
\* review need not be a complaint.  A review of a deleted outlet is written
\* and announced too; the answer is then 404, so clients send it again.
Resolve(q, r, status) ==
  /\ requests[q] = Idle
  /\ Live(r)
  /\ reviews' = [reviews EXCEPT ![r].status = status]
  /\ owed' = IF status = "resolved" /\ reviews[r].status # "resolved"
               THEN [owed EXCEPT ![r] = @ + 1] ELSE owed
  /\ requests' = IF Announced(reviews[r].status, status)
                   THEN [requests EXCEPT ![q] = [step |-> "tell", review |-> r]]
                   ELSE requests
  /\ UNCHANGED <<closed, managed, profile, patches>>

\* sendPushToUsers for the administrators.  A failure is logged, and a crash
\* of the process loses the push: either way it is not tried again.
Tell(q) ==
  /\ requests[q].step = "tell"
  /\ owed' = [owed EXCEPT ![requests[q].review] = @ - 1]
  /\ requests' = [requests EXCEPT ![q] = Idle]
  /\ UNCHANGED <<closed, managed, profile, reviews, patches>>

\* update (PATCH): the check that the review is live, and later the write,
\* whose filter is the id alone.
BeginUpdate(q, r, o, complaint, status) ==
  /\ requests[q] = Idle /\ Live(r) /\ patches < PatchLimit
  /\ patches' = patches + 1
  /\ requests' = [requests EXCEPT ![q] =
       [step |-> "patch", review |-> r, outlet |-> o, complaint |-> complaint,
        status |-> status]]
  /\ UNCHANGED <<closed, managed, profile, reviews, owed>>

Update(q) ==
  LET u == requests[q] IN
  /\ u.step = "patch"
  /\ reviews' = [reviews EXCEPT ![u.review].outlet = u.outlet,
                                ![u.review].complaint = u.complaint,
                                ![u.review].status = u.status]
  /\ requests' = [requests EXCEPT ![q] = Idle]
  /\ UNCHANGED <<closed, managed, profile, owed, patches>>

\* remove: find, then save() of the one field that changed.
BeginRemove(q, r) ==
  /\ requests[q] = Idle /\ Live(r)
  /\ requests' = [requests EXCEPT ![q] = [step |-> "save", review |-> r]]
  /\ UNCHANGED <<closed, managed, profile, reviews, owed, patches>>

Remove(q) ==
  /\ requests[q].step = "save"
  /\ reviews' = [reviews EXCEPT ![requests[q].review].deleted = TRUE]
  /\ requests' = [requests EXCEPT ![q] = Idle]
  /\ UNCHANGED <<closed, managed, profile, owed, patches>>

\* Outlets are closed and managers moved meanwhile (outlet.service.ts,
\* users.service.ts): either side of the relation may be the one that changes.
CloseOutlet(o) ==
  /\ o \in Open /\ patches < PatchLimit
  /\ closed' = closed \cup {o} /\ patches' = patches + 1
  /\ UNCHANGED <<managed, profile, reviews, requests, owed>>

SetManagers(o, m) ==
  /\ patches < PatchLimit
  /\ managed' = [managed EXCEPT ![o] = m] /\ patches' = patches + 1
  /\ UNCHANGED <<closed, profile, reviews, requests, owed>>

SetProfile(p, os) ==
  /\ patches < PatchLimit
  /\ profile' = [profile EXCEPT ![p] = os] /\ patches' = patches + 1
  /\ UNCHANGED <<closed, managed, reviews, requests, owed>>

Next ==
  \/ \E r \in Review, o \in Outlet, c \in BOOLEAN : Create(r, o, c)
  \/ \E q \in Request, r \in Review :
       \/ \E p \in Person : BeginMarkRead(q, r, p)
       \/ \E s \in Status : Resolve(q, r, s)
       \/ \E o \in Outlet, c \in BOOLEAN, s \in Status : BeginUpdate(q, r, o, c, s)
       \/ BeginRemove(q, r)
  \/ \E q \in Request : FindToMark(q) \/ Mark(q) \/ Tell(q) \/ Update(q) \/ Remove(q)
  \/ \E o \in Outlet : CloseOutlet(o) \/ \E m \in SUBSET Manager : SetManagers(o, m)
  \/ \E p \in Manager, os \in SUBSET Outlet : SetProfile(p, os)

Spec == Init /\ [][Next]_vars

----------------------------------------------------------------------------
(* Properties.                                                             *)

\* A complaint is announced as resolved exactly once for each time it became
\* resolved: two people resolving it at once, or one of them again after an
\* answer that was lost, do not push twice (resolveComplaint decides from the
\* document its own write replaced).
ResolvedOnce ==
  \A r \in Review :
    owed[r] = Cardinality({q \in Request : requests[q].step = "tell"
                                             /\ requests[q].review = r})

\* A user is in a review's readBy at most once, whichever requests of the user
\* run at once.
ReadOnce == \A r \in Review, p \in Person : reviews[r].readBy[p] <= 1

\* The badge a push carries is "the same number as getBadgeStatus().unreadCount":
\* the two functions look the outlets up separately and must go on agreeing.
BadgesAgree == \A p \in Person : UnreadCount(p) = BadgeStatus(p)

\* An administrator finds every review the badge counts: it is on the list of
\* pending complaints and markReviewAsRead accepts it, so the badge can be
\* cleared.  A manager always may mark it, and finds it on the list unless the
\* user's own list still holds an outlet that was deleted.
BadgeCanBeCleared ==
  \A p \in Person : \A r \in BadgeStatus(p) :
    /\ Accessible(r, BadgeScope(p))
    /\ r \in Listed \/ (p \in Manager /\ reviews[r].outlet \in profile[p] \cap closed)

============================================================================
