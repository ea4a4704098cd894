------------------------------ MODULE TaskEvents ------------------------------
(***************************************************************************)
(* The write protocol of TaskEventService.appendEvent for ONE task.        *)
(*                                                                         *)
(* appendEvent awaits the database several times: it reads the task,       *)
(* inserts an event numbered one above the version it read (the collection *)
(* has a unique index on (taskId, version)), and updates the read model    *)
(* only if it still carries that version.  Every await is a point where    *)
(* another request, or another server instance, may run, and where the     *)
(* request may die.  There is no transaction.                              *)
(*                                                                         *)
(* Also here, because they touch the same document: the roll-back of       *)
(* TaskService.create (a hard delete when the first delegation fails) and  *)
(* the soft delete of TaskService.remove.                                  *)
(*                                                                         *)
(* Event payloads are left out: TaskThread models what an event does to    *)
(* the read model.  skipProjection has no caller in the repository.        *)
(***************************************************************************)
EXTENDS Naturals, FiniteSets

CONSTANTS
  Requests,      \* concurrent requests; each may append any number of times
  Creator,       \* the request that is creating the task
  MaxVersion,    \* bound: no request starts at a version this high
  MaxFailures    \* bound: how many requests may die or lose the database

ASSUME RequestsAssumption == Creator \in Requests
ASSUME BoundsAssumption == MaxVersion \in Nat /\ MaxFailures \in Nat

VARIABLES
  exists,     \* the task document is in the collection
  deleted,    \* its isDeleted flag
  version,    \* its version
  events,     \* the taskevents collection, restricted to this task
  creating,   \* TaskService.create has saved the task, not yet delegated it
  pc,         \* where each request is
  seen,       \* the version each request read
  answer,     \* what the last appendEvent of each request returned
  failures    \* number of failures so far

taskVars == <<exists, deleted, version>>
vars == <<exists, deleted, version, events, creating, pc, seen, answer, failures>>

Event == [version : Nat, by : Requests]
EventOf(r) == [version |-> seen[r] + 1, by |-> r]

TypeOK ==
  /\ exists \in BOOLEAN
  /\ deleted \in BOOLEAN
  /\ version \in Nat
  /\ events \subseteq Event
  /\ creating \in BOOLEAN
  /\ pc \in [Requests -> {"idle", "read", "created", "cleanup", "rollback"}]
  /\ seen \in [Requests -> Nat]
  /\ answer \in [Requests -> {"none", "ok", "conflict", "notFound"}]
  /\ failures \in Nat

\* The task has just been saved; `creating` iff it has assignees, in which
\* case its creator still has to delegate it to the first of them.
Init ==
  /\ exists = TRUE
  /\ deleted = FALSE
  /\ version = 0
  /\ events = {}
  /\ creating \in BOOLEAN
  /\ pc = [r \in Requests |-> "idle"]
  /\ seen = [r \in Requests |-> 0]
  /\ answer = [r \in Requests |-> "none"]
  /\ failures = 0

------------------------------------------------------------------------------
(* The steps of appendEvent *)

\* Where a request goes when its appendEvent throws: the delegation made by
\* TaskService.create is rolled back, every other caller just answers.
AfterError(r) == IF creating /\ r = Creator THEN "rollback" ELSE "idle"

\* Mutant: the version is remembered one too low.
ReadTaskOffByOne(r) ==
  /\ pc[r] = "idle"
  /\ version < MaxVersion
  /\ exists /\ ~deleted
  /\ pc' = [pc EXCEPT ![r] = "read"]
  /\ seen' = [seen EXCEPT ![r] = version - 1]
  /\ answer' = [answer EXCEPT ![r] = "none"]
  /\ UNCHANGED <<taskVars, events, creating, failures>>

\* findOne({_id, isDeleted: false}) and getAdminIds(): nothing written yet.
ReadTask(r) ==
  /\ pc[r] = "idle"
  /\ version < MaxVersion
  /\ IF exists /\ ~deleted
       THEN /\ pc' = [pc EXCEPT ![r] = "read"]
            /\ seen' = [seen EXCEPT ![r] = version]
            /\ answer' = [answer EXCEPT ![r] = "none"]
       ELSE /\ pc' = [pc EXCEPT ![r] = AfterError(r)]
            /\ answer' = [answer EXCEPT ![r] = "notFound"]
            /\ UNCHANGED seen
  /\ UNCHANGED <<taskVars, events, creating, failures>>

\* Mutant: the (taskId, version) index is not unique.
NeverTaken(v) == FALSE

\* The (taskId, version) unique index lets one event per version in; the
\* loser gets E11000 and answers Conflict.
VersionTaken(v) == \E e \in events : e.version = v

CreateEvent(r) ==
  /\ pc[r] = "read"
  /\ IF VersionTaken(seen[r] + 1)
       THEN /\ pc' = [pc EXCEPT ![r] = AfterError(r)]
            /\ answer' = [answer EXCEPT ![r] = "conflict"]
            /\ UNCHANGED events
       ELSE /\ events' = events \cup {EventOf(r)}
            /\ pc' = [pc EXCEPT ![r] = "created"]
            /\ UNCHANGED answer
  /\ UNCHANGED <<taskVars, creating, seen, failures>>

\* Mutant: the read-model update also asks for isDeleted: false.
MatchesLiveTask(r) == exists /\ ~deleted /\ version = seen[r]

\* Mutant: a task whose version is 0 (or missing) is never matched.
MatchesVersionedTask(r) == exists /\ version = seen[r] /\ version > 0

\* The filter of the read-model update: the id and the version that was read,
\* NOT isDeleted.
ReadModelMatches(r) == exists /\ version = seen[r]

ApplyProjection(r) ==
  /\ pc[r] = "created"
  /\ IF ReadModelMatches(r)
       THEN /\ version' = version + 1
            /\ creating' = (creating /\ r # Creator)
            /\ answer' = [answer EXCEPT ![r] = "ok"]
            /\ pc' = [pc EXCEPT ![r] = "idle"]
       ELSE /\ pc' = [pc EXCEPT ![r] = "cleanup"]
            /\ UNCHANGED <<version, creating, answer>>
  /\ UNCHANGED <<exists, deleted, events, seen, failures>>

\* Mutant: the cleanup deletes by version range instead of by event id.
CleanupTooMuch(r) ==
  /\ pc[r] = "cleanup"
  /\ events' = {e \in events : e.version < seen[r]}
  /\ pc' = [pc EXCEPT ![r] = AfterError(r)]
  /\ answer' = [answer EXCEPT ![r] = "conflict"]
  /\ UNCHANGED <<taskVars, creating, seen, failures>>

\* Best-effort deleteOne of the event just created: it may fail and is not
\* retried.
CleanupEvent(r) ==
  /\ pc[r] = "cleanup"
  /\ events' \in {events \ {EventOf(r)}, events}
  /\ pc' = [pc EXCEPT ![r] = AfterError(r)]
  /\ answer' = [answer EXCEPT ![r] = "conflict"]
  /\ UNCHANGED <<taskVars, creating, seen, failures>>

------------------------------------------------------------------------------
(* The rest of what happens to the document *)

\* delegateTask rejects the first delegation before it reaches appendEvent
\* (the task is already completed, the target is the creator, ...).
RejectDelegation ==
  /\ creating
  /\ pc[Creator] = "idle"
  /\ pc' = [pc EXCEPT ![Creator] = "rollback"]
  /\ UNCHANGED <<taskVars, events, creating, seen, answer, failures>>

\* TaskService.create deletes the task it saved and rethrows.
RollbackCreate ==
  /\ pc[Creator] = "rollback"
  /\ exists' = FALSE
  /\ creating' = FALSE
  /\ pc' = [pc EXCEPT ![Creator] = "idle"]
  /\ UNCHANGED <<deleted, version, events, seen, answer, failures>>

\* TaskService.remove: updateOne({_id, isDeleted: false}, {isDeleted: true}).
SoftDelete ==
  /\ exists
  /\ ~deleted
  /\ deleted' = TRUE
  /\ UNCHANGED <<exists, version, events, creating, pc, seen, answer, failures>>

\* The process dies, or a database call throws, between two steps.  A dead
\* process runs no handler; a thrown error reaches the one of create.
Fail(r) ==
  /\ pc[r] # "idle"
  /\ failures < MaxFailures
  /\ failures' = failures + 1
  /\ \/ /\ pc' = [pc EXCEPT ![r] = "idle"]
        /\ creating' = (creating /\ r # Creator)
     \/ /\ pc[r] # "rollback"
        /\ pc' = [pc EXCEPT ![r] = AfterError(r)]
        /\ UNCHANGED creating
  /\ UNCHANGED <<taskVars, events, seen, answer>>

------------------------------------------------------------------------------

\* What the server does on its own once a request is under way.
Step(r) == CreateEvent(r) \/ ApplyProjection(r) \/ CleanupEvent(r)

Next ==
  \/ \E r \in Requests : ReadTask(r) \/ Step(r) \/ Fail(r)
  \/ RejectDelegation
  \/ RollbackCreate
  \/ SoftDelete

Spec == Init /\ [][Next]_vars

\* A request under way is run to its end; nobody is obliged to send one.
FairSpec ==
  /\ Spec
  /\ \A r \in Requests : WF_vars(Step(r))
  /\ WF_vars(RollbackCreate)

------------------------------------------------------------------------------
(* Properties *)

\* At most one event per version.
VersionsUnique ==
  \A e, f \in events : e.version = f.version => e = f

\* The read model has seen a gapless prefix of the log, and the log is at
\* most one event ahead of it.
LogCoversVersions ==
  /\ \A v \in 1..version : \E e \in events : e.version = v
  /\ \A e \in events : e.version \in 1..(version + 1)

\* The version stored in the Task document and the events collection agree in
\* every interleaving, although no transaction spans the two writes: this is
\* what the timeline and the version check of appendEvent rely on.
LogMatchesVersion == VersionsUnique /\ LogCoversVersions

\* The read-model update of appendEvent misses only when the document is gone:
\* the unique index, not the version filter, is what serialises writers, so
\* the cleanup branch never deletes an event that the read model has counted.
UpdateMissesOnlyRemovedTask ==
  \A r \in Requests : pc[r] = "cleanup" => ~exists

\* A request that got past the unique index holds the task: nobody else moves
\* the read model until it is done, and nobody else is past the index.
WriterHoldsVersion ==
  \A r \in Requests : pc[r] \in {"created", "cleanup"} =>
    /\ seen[r] = version
    /\ EventOf(r) \in events

\* What is proved inductive.
SeenNotAhead == \A r \in Requests : seen[r] <= version

IInv ==
  /\ TypeOK
  /\ VersionsUnique
  /\ LogCoversVersions
  /\ SeenNotAhead
  /\ WriterHoldsVersion
  /\ UpdateMissesOnlyRemovedTask

\* The two writes of appendEvent, seen through the committed part of the log,
\* are one atomic append of the abstract log: an event counted by the read
\* model is never deleted, renumbered or overwritten.
Committed == {e \in events : e.version <= version}

Log == INSTANCE TaskLog WITH head <- version, log <- Committed, present <- exists

ImplementsLog == Log!LogSpec

Refused(r, v) == answer[r] = "conflict" /\ seen[r] = v
Moved(v) == version > v \/ deleted \/ ~exists

\* appendEvent documents its ConflictException as "another request modified
\* the task first" (task-event.service.ts:142-143): whoever is refused at
\* version v sees the task move past v, or be deleted.
ConflictMeansModified ==
  \A r \in Requests : \A v \in 0..MaxVersion : Refused(r, v) ~> Moved(v)

\* The same as long as no process dies and no database call throws: requests
\* never refuse one another forever.
ConflictHasWinner ==
  \A r \in Requests : \A v \in 0..MaxVersion :
    Refused(r, v) ~> (Moved(v) \/ failures > 0)
==============================================================================
