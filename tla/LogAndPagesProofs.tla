--------------------------- MODULE LogAndPagesProofs ---------------------------
(***************************************************************************)
(* Proofs about the event log of a task (TaskEvents): for any requests,    *)
(* any number of failures and any bound on the version.  And about what is *)
(* computed from stored data (PagesAndFigures): for any calendar, plans,   *)
(* rows, deadlines, documents and pages.  The two share no definitions.    *)
(*                                                                         *)
(* Each component has an inductive invariant and a lemma that its steps    *)
(* keep it; the theorems at the end of the second half lift these to the   *)
(* composition.                                                            *)
(***************************************************************************)
EXTENDS TaskEvents, PagesAndFigures, FiniteSetTheorems, SequenceTheorems,
        NaturalsInduction, WellFoundedInduction, TLAPS

-------------------------------------------------------------------------------
(* The event log                                                           *)

\* The state TaskService.create saves has the right types.
LEMMA InitTypeOK == Init => TypeOK
<1> SUFFICES ASSUME Init PROVE TypeOK
  OBVIOUS
<1>1. exists \in BOOLEAN /\ deleted \in BOOLEAN /\ creating \in BOOLEAN
  BY DEF Init
<1>2. version \in Nat /\ failures \in Nat /\ events \subseteq Event
  BY DEF Init
<1>3. /\ pc \in [Requests -> {"idle", "read", "created", "cleanup", "rollback"}]
      /\ seen \in [Requests -> Nat]
      /\ answer \in [Requests -> {"none", "ok", "conflict", "notFound"}]
  BY DEF Init
<1>4. QED
  BY <1>1, <1>2, <1>3 DEF TypeOK

\* Every variable keeps its type through every step of appendEvent.
THEOREM TypeCorrect == Spec => []TypeOK
<1>1. Init => TypeOK
  BY InitTypeOK
<1>2. TypeOK /\ [Next]_vars => TypeOK'
  <2> SUFFICES ASSUME TypeOK, [Next]_vars PROVE TypeOK'
    OBVIOUS
  <2> USE DEF TypeOK
  <2>1. ASSUME NEW r \in Requests, ReadTask(r) PROVE TypeOK'
    BY <2>1 DEF ReadTask, AfterError, taskVars
  <2>2. ASSUME NEW r \in Requests, CreateEvent(r) PROVE TypeOK'
    BY <2>2 DEF CreateEvent, AfterError, EventOf, Event, taskVars
  <2>3. ASSUME NEW r \in Requests, ApplyProjection(r) PROVE TypeOK'
    <3>1. creating' \in BOOLEAN
      BY <2>3, Zenon DEF ApplyProjection
    <3>2. version' \in Nat
      BY <2>3 DEF ApplyProjection
    <3>3. QED
      BY <2>3, <3>1, <3>2, Zenon DEF ApplyProjection
  <2>4. ASSUME NEW r \in Requests, CleanupEvent(r) PROVE TypeOK'
    BY <2>4 DEF CleanupEvent, AfterError, taskVars
  <2>5. ASSUME NEW r \in Requests, Fail(r) PROVE TypeOK'
    <3>1. creating' \in BOOLEAN
      BY <2>5, Zenon DEF Fail
    <3>2. pc' \in [Requests -> {"idle", "read", "created", "cleanup", "rollback"}]
      BY <2>5 DEF Fail, AfterError
    <3>3. failures' \in Nat
      BY <2>5 DEF Fail
    <3>4. QED
      BY <2>5, <3>1, <3>2, <3>3, Zenon DEF Fail, taskVars
  <2>6. CASE RejectDelegation
    BY <2>6, RequestsAssumption DEF RejectDelegation, taskVars
  <2>7. CASE RollbackCreate
    BY <2>7, RequestsAssumption DEF RollbackCreate
  <2>8. CASE SoftDelete
    BY <2>8 DEF SoftDelete
  <2>9. CASE UNCHANGED vars
    BY <2>9 DEF vars, taskVars
  <2>10. QED
    BY <2>1, <2>2, <2>3, <2>4, <2>5, <2>6, <2>7, <2>8, <2>9 DEF Next, Step
<1>3. QED
  BY <1>1, <1>2, PTL DEF Spec

------------------------------------------------------------------------------
(* The inductive invariant *)

\* A step that leaves the versions, the events and the document alone, and
\* only takes requests out of their critical steps or lets one read the
\* current version, preserves everything.
LEMMA QuietStep ==
  ASSUME IInv, TypeOK', UNCHANGED <<exists, version, events>>,
         \A r \in Requests : pc'[r] \in {"created", "cleanup"} => pc'[r] = pc[r],
         \A r \in Requests : seen'[r] = seen[r]
                             \/ (seen'[r] = version /\ pc'[r] = "read")
  PROVE  IInv'
<1> USE DEF IInv
<1>1. VersionsUnique' /\ LogCoversVersions'
  BY DEF VersionsUnique, LogCoversVersions
<1>2. SeenNotAhead'
  BY DEF SeenNotAhead, TypeOK
<1>3. WriterHoldsVersion'
  BY DEF WriterHoldsVersion, EventOf
<1>4. UpdateMissesOnlyRemovedTask'
  BY DEF UpdateMissesOnlyRemovedTask
<1>5. QED
  BY <1>1, <1>2, <1>3, <1>4

\* Inserting an event: the unique index makes it the only one past the read
\* model, so its writer must have read the current version.
LEMMA CreateStep ==
  ASSUME IInv, TypeOK', NEW r \in Requests, CreateEvent(r)
  PROVE  IInv'
<1> USE DEF IInv
<1>1. CASE VersionTaken(seen[r] + 1)
  <2>1. UNCHANGED <<exists, version, events, seen>>
    BY <1>1 DEF CreateEvent, taskVars
  <2>2. \A q \in Requests : pc'[q] \in {"created", "cleanup"} => pc'[q] = pc[q]
    BY <1>1 DEF CreateEvent, AfterError, TypeOK
  <2>3. QED
    BY <2>1, <2>2, QuietStep
<1>2. CASE ~VersionTaken(seen[r] + 1)
  <2>1. /\ events' = events \cup {EventOf(r)}
        /\ pc' = [pc EXCEPT ![r] = "created"]
        /\ UNCHANGED <<exists, version, seen>>
    BY <1>2 DEF CreateEvent, taskVars
  <2>2. seen[r] = version
    <3>1. seen[r] \in Nat /\ version \in Nat /\ seen[r] <= version
      BY DEF TypeOK, SeenNotAhead
    <3>2. seen[r] + 1 \notin 1..version
      BY <1>2 DEF VersionTaken, LogCoversVersions
    <3>3. QED
      BY <3>1, <3>2
  <2>3. \A e \in events : e.version \in Nat /\ e.version # version + 1
    BY <1>2, <2>2 DEF VersionTaken, TypeOK, Event
  <2>4. EventOf(r).version = version + 1 /\ version \in Nat
    BY <2>2 DEF EventOf, TypeOK
  <2>5. VersionsUnique'
    BY <2>1, <2>3, <2>4 DEF VersionsUnique
  <2>6. LogCoversVersions'
    BY <2>1, <2>4 DEF LogCoversVersions
  <2>7. SeenNotAhead'
    BY <2>1 DEF SeenNotAhead
  <2>8. WriterHoldsVersion'
    BY <2>1, <2>2 DEF WriterHoldsVersion, EventOf, TypeOK
  <2>9. UpdateMissesOnlyRemovedTask'
    BY <2>1 DEF UpdateMissesOnlyRemovedTask, TypeOK
  <2>10. QED
    BY <2>5, <2>6, <2>7, <2>8, <2>9
<1>3. QED
  BY <1>1, <1>2

\* Two requests past the unique index would own the same version.
LEMMA OneWriter ==
  ASSUME IInv, NEW r \in Requests, NEW q \in Requests,
         pc[r] \in {"created", "cleanup"}, pc[q] \in {"created", "cleanup"}
  PROVE  r = q
<1>1. EventOf(r) \in events /\ EventOf(q) \in events /\ seen[r] = seen[q]
  BY DEF IInv, WriterHoldsVersion
<1>2. EventOf(r) = EventOf(q)
  BY <1>1 DEF IInv, VersionsUnique, EventOf
<1>3. QED
  BY <1>2 DEF EventOf

\* Updating the read model, or missing it because the document is gone.
LEMMA ApplyStep ==
  ASSUME IInv, TypeOK', NEW r \in Requests, ApplyProjection(r)
  PROVE  IInv'
<1> USE DEF IInv
<1>1. pc[r] = "created" /\ seen[r] = version /\ EventOf(r) \in events
  BY DEF ApplyProjection, WriterHoldsVersion
<1>2. UNCHANGED <<exists, events, seen>>
  BY DEF ApplyProjection
<1>3. CASE exists
  <2>1. version' = version + 1 /\ pc' = [pc EXCEPT ![r] = "idle"]
    BY <1>1, <1>3 DEF ApplyProjection, ReadModelMatches
  <2>2. version \in Nat /\ EventOf(r).version = version + 1
    BY <1>1 DEF TypeOK, EventOf
  <2>3. VersionsUnique'
    BY <1>2 DEF VersionsUnique
  <2>4. LogCoversVersions'
    BY <1>1, <1>2, <2>1, <2>2 DEF LogCoversVersions
  <2>5. SeenNotAhead'
    BY <1>2, <2>1, <2>2 DEF SeenNotAhead, TypeOK
  <2>6. \A q \in Requests : pc'[q] \notin {"created", "cleanup"}
    BY <1>1, <2>1, OneWriter DEF TypeOK
  <2>7. WriterHoldsVersion' /\ UpdateMissesOnlyRemovedTask'
    BY <2>6 DEF WriterHoldsVersion, UpdateMissesOnlyRemovedTask
  <2>8. QED
    BY <2>3, <2>4, <2>5, <2>7
<1>4. CASE ~exists
  <2>1. version' = version /\ pc' = [pc EXCEPT ![r] = "cleanup"]
    BY <1>4 DEF ApplyProjection, ReadModelMatches
  <2>2. VersionsUnique' /\ LogCoversVersions' /\ SeenNotAhead'
    BY <1>2, <2>1 DEF VersionsUnique, LogCoversVersions, SeenNotAhead
  <2>3. WriterHoldsVersion'
    BY <1>1, <1>2, <2>1 DEF WriterHoldsVersion, EventOf, TypeOK
  <2>4. UpdateMissesOnlyRemovedTask'
    BY <1>2, <1>4 DEF UpdateMissesOnlyRemovedTask
  <2>5. QED
    BY <2>2, <2>3, <2>4
<1>5. QED
  BY <1>3, <1>4

\* Deleting the event of an update that missed: nobody has counted it.
LEMMA CleanupStep ==
  ASSUME IInv, TypeOK', NEW r \in Requests, CleanupEvent(r)
  PROVE  IInv'
<1> USE DEF IInv
<1>1. /\ pc[r] = "cleanup" /\ seen[r] = version
      /\ events' \in {events \ {EventOf(r)}, events}
      /\ UNCHANGED <<exists, version, seen>>
  BY DEF CleanupEvent, WriterHoldsVersion, taskVars
<1>2. EventOf(r).version = version + 1 /\ version \in Nat
  BY <1>1 DEF EventOf, TypeOK
<1>3. VersionsUnique'
  BY <1>1 DEF VersionsUnique
<1>4. LogCoversVersions'
  BY <1>1, <1>2 DEF LogCoversVersions
<1>5. SeenNotAhead'
  BY <1>1 DEF SeenNotAhead
<1>6. \A q \in Requests : pc'[q] \notin {"created", "cleanup"}
  <2>1. pc' = [pc EXCEPT ![r] = AfterError(r)]
    BY DEF CleanupEvent
  <2>2. QED
    BY <1>1, <2>1, OneWriter DEF TypeOK, AfterError
<1>7. WriterHoldsVersion' /\ UpdateMissesOnlyRemovedTask'
  BY <1>6 DEF WriterHoldsVersion, UpdateMissesOnlyRemovedTask
<1>8. QED
  BY <1>3, <1>4, <1>5, <1>7

\* The inductive invariant: the log, the versions and the requests that are
\* past the unique index stay in step.
THEOREM Inductive == Spec => []IInv
<1>1. Init => IInv
  BY InitTypeOK DEF Init, IInv, VersionsUnique, LogCoversVersions, SeenNotAhead,
             WriterHoldsVersion, UpdateMissesOnlyRemovedTask
<1>2. TypeOK' /\ IInv /\ [Next]_vars => IInv'
  <2> SUFFICES ASSUME TypeOK', IInv, [Next]_vars PROVE IInv'
    OBVIOUS
  <2> USE DEF IInv
  <2>1. ASSUME NEW r \in Requests, ReadTask(r) PROVE IInv'
    <3>1. UNCHANGED <<exists, version, events>>
      BY <2>1 DEF ReadTask, taskVars
    <3>2. \A q \in Requests : pc'[q] \in {"created", "cleanup"} => pc'[q] = pc[q]
      BY <2>1 DEF ReadTask, AfterError, TypeOK
    <3>3. \A q \in Requests : seen'[q] = seen[q]
                              \/ (seen'[q] = version /\ pc'[q] = "read")
      BY <2>1 DEF ReadTask, TypeOK
    <3>4. QED
      BY <3>1, <3>2, <3>3, QuietStep
  <2>2. ASSUME NEW r \in Requests, Step(r) PROVE IInv'
    BY <2>2, CreateStep, ApplyStep, CleanupStep DEF Step
  <2>3. ASSUME NEW r \in Requests, Fail(r) PROVE IInv'
    <3>1. UNCHANGED <<exists, version, events, seen>>
      BY <2>3 DEF Fail, taskVars
    <3>2. \A q \in Requests : pc'[q] \in {"created", "cleanup"} => pc'[q] = pc[q]
      BY <2>3 DEF Fail, AfterError, TypeOK
    <3>3. QED
      BY <3>1, <3>2, QuietStep
  <2>4. CASE RejectDelegation
    <3>1. UNCHANGED <<exists, version, events, seen>>
      BY <2>4 DEF RejectDelegation, taskVars
    <3>2. \A q \in Requests : pc'[q] \in {"created", "cleanup"} => pc'[q] = pc[q]
      BY <2>4 DEF RejectDelegation, TypeOK
    <3>3. QED
      BY <3>1, <3>2, QuietStep
  <2>5. CASE RollbackCreate
    <3>1. UNCHANGED <<version, events, seen>> /\ exists' = FALSE
      BY <2>5 DEF RollbackCreate
    <3>2. \A q \in Requests : pc'[q] \in {"created", "cleanup"} => pc'[q] = pc[q]
      BY <2>5 DEF RollbackCreate, TypeOK
    <3>3. VersionsUnique' /\ LogCoversVersions' /\ SeenNotAhead'
      BY <3>1 DEF VersionsUnique, LogCoversVersions, SeenNotAhead
    <3>4. WriterHoldsVersion' /\ UpdateMissesOnlyRemovedTask'
      BY <3>1, <3>2 DEF WriterHoldsVersion, EventOf, UpdateMissesOnlyRemovedTask
    <3>5. QED
      BY <3>3, <3>4
  <2>6. CASE SoftDelete
    BY <2>6, QuietStep DEF SoftDelete
  <2>7. CASE UNCHANGED vars
    BY <2>7, QuietStep DEF vars, taskVars
  <2>8. QED
    BY <2>1, <2>2, <2>3, <2>4, <2>5, <2>6, <2>7 DEF Next
<1>3. QED
  BY <1>1, <1>2, TypeCorrect, PTL DEF Spec

------------------------------------------------------------------------------
(* What follows from it *)

\* The stored version and the events collection always agree.
THEOREM LogAgrees == Spec => []LogMatchesVersion
<1>1. IInv => LogMatchesVersion
  BY DEF IInv, LogMatchesVersion
<1>2. QED
  BY <1>1, Inductive, PTL

\* The cleanup branch of appendEvent is only taken for a removed task.
THEOREM MissOnlyWhenRemoved == Spec => []UpdateMissesOnlyRemovedTask
<1>1. IInv => UpdateMissesOnlyRemovedTask
  BY DEF IInv
<1>2. QED
  BY <1>1, Inductive, PTL

------------------------------------------------------------------------------
(* appendEvent implements the abstract log *)

\* A step that moves neither the version nor the document, and touches only
\* events past the version, is invisible in the abstract log.
LEMMA InvisibleStep ==
  ASSUME TypeOK, UNCHANGED <<exists, version>>, events' \subseteq Event,
         \A e \in Event : e.version <= version => (e \in events' <=> e \in events)
  PROVE  UNCHANGED <<version, Committed, exists>>
<1>1. Committed' = Committed
  BY DEF Committed, TypeOK
<1>2. QED
  BY <1>1

\* Every step of appendEvent is one abstract append or changes nothing the
\* abstract log shows.
LEMMA StepRefines ==
  ASSUME IInv, IInv', [Next]_vars
  PROVE  [Log!LogNext]_(Log!logVars)
<1> USE DEF IInv
<1>1. ASSUME NEW r \in Requests, CreateEvent(r)
      PROVE  UNCHANGED <<version, Committed, exists>>
  <2>1. UNCHANGED <<exists, version>>
    BY <1>1 DEF CreateEvent, taskVars
  <2>2. CASE events' = events
    BY <2>1, <2>2, InvisibleStep DEF TypeOK
  <2>3. CASE events' = events \cup {EventOf(r)} /\ pc' = [pc EXCEPT ![r] = "created"]
    <3>1. EventOf(r)' = EventOf(r) /\ pc'[r] = "created"
      BY <1>1, <2>3 DEF CreateEvent, EventOf, TypeOK
    <3>2. seen'[r] = version /\ version \in Nat /\ seen' = seen
      BY <1>1, <2>1, <3>1 DEF CreateEvent, WriterHoldsVersion, TypeOK
    <3>3. EventOf(r).version = version + 1
      BY <3>2 DEF EventOf
    <3>4. QED
      BY <2>1, <2>3, <3>2, <3>3, InvisibleStep DEF TypeOK
  <2>4. QED
    BY <1>1, <2>2, <2>3 DEF CreateEvent
<1>2. ASSUME NEW r \in Requests, ApplyProjection(r)
      PROVE  [Log!LogNext]_(Log!logVars)
  <2>1. /\ pc[r] = "created" /\ seen[r] = version /\ EventOf(r) \in events
        /\ UNCHANGED <<exists, events>>
    BY <1>2 DEF ApplyProjection, WriterHoldsVersion
  <2>2. CASE exists
    <3>1. version' = version + 1 /\ version \in Nat
      BY <1>2, <2>1, <2>2 DEF ApplyProjection, ReadModelMatches, TypeOK
    <3>2. EventOf(r) = [version |-> version + 1, by |-> r]
      BY <2>1 DEF EventOf
    <3>3. \A e \in events : e.version \in Nat
      BY DEF TypeOK, Event
    <3>4. \A e \in events : e.version = version + 1 => e = EventOf(r)
      BY <2>1, <3>2 DEF VersionsUnique
    <3>5. Committed' = Committed \cup {[version |-> version + 1, by |-> r]}
      BY <2>1, <3>1, <3>2, <3>3, <3>4 DEF Committed
    <3>6. Log!Commit(r)
      BY <2>1, <2>2, <3>1, <3>5 DEF Log!Commit
    <3>7. QED
      BY <3>6 DEF Log!LogNext
  <2>3. CASE ~exists
    <3>1. version' = version
      BY <1>2, <2>3 DEF ApplyProjection, ReadModelMatches
    <3>2. QED
      BY <2>1, <3>1 DEF Committed, Log!logVars
  <2>4. QED
    BY <2>2, <2>3
<1>3. ASSUME NEW r \in Requests, CleanupEvent(r)
      PROVE  UNCHANGED <<version, Committed, exists>>
  <2>1. /\ UNCHANGED <<exists, version>>
        /\ events' \in {events \ {EventOf(r)}, events}
        /\ seen[r] = version
    BY <1>3 DEF CleanupEvent, taskVars, WriterHoldsVersion
  <2>2. EventOf(r).version = version + 1 /\ version \in Nat
    BY <2>1 DEF EventOf, TypeOK
  <2>3. QED
    BY <2>1, <2>2, InvisibleStep DEF TypeOK
<1>4. ASSUME RollbackCreate
      PROVE  [Log!LogNext]_(Log!logVars)
  <2>1. UNCHANGED <<version, events>> /\ exists' = FALSE
    BY <1>4 DEF RollbackCreate
  <2>2. Committed' = Committed
    BY <2>1 DEF Committed
  <2>3. CASE exists
    BY <2>1, <2>2, <2>3 DEF Log!LogNext, Log!Discard
  <2>4. CASE ~exists
    BY <2>1, <2>2, <2>4 DEF Log!logVars, TypeOK
  <2>5. QED
    BY <2>3, <2>4
<1>5. ASSUME UNCHANGED <<exists, version, events>>
      PROVE  UNCHANGED <<version, Committed, exists>>
  BY <1>5 DEF Committed
<1>6. ASSUME NEW r \in Requests, ReadTask(r) \/ Fail(r)
      PROVE  UNCHANGED <<exists, version, events>>
  BY <1>6 DEF ReadTask, Fail, taskVars
<1>7. ASSUME RejectDelegation \/ SoftDelete \/ UNCHANGED vars
      PROVE  UNCHANGED <<exists, version, events>>
  BY <1>7 DEF RejectDelegation, SoftDelete, vars, taskVars
<1>8. QED
  BY <1>1, <1>2, <1>3, <1>4, <1>5, <1>6, <1>7 DEF Next, Step, Log!logVars

\* The two writes of appendEvent behave as one atomic append to a log whose
\* entries are numbered without a gap and never change.
THEOREM Refinement == Spec => ImplementsLog
<1>1. Init => Log!LogInit
  BY DEF Init, Log!LogInit, Committed
<1>2. IInv /\ IInv' /\ [Next]_vars => [Log!LogNext]_(Log!logVars)
  BY StepRefines
<1>3. QED
  BY <1>1, <1>2, Inductive, PTL DEF Spec, ImplementsLog, Log!LogSpec

-------------------------------------------------------------------------------
(* Functions defined from one number to the next                           *)

\* Induction over the naturals, for a set of them: a set that has 0 and with
\* each number its successor has them all.
LEMMA NatSetInduction ==
  ASSUME NEW S, 0 \in S, \A n \in Nat : n \in S => n + 1 \in S
  PROVE  Nat \subseteq S
<1>. SUFFICES ASSUME NEW m \in Nat, m \notin S PROVE FALSE
  OBVIOUS
<1>. DEFINE T == Nat \ S
<1>1. T \subseteq Nat /\ T # {}
  OBVIOUS
<1>2. IsWellFoundedOn(OpToRel(<, Nat), Nat)
  BY NatLessThanWellFounded
<1>. HIDE DEF T
<1>3. PICK x \in T : \A y \in T : <<y, x>> \notin OpToRel(<, Nat)
  BY <1>1, <1>2, WFMin
<1>. USE DEF T
<1>4. x \in Nat /\ x # 0 /\ x - 1 \in Nat
  OBVIOUS
<1>5. <<x - 1, x>> \in OpToRel(<, Nat)
  BY <1>4 DEF OpToRel
<1>6. x - 1 \in S
  BY <1>3, <1>4, <1>5
<1>7. (x - 1) + 1 \in S /\ (x - 1) + 1 = x
  BY <1>4, <1>6
<1>. QED
  BY <1>7

\* What holds at first and from each number to the next holds up to any number.
LEMMA StaysWithin ==
  ASSUME NEW S, NEW f, NEW n \in Nat, f[0] \in S,
         \A i \in 1..n : f[i - 1] \in S => f[i] \in S
  PROVE  f[n] \in S
<1>. DEFINE T == {m \in Nat : m <= n => f[m] \in S}
<1>1. 0 \in T
  OBVIOUS
<1>2. ASSUME NEW m \in Nat, m \in T PROVE m + 1 \in T
  <2>. SUFFICES ASSUME m + 1 <= n PROVE f[m + 1] \in S
    OBVIOUS
  <2>1. f[m] \in S /\ m + 1 \in 1..n /\ (m + 1) - 1 = m
    BY <1>2
  <2>. QED
    BY <2>1
<1>. HIDE DEF T
<1>3. Nat \subseteq T
  BY <1>1, <1>2, NatSetInduction
<1>. QED
  BY <1>3 DEF T

\* The steps from a number and the value before it to its value, and the values
\* they lead to up to a number.
Steps(S) == [Nat \X S -> S]

Iterates(f, S, z, step, n) ==
  /\ f \in [0..n -> S]
  /\ f[0] = z
  /\ \A i \in 1..n : f[i] = step[<<i, f[i - 1]>>]

\* However far one goes, there is a function whose first value and whose step
\* from one number to the next are the given ones.
LEMMA IterationExists ==
  ASSUME NEW S, NEW z \in S, NEW step \in Steps(S), NEW n \in Nat
  PROVE  \E f : Iterates(f, S, z, step, n)
<1>. DEFINE T == {m \in Nat : \E f : Iterates(f, S, z, step, m)}
<1>1. 0 \in T
  <2>. DEFINE f == [i \in 0..0 |-> z]
  <2>1. Iterates(f, S, z, step, 0)
    BY DEF Iterates
  <2>. QED
    BY <2>1
<1>2. ASSUME NEW m \in Nat, m \in T PROVE m + 1 \in T
  <2>1. PICK f : Iterates(f, S, z, step, m)
    BY <1>2
  <2>. DEFINE g == [i \in 0..(m + 1) |-> IF i = m + 1 THEN step[<<i, f[m]>>] ELSE f[i]]
  <2>2. f[m] \in S /\ step[<<m + 1, f[m]>>] \in S
    BY <2>1 DEF Iterates, Steps
  <2>3. g \in [0..(m + 1) -> S]
    BY <2>1, <2>2 DEF Iterates
  <2>4. \A i \in 0..m : g[i] = f[i]
    OBVIOUS
  <2>5. g[m + 1] = step[<<m + 1, f[m]>>]
    OBVIOUS
  <2>. HIDE DEF g
  <2>6. g[0] = z
    BY <2>1, <2>4 DEF Iterates
  <2>7. ASSUME NEW i \in 1..(m + 1) PROVE g[i] = step[<<i, g[i - 1]>>]
    <3>1. CASE i = m + 1
      BY <2>4, <2>5, <3>1
    <3>2. CASE i # m + 1
      BY <2>1, <2>4, <3>2 DEF Iterates
    <3>. QED
      BY <3>1, <3>2
  <2>. QED
    BY <2>3, <2>6, <2>7 DEF Iterates
<1>. HIDE DEF T
<1>3. Nat \subseteq T
  BY <1>1, <1>2, NatSetInduction
<1>. QED
  BY <1>3 DEF T

-------------------------------------------------------------------------------
(* The calendar                                                            *)

\* A set of numbers has a least one.
LEMMA LeastOf ==
  ASSUME NEW S, S \subseteq Nat, S # {}
  PROVE  \E x \in S : \A y \in S : x <= y
<1>1. IsWellFoundedOn(OpToRel(<, Nat), Nat)
  BY NatLessThanWellFounded
<1>2. PICK x \in S : \A y \in S : <<y, x>> \notin OpToRel(<, Nat)
  BY <1>1, WFMin
<1>3. ASSUME NEW y \in S PROVE x <= y
  <2>1. x \in Nat /\ y \in Nat
    OBVIOUS
  <2>2. ASSUME y < x PROVE FALSE
    <3>1. <<y, x>> \in OpToRel(<, Nat)
      BY <2>1, <2>2 DEF OpToRel
    <3>. QED
      BY <1>2, <3>1
  <2>. QED
    BY <2>1, <2>2
<1>. QED
  BY <1>3

Months == 1..Len(MonthLength)

\* The days before each month, as they follow from one another.
Calendar(f) ==
  /\ f \in [1..(Len(MonthLength) + 1) -> Nat]
  /\ f[1] = 0
  /\ \A m \in Months : f[m + 1] = f[m] + MonthLength[m]

LEMMA MonthsWhole ==
  /\ Len(MonthLength) \in Nat
  /\ Len(MonthLength) # 0
  /\ \A m \in Months : MonthLength[m] \in 1..31
  /\ \A m \in Months : MonthLength[m] \in Nat
<1>1. MonthLength \in Seq(1..31) /\ MonthLength # <<>>
  BY CalendarAssumption
<1>2. Len(MonthLength) \in Nat /\ Len(MonthLength) # 0
  BY <1>1, EmptySeq, LenProperties
<1>3. \A m \in Months : MonthLength[m] \in 1..31
  BY <1>1, ElementOfSeq DEF Months
<1>4. \A n \in 1..31 : n \in Nat
  OBVIOUS
<1>. QED
  BY <1>2, <1>3, <1>4, Zenon

\* There is such a function, and it is the one the model defines.
LEMMA CalendarExists == \E f : Calendar(f)
<1>. DEFINE L == Len(MonthLength)
            step == [p \in Nat \X Nat |->
                       p[2] + (IF p[1] \in Months THEN MonthLength[p[1]] ELSE 0)]
<1>1. L \in Nat /\ \A m \in Months : MonthLength[m] \in Nat
  BY MonthsWhole
<1>2. step \in Steps(Nat)
  <2>1. \A p \in Nat \X Nat :
          p[2] + (IF p[1] \in Months THEN MonthLength[p[1]] ELSE 0) \in Nat
    BY <1>1
  <2>. QED
    BY <2>1 DEF Steps
<1>3. \A i \in Nat, v \in Nat :
        step[<<i, v>>] = v + (IF i \in Months THEN MonthLength[i] ELSE 0)
  OBVIOUS
<1>. HIDE DEF step
<1>4. PICK f : Iterates(f, Nat, 0, step, L)
  BY <1>1, <1>2, IterationExists
<1>. DEFINE g == [m \in 1..(L + 1) |-> f[m - 1]]
<1>5. \A i \in 0..L : f[i] \in Nat
  BY <1>4 DEF Iterates
<1>6. \A m \in 1..(L + 1) : m - 1 \in 0..L /\ g[m] = f[m - 1]
  BY <1>1
<1>7. g \in [1..(L + 1) -> Nat]
  BY <1>5, <1>6
<1>8. g[1] = 0
  BY <1>1, <1>4 DEF Iterates
<1>9. ASSUME NEW m \in Months PROVE g[m + 1] = g[m] + MonthLength[m]
  <2>1. m \in 1..L /\ m \in Nat /\ m + 1 \in 1..(L + 1) /\ m \in 1..(L + 1) /\ (m + 1) - 1 = m
    BY <1>1 DEF Months
  <2>2. f[m] = step[<<m, f[m - 1]>>]
    BY <1>4, <2>1 DEF Iterates
  <2>3. f[m] = f[m - 1] + MonthLength[m]
    BY <1>3, <1>5, <1>6, <2>1, <2>2
  <2>. QED
    BY <1>6, <2>1, <2>3
<1>. HIDE DEF g
<1>. QED
  BY <1>7, <1>8, <1>9 DEF Calendar

\* From a calendar to the equation of the recursive definitions.
LEMMA CalendarEquation ==
  ASSUME NEW f, Calendar(f)
  PROVE  f = [m \in 1..(Len(MonthLength) + 1) |->
                IF m = 1 THEN 0 ELSE f[m - 1] + MonthLength[m - 1]]
<1>. DEFINE L == Len(MonthLength)
            g == [m \in 1..(L + 1) |-> IF m = 1 THEN 0 ELSE f[m - 1] + MonthLength[m - 1]]
<1>1. L \in Nat
  BY MonthsWhole
<1>2. f \in [1..(L + 1) -> Nat] /\ f[1] = 0
  BY DEF Calendar
<1>3. ASSUME NEW m \in 1..(L + 1) PROVE f[m] = g[m]
  <2>1. CASE m = 1
    BY <1>2, <2>1
  <2>2. CASE m # 1
    <3>1. m - 1 \in Months /\ (m - 1) + 1 = m
      BY <1>1, <2>2 DEF Months
    <3>. QED
      BY <2>2, <3>1 DEF Calendar
  <2>. QED
    BY <2>1, <2>2
<1>. QED
  BY <1>2, <1>3

LEMMA EquationCalendar ==
  ASSUME NEW f,
         f = [m \in 1..(Len(MonthLength) + 1) |->
                IF m = 1 THEN 0 ELSE f[m - 1] + MonthLength[m - 1]]
  PROVE  Calendar(f)
<1>. DEFINE L == Len(MonthLength)
<1>1. L \in Nat /\ L # 0 /\ \A m \in Months : MonthLength[m] \in Nat
  BY MonthsWhole
<1>2. f[1] = 0
  BY <1>1
<1>3. ASSUME NEW m \in Months PROVE f[m + 1] = f[m] + MonthLength[m]
  <2>1. m + 1 \in 1..(L + 1) /\ m + 1 # 1 /\ (m + 1) - 1 = m
    BY <1>1 DEF Months
  <2>. QED
    BY <2>1
<1>. DEFINE T == {k \in Nat : k <= L => f[k + 1] \in Nat}
<1>4. 0 \in T
  BY <1>2
<1>5. ASSUME NEW k \in Nat, k \in T PROVE k + 1 \in T
  <2>. SUFFICES ASSUME k + 1 <= L PROVE f[(k + 1) + 1] \in Nat
    OBVIOUS
  <2>1. k + 1 \in Months /\ k <= L
    BY <1>1 DEF Months
  <2>2. f[k + 1] \in Nat
    BY <1>5, <2>1
  <2>3. f[(k + 1) + 1] = f[k + 1] + MonthLength[k + 1] /\ MonthLength[k + 1] \in Nat
    BY <1>1, <1>3, <2>1
  <2>. PICK x \in Nat : x = f[k + 1]
    BY <2>2
  <2>. QED
    BY <2>3
<1>. HIDE DEF T
<1>6. Nat \subseteq T
  BY <1>4, <1>5, NatSetInduction
<1>7. ASSUME NEW m \in 1..(L + 1) PROVE f[m] \in Nat
  <2>1. m - 1 \in Nat /\ m - 1 <= L /\ (m - 1) + 1 = m
    BY <1>1
  <2>2. m - 1 \in T
    BY <1>6, <2>1
  <2>. QED
    BY <2>1, <2>2 DEF T
<1>8. DOMAIN f = 1..(L + 1)
  OBVIOUS
<1>9. f \in [1..(L + 1) -> Nat]
  <2>1. f = [m \in 1..(L + 1) |-> f[m]]
    OBVIOUS
  <2>. HIDE DEF L
  <2>. QED
    BY <1>7, <2>1
<1>. QED
  BY <1>2, <1>3, <1>9 DEF Calendar

LEMMA DaysBeforeMonths == Calendar(Recurring!DaysBefore)
<1>1. PICK f : Calendar(f)
  BY CalendarExists
<1>2. \E g : g = [m \in 1..(Len(MonthLength) + 1) |->
                   IF m = 1 THEN 0 ELSE g[m - 1] + MonthLength[m - 1]]
  BY <1>1, CalendarEquation
<1>3. Recurring!DaysBefore =
        [m \in 1..(Len(MonthLength) + 1) |->
           IF m = 1 THEN 0 ELSE Recurring!DaysBefore[m - 1] + MonthLength[m - 1]]
  BY <1>2 DEF Recurring!DaysBefore
<1>. QED
  BY <1>3, EquationCalendar

\* Later months begin later.
LEMMA CalendarGrows ==
  ASSUME NEW f, Calendar(f), NEW m \in 1..(Len(MonthLength) + 1),
         NEW n \in 1..(Len(MonthLength) + 1), m <= n
  PROVE  f[m] <= f[n]
<1>. DEFINE L == Len(MonthLength)
            T == {k \in Nat : m + k <= L + 1 => f[m] <= f[m + k]}
<1>1. L \in Nat /\ L # 0 /\ (\A x \in Months : MonthLength[x] \in Nat)
      /\ (\A x \in 1..(L + 1) : f[x] \in Nat)
  BY MonthsWhole DEF Calendar
<1>2. 0 \in T
  BY <1>1
<1>3. ASSUME NEW k \in Nat, k \in T PROVE k + 1 \in T
  <2>. SUFFICES ASSUME m + (k + 1) <= L + 1 PROVE f[m] <= f[m + (k + 1)]
    OBVIOUS
  <2>1. m + k \in Months /\ m + k <= L + 1 /\ m + (k + 1) = (m + k) + 1
    BY <1>1 DEF Months
  <2>2. f[m + (k + 1)] = f[m + k] + MonthLength[m + k]
    BY <2>1 DEF Calendar
  <2>3. f[m] <= f[m + k]
    BY <1>3, <2>1
  <2>4. f[m] \in Nat /\ f[m + k] \in Nat /\ MonthLength[m + k] \in Nat
    BY <1>1, <2>1 DEF Months
  <2>. QED
    BY <2>2, <2>3, <2>4
<1>. HIDE DEF T
<1>4. Nat \subseteq T
  BY <1>2, <1>3, NatSetInduction
<1>5. n - m \in Nat /\ m + (n - m) = n
  BY <1>1
<1>6. n - m \in T
  BY <1>4, <1>5
<1>. QED
  BY <1>1, <1>5, <1>6 DEF T

\* A day of the calendar is in one month.
LEMMA MonthOfDay ==
  ASSUME NEW f, Calendar(f), NEW d \in Nat, d < f[Len(MonthLength) + 1]
  PROVE  \E m \in Months :
           /\ f[m] <= d /\ d < f[m + 1]
           /\ \A n \in Months : f[n] <= d /\ d < f[n + 1] => n = m
<1>. DEFINE L == Len(MonthLength)
            S == {m \in Months : d < f[m + 1]}
<1>1. L \in Nat /\ L # 0 /\ \A x \in 1..(L + 1) : f[x] \in Nat
  BY MonthsWhole DEF Calendar
<1>2. L \in S
  BY <1>1 DEF Months
<1>3. S \subseteq Nat
  BY DEF Months
<1>4. PICK m \in S : \A n \in S : m <= n
  BY <1>2, <1>3, LeastOf
<1>5. m \in Months /\ d < f[m + 1]
  OBVIOUS
<1>6. f[m] <= d
  <2>1. CASE m = 1
    BY <2>1 DEF Calendar
  <2>2. CASE m # 1
    <3>1. m - 1 \in Months /\ (m - 1) + 1 = m /\ ~(m <= m - 1)
      BY <1>1, <1>5, <2>2 DEF Months
    <3>2. m - 1 \notin S
      BY <1>4, <3>1
    <3>3. f[m] \in Nat
      BY <1>1, <1>5 DEF Months
    <3>. QED
      BY <3>1, <3>2, <3>3
  <2>. QED
    BY <2>1, <2>2
<1>7. ASSUME NEW n \in Months, f[n] <= d, d < f[n + 1] PROVE n = m
  <2>1. m <= n
    BY <1>4, <1>7
  <2>2. m + 1 \in 1..(L + 1) /\ n \in 1..(L + 1) /\ m \in Nat /\ n \in Nat
    BY <1>1, <1>5 DEF Months
  <2>3. m < n => f[m + 1] <= f[n]
    BY <2>2, CalendarGrows
  <2>4. f[m + 1] \in Nat /\ f[n] \in Nat
    BY <1>1, <2>2
  <2>. QED
    BY <1>5, <1>7, <2>1, <2>2, <2>3, <2>4
<1>. HIDE DEF S
<1>. QED
  BY <1>5, <1>6, <1>7

-------------------------------------------------------------------------------
(* Sequences                                                               *)

LEMMA SeqOfLength ==
  ASSUME NEW D, NEW n \in Nat, NEW f \in [1..n -> D]
  PROVE  f \in Seq(D) /\ Len(f) = n
BY DEF Seq

\* Where the elements of two joined sequences stand.
Joined(a, b, c) ==
  /\ Len(a) \in Nat /\ Len(b) \in Nat /\ Len(c) = Len(a) + Len(b)
  /\ \A i \in 1..Len(c) :
       \/ i \in 1..Len(a) /\ c[i] = a[i]
       \/ i - Len(a) \in 1..Len(b) /\ c[i] = b[i - Len(a)]
  /\ \A i \in 1..Len(a) : i \in 1..Len(c) /\ c[i] = a[i]
  /\ \A i \in 1..Len(b) : i + Len(a) \in 1..Len(c) /\ c[i + Len(a)] = b[i]

LEMMA JoinedWhole ==
  ASSUME NEW S, NEW a \in Seq(S), NEW b \in Seq(S)
  PROVE  a \o b \in Seq(S) /\ Joined(a, b, a \o b)
<1>. DEFINE c == a \o b
            m == Len(a)
            n == Len(b)
<1>1. m \in Nat /\ n \in Nat
  BY LenProperties
<1>2. /\ c \in Seq(S) /\ Len(c) = m + n
      /\ \A i \in 1..(m + n) : c[i] = IF i <= m THEN a[i] ELSE b[i - m]
  BY ConcatProperties
<1>. HIDE DEF c, m, n
<1>3. ASSUME NEW i \in 1..(m + n)
      PROVE  \/ i \in 1..m /\ c[i] = a[i]
             \/ i - m \in 1..n /\ c[i] = b[i - m]
  BY <1>1, <1>2
<1>4. ASSUME NEW i \in 1..m PROVE i \in 1..(m + n) /\ c[i] = a[i]
  BY <1>1, <1>2
<1>5. ASSUME NEW i \in 1..n PROVE i + m \in 1..(m + n) /\ c[i + m] = b[i]
  <2>. DEFINE k == i + m
  <2>1. k \in 1..(m + n) /\ ~(k <= m) /\ k - m = i
    BY <1>1
  <2>. HIDE DEF k
  <2>2. c[k] = b[i]
    BY <1>2, <2>1
  <2>. QED
    BY <2>1, <2>2 DEF k
<1>. QED
  BY <1>1, <1>2, <1>3, <1>4, <1>5 DEF Joined, c, m, n

\* Two sequences without repetition that have nothing in common join to one
\* without, and to one that has what they have.
LEMMA JoinedOnce ==
  ASSUME NEW a, NEW b, NEW c, Joined(a, b, c),
         \A i, j \in 1..Len(a) : a[i] = a[j] => i = j,
         \A i, j \in 1..Len(b) : b[i] = b[j] => i = j,
         \A i \in 1..Len(a), j \in 1..Len(b) : a[i] # b[j]
  PROVE  \A i, j \in 1..Len(c) : c[i] = c[j] => i = j
<1>. SUFFICES ASSUME NEW i \in 1..Len(c), NEW j \in 1..Len(c), c[i] = c[j]
     PROVE  i = j
  OBVIOUS
<1>1. \/ i \in 1..Len(a) /\ c[i] = a[i]
      \/ i - Len(a) \in 1..Len(b) /\ c[i] = b[i - Len(a)]
  BY DEF Joined
<1>2. \/ j \in 1..Len(a) /\ c[j] = a[j]
      \/ j - Len(a) \in 1..Len(b) /\ c[j] = b[j - Len(a)]
  BY DEF Joined
<1>3. i = j \/ i - Len(a) = j - Len(a)
  BY <1>1, <1>2
<1>. QED
  BY <1>3 DEF Joined

Held(s) == {s[i] : i \in 1..Len(s)}

LEMMA JoinedRange ==
  ASSUME NEW a, NEW b, NEW c, Joined(a, b, c)
  PROVE  Held(c) = Held(a) \cup Held(b)
<1>1. ASSUME NEW i \in 1..Len(c)
      PROVE  c[i] \in {a[k] : k \in 1..Len(a)} \cup {b[k] : k \in 1..Len(b)}
  <2>1. CASE i \in 1..Len(a) /\ c[i] = a[i]
    BY <2>1
  <2>2. CASE i - Len(a) \in 1..Len(b) /\ c[i] = b[i - Len(a)]
    BY <2>2
  <2>. QED
    BY <2>1, <2>2 DEF Joined
<1>2. ASSUME NEW i \in 1..Len(a) PROVE a[i] \in {c[k] : k \in 1..Len(c)}
  BY DEF Joined
<1>3. ASSUME NEW i \in 1..Len(b) PROVE b[i] \in {c[k] : k \in 1..Len(c)}
  BY DEF Joined
<1>. QED
  BY <1>1, <1>2, <1>3 DEF Held

-------------------------------------------------------------------------------
(* Recurrence                                                              *)

Today == Recurring!DateParts(Recurring!Now)

ThisMonth == Today.month

ThisDay == Today.day

ThisLength == MonthLength[ThisMonth]

\* The instants of a day are in that day; where it is in its month.
LEMMA DayParts ==
  ASSUME NEW d \in 1..Recurring!LastDay, NEW i \in Int, Recurring!IstDay(i) = d,
         NEW p, p = Recurring!DateParts(i)
  PROVE  /\ p.month \in Months
         /\ p.day = d - Recurring!DaysBefore[p.month]
         /\ p.day \in 1..MonthLength[p.month]
         /\ \A n \in Months :
              /\ Recurring!DaysBefore[n] < d
              /\ d <= Recurring!DaysBefore[n] + MonthLength[n]
              => n = p.month
<1>. DEFINE f == Recurring!DaysBefore
            In(m) == f[m] < d /\ d <= f[m] + MonthLength[m]
<1>1. Calendar(f)
  BY DaysBeforeMonths
<1>2. \A m \in Months : f[m] \in Nat /\ MonthLength[m] \in Nat /\ f[m + 1] = f[m] + MonthLength[m]
  BY <1>1, MonthsWhole DEF Calendar, Months
<1>3. f[Len(MonthLength) + 1] \in Nat
  BY <1>1, MonthsWhole DEF Calendar
<1>4. d - 1 \in Nat /\ d - 1 < f[Len(MonthLength) + 1] /\ d \in Nat
  BY <1>3 DEF Recurring!LastDay
<1>. HIDE DEF f
<1>5. PICK m \in Months :
        /\ f[m] <= d - 1 /\ d - 1 < f[m + 1]
        /\ \A n \in Months : f[n] <= d - 1 /\ d - 1 < f[n + 1] => n = m
  BY <1>1, <1>4, MonthOfDay
<1>6. \A n \in Months : In(n) <=> (f[n] <= d - 1 /\ d - 1 < f[n + 1])
  BY <1>2, <1>4
<1>7. In(m) /\ \A n \in Months : In(n) => n = m
  BY <1>5, <1>6
<1>8. p.month = (CHOOSE x \in Months : In(x)) /\ p.day = d - f[p.month]
  BY DEF Recurring!DateParts, Months, f
<1>9. p.month = m
  BY <1>7, <1>8
<1>10. p.day \in 1..MonthLength[m]
  BY <1>2, <1>4, <1>7, <1>8, <1>9
<1>. QED
  BY <1>7, <1>8, <1>9, <1>10 DEF f

\* The cron's instant is the start of the day.
LEMMA NowIsToday ==
  ASSUME today \in Nat
  PROVE  /\ Recurring!Now \in Int
         /\ Recurring!IstDay(Recurring!Now) = today
         /\ Recurring!IstDayStart(Recurring!Now) = Recurring!Now
         /\ Recurring!IstDayEnd(Recurring!Now) = Recurring!Now + 47
         /\ \A i \in Int : Recurring!IstDay(i) = today
                             <=> Recurring!Now <= i /\ i <= Recurring!Now + 47
<1>1. Recurring!Now = today * 48 - 11
  BY DEF Recurring!Now, Recurring!HalfHours, Recurring!IstOffset
<1>2. \A i \in Int : Recurring!IstDay(i) = (i + 11) \div 48
  BY DEF Recurring!IstDay, Recurring!HalfHours, Recurring!IstOffset
<1>3. Recurring!Now \in Int
  BY <1>1
<1>4. \A i \in Int : (i + 11) \div 48 = today <=> today * 48 - 11 <= i /\ i <= today * 48 - 11 + 47
  OBVIOUS
<1>5. Recurring!IstDay(Recurring!Now) = today
  BY <1>1, <1>2, <1>3, <1>4
<1>6. Recurring!IstDayStart(Recurring!Now) = Recurring!Now
  BY <1>1, <1>5 DEF Recurring!IstDayStart, Recurring!HalfHours, Recurring!IstOffset
<1>7. Recurring!IstDayEnd(Recurring!Now) = Recurring!Now + 47
  BY <1>1, <1>6 DEF Recurring!IstDayEnd, Recurring!HalfHours
<1>. QED
  BY <1>1, <1>2, <1>3, <1>4, <1>5, <1>6, <1>7

LEMMA TodayParts ==
  ASSUME today \in 1..Recurring!LastDay
  PROVE  /\ ThisMonth \in Months
         /\ ThisDay = today - Recurring!DaysBefore[ThisMonth]
         /\ ThisDay \in 1..ThisLength
         /\ ThisLength \in 1..31
         /\ \A n \in Months :
              /\ Recurring!DaysBefore[n] < today
              /\ today <= Recurring!DaysBefore[n] + MonthLength[n]
              => n = ThisMonth
<1>1. today \in Nat
  BY DaysBeforeMonths, MonthsWhole DEF Recurring!LastDay, Calendar
<1>2. Recurring!Now \in Int /\ Recurring!IstDay(Recurring!Now) = today
  BY <1>1, NowIsToday
<1>3. \A p : p = Recurring!DateParts(Recurring!Now) =>
        /\ p.month \in Months
        /\ p.day = today - Recurring!DaysBefore[p.month]
        /\ p.day \in 1..MonthLength[p.month]
        /\ \A n \in Months :
             /\ Recurring!DaysBefore[n] < today
             /\ today <= Recurring!DaysBefore[n] + MonthLength[n]
             => n = p.month
  BY <1>2, DayParts
<1>. QED
  BY <1>3, MonthsWhole DEF ThisMonth, ThisDay, ThisLength, Today

\* From one day to the next.
LEMMA DayAfter ==
  ASSUME today \in 1..Recurring!LastDay, today < Recurring!LastDay, today' = today + 1
  PROVE  /\ ThisMonth' \in Months
         /\ IF ThisDay = ThisLength THEN ThisDay' = 1
            ELSE ThisMonth' = ThisMonth /\ ThisDay' = ThisDay + 1
<1>. DEFINE f == Recurring!DaysBefore
<1>1. Calendar(f)
  BY DaysBeforeMonths
<1>2. Recurring!LastDay \in Nat
  BY <1>1, MonthsWhole DEF Recurring!LastDay, Calendar
<1>3. today' \in 1..Recurring!LastDay /\ today' \in Nat /\ today \in Nat
  BY <1>2
<1>4. Recurring!Now' = today' * 48 - 11
  BY DEF Recurring!Now, Recurring!HalfHours, Recurring!IstOffset
<1>5. Recurring!Now' \in Int /\ Recurring!IstDay(Recurring!Now') = today'
  <2>1. Recurring!IstDay(Recurring!Now') = (Recurring!Now' + 11) \div 48
    BY DEF Recurring!IstDay, Recurring!HalfHours, Recurring!IstOffset
  <2>. QED
    BY <1>3, <1>4, <2>1
<1>6. \A p : p = Recurring!DateParts(Recurring!Now') =>
        /\ p.month \in Months
        /\ p.day = today' - f[p.month]
        /\ p.day \in 1..MonthLength[p.month]
        /\ \A n \in Months : f[n] < today' /\ today' <= f[n] + MonthLength[n] => n = p.month
  BY <1>3, <1>5, DayParts
<1>. DEFINE m == ThisMonth
            n == ThisMonth'
<1>7. /\ n \in Months
      /\ ThisDay' = today' - f[n]
      /\ ThisDay' \in 1..MonthLength[n]
      /\ \A k \in Months : f[k] < today' /\ today' <= f[k] + MonthLength[k] => k = n
  BY <1>6 DEF ThisMonth, ThisDay, Today
<1>8. /\ m \in Months
      /\ ThisDay = today - f[m]
      /\ ThisDay \in 1..ThisLength
      /\ ThisLength = MonthLength[m]
  BY TodayParts DEF ThisLength
<1>9. \A k \in Months : f[k] \in Nat /\ MonthLength[k] \in Nat /\ f[k + 1] = f[k] + MonthLength[k]
  BY <1>1, MonthsWhole DEF Calendar, Months
<1>. HIDE DEF f, m, n
<1>10. CASE ThisDay = ThisLength
  <2>1. today = f[m + 1] /\ f[m + 1] \in Nat
    BY <1>3, <1>8, <1>9, <1>10
  <2>2. m # Len(MonthLength)
    BY <2>1 DEF Recurring!LastDay, f
  <2>3. m + 1 \in Months
    BY <1>8, <2>2, MonthsWhole DEF Months
  <2>4. MonthLength[m + 1] \in 1..31
    BY <2>3, MonthsWhole
  <2>5. m + 1 = n
    BY <1>3, <1>7, <2>1, <2>3, <2>4
  <2>6. ThisDay' = 1
    BY <1>3, <1>7, <2>1, <2>5
  <2>. QED
    BY <1>7, <1>10, <2>6 DEF n
<1>11. CASE ThisDay # ThisLength
  <2>1. f[m] < today' /\ today' <= f[m] + MonthLength[m]
    BY <1>3, <1>8, <1>9, <1>11
  <2>2. m = n
    BY <1>7, <1>8, <2>1
  <2>3. ThisDay' = ThisDay + 1
    BY <1>3, <1>7, <1>8, <1>9, <2>2
  <2>. QED
    BY <1>7, <1>11, <2>2, <2>3 DEF m, n
<1>. QED
  BY <1>10, <1>11

\* The templates due today, and a monthly one's days in this month.
DueToday == {t \in Template : Recurring!FallsDue(t, Recurring!Now)}

Monthly == {t \in Template : Plan[t].type = "monthly"}

MonthPlan ==
  [t \in Monthly |-> {IF d > ThisLength THEN ThisLength ELSE d : d \in Plan[t].days}]

\* Today's instances.
Made == {x \in tasks : x.of # "user" /\ Recurring!IstDay(x.due) = today}

\* No instance is of a day to come.
TasksKnown ==
  \A x \in tasks :
    /\ x.due \in Int /\ x.of \in Template \cup {"user"}
    /\ x.of # "user" => x.key = Plan[x.of].key /\ Recurring!IstDay(x.due) <= today

\* A run has the templates that are due, and one missing at a time.
RunsKnown ==
  \A r \in Runner :
    /\ run[r] # Recurring!Idle => r \in ran
    /\ run[r].todo \subseteq DueToday /\ run[r].missing \subseteq DueToday
    /\ \A t, u \in run[r].missing : t = u

RunsApart ==
  ~overlapped =>
    \A q, r \in Runner : run[q] # Recurring!Idle /\ run[r] # Recurring!Idle => q = r

\* What a run has found missing stays missing until it makes it.
MadeOnce ==
  ~overlapped =>
    /\ \A x, y \in Made : x.key = y.key => x = y
    /\ \A r \in Runner : \A t \in run[r].missing : \A x \in Made : x.key # Plan[t].key

ToldWhole ==
  /\ \A p \in told : p.about \in Template /\ p \in Recurring!Pushes(p.about)
  /\ \A x \in Made : Recurring!Pushes(x.of) \subseteq told

\* A monthly template is served on days of its plan only, and if no run failed
\* on all of them up to yesterday; today's is served or still to be.
ServedAsPlanned ==
  \A t \in Monthly :
    /\ served[t] \subseteq MonthPlan[t] \cap 1..ThisDay
    /\ ~missed =>
         /\ \A d \in MonthPlan[t] : d < ThisDay => d \in served[t]
         /\ ThisDay \in MonthPlan[t] /\ ran # {} =>
              \/ ThisDay \in served[t]
              \/ \E r \in Runner : t \in run[r].todo \/ t \in run[r].missing

RecurrenceInv ==
  /\ Recurring!TypeOK
  /\ TasksKnown
  /\ RunsKnown
  /\ RunsApart
  /\ MadeOnce
  /\ ToldWhole
  /\ ServedAsPlanned

\* A template is due today exactly if its plan for the month has the day.
LEMMA DueAsPlanned ==
  ASSUME today \in 1..Recurring!LastDay, NEW t \in Monthly
  PROVE  /\ t \in DueToday <=> ThisDay \in MonthPlan[t]
         /\ MonthPlan[t] \subseteq 1..ThisLength
<1>1. ThisDay \in 1..ThisLength /\ ThisLength \in 1..31
  BY TodayParts
<1>2. Plan[t].days \subseteq Nat \ {0} /\ t \in Template /\ Plan[t].type = "monthly"
  BY PlanAssumption DEF Monthly
<1>3. MonthPlan[t] = {IF d > ThisLength THEN ThisLength ELSE d : d \in Plan[t].days}
  BY DEF MonthPlan
<1>4. t \in DueToday <=>
        IF ThisDay = ThisLength THEN \E d \in Plan[t].days : d >= ThisDay
        ELSE ThisDay \in Plan[t].days
  BY <1>2 DEF DueToday, Recurring!FallsDue, Recurring!IsLastDayOfMonth, ThisDay,
              ThisLength, ThisMonth, Today
<1>5. MonthPlan[t] \subseteq 1..ThisLength
  BY <1>1, <1>2, <1>3
<1>6. CASE ThisDay = ThisLength
  BY <1>1, <1>2, <1>3, <1>4, <1>5, <1>6
<1>7. CASE ThisDay # ThisLength
  BY <1>1, <1>2, <1>3, <1>4, <1>5, <1>7
<1>. QED
  BY <1>6, <1>7

\* Within a day the plan stays.
LEMMA SameDay ==
  ASSUME today' = today
  PROVE  /\ Recurring!Now' = Recurring!Now
         /\ ThisDay' = ThisDay /\ ThisLength' = ThisLength
         /\ DueToday' = DueToday
         /\ MonthPlan' = MonthPlan
<1>1. Recurring!Now' = Recurring!Now
  BY DEF Recurring!Now
<1>2. ThisDay' = ThisDay /\ ThisLength' = ThisLength
  BY <1>1 DEF ThisDay, ThisLength, ThisMonth, Today
<1>3. DueToday' = DueToday
  BY <1>1 DEF DueToday
<1>4. MonthPlan' = MonthPlan
  BY <1>2 DEF MonthPlan
<1>. QED
  BY <1>1, <1>2, <1>3, <1>4

LEMMA InitRecurrenceInv ==
  ASSUME Recurring!Init
  PROVE  RecurrenceInv
<1>1. /\ today = 1 /\ tasks = {} /\ run = [r \in Runner |-> Recurring!Idle] /\ ran = {}
      /\ served = [t \in Template |-> {}] /\ told = {} /\ missed = FALSE /\ overlapped = FALSE
  BY DEF Recurring!Init
<1>2. 1 \in 1..Recurring!LastDay
  <2>1. Recurring!LastDay \in Nat
    BY DaysBeforeMonths, MonthsWhole DEF Recurring!LastDay, Calendar
  <2>2. 1 \in Months /\ 2 \in 1..(Len(MonthLength) + 1)
    BY MonthsWhole DEF Months
  <2>3. Recurring!DaysBefore[2] = 0 + MonthLength[1]
    BY <2>2, DaysBeforeMonths DEF Calendar
  <2>4. MonthLength[1] \in 1..31
    BY <2>2, MonthsWhole
  <2>5. Recurring!DaysBefore[2] <= Recurring!LastDay
    BY <2>2, MonthsWhole, DaysBeforeMonths, CalendarGrows DEF Recurring!LastDay
  <2>. QED
    BY <2>1, <2>3, <2>4, <2>5
<1>3. Recurring!TypeOK
  BY <1>1, <1>2 DEF Recurring!TypeOK, Recurring!Idle
<1>4. Made = {}
  BY <1>1 DEF Made
<1>5. TasksKnown /\ RunsKnown /\ RunsApart /\ MadeOnce /\ ToldWhole
  BY <1>1, <1>4 DEF TasksKnown, RunsKnown, RunsApart, MadeOnce, ToldWhole, Recurring!Idle
<1>6. ServedAsPlanned
  <2>1. today \in Nat /\ today \in 1..Recurring!LastDay
    BY <1>1, <1>2
  <2>2. Recurring!DaysBefore[ThisMonth] \in Nat
    BY <2>1, TodayParts, DaysBeforeMonths, MonthsWhole DEF Calendar, Months
  <2>3. ThisDay \in 1..1
    BY <1>1, <2>1, <2>2, TodayParts
  <2>4. \A t \in Monthly : t \in Template /\ MonthPlan[t] \subseteq 1..ThisLength
    BY <2>1, DueAsPlanned DEF Monthly
  <2>. QED
    BY <1>1, <2>3, <2>4 DEF ServedAsPlanned
<1>. QED
  BY <1>3, <1>5, <1>6 DEF RecurrenceInv

\* A run that fires.
LEMMA FireKeeps ==
  ASSUME RecurrenceInv, NEW r \in Runner, Recurring!Fire(r)
  PROVE  RecurrenceInv'
<1>. DEFINE Idle == Recurring!Idle
<1>1. /\ r \notin ran /\ ran' = ran \cup {r}
      /\ run' = [run EXCEPT ![r].todo = DueToday]
      /\ overlapped' = (overlapped \/ \E q \in Runner : run[q] # Idle)
      /\ today' = today /\ tasks' = tasks /\ served' = served /\ told' = told
      /\ missed' = missed
  BY DEF Recurring!Fire, DueToday
<1>2. run \in [Runner -> [todo : SUBSET Template, missing : SUBSET Template]]
  BY DEF RecurrenceInv, Recurring!TypeOK
<1>3. run[r] = Idle
  BY <1>1 DEF RecurrenceInv, RunsKnown
<1>4. \A q \in Runner :
        run'[q] = IF q = r THEN [todo |-> DueToday, missing |-> {}] ELSE run[q]
  <2>1. run[r] = [todo |-> {}, missing |-> {}]
    BY <1>3 DEF Recurring!Idle
  <2>2. [run[r] EXCEPT !.todo = DueToday] = [todo |-> DueToday, missing |-> {}]
    BY <2>1
  <2>3. run'[r] = [run[r] EXCEPT !.todo = DueToday]
    BY <1>1, <1>2
  <2>4. \A q \in Runner : q # r => run'[q] = run[q]
    BY <1>1, <1>2
  <2>. QED
    BY <2>2, <2>3, <2>4
<1>5. \A q \in Runner : run'[q].missing = run[q].missing
  BY <1>3, <1>4 DEF Recurring!Idle
<1>6. /\ Recurring!Now' = Recurring!Now /\ ThisDay' = ThisDay
      /\ DueToday' = DueToday /\ MonthPlan' = MonthPlan
  BY <1>1, SameDay
<1>7. Made' = Made
  BY <1>1 DEF Made
<1>8. DueToday \subseteq Template
  BY DEF DueToday
<1>9. run' \in [Runner -> [todo : SUBSET Template, missing : SUBSET Template]]
  BY <1>1, <1>2, <1>8
<1>10. Recurring!TypeOK'
  BY <1>1, <1>9 DEF RecurrenceInv, Recurring!TypeOK, Recurring!Keys
<1>11. TasksKnown'
  BY <1>1 DEF RecurrenceInv, TasksKnown
<1>12. RunsKnown'
  BY <1>1, <1>4, <1>6 DEF RecurrenceInv, RunsKnown
<1>13. RunsApart'
  BY <1>1, <1>4 DEF RunsApart
<1>14. MadeOnce'
  BY <1>1, <1>5, <1>7 DEF RecurrenceInv, MadeOnce
<1>15. ToldWhole'
  BY <1>1, <1>7 DEF RecurrenceInv, ToldWhole
<1>16. ServedAsPlanned'
  <2>1. \A t \in Monthly : t \in DueToday <=> ThisDay \in MonthPlan[t]
    BY DueAsPlanned DEF RecurrenceInv, Recurring!TypeOK
  <2>. QED
    BY <1>1, <1>4, <1>6, <2>1 DEF RecurrenceInv, ServedAsPlanned
<1>. QED
  BY <1>10, <1>11, <1>12, <1>13, <1>14, <1>15, <1>16 DEF RecurrenceInv

\* A step of a run in progress that makes nothing: the run goes on with fewer
\* templates, or another of those it has is missing.
LEMMA RunGoesOn ==
  ASSUME RecurrenceInv, NEW r \in Runner, run[r] # Recurring!Idle,
         NEW todo, NEW missing,
         todo \subseteq run[r].todo,
         missing \subseteq run[r].todo \cup run[r].missing,
         \A t, u \in missing : t = u,
         run' = [run EXCEPT ![r] = [todo |-> todo, missing |-> missing]],
         today' = today, tasks' = tasks, told' = told, ran' = ran,
         overlapped' = overlapped
  PROVE  /\ run' \in [Runner -> [todo : SUBSET Template, missing : SUBSET Template]]
         /\ \A q \in Runner :
              run'[q] = IF q = r THEN [todo |-> todo, missing |-> missing] ELSE run[q]
         /\ Made' = Made /\ ThisDay' = ThisDay /\ MonthPlan' = MonthPlan
         /\ Recurring!Now' = Recurring!Now
         /\ TasksKnown' /\ RunsKnown' /\ RunsApart' /\ ToldWhole'
<1>1. run \in [Runner -> [todo : SUBSET Template, missing : SUBSET Template]]
  BY DEF RecurrenceInv, Recurring!TypeOK
<1>2. todo \subseteq Template /\ missing \subseteq Template
  BY <1>1
<1>3. run' \in [Runner -> [todo : SUBSET Template, missing : SUBSET Template]]
  BY <1>1, <1>2
<1>4. \A q \in Runner :
        run'[q] = IF q = r THEN [todo |-> todo, missing |-> missing] ELSE run[q]
  BY <1>1
<1>5. /\ Recurring!Now' = Recurring!Now /\ ThisDay' = ThisDay
      /\ DueToday' = DueToday /\ MonthPlan' = MonthPlan
  BY SameDay
<1>6. Made' = Made
  BY DEF Made
<1>7. TasksKnown' /\ ToldWhole'
  BY <1>6 DEF RecurrenceInv, TasksKnown, ToldWhole
<1>8. RunsKnown'
  <2>1. r \in ran /\ run[r].todo \subseteq DueToday /\ run[r].missing \subseteq DueToday
    BY DEF RecurrenceInv, RunsKnown
  <2>2. todo \subseteq DueToday /\ missing \subseteq DueToday
    BY <2>1
  <2>3. ASSUME NEW q \in Runner
        PROVE  /\ run'[q] # Recurring!Idle => q \in ran
               /\ run'[q].todo \subseteq DueToday /\ run'[q].missing \subseteq DueToday
               /\ \A t, u \in run'[q].missing : t = u
    <3>1. CASE q = r
      BY <1>4, <2>1, <2>2, <3>1
    <3>2. CASE q # r
      BY <1>4, <3>2 DEF RecurrenceInv, RunsKnown
    <3>. QED
      BY <3>1, <3>2
  <2>. QED
    BY <1>5, <2>3 DEF RunsKnown
<1>9. RunsApart'
  BY <1>4 DEF RecurrenceInv, RunsApart
<1>. QED
  BY <1>3, <1>4, <1>5, <1>6, <1>7, <1>8, <1>9

\* Today's due instants are those the check of a run asks for.
LEMMA MadeExists ==
  ASSUME RecurrenceInv, NEW x \in Made
  PROVE  Recurring!Exists(x.key)
<1>1. today \in Nat
  BY DaysBeforeMonths, MonthsWhole
     DEF RecurrenceInv, Recurring!TypeOK, Recurring!LastDay, Calendar
<1>2. x \in tasks /\ x.due \in Int /\ Recurring!IstDay(x.due) = today
  BY DEF Made, RecurrenceInv, TasksKnown
<1>3. Recurring!Now <= x.due /\ x.due <= Recurring!Now + 47
  BY <1>1, <1>2, NowIsToday
<1>. QED
  BY <1>1, <1>2, <1>3, NowIsToday DEF Recurring!Exists

LEMMA CheckKeeps ==
  ASSUME RecurrenceInv, NEW r \in Runner, NEW t \in Template, Recurring!Check(r, t)
  PROVE  RecurrenceInv'
<1>. DEFINE found == Recurring!Exists(Plan[t].key)
            todo == run[r].todo \ {t}
            missing == IF found THEN {} ELSE {t}
            d == ThisDay
<1>1. /\ run[r].missing = {} /\ t \in run[r].todo
      /\ today' = today /\ tasks' = tasks /\ ran' = ran /\ told' = told
      /\ missed' = missed /\ overlapped' = overlapped
  BY DEF Recurring!Check
<1>2. run \in [Runner -> [todo : SUBSET Template, missing : SUBSET Template]]
  BY DEF RecurrenceInv, Recurring!TypeOK
<1>3. run[r] # Recurring!Idle
  BY <1>1 DEF Recurring!Idle
<1>4. run[r] = [todo |-> run[r].todo, missing |-> {}]
  BY <1>1, <1>2
<1>5. run' = [run EXCEPT ![r] = [todo |-> todo, missing |-> missing]]
  <2>1. CASE found
    <3>1. run' = [run EXCEPT ![r].todo = @ \ {t}]
      BY <2>1 DEF Recurring!Check
    <3>2. [run[r] EXCEPT !.todo = todo] = [todo |-> todo, missing |-> {}]
      BY <1>4
    <3>3. run' = [run EXCEPT ![r] = [run[r] EXCEPT !.todo = todo]]
      BY <1>2, <3>1
    <3>. QED
      BY <2>1, <3>2, <3>3
  <2>2. CASE ~found
    BY <1>2, <2>2 DEF Recurring!Check
  <2>. QED
    BY <2>1, <2>2
<1>6. served' = IF found THEN [served EXCEPT ![t] = @ \cup {d}] ELSE served
  BY DEF Recurring!Check, ThisDay, Today
<1>7. /\ todo \subseteq run[r].todo /\ missing \subseteq run[r].todo \cup run[r].missing
      /\ \A u, v \in missing : u = v
  BY <1>1
<1>8. \A u \in missing : \A x \in Made : x.key # Plan[u].key
  BY MadeExists
<1>9. served \in [Template -> SUBSET (1..31)]
  BY DEF RecurrenceInv, Recurring!TypeOK
<1>10. today \in 1..Recurring!LastDay
  BY DEF RecurrenceInv, Recurring!TypeOK
<1>11. d \in 1..ThisLength /\ ThisLength \in 1..31 /\ d \in 1..31
  BY <1>10, TodayParts
<1>12. t \in DueToday
  BY <1>1 DEF RecurrenceInv, RunsKnown
<1>13. \A u \in Template :
         served'[u] = IF u = t /\ found THEN served[u] \cup {d} ELSE served[u]
  BY <1>6, <1>9
<1>14. served' \in [Template -> SUBSET (1..31)]
  BY <1>6, <1>9, <1>11
<1>. HIDE DEF found, todo, missing, d
<1>15. /\ run' \in [Runner -> [todo : SUBSET Template, missing : SUBSET Template]]
       /\ \A q \in Runner :
            run'[q] = IF q = r THEN [todo |-> todo, missing |-> missing] ELSE run[q]
       /\ Made' = Made /\ ThisDay' = ThisDay /\ MonthPlan' = MonthPlan
       /\ Recurring!Now' = Recurring!Now
       /\ TasksKnown' /\ RunsKnown' /\ RunsApart' /\ ToldWhole'
  BY <1>1, <1>3, <1>5, <1>7, RunGoesOn
<1>16. Recurring!TypeOK'
  BY <1>1, <1>14, <1>15 DEF RecurrenceInv, Recurring!TypeOK, Recurring!Keys
<1>17. MadeOnce'
  BY <1>1, <1>8, <1>15 DEF RecurrenceInv, MadeOnce
<1>18. ServedAsPlanned'
  <2>. SUFFICES ASSUME NEW u \in Monthly
       PROVE  /\ served'[u] \subseteq MonthPlan[u] \cap 1..ThisDay
              /\ ~missed =>
                   /\ \A e \in MonthPlan[u] : e < ThisDay => e \in served'[u]
                   /\ ThisDay \in MonthPlan[u] /\ ran # {} =>
                        \/ ThisDay \in served'[u]
                        \/ \E q \in Runner : u \in run'[q].todo \/ u \in run'[q].missing
    BY <1>1, <1>15 DEF ServedAsPlanned
  <2>1. u \in Template /\ (u \in DueToday <=> d \in MonthPlan[u])
    BY <1>10, DueAsPlanned DEF Monthly, d
  <2>2. d = ThisDay /\ d \in 1..d
    BY <1>11 DEF d
  <2>3. served[u] \subseteq MonthPlan[u] \cap 1..ThisDay
    BY DEF RecurrenceInv, ServedAsPlanned
  <2>4. served[u] \subseteq served'[u] /\ served'[u] \subseteq MonthPlan[u] \cap 1..ThisDay
    BY <1>12, <1>13, <2>1, <2>2, <2>3
  <2>5. ~missed => \A e \in MonthPlan[u] : e < ThisDay => e \in served'[u]
    BY <2>4 DEF RecurrenceInv, ServedAsPlanned
  <2>6. ASSUME ~missed, ThisDay \in MonthPlan[u], ran # {}, ThisDay \notin served'[u]
        PROVE  \E q \in Runner : u \in run'[q].todo \/ u \in run'[q].missing
    <3>1. PICK q \in Runner : u \in run[q].todo \/ u \in run[q].missing
      BY <2>4, <2>6 DEF RecurrenceInv, ServedAsPlanned
    <3>2. u = t => ~found
      BY <1>13, <2>1, <2>2, <2>6
    <3>3. CASE q # r
      BY <1>15, <3>1, <3>3
    <3>4. CASE q = r /\ u # t
      BY <1>1, <1>15, <3>1, <3>4 DEF todo
    <3>5. CASE u = t
      BY <1>15, <3>2, <3>5 DEF missing
    <3>. QED
      BY <3>3, <3>4, <3>5
  <2>. QED
    BY <2>4, <2>5, <2>6
<1>. QED
  BY <1>15, <1>16, <1>17, <1>18 DEF RecurrenceInv

\* A push is about its template, and its title follows from who gets it.
LEMMA PushesAbout ==
  ASSUME NEW t, NEW p \in Recurring!Pushes(t)
  PROVE  /\ p.about = t
         /\ p = [about |-> t, to |-> p.to,
                 title |-> IF p.to \in Plan[t].assignees THEN "New Task Assigned"
                           ELSE "New Task"]
<1>. DEFINE audience == Recurring!Audience(t) \ {Plan[t].creator}
            A == {[about |-> t, to |-> u, title |-> "New Task Assigned"] :
                    u \in audience \cap Plan[t].assignees}
            B == {[about |-> t, to |-> u, title |-> "New Task"] :
                    u \in audience \ Plan[t].assignees}
<1>1. p \in A \/ p \in B
  BY DEF Recurring!Pushes
<1>2. CASE p \in A
  <2>1. PICK u \in audience \cap Plan[t].assignees :
          p = [about |-> t, to |-> u, title |-> "New Task Assigned"]
    BY <1>2
  <2>. QED
    BY <2>1
<1>3. CASE p \in B
  <2>1. PICK u \in audience \ Plan[t].assignees :
          p = [about |-> t, to |-> u, title |-> "New Task"]
    BY <1>3
  <2>. QED
    BY <2>1
<1>. QED
  BY <1>1, <1>2, <1>3

LEMMA InstanceKeeps ==
  ASSUME RecurrenceInv, NEW r \in Runner, Recurring!Create(r)
  PROVE  RecurrenceInv'
<1>1. PICK t \in run[r].missing :
        /\ tasks' = tasks \cup {[key |-> Plan[t].key,
                                 due |-> Recurring!IstDayStart(Recurring!Now),
                                 of |-> t, by |-> r]}
        /\ run' = [run EXCEPT ![r].missing = {}]
        /\ served' = [served EXCEPT ![t] = @ \cup {ThisDay}]
        /\ told' = told \cup Recurring!Pushes(t)
        /\ today' = today /\ ran' = ran /\ missed' = missed /\ overlapped' = overlapped
  BY DEF Recurring!Create, ThisDay, Today
<1>. DEFINE new == [key |-> Plan[t].key, due |-> Recurring!Now, of |-> t, by |-> r]
            d == ThisDay
<1>2. run \in [Runner -> [todo : SUBSET Template, missing : SUBSET Template]]
      /\ served \in [Template -> SUBSET (1..31)]
      /\ today \in 1..Recurring!LastDay
  BY DEF RecurrenceInv, Recurring!TypeOK
<1>3. today \in Nat
  BY <1>2, DaysBeforeMonths, MonthsWhole DEF Recurring!LastDay, Calendar
<1>4. t \in Template /\ t # "user" /\ run[r] # Recurring!Idle
  BY <1>2, PlanAssumption DEF Recurring!Idle
<1>5. \A q \in Runner :
        run'[q] = IF q = r THEN [todo |-> run[r].todo, missing |-> {}] ELSE run[q]
  <2>1. run[r] = [todo |-> run[r].todo, missing |-> run[r].missing]
    BY <1>2
  <2>2. [run[r] EXCEPT !.missing = {}] = [todo |-> run[r].todo, missing |-> {}]
    BY <2>1
  <2>3. run'[r] = [run[r] EXCEPT !.missing = {}] /\ \A q \in Runner : q # r => run'[q] = run[q]
    BY <1>1, <1>2
  <2>. QED
    BY <2>2, <2>3
<1>6. run' \in [Runner -> [todo : SUBSET Template, missing : SUBSET Template]]
  BY <1>1, <1>2
<1>7. /\ Recurring!Now' = Recurring!Now /\ ThisDay' = ThisDay
      /\ DueToday' = DueToday /\ MonthPlan' = MonthPlan
  BY <1>1, SameDay
<1>8. /\ Recurring!Now \in Int /\ Recurring!IstDay(Recurring!Now) = today
      /\ Recurring!IstDayStart(Recurring!Now) = Recurring!Now
  BY <1>3, NowIsToday
<1>9. tasks' = tasks \cup {new}
  BY <1>1, <1>8
<1>10. new.key = Plan[t].key /\ new.due = Recurring!Now /\ new.of = t
  OBVIOUS
<1>. HIDE DEF new, d
<1>11. Made' = Made \cup {new}
  BY <1>1, <1>4, <1>8, <1>9, <1>10 DEF Made
<1>12. Recurring!TypeOK'
  <2>1. served' \in [Template -> SUBSET (1..31)]
    <3>1. ThisDay \in 1..31
      BY <1>2, TodayParts
    <3>. QED
      BY <1>1, <1>2, <3>1
  <2>2. new.key \in Recurring!Keys /\ Recurring!IstDay(new.due) \in (today - 1)..(today + 1)
    BY <1>3, <1>4, <1>8, <1>10 DEF Recurring!Keys
  <2>3. \A x \in tasks' : x.key \in Recurring!Keys /\ Recurring!IstDay(x.due) \in (today - 1)..(today + 1)
    BY <1>9, <2>2 DEF RecurrenceInv, Recurring!TypeOK
  <2>. QED
    BY <1>1, <1>6, <2>1, <2>3 DEF RecurrenceInv, Recurring!TypeOK, Recurring!Keys
<1>13. TasksKnown'
  <2>1. /\ new.due \in Int /\ new.of \in Template \cup {"user"}
        /\ new.key = Plan[new.of].key /\ Recurring!IstDay(new.due) <= today
    BY <1>3, <1>4, <1>8, <1>10
  <2>. QED
    BY <1>1, <1>9, <2>1 DEF RecurrenceInv, TasksKnown
<1>14. RunsKnown'
  <2>1. ASSUME NEW q \in Runner
        PROVE  /\ run'[q] # Recurring!Idle => q \in ran
               /\ run'[q].todo \subseteq DueToday /\ run'[q].missing \subseteq DueToday
               /\ \A u, v \in run'[q].missing : u = v
    <3>1. CASE q = r
      BY <1>4, <1>5, <3>1 DEF RecurrenceInv, RunsKnown
    <3>2. CASE q # r
      BY <1>5, <3>2 DEF RecurrenceInv, RunsKnown
    <3>. QED
      BY <3>1, <3>2
  <2>. QED
    BY <1>1, <1>7, <2>1 DEF RunsKnown
<1>15. RunsApart'
  BY <1>1, <1>4, <1>5 DEF RecurrenceInv, RunsApart
<1>16. MadeOnce'
  <2>. SUFFICES ASSUME ~overlapped
       PROVE  /\ \A x, y \in Made' : x.key = y.key => x = y
              /\ \A q \in Runner : \A u \in run'[q].missing : \A x \in Made' : x.key # Plan[u].key
    BY <1>1 DEF MadeOnce
  <2>1. \A x, y \in Made : x.key = y.key => x = y
    BY DEF RecurrenceInv, MadeOnce
  <2>2. \A x \in Made : x.key # new.key
    BY <1>10 DEF RecurrenceInv, MadeOnce
  <2>3. \A q \in Runner : q # r => run[q] = Recurring!Idle
    BY <1>4 DEF RecurrenceInv, RunsApart
  <2>4. \A q \in Runner : run'[q].missing = {}
    BY <1>5, <2>3 DEF Recurring!Idle
  <2>. QED
    BY <1>11, <2>1, <2>2, <2>4
<1>17. ToldWhole'
  <2>1. \A p \in Recurring!Pushes(t) : p.about = t
    BY PushesAbout
  <2>2. \A p \in told' : p.about \in Template /\ p \in Recurring!Pushes(p.about)
    BY <1>1, <1>4, <2>1 DEF RecurrenceInv, ToldWhole
  <2>3. \A x \in Made' : Recurring!Pushes(x.of) \subseteq told'
    BY <1>1, <1>10, <1>11 DEF RecurrenceInv, ToldWhole
  <2>. QED
    BY <2>2, <2>3 DEF ToldWhole
<1>18. ServedAsPlanned'
  <2>. SUFFICES ASSUME NEW u \in Monthly
       PROVE  /\ served'[u] \subseteq MonthPlan[u] \cap 1..ThisDay
              /\ ~missed =>
                   /\ \A e \in MonthPlan[u] : e < ThisDay => e \in served'[u]
                   /\ ThisDay \in MonthPlan[u] /\ ran # {} =>
                        \/ ThisDay \in served'[u]
                        \/ \E q \in Runner : u \in run'[q].todo \/ u \in run'[q].missing
    BY <1>1, <1>7 DEF ServedAsPlanned
  <2>1. u \in Template /\ (u \in DueToday <=> ThisDay \in MonthPlan[u])
    BY <1>2, DueAsPlanned DEF Monthly
  <2>2. ThisDay \in 1..ThisDay
    BY <1>2, TodayParts
  <2>3. served[u] \subseteq MonthPlan[u] \cap 1..ThisDay
    BY DEF RecurrenceInv, ServedAsPlanned
  <2>4. t \in DueToday
    BY DEF RecurrenceInv, RunsKnown
  <2>5. served'[u] = IF u = t THEN served[u] \cup {ThisDay} ELSE served[u]
    BY <1>1, <1>2, <2>1
  <2>6. served[u] \subseteq served'[u] /\ served'[u] \subseteq MonthPlan[u] \cap 1..ThisDay
    BY <2>1, <2>2, <2>3, <2>4, <2>5
  <2>7. ~missed => \A e \in MonthPlan[u] : e < ThisDay => e \in served'[u]
    BY <2>6 DEF RecurrenceInv, ServedAsPlanned
  <2>8. ASSUME ~missed, ThisDay \in MonthPlan[u], ran # {}, ThisDay \notin served'[u]
        PROVE  \E q \in Runner : u \in run'[q].todo \/ u \in run'[q].missing
    <3>1. PICK q \in Runner : u \in run[q].todo \/ u \in run[q].missing
      BY <2>6, <2>8 DEF RecurrenceInv, ServedAsPlanned
    <3>2. u # t
      BY <2>5, <2>8
    <3>3. CASE q # r
      BY <1>5, <3>1, <3>3
    <3>4. CASE q = r
      <4>1. u \notin run[r].missing
        BY <3>2 DEF RecurrenceInv, RunsKnown
      <4>. QED
        BY <1>5, <3>1, <3>4, <4>1
    <3>. QED
      BY <3>3, <3>4
  <2>. QED
    BY <2>6, <2>7, <2>8
<1>. QED
  BY <1>12, <1>13, <1>14, <1>15, <1>16, <1>17, <1>18 DEF RecurrenceInv

\* A run that fails to store an instance, or dies, is missed.
LEMMA StopKeeps ==
  ASSUME RecurrenceInv, NEW r \in Runner,
         Recurring!CreateFails(r) \/ Recurring!Die(r)
  PROVE  RecurrenceInv'
<1>. DEFINE todo == IF Recurring!CreateFails(r) THEN run[r].todo ELSE {}
            none == {}
<1>1. run \in [Runner -> [todo : SUBSET Template, missing : SUBSET Template]]
  BY DEF RecurrenceInv, Recurring!TypeOK
<1>2. /\ today' = today /\ tasks' = tasks /\ ran' = ran /\ told' = told
      /\ served' = served /\ overlapped' = overlapped /\ missed' = TRUE
  BY DEF Recurring!CreateFails, Recurring!Die
<1>3. run[r] # Recurring!Idle
  BY DEF Recurring!CreateFails, Recurring!Die, Recurring!Idle
<1>4. run' = [run EXCEPT ![r] = [todo |-> todo, missing |-> none]]
  <2>1. CASE Recurring!CreateFails(r)
    <3>1. run' = [run EXCEPT ![r] = [run[r] EXCEPT !.missing = {}]]
      BY <1>1, <2>1 DEF Recurring!CreateFails
    <3>2. run[r] = [todo |-> run[r].todo, missing |-> run[r].missing]
      BY <1>1
    <3>3. [run[r] EXCEPT !.missing = {}] = [todo |-> run[r].todo, missing |-> {}]
      BY <3>2
    <3>. QED
      BY <2>1, <3>1, <3>3
  <2>2. CASE ~Recurring!CreateFails(r)
    BY <2>2 DEF Recurring!Die, Recurring!Idle
  <2>. QED
    BY <2>1, <2>2
<1>5. todo \subseteq run[r].todo
  BY <1>1
<1>6. none \subseteq run[r].todo \cup run[r].missing /\ \A t, u \in none : t = u
  OBVIOUS
<1>. HIDE DEF todo, none
<1>7. /\ run' \in [Runner -> [todo : SUBSET Template, missing : SUBSET Template]]
      /\ \A q \in Runner :
           run'[q] = IF q = r THEN [todo |-> todo, missing |-> none] ELSE run[q]
      /\ Made' = Made /\ ThisDay' = ThisDay /\ MonthPlan' = MonthPlan
      /\ Recurring!Now' = Recurring!Now
      /\ TasksKnown' /\ RunsKnown' /\ RunsApart' /\ ToldWhole'
  BY <1>2, <1>3, <1>4, <1>5, <1>6, RunGoesOn
<1>8. Recurring!TypeOK'
  BY <1>2, <1>7 DEF RecurrenceInv, Recurring!TypeOK, Recurring!Keys
<1>9. MadeOnce'
  BY <1>2, <1>7 DEF RecurrenceInv, MadeOnce, none
<1>10. ServedAsPlanned'
  BY <1>2, <1>7 DEF RecurrenceInv, ServedAsPlanned
<1>. QED
  BY <1>7, <1>8, <1>9, <1>10 DEF RecurrenceInv

\* An ordinary task is no instance.
LEMMA UserAddsKeeps ==
  ASSUME RecurrenceInv, NEW key \in Recurring!Keys,
         NEW off \in {-1, 0, Recurring!HalfHours - 1, Recurring!HalfHours},
         Recurring!UserAdds(key, Recurring!Now + off)
  PROVE  RecurrenceInv'
<1>. DEFINE new == [key |-> key, due |-> Recurring!Now + off, of |-> "user", by |-> "user"]
<1>1. /\ tasks' = tasks \cup {new}
      /\ today' = today /\ run' = run /\ ran' = ran /\ served' = served
      /\ told' = told /\ missed' = missed /\ overlapped' = overlapped
  BY DEF Recurring!UserAdds
<1>2. new.key = key /\ new.due = Recurring!Now + off /\ new.of = "user"
  OBVIOUS
<1>. HIDE DEF new
<1>3. today \in Nat
  BY DaysBeforeMonths, MonthsWhole
     DEF RecurrenceInv, Recurring!TypeOK, Recurring!LastDay, Calendar
<1>4. new.due \in Int /\ Recurring!IstDay(new.due) \in (today - 1)..(today + 1)
  <2>1. Recurring!Now = today * 48 - 11 /\ off \in {-1, 0, 47, 48}
    BY DEF Recurring!Now, Recurring!HalfHours, Recurring!IstOffset
  <2>2. Recurring!IstDay(new.due) = (new.due + 11) \div 48
    BY DEF Recurring!IstDay, Recurring!HalfHours, Recurring!IstOffset
  <2>. QED
    BY <1>2, <1>3, <2>1, <2>2
<1>5. Made' = Made
  BY <1>1, <1>2 DEF Made
<1>6. /\ ThisDay' = ThisDay /\ DueToday' = DueToday /\ MonthPlan' = MonthPlan
  BY <1>1, SameDay
<1>7. Recurring!TypeOK'
  BY <1>1, <1>2, <1>4 DEF RecurrenceInv, Recurring!TypeOK, Recurring!Keys
<1>8. TasksKnown'
  BY <1>1, <1>2, <1>4 DEF RecurrenceInv, TasksKnown
<1>9. RunsKnown' /\ RunsApart'
  BY <1>1, <1>6 DEF RecurrenceInv, RunsKnown, RunsApart
<1>10. MadeOnce' /\ ToldWhole'
  BY <1>1, <1>5 DEF RecurrenceInv, MadeOnce, ToldWhole
<1>11. ServedAsPlanned'
  BY <1>1, <1>6 DEF RecurrenceInv, ServedAsPlanned
<1>. QED
  BY <1>7, <1>8, <1>9, <1>10, <1>11 DEF RecurrenceInv

\* A day ends with the runs, and a month with its plan.
LEMMA NextDayKeeps ==
  ASSUME RecurrenceInv, Recurring!NextDay
  PROVE  RecurrenceInv'
<1>1. /\ today < Recurring!LastDay /\ today' = today + 1
      /\ \A r \in Runner : run[r] = Recurring!Idle
      /\ tasks' = {x \in tasks : Recurring!IstDay(x.due) >= today}
      /\ ran' = {} /\ told' = {} /\ overlapped' = FALSE /\ run' = run
  BY DEF Recurring!NextDay
<1>2. IF ThisDay = ThisLength
      THEN missed' = FALSE /\ served' = [t \in Template |-> {}]
      ELSE missed' = (missed \/ ran = {}) /\ served' = served
  BY DEF Recurring!NextDay, Recurring!IsLastDayOfMonth, ThisDay, ThisLength, ThisMonth, Today
<1>3. today \in 1..Recurring!LastDay /\ Recurring!LastDay \in Nat
  BY DaysBeforeMonths, MonthsWhole
     DEF RecurrenceInv, Recurring!TypeOK, Recurring!LastDay, Calendar
<1>4. today' \in 1..Recurring!LastDay
  BY <1>1, <1>3
<1>5. \A x \in tasks : x.due \in Int /\ Recurring!IstDay(x.due) \in Int
  BY DEF RecurrenceInv, TasksKnown, Recurring!IstDay, Recurring!HalfHours, Recurring!IstOffset
<1>6. Made' = {}
  <2>1. \A x \in tasks : x.of # "user" => Recurring!IstDay(x.due) # today'
    BY <1>1, <1>3, <1>5 DEF RecurrenceInv, TasksKnown
  <2>. QED
    BY <1>1, <2>1 DEF Made
<1>7. Recurring!TypeOK'
  <2>1. \A x \in tasks' : x.key \in Recurring!Keys
                          /\ Recurring!IstDay(x.due) \in (today' - 1)..(today' + 1)
    BY <1>1, <1>3, <1>5 DEF RecurrenceInv, Recurring!TypeOK
  <2>2. served' \in [Template -> SUBSET (1..31)]
    BY <1>2 DEF RecurrenceInv, Recurring!TypeOK
  <2>3. missed' \in BOOLEAN
    BY <1>2 DEF RecurrenceInv, Recurring!TypeOK
  <2>. QED
    BY <1>1, <1>4, <2>1, <2>2, <2>3 DEF RecurrenceInv, Recurring!TypeOK, Recurring!Keys
<1>8. TasksKnown'
  BY <1>1, <1>3, <1>5 DEF RecurrenceInv, TasksKnown
<1>9. RunsKnown' /\ RunsApart' /\ MadeOnce' /\ ToldWhole'
  BY <1>1, <1>6 DEF RunsKnown, RunsApart, MadeOnce, ToldWhole, Recurring!Idle
<1>10. ServedAsPlanned'
  <2>1. CASE ThisDay = ThisLength
    <3>1. ThisDay' = 1
      BY <1>1, <1>3, <2>1, DayAfter
    <3>2. \A t \in Monthly : served'[t] = {} /\ MonthPlan'[t] \subseteq Nat \ {0}
      <4>1. ThisLength' \in 1..31
        <5>1. ThisMonth' \in Months
          BY <1>1, <1>3, DayAfter
        <5>. QED
          BY <5>1, MonthsWhole DEF ThisLength
      <4>. QED
        BY <1>2, <2>1, <4>1, PlanAssumption DEF Monthly, MonthPlan
    <3>. QED
      BY <1>1, <3>1, <3>2 DEF ServedAsPlanned
  <2>2. CASE ThisDay # ThisLength
    <3>1. ThisMonth' = ThisMonth /\ ThisDay' = ThisDay + 1
      BY <1>1, <1>3, <2>2, DayAfter
    <3>2. ThisLength' = ThisLength
      BY <3>1 DEF ThisLength
    <3>3. MonthPlan' = MonthPlan
      BY <3>2 DEF MonthPlan
    <3>4. ThisDay \in 1..ThisLength /\ ThisLength \in 1..31
      BY <1>3, TodayParts
    <3>. SUFFICES ASSUME NEW t \in Monthly
         PROVE  /\ served[t] \subseteq MonthPlan[t] \cap 1..(ThisDay + 1)
                /\ ~missed' => \A d \in MonthPlan[t] : d < ThisDay + 1 => d \in served[t]
      BY <1>1, <1>2, <2>2, <3>1, <3>3 DEF ServedAsPlanned
    <3>5. served[t] \subseteq MonthPlan[t] \cap 1..ThisDay
      BY DEF RecurrenceInv, ServedAsPlanned
    <3>6. ASSUME ~missed', NEW d \in MonthPlan[t], d < ThisDay + 1 PROVE d \in served[t]
      <4>1. ~missed /\ ran # {}
        BY <1>2, <2>2, <3>6
      <4>2. d \in 1..ThisLength
        BY <1>3, DueAsPlanned
      <4>3. d < ThisDay \/ d = ThisDay
        BY <3>4, <3>6, <4>2
      <4>4. \A r \in Runner : t \notin run[r].todo /\ t \notin run[r].missing
        BY <1>1 DEF Recurring!Idle
      <4>. QED
        BY <4>1, <4>3, <4>4 DEF RecurrenceInv, ServedAsPlanned
    <3>. QED
      BY <3>4, <3>5, <3>6
  <2>. QED
    BY <2>1, <2>2
<1>. QED
  BY <1>7, <1>8, <1>9, <1>10 DEF RecurrenceInv

LEMMA RecurrenceInvStep ==
  ASSUME RecurrenceInv, Recurring!Next
  PROVE  RecurrenceInv'
BY FireKeeps, CheckKeeps, InstanceKeeps, StopKeeps, UserAddsKeeps, NextDayKeeps
   DEF Recurring!Next

LEMMA RecurrenceInvImplies ==
  ASSUME RecurrenceInv
  PROVE  Recurring!OncePerDay /\ Recurring!EveryMonth /\ Recurring!ToldOnce
<1>1. Recurring!OncePerDay
  <2>. SUFFICES ASSUME ~overlapped, NEW key \in Recurring!Keys
       PROVE  ~(Recurring!Cardinality({x \in tasks :
                  /\ x.key = key /\ x.of # "user"
                  /\ Recurring!IstDay(x.due) = today}) > 1)
    BY DEF Recurring!OncePerDay
  <2>. DEFINE S == {x \in tasks : /\ x.key = key /\ x.of # "user"
                                  /\ Recurring!IstDay(x.due) = today}
  <2>1. \A x, y \in S : x = y
    BY DEF RecurrenceInv, MadeOnce, Made
  <2>2. Recurring!Cardinality(S) = Cardinality(S)
    BY DEF Recurring!Cardinality, Cardinality
  <2>. HIDE DEF S
  <2>3. CASE S = {}
    BY <2>2, <2>3, FS_EmptySet DEF S
  <2>4. CASE S # {}
    <3>1. PICK x \in S : S = {x}
      BY <2>1, <2>4
    <3>2. Cardinality(S) = 1
      BY <3>1, FS_Singleton
    <3>. QED
      BY <2>2, <3>2 DEF S
  <2>. QED
    BY <2>3, <2>4
<1>2. Recurring!EveryMonth
  <2>. SUFFICES ASSUME ThisDay = ThisLength, ran # {}, ~missed,
                       \A r \in Runner : run[r] = Recurring!Idle,
                       NEW t \in Template, Plan[t].type = "monthly"
       PROVE  served[t] = {IF d > ThisLength THEN ThisLength ELSE d : d \in Plan[t].days}
    BY DEF Recurring!EveryMonth, Recurring!IsLastDayOfMonth, ThisDay, ThisLength, ThisMonth, Today
  <2>1. t \in Monthly
    BY DEF Monthly
  <2>2. served[t] \subseteq MonthPlan[t]
    BY <2>1 DEF RecurrenceInv, ServedAsPlanned
  <2>3. today \in 1..Recurring!LastDay
    BY DEF RecurrenceInv, Recurring!TypeOK
  <2>4. MonthPlan[t] \subseteq 1..ThisLength /\ ThisLength \in 1..31
    BY <2>1, <2>3, DueAsPlanned, TodayParts
  <2>5. \A r \in Runner : t \notin run[r].todo /\ t \notin run[r].missing
    BY DEF Recurring!Idle
  <2>6. ASSUME NEW d \in MonthPlan[t] PROVE d \in served[t]
    <3>1. d < ThisDay \/ d = ThisDay
      BY <2>4
    <3>. QED
      BY <2>1, <2>5, <3>1 DEF RecurrenceInv, ServedAsPlanned
  <2>. QED
    BY <2>1, <2>2, <2>6 DEF MonthPlan
<1>3. Recurring!ToldOnce
  <2>. SUFFICES ASSUME NEW x \in Made,
                       NEW u \in (Overseer \cup Plan[x.of].assignees) \ {Plan[x.of].creator}
       PROVE  Recurring!Cardinality({p \in told : p.about = x.of /\ p.to = u}) = 1
    BY DEF Recurring!ToldOnce, Made
  <2>. DEFINE S == {p \in told : p.about = x.of /\ p.to = u}
              message == [about |-> x.of, to |-> u,
                          title |-> IF u \in Plan[x.of].assignees THEN "New Task Assigned"
                                    ELSE "New Task"]
  <2>1. message \in Recurring!Pushes(x.of)
    BY DEF Recurring!Pushes, Recurring!Audience
  <2>2. \A p \in Recurring!Pushes(x.of) : p.to = u => p = message
    BY PushesAbout
  <2>3. message \in told /\ message.about = x.of /\ message.to = u
    BY <2>1 DEF RecurrenceInv, ToldWhole
  <2>4. ASSUME NEW p \in told, p.about = x.of, p.to = u PROVE p = message
    <3>1. p \in Recurring!Pushes(x.of)
      BY <2>4 DEF RecurrenceInv, ToldWhole
    <3>. QED
      BY <2>2, <2>4, <3>1
  <2>5. Recurring!Cardinality(S) = Cardinality(S)
    BY DEF Recurring!Cardinality, Cardinality
  <2>. HIDE DEF message
  <2>6. S = {message}
    BY <2>3, <2>4
  <2>. HIDE DEF S
  <2>7. Cardinality(S) = 1
    BY <2>6, FS_Singleton
  <2>. QED
    BY <2>5, <2>7 DEF S
<1>. QED
  BY <1>1, <1>2, <1>3

-------------------------------------------------------------------------------
(* Feed                                                                    *)

\* An enumeration of a set has each of its elements once.
LEMMA EnumerationWhole ==
  ASSUME NEW S, IsFiniteSet(S), NEW s \in Scrolling!SetToSeqs(S)
  PROVE  /\ s \in Seq(S)
         /\ Len(s) = Cardinality(S)
         /\ \A i, j \in 1..Len(s) : s[i] = s[j] => i = j
         /\ \A x \in S : \E i \in 1..Len(s) : s[i] = x
<1>. DEFINE D == 1..Cardinality(S)
<1>1. Scrolling!Cardinality(S) = Cardinality(S)
  BY DEF Scrolling!Cardinality, Cardinality
<1>2. s \in [D -> S] /\ \A i, j \in D : i # j => s[i] # s[j]
  BY <1>1 DEF Scrolling!SetToSeqs
<1>3. Cardinality(S) \in Nat
  BY FS_CardinalityType
<1>4. s \in Injection(D, S)
  BY <1>2 DEF Injection, IsInjective
<1>5. Cardinality(D) = Cardinality(S)
  BY <1>3, FS_Interval
<1>6. s \in Surjection(D, S)
  BY <1>4, <1>5, FS_Injection
<1>7. \A x \in S : \E i \in D : s[i] = x
  BY <1>6, <1>2 DEF Surjection, Range
<1>8. s \in Seq(S) /\ Len(s) = Cardinality(S)
  BY <1>2, <1>3
<1>. QED
  BY <1>2, <1>7, <1>8

\* A finite set of numbers, as a list of rows has them, has a greatest one.
LEMMA GreatestOf ==
  ASSUME NEW S, NEW k \in Nat, S \subseteq 0..k, S # {}
  PROVE  \E x \in S : \A y \in S : y <= x
<1>. DEFINE T == {k - x : x \in S}
<1>1. \A x \in S : x \in 0..k /\ k - x \in Nat
  OBVIOUS
<1>2. T \subseteq Nat /\ T # {}
  BY <1>1
<1>. HIDE DEF T
<1>3. PICK z \in T : \A y \in T : z <= y
  BY <1>2, LeastOf
<1>. USE DEF T
<1>4. PICK x \in S : z = k - x
  OBVIOUS
<1>5. ASSUME NEW y \in S PROVE y <= x
  <2>1. z <= k - y
    BY <1>3
  <2>. QED
    BY <1>1, <1>4, <2>1
<1>. QED
  BY <1>5

-------------------------------------------------------------------------------
(* The rows, and what a client that scrolls has met of them.               *)

FeedTyped ==
  /\ list \in {"timeline", "attachments", "recent", "none"}
  /\ rows \in Seq([key : 1..KeyLimit, live : BOOLEAN]) /\ Len(rows) <= RowLimit
  /\ counted \in 0..RowLimit
  /\ edits \in 0..EditLimit
  /\ walk \in Scrolling!WalkState

\* An event is inserted before it is counted, and its key is its own.
EventsOrdered ==
  /\ counted <= Len(rows)
  /\ list = "none" => rows = <<>>
  /\ list = "timeline" => \A i, j \in 1..Len(rows) : rows[i].key = rows[j].key => i = j

\* The rows served and those about to be.
Met == {walk.seen[i] : i \in 1..Len(walk.seen)} \cup {walk.page[i] : i \in 1..Len(walk.page)}

\* No row is met twice.
MetOnce ==
  /\ Met \subseteq 1..Len(rows)
  /\ \A i, j \in 1..Len(walk.seen) : walk.seen[i] = walk.seen[j] => i = j
  /\ \A i, j \in 1..Len(walk.page) : walk.page[i] = walk.page[j] => i = j
  /\ \A i \in 1..Len(walk.seen), j \in 1..Len(walk.page) : walk.seen[i] # walk.page[j]

\* Between the pages nothing is held, and before the first one nothing met.
PagesInTurn ==
  /\ list # "none"
  /\ walk.step # "hydrate" => walk.page = <<>>
  /\ walk.step \in {"header", "read"} /\ walk.cursor = 0 => walk.seen = <<>>
  /\ walk.step = "header" => walk.cursor = 0 /\ list = "timeline"
  /\ walk.step = "done" => walk.cursor = 0

\* Whatever was met is not below the cursor, where a page ended.
MetAbove ==
  walk.cursor # 0 =>
    walk.cursor \in walk.ties /\ \A n \in Met : rows[n].key >= walk.cursor

\* A row that stays is met, or tied with a page's end, or below the cursor.
SteadyMet ==
  \A n \in walk.steady :
    /\ n \in Scrolling!Listed
    /\ \/ n \in Met
       \/ list # "timeline" /\ rows[n].key \in walk.ties
       \/ walk.cursor # 0 /\ rows[n].key < walk.cursor
       \/ walk.cursor = 0 /\ walk.step \in {"header", "read"}

\* The header counts events that were there before the first page was read.
HeaderBehind ==
  /\ walk.header <= Len(rows)
  /\ walk.header # 0 => list = "timeline"
  /\ walk.step \in {"hydrate", "done"} /\ walk.ties = {} =>
       walk.header <= Len(walk.seen) + Len(walk.page)

\* What was served is shown with all it refers to.
ServedWhole ==
  /\ walk.unnamed = {}
  /\ list = "timeline" =>
       \A i \in 1..Len(walk.seen) :
         Shape[walk.seen[i]].file /\ rows[walk.seen[i]].live => walk.seen[i] \in walk.shown

WalkSound ==
  /\ MetOnce /\ PagesInTurn /\ MetAbove /\ SteadyMet /\ HeaderBehind /\ ServedWhole

FeedInv ==
  /\ FeedTyped
  /\ EventsOrdered
  /\ walk # Scrolling!Away => WalkSound

LEMMA InitFeedInv == Scrolling!Init => FeedInv
<1>. SUFFICES ASSUME Scrolling!Init PROVE FeedInv
  OBVIOUS
<1>1. list = "none" /\ rows = <<>> /\ counted = 0 /\ edits = 0 /\ walk = Scrolling!Away
  BY DEF Scrolling!Init
<1>2. rows \in Seq([key : 1..KeyLimit, live : BOOLEAN]) /\ Len(rows) = 0
  BY <1>1, EmptySeq
<1>. QED
  BY <1>1, <1>2, BoundAssumption DEF FeedInv, FeedTyped, EventsOrdered, Scrolling!WalkState

\* The fields of the rows, of a sequence of rows and of a walk.
LEMMA RowFields ==
  ASSUME NEW s, s \in Seq([key : 1..KeyLimit, live : BOOLEAN])
  PROVE  /\ Len(s) \in Nat /\ DOMAIN s = 1..Len(s)
         /\ \A n \in 1..Len(s) : s[n] \in [key : 1..KeyLimit, live : BOOLEAN]
         /\ \A n \in 1..Len(s) : s[n].key \in 1..KeyLimit /\ s[n].key \in Nat
<1>1. Len(s) \in Nat /\ DOMAIN s = 1..Len(s)
  BY LenProperties
<1>2. \A n \in 1..Len(s) : s[n] \in [key : 1..KeyLimit, live : BOOLEAN]
  BY ElementOfSeq
<1>3. \A k \in 1..KeyLimit : k \in Nat
  BY BoundAssumption
<1>4. \A n \in 1..Len(s) : s[n].key \in 1..KeyLimit
  BY <1>2
<1>. QED
  BY <1>1, <1>2, <1>3, <1>4

LEMMA WalkFields ==
  ASSUME FeedTyped, walk # Scrolling!Away
  PROVE  /\ walk \in Scrolling!Scroll
         /\ walk.step \in {"header", "read", "hydrate", "done"}
         /\ walk.cursor \in Nat /\ walk.limit \in Nat /\ walk.limit >= 1
         /\ walk.page \in Seq(1..RowLimit) /\ walk.seen \in Seq(1..RowLimit)
         /\ walk.header \in Nat
<1>1. walk \in Scrolling!Scroll
  BY DEF FeedTyped, Scrolling!WalkState
<1>. QED
  BY <1>1, BoundAssumption DEF Scrolling!Scroll, Scrolling!RowId

LEMMA FeedInvImplies ==
  ASSUME FeedInv
  PROVE  /\ Scrolling!TypeOK
         /\ Scrolling!ScrollShowsOnce /\ Scrolling!ScrollComplete
         /\ Scrolling!HeaderNotAhead /\ Scrolling!PagesAreWhole
<1>1. Scrolling!TypeOK
  BY DEF FeedInv, FeedTyped, Scrolling!TypeOK, Scrolling!Lists, Scrolling!Row
<1>2. CASE walk = Scrolling!Away
  BY <1>1, <1>2 DEF Scrolling!ScrollShowsOnce, Scrolling!ScrollComplete,
                    Scrolling!HeaderNotAhead, Scrolling!PagesAreWhole
<1>3. CASE walk # Scrolling!Away
  <2>1. WalkSound /\ FeedTyped
    BY <1>3 DEF FeedInv
  <2>2. walk.page \in Seq(1..RowLimit) /\ walk.seen \in Seq(1..RowLimit) /\ walk.header \in Nat
    BY <1>3, <2>1, WalkFields
  <2>3. DOMAIN walk.seen = 1..Len(walk.seen)
        /\ Scrolling!Range(walk.seen) = {walk.seen[i] : i \in 1..Len(walk.seen)}
    BY <2>2 DEF Scrolling!Range
  <2>4. Scrolling!ScrollShowsOnce
    BY <2>1, <2>3 DEF WalkSound, MetOnce, Scrolling!ScrollShowsOnce, Scrolling!IsInjective
  <2>5. Scrolling!ScrollComplete
    <3>. SUFFICES ASSUME walk.step = "done", NEW n \in walk.steady
         PROVE  n \in Scrolling!Range(walk.seen) \/ (list # "timeline" /\ rows[n].key \in walk.ties)
      BY DEF Scrolling!ScrollComplete
    <3>1. walk.page = <<>> /\ walk.cursor = 0
      BY <2>1 DEF WalkSound, PagesInTurn
    <3>2. Met = {walk.seen[i] : i \in 1..Len(walk.seen)}
      BY <3>1 DEF Met
    <3>. QED
      BY <2>1, <2>3, <3>1, <3>2 DEF WalkSound, SteadyMet
  <2>6. Scrolling!HeaderNotAhead
    <3>1. Len(walk.seen \o walk.page) = Len(walk.seen) + Len(walk.page)
      BY <2>2, ConcatProperties
    <3>. QED
      BY <2>1, <3>1 DEF WalkSound, HeaderBehind, Scrolling!HeaderNotAhead
  <2>7. Scrolling!PagesAreWhole
    BY <2>1, <2>3 DEF WalkSound, ServedWhole, Scrolling!PagesAreWhole
  <2>. QED
    BY <1>1, <2>4, <2>5, <2>6, <2>7
<1>. QED
  BY <1>2, <1>3

\* The greatest key is no smaller than any.
LEMMA NewestAbove ==
  ASSUME FeedTyped
  PROVE  /\ Scrolling!Newest \in Nat
         /\ \A n \in 1..Len(rows) : rows[n].key <= Scrolling!Newest
<1>. DEFINE S == {0} \cup {rows[n].key : n \in DOMAIN rows}
<1>1. DOMAIN rows = 1..Len(rows) /\ \A n \in DOMAIN rows : rows[n].key \in 1..KeyLimit
  BY RowFields DEF FeedTyped
<1>2. S \subseteq 0..KeyLimit /\ S # {}
  BY <1>1, BoundAssumption
<1>. HIDE DEF S
<1>3. \E x \in S : \A y \in S : y <= x
  BY <1>2, BoundAssumption, GreatestOf
<1>4. \E x \in S : \A y \in S : x >= y
  BY <1>2, <1>3, BoundAssumption
<1>5. Scrolling!Newest = CHOOSE x \in S : \A y \in S : x >= y
  BY DEF Scrolling!Newest, Scrolling!Max, S
<1>6. Scrolling!Newest \in S /\ \A y \in S : Scrolling!Newest >= y
  BY <1>4, <1>5
<1>7. \A n \in 1..Len(rows) : rows[n].key \in S
  BY <1>1 DEF S
<1>8. \A y \in S : y \in Nat
  BY <1>2, BoundAssumption
<1>. QED
  BY <1>6, <1>7, <1>8

\* A client's walk stays sound when rows are added, removed or moved up, if
\* those of its steady rows that are touched are steady no more.
LEMMA RowsChange ==
  ASSUME FeedInv, walk # Scrolling!Away, walk' # Scrolling!Away, FeedTyped', list' = list,
         Len(rows) <= Len(rows'),
         \A n \in 1..Len(rows) :
           /\ rows'[n].key >= rows[n].key
           /\ list = "timeline" => (rows'[n].live => rows[n].live),
         /\ walk'.step = walk.step /\ walk'.cursor = walk.cursor
         /\ walk'.page = walk.page /\ walk'.seen = walk.seen
         /\ walk'.shown = walk.shown /\ walk'.unnamed = walk.unnamed
         /\ walk'.ties = walk.ties /\ walk'.header = walk.header,
         /\ walk'.steady \subseteq walk.steady
         /\ \A n \in walk'.steady :
              rows'[n].key = rows[n].key /\ (list = "attachments" => rows'[n].live = rows[n].live)
  PROVE  WalkSound'
<1>1. WalkSound /\ FeedTyped
  BY DEF FeedInv
<1>2. Len(rows) \in Nat /\ Len(rows') \in Nat
      /\ DOMAIN rows = 1..Len(rows) /\ DOMAIN rows' = 1..Len(rows')
      /\ \A n \in 1..Len(rows) : rows[n].key \in Nat /\ rows'[n].key \in Nat
  <2>1. rows \in Seq([key : 1..KeyLimit, live : BOOLEAN])
        /\ rows' \in Seq([key : 1..KeyLimit, live : BOOLEAN])
    BY <1>1 DEF FeedTyped
  <2>2. Len(rows) \in Nat /\ DOMAIN rows = 1..Len(rows)
        /\ \A n \in 1..Len(rows) : rows[n].key \in Nat
    BY <2>1, RowFields
  <2>3. Len(rows') \in Nat /\ DOMAIN rows' = 1..Len(rows')
        /\ \A n \in 1..Len(rows') : rows'[n].key \in Nat
    BY <2>1, RowFields
  <2>4. 1..Len(rows) \subseteq 1..Len(rows')
    BY <2>2, <2>3
  <2>. QED
    BY <2>2, <2>3, <2>4
<1>3. Met' = Met /\ Met \subseteq 1..Len(rows)
  BY <1>1 DEF Met, WalkSound, MetOnce
<1>4. /\ walk.cursor \in Nat
      /\ walk.seen \in Seq(1..RowLimit) /\ walk.header \in Nat
  BY <1>1, WalkFields
<1>5. MetOnce'
  BY <1>1, <1>2, <1>3 DEF WalkSound, MetOnce
<1>6. PagesInTurn'
  BY <1>1 DEF WalkSound, PagesInTurn
<1>7. MetAbove'
  <2>. SUFFICES ASSUME walk.cursor # 0
       PROVE  walk.cursor \in walk.ties /\ \A n \in Met : rows'[n].key >= walk.cursor
    BY <1>3 DEF MetAbove
  <2>1. walk.cursor \in walk.ties /\ \A n \in Met : rows[n].key >= walk.cursor
    BY <1>1 DEF WalkSound, MetAbove
  <2>. QED
    BY <1>2, <1>3, <1>4, <2>1
<1>8. SteadyMet'
  <2>. SUFFICES ASSUME NEW n \in walk'.steady
       PROVE  /\ n \in DOMAIN rows' /\ (list' = "attachments" => rows'[n].live)
              /\ \/ n \in Met'
                 \/ list' # "timeline" /\ rows'[n].key \in walk'.ties
                 \/ walk'.cursor # 0 /\ rows'[n].key < walk'.cursor
                 \/ walk'.cursor = 0 /\ walk'.step \in {"header", "read"}
    BY DEF SteadyMet, Scrolling!Listed
  <2>1. n \in walk.steady /\ rows'[n].key = rows[n].key
        /\ (list = "attachments" => rows'[n].live = rows[n].live)
    OBVIOUS
  <2>2. n \in DOMAIN rows /\ (list = "attachments" => rows[n].live)
    BY <1>1, <2>1 DEF WalkSound, SteadyMet, Scrolling!Listed
  <2>3. \/ n \in Met
        \/ list # "timeline" /\ rows[n].key \in walk.ties
        \/ walk.cursor # 0 /\ rows[n].key < walk.cursor
        \/ walk.cursor = 0 /\ walk.step \in {"header", "read"}
    BY <1>1, <2>1 DEF WalkSound, SteadyMet
  <2>. QED
    BY <1>2, <1>3, <2>1, <2>2, <2>3
<1>9. HeaderBehind'
  <2>1. walk.header <= Len(rows) => walk.header <= Len(rows')
    BY <1>2, <1>4
  <2>. QED
    BY <1>1, <2>1 DEF WalkSound, HeaderBehind
<1>10. ServedWhole'
  <2>1. \A i \in 1..Len(walk.seen) : walk.seen[i] \in 1..Len(rows)
    BY <1>1, <1>3 DEF WalkSound, MetOnce, Met
  <2>. QED
    BY <1>1, <2>1 DEF WalkSound, ServedWhole
<1>. QED
  BY <1>5, <1>6, <1>7, <1>8, <1>9, <1>10 DEF WalkSound

\* What a client reads changes no row.
LEMMA RowsKept ==
  ASSUME FeedInv, walk # Scrolling!Away, list' = list, rows' = rows, walk' = walk, FeedTyped'
  PROVE  WalkSound'
<1>1. FeedTyped /\ Len(rows) \in Nat
  BY DEF FeedInv, FeedTyped
<1>2. \A n \in 1..Len(rows) : rows[n].key \in Nat
  BY <1>1, RowFields DEF FeedTyped
<1>3. Len(rows) <= Len(rows) /\ \A n \in 1..Len(rows) : rows[n].key >= rows[n].key
  BY <1>1, <1>2
<1>. QED
  BY <1>3, RowsChange

LEMMA RowInserted ==
  ASSUME FeedInv, NEW key \in 1..KeyLimit, Scrolling!InsertEvent(key) \/ Scrolling!InsertRow(key)
  PROVE  FeedInv'
<1>. DEFINE new == [key |-> key, live |-> TRUE]
<1>1. /\ rows' = Append(rows, new) /\ list' = list /\ counted' = counted
      /\ edits' = edits /\ walk' = walk /\ Len(rows) < RowLimit /\ list # "none"
      /\ list = "timeline" => key \notin {rows[n].key : n \in DOMAIN rows}
  BY DEF Scrolling!InsertEvent, Scrolling!InsertRow
<1>2. FeedTyped /\ rows \in Seq([key : 1..KeyLimit, live : BOOLEAN]) /\ Len(rows) \in Nat
  BY DEF FeedInv, FeedTyped
<1>3. new \in [key : 1..KeyLimit, live : BOOLEAN] /\ new.key = key
  OBVIOUS
<1>. HIDE DEF new
<1>4. /\ rows' \in Seq([key : 1..KeyLimit, live : BOOLEAN]) /\ Len(rows') = Len(rows) + 1
      /\ \A n \in 1..Len(rows) : rows'[n] = rows[n]
      /\ rows'[Len(rows) + 1] = new
  BY <1>1, <1>2, <1>3
<1>5. \A n \in 1..Len(rows) : rows[n].key \in Nat
  BY <1>2, RowFields
<1>6. FeedTyped'
  BY <1>1, <1>2, <1>4, BoundAssumption DEF FeedTyped
<1>7. EventsOrdered'
  <2>1. counted <= Len(rows) /\ counted \in Nat
    BY <1>2 DEF FeedInv, FeedTyped, EventsOrdered
  <2>2. counted' <= Len(rows')
    BY <1>1, <1>2, <1>4, <2>1
  <2>3. ASSUME list = "timeline", NEW i \in 1..Len(rows'), NEW j \in 1..Len(rows'),
               rows'[i].key = rows'[j].key
        PROVE  i = j
    <3>1. \A n \in 1..Len(rows) : rows[n].key # key
      BY <1>1, <1>2, <2>3
    <3>2. \A n \in 1..Len(rows') : n \in 1..Len(rows) \/ n = Len(rows) + 1
      BY <1>2, <1>4
    <3>3. \A a, b \in 1..Len(rows) : rows[a].key = rows[b].key => a = b
      BY <2>3 DEF FeedInv, EventsOrdered
    <3>. QED
      BY <1>3, <1>4, <2>3, <3>1, <3>2, <3>3
  <2>. QED
    BY <1>1, <2>2, <2>3 DEF EventsOrdered
<1>8. ASSUME walk' # Scrolling!Away PROVE WalkSound'
  <2>1. \A n \in 1..Len(rows) :
          rows'[n].key >= rows[n].key /\ (list = "timeline" => (rows'[n].live => rows[n].live))
    BY <1>4, <1>5
  <2>2. \A n \in walk'.steady : n \in 1..Len(rows)
    BY <1>1, <1>2, <1>8 DEF FeedInv, WalkSound, SteadyMet, Scrolling!Listed
  <2>3. Len(rows) <= Len(rows') /\ walk # Scrolling!Away
    BY <1>1, <1>2, <1>4, <1>8
  <2>. QED
    BY <1>1, <1>4, <1>6, <1>8, <2>1, <2>2, <2>3, RowsChange
<1>. QED
  BY <1>6, <1>7, <1>8 DEF FeedInv

LEMMA EventCounted ==
  ASSUME FeedInv, Scrolling!CountEvent
  PROVE  FeedInv'
<1>1. /\ counted < Len(rows) /\ counted' = counted + 1
      /\ rows' = rows /\ list' = list /\ edits' = edits /\ walk' = walk
  BY DEF Scrolling!CountEvent
<1>2. FeedTyped /\ Len(rows) \in Nat /\ counted \in Nat /\ Len(rows) <= RowLimit
  BY DEF FeedInv, FeedTyped
<1>3. counted' <= Len(rows) /\ counted' \in 0..RowLimit
  BY <1>1, <1>2, BoundAssumption
<1>4. FeedTyped'
  BY <1>1, <1>2, <1>3 DEF FeedTyped
<1>5. EventsOrdered'
  BY <1>1, <1>3 DEF FeedInv, EventsOrdered
<1>6. walk' # Scrolling!Away => WalkSound'
  BY <1>1, <1>4, RowsKept
<1>. QED
  BY <1>4, <1>5, <1>6 DEF FeedInv

LEMMA ListChosen ==
  ASSUME FeedInv, NEW l \in Scrolling!Lists, Scrolling!Choose(l)
  PROVE  FeedInv'
<1>1. /\ list = "none" /\ list' = l
      /\ rows' = rows /\ counted' = counted /\ edits' = edits /\ walk' = walk
  BY DEF Scrolling!Choose
<1>2. FeedTyped'
  BY <1>1 DEF FeedInv, FeedTyped, Scrolling!Lists
<1>3. rows = <<>> /\ Len(rows) = 0 /\ counted <= Len(rows)
  BY <1>1 DEF FeedInv, EventsOrdered
<1>4. EventsOrdered'
  BY <1>1, <1>3 DEF EventsOrdered
<1>5. walk = Scrolling!Away
  BY <1>1 DEF FeedInv, WalkSound, PagesInTurn
<1>. QED
  BY <1>1, <1>2, <1>4, <1>5 DEF FeedInv

\* A file is removed: the row stays, and a client may look for it no more.
LEMMA FileRemoved ==
  ASSUME FeedInv, NEW r \in Scrolling!RowId, Scrolling!RemoveFile(r)
  PROVE  FeedInv'
<1>1. /\ list \in {"timeline", "attachments"} /\ edits < EditLimit
      /\ r \in DOMAIN rows
      /\ rows' = [rows EXCEPT ![r].live = FALSE]
      /\ edits' = edits + 1 /\ list' = list /\ counted' = counted
      /\ walk' = IF list = "attachments" THEN Scrolling!Unsteady(r) ELSE walk
  BY DEF Scrolling!RemoveFile
<1>2. FeedTyped /\ rows \in Seq([key : 1..KeyLimit, live : BOOLEAN]) /\ Len(rows) \in Nat
  BY DEF FeedInv, FeedTyped
<1>3. /\ DOMAIN rows = 1..Len(rows)
      /\ \A n \in 1..Len(rows) : rows[n] \in [key : 1..KeyLimit, live : BOOLEAN]
      /\ \A n \in 1..Len(rows) : rows[n].key \in Nat
  BY <1>2, RowFields
<1>4. rows' = [n \in 1..Len(rows) |->
                 IF n = r THEN [key |-> rows[n].key, live |-> FALSE] ELSE rows[n]]
  <2>1. [rows[r] EXCEPT !.live = FALSE] = [key |-> rows[r].key, live |-> FALSE]
    <3>. DEFINE no == FALSE
    <3>1. rows[r] \in [key : 1..KeyLimit, live : BOOLEAN]
      BY <1>1, <1>3
    <3>. HIDE DEF no
    <3>2. [rows[r] EXCEPT !.live = no] = [key |-> rows[r].key, live |-> no]
      BY <3>1
    <3>. QED
      BY <3>2 DEF no
  <2>2. rows' = [rows EXCEPT ![r] = [rows[r] EXCEPT !.live = FALSE]]
    BY <1>1
  <2>3. rows = [n \in 1..Len(rows) |-> rows[n]]
    BY <1>2
  <2>. QED
    BY <1>3, <2>1, <2>2, <2>3
<1>5. /\ Len(rows') = Len(rows)
      /\ \A n \in 1..Len(rows) :
           rows'[n] = IF n = r THEN [key |-> rows[n].key, live |-> FALSE] ELSE rows[n]
      /\ rows' \in Seq([key : 1..KeyLimit, live : BOOLEAN])
  <2>1. rows' \in [1..Len(rows) -> [key : 1..KeyLimit, live : BOOLEAN]]
    BY <1>3, <1>4
  <2>. QED
    BY <1>2, <1>4, <2>1
<1>6. \A n \in 1..Len(rows) :
        /\ rows'[n].key = rows[n].key
        /\ n # r => rows'[n].live = rows[n].live
        /\ rows'[n].live => rows[n].live
  <2>. SUFFICES ASSUME NEW n \in 1..Len(rows)
       PROVE  /\ rows'[n].key = rows[n].key
              /\ n # r => rows'[n].live = rows[n].live
              /\ rows'[n].live => rows[n].live
    OBVIOUS
  <2>1. CASE n = r
    <3>1. rows'[n] = [key |-> rows[n].key, live |-> FALSE]
      BY <1>5, <2>1
    <3>2. rows'[n].key = rows[n].key /\ rows'[n].live = FALSE
      BY <3>1
    <3>. QED
      BY <2>1, <3>2
  <2>2. CASE n # r
    <3>1. rows'[n] = rows[n]
      BY <1>5, <2>2
    <3>. QED
      BY <3>1, Zenon
  <2>. QED
    BY <2>1, <2>2
<1>7. EventsOrdered'
  BY <1>1, <1>5, <1>6 DEF FeedInv, EventsOrdered
<1>8. edits' \in 0..EditLimit
  BY <1>1, <1>2, BoundAssumption DEF FeedTyped
<1>9. CASE walk = Scrolling!Away
  <2>1. walk' = Scrolling!Away
    BY <1>1, <1>9 DEF Scrolling!Unsteady
  <2>2. FeedTyped'
    BY <1>1, <1>2, <1>5, <1>8, <2>1 DEF FeedTyped, Scrolling!WalkState
  <2>. QED
    BY <1>7, <2>1, <2>2 DEF FeedInv
<1>10. CASE walk # Scrolling!Away
  <2>. DEFINE left == IF list = "attachments" THEN walk.steady \ {r} ELSE walk.steady
  <2>1. walk \in Scrolling!Scroll
    BY <1>2, <1>10, WalkFields
  <2>2. walk' = [walk EXCEPT !.steady = left]
    BY <1>1, <1>10, <2>1 DEF Scrolling!Unsteady, Scrolling!Scroll
  <2>3. left \subseteq walk.steady /\ (list = "attachments" => r \notin left)
    OBVIOUS
  <2>. HIDE DEF left
  <2>4. walk' \in Scrolling!Scroll /\ walk'.steady = left
        /\ walk'.step = walk.step /\ walk'.cursor = walk.cursor
        /\ walk'.page = walk.page /\ walk'.seen = walk.seen
        /\ walk'.shown = walk.shown /\ walk'.unnamed = walk.unnamed
        /\ walk'.ties = walk.ties /\ walk'.header = walk.header
    BY <2>1, <2>2, <2>3 DEF Scrolling!Scroll
  <2>5. FeedTyped'
    BY <1>1, <1>2, <1>5, <1>8, <2>4 DEF FeedTyped, Scrolling!WalkState
  <2>6. walk' # Scrolling!Away
    <3>1. DOMAIN walk' = {"step", "cursor", "limit", "page", "seen", "shown", "unnamed",
                          "ties", "steady", "header"}
      BY <2>4 DEF Scrolling!Scroll
    <3>. QED
      BY <3>1 DEF Scrolling!Away
  <2>7. \A n \in walk'.steady : n \in 1..Len(rows)
    BY <1>3, <1>10, <2>3, <2>4 DEF FeedInv, WalkSound, SteadyMet, Scrolling!Listed
  <2>8. /\ Len(rows) <= Len(rows')
        /\ \A n \in 1..Len(rows) :
             rows'[n].key >= rows[n].key /\ (list = "timeline" => (rows'[n].live => rows[n].live))
        /\ \A n \in walk'.steady :
             rows'[n].key = rows[n].key /\ (list = "attachments" => rows'[n].live = rows[n].live)
    <3>1. \A n \in 1..Len(rows) : rows'[n].key >= rows[n].key
      BY <1>3, <1>6
    <3>2. \A n \in walk'.steady : n \in 1..Len(rows) /\ (list = "attachments" => n # r)
      BY <2>3, <2>4, <2>7
    <3>3. Len(rows) <= Len(rows')
      BY <1>2, <1>5
    <3>. QED
      BY <1>6, <3>1, <3>2, <3>3, Zenon
  <2>9. WalkSound'
    BY <1>1, <1>10, <2>3, <2>4, <2>5, <2>6, <2>8, RowsChange
  <2>. QED
    BY <1>7, <2>5, <2>9 DEF FeedInv
<1>. QED
  BY <1>9, <1>10

\* Tasks viewed again move to the top, above whatever was met.
LEMMA ViewedAgain ==
  ASSUME FeedInv, NEW set \in SUBSET Scrolling!RowId, NEW key \in 1..KeyLimit,
         Scrolling!ViewAgain(set, key)
  PROVE  FeedInv'
<1>1. /\ list = "recent" /\ edits < EditLimit
      /\ set \subseteq DOMAIN rows /\ key \in {Scrolling!Newest, Scrolling!Newest + 1}
      /\ rows' = [n \in DOMAIN rows |-> IF n \in set THEN [rows[n] EXCEPT !.key = key] ELSE rows[n]]
      /\ edits' = edits + 1 /\ list' = list /\ counted' = counted
      /\ walk' = IF walk = Scrolling!Away THEN walk ELSE [walk EXCEPT !.steady = @ \ set]
  BY DEF Scrolling!ViewAgain
<1>2. FeedTyped /\ rows \in Seq([key : 1..KeyLimit, live : BOOLEAN]) /\ Len(rows) \in Nat
  BY DEF FeedInv, FeedTyped
<1>3. /\ DOMAIN rows = 1..Len(rows)
      /\ \A n \in 1..Len(rows) : rows[n] \in [key : 1..KeyLimit, live : BOOLEAN]
      /\ \A n \in 1..Len(rows) : rows[n].key \in Nat
  BY <1>2, RowFields
<1>4. \A n \in 1..Len(rows) : [rows[n] EXCEPT !.key = key] = [key |-> key, live |-> rows[n].live]
  BY <1>3
<1>5. /\ Len(rows') = Len(rows)
      /\ \A n \in 1..Len(rows) :
           rows'[n] = IF n \in set THEN [key |-> key, live |-> rows[n].live] ELSE rows[n]
      /\ rows' \in Seq([key : 1..KeyLimit, live : BOOLEAN])
  <2>1. \A n \in 1..Len(rows) :
          rows'[n] = IF n \in set THEN [key |-> key, live |-> rows[n].live] ELSE rows[n]
    BY <1>1, <1>3, <1>4
  <2>2. rows' \in [1..Len(rows) -> [key : 1..KeyLimit, live : BOOLEAN]]
    BY <1>1, <1>3, <2>1
  <2>3. rows' \in Seq([key : 1..KeyLimit, live : BOOLEAN]) /\ Len(rows') = Len(rows)
    BY <1>2, <2>2, SeqOfLength
  <2>. QED
    BY <2>1, <2>3
<1>6. \A n \in 1..Len(rows) : key >= rows[n].key /\ key \in Nat
  BY <1>1, <1>2, <1>3, NewestAbove
<1>7. \A n \in 1..Len(rows) :
        /\ rows'[n].key >= rows[n].key
        /\ n \notin set => rows'[n].key = rows[n].key
  <2>. SUFFICES ASSUME NEW n \in 1..Len(rows)
       PROVE  rows'[n].key >= rows[n].key /\ (n \notin set => rows'[n].key = rows[n].key)
    OBVIOUS
  <2>1. rows[n].key \in Nat /\ key \in Nat /\ key >= rows[n].key
    BY <1>3, <1>6
  <2>2. CASE n \in set
    <3>1. rows'[n] = [key |-> key, live |-> rows[n].live]
      BY <1>5, <2>2
    <3>2. rows'[n].key = key
      BY <3>1
    <3>. QED
      BY <2>1, <2>2, <3>2
  <2>3. CASE n \notin set
    <3>1. rows'[n] = rows[n]
      BY <1>5, <2>3
    <3>. QED
      BY <2>1, <3>1
  <2>. QED
    BY <2>2, <2>3
<1>8. EventsOrdered'
  BY <1>1, <1>5 DEF FeedInv, EventsOrdered
<1>9. edits' \in 0..EditLimit
  BY <1>1, <1>2, BoundAssumption DEF FeedTyped
<1>10. CASE walk = Scrolling!Away
  <2>1. FeedTyped'
    BY <1>1, <1>2, <1>5, <1>9, <1>10 DEF FeedTyped, Scrolling!WalkState
  <2>. QED
    BY <1>1, <1>8, <1>10, <2>1 DEF FeedInv
<1>11. CASE walk # Scrolling!Away
  <2>. DEFINE left == walk.steady \ set
  <2>1. walk \in Scrolling!Scroll
    BY <1>2, <1>11, WalkFields
  <2>2. walk' = [walk EXCEPT !.steady = left]
    BY <1>1, <1>11, <2>1 DEF Scrolling!Scroll
  <2>3. left \subseteq walk.steady /\ \A n \in left : n \notin set
    OBVIOUS
  <2>. HIDE DEF left
  <2>4. walk' \in Scrolling!Scroll /\ walk'.steady = left
        /\ walk'.step = walk.step /\ walk'.cursor = walk.cursor
        /\ walk'.page = walk.page /\ walk'.seen = walk.seen
        /\ walk'.shown = walk.shown /\ walk'.unnamed = walk.unnamed
        /\ walk'.ties = walk.ties /\ walk'.header = walk.header
    BY <2>1, <2>2, <2>3 DEF Scrolling!Scroll
  <2>5. FeedTyped'
    BY <1>1, <1>2, <1>5, <1>9, <2>4 DEF FeedTyped, Scrolling!WalkState
  <2>6. walk' # Scrolling!Away
    <3>1. DOMAIN walk' = {"step", "cursor", "limit", "page", "seen", "shown", "unnamed",
                          "ties", "steady", "header"}
      BY <2>4 DEF Scrolling!Scroll
    <3>. QED
      BY <3>1 DEF Scrolling!Away
  <2>7. \A n \in walk'.steady : n \in 1..Len(rows)
    BY <1>3, <1>11, <2>3, <2>4 DEF FeedInv, WalkSound, SteadyMet, Scrolling!Listed
  <2>8. /\ Len(rows) <= Len(rows')
        /\ \A n \in 1..Len(rows) :
             rows'[n].key >= rows[n].key /\ (list = "timeline" => (rows'[n].live => rows[n].live))
        /\ \A n \in walk'.steady :
             rows'[n].key = rows[n].key /\ (list = "attachments" => rows'[n].live = rows[n].live)
    <3>1. list # "timeline" /\ list # "attachments"
      BY <1>1
    <3>2. \A n \in walk'.steady : n \in 1..Len(rows) /\ n \notin set
      BY <2>3, <2>4, <2>7
    <3>3. Len(rows) <= Len(rows')
      BY <1>2, <1>5
    <3>. QED
      BY <1>7, <3>1, <3>2, <3>3, Zenon
  <2>9. WalkSound'
    BY <1>1, <1>11, <2>3, <2>4, <2>5, <2>6, <2>8, RowsChange
  <2>. QED
    BY <1>8, <2>5, <2>9 DEF FeedInv
<1>. QED
  BY <1>10, <1>11

LEMMA ScrollOpens ==
  ASSUME FeedInv, NEW limit \in 1..PageCap, NEW header \in BOOLEAN, Scrolling!Open(limit, header)
  PROVE  FeedInv'
<1>. DEFINE none == {}
            step == IF header THEN "header" ELSE "read"
<1>1. /\ list # "none" /\ (header => list = "timeline")
      /\ walk' = [step |-> step, cursor |-> 0, limit |-> limit, page |-> <<>>, seen |-> <<>>,
                  shown |-> none, unnamed |-> none, ties |-> none,
                  steady |-> Scrolling!Listed, header |-> 0]
      /\ list' = list /\ rows' = rows /\ counted' = counted /\ edits' = edits
  BY DEF Scrolling!Open, Scrolling!NoKey
<1>2. FeedTyped /\ Len(rows) \in Nat /\ DOMAIN rows = 1..Len(rows) /\ Len(rows) <= RowLimit
  BY DEF FeedInv, FeedTyped
<1>3. Scrolling!Listed \subseteq 1..RowLimit /\ Scrolling!Listed' = Scrolling!Listed
  BY <1>1, <1>2, BoundAssumption DEF Scrolling!Listed
<1>4. step \in {"header", "read"} /\ (step = "header" => list = "timeline")
  BY <1>1
<1>5. none \subseteq 1..RowLimit /\ none \subseteq 1..KeyLimit /\ none = {}
  OBVIOUS
<1>. HIDE DEF none, step
<1>6. <<>> \in Seq(1..RowLimit) /\ 0 \in 0..KeyLimit /\ 0 \in 0..RowLimit
  BY BoundAssumption
<1>7. walk' \in Scrolling!Scroll
  BY <1>1, <1>3, <1>4, <1>5, <1>6 DEF Scrolling!Scroll, Scrolling!RowId
<1>8. FeedTyped'
  BY <1>1, <1>2, <1>7 DEF FeedTyped, Scrolling!WalkState
<1>9. EventsOrdered'
  BY <1>1 DEF FeedInv, EventsOrdered
<1>10. /\ walk'.step = step /\ walk'.cursor = 0 /\ walk'.page = <<>> /\ walk'.seen = <<>>
       /\ walk'.unnamed = none /\ walk'.steady = Scrolling!Listed /\ walk'.header = 0
  BY <1>1
<1>11. Len(walk'.seen) = 0 /\ Len(walk'.page) = 0 /\ 1..0 = {}
  BY <1>10
<1>12. Met' = {}
  BY <1>11 DEF Met
<1>13. MetOnce'
  BY <1>11, <1>12 DEF MetOnce
<1>14. PagesInTurn' /\ MetAbove'
  BY <1>1, <1>4, <1>10 DEF PagesInTurn, MetAbove
<1>15. SteadyMet'
  BY <1>3, <1>4, <1>10 DEF SteadyMet
<1>16. HeaderBehind' /\ ServedWhole'
  BY <1>1, <1>2, <1>4, <1>5, <1>10, <1>11 DEF HeaderBehind, ServedWhole
<1>. QED
  BY <1>8, <1>9, <1>13, <1>14, <1>15, <1>16 DEF FeedInv, WalkSound

LEMMA HeaderRead ==
  ASSUME FeedInv, Scrolling!ReadHeader
  PROVE  FeedInv'
<1>1. /\ walk # Scrolling!Away /\ walk.step = "header"
      /\ walk' = [walk EXCEPT !.header = counted, !.step = "read"]
      /\ list' = list /\ rows' = rows /\ counted' = counted /\ edits' = edits
  BY DEF Scrolling!ReadHeader
<1>2. FeedTyped /\ WalkSound /\ EventsOrdered
  BY <1>1 DEF FeedInv
<1>3. walk \in Scrolling!Scroll /\ counted \in 0..RowLimit
  BY <1>1, <1>2, WalkFields DEF FeedTyped
<1>4. /\ walk' \in Scrolling!Scroll /\ walk'.step = "read" /\ walk'.header = counted
      /\ walk'.cursor = walk.cursor /\ walk'.page = walk.page /\ walk'.seen = walk.seen
      /\ walk'.shown = walk.shown /\ walk'.unnamed = walk.unnamed
      /\ walk'.ties = walk.ties /\ walk'.steady = walk.steady
  BY <1>1, <1>3 DEF Scrolling!Scroll
<1>5. FeedTyped'
  BY <1>1, <1>2, <1>4 DEF FeedTyped, Scrolling!WalkState
<1>6. EventsOrdered'
  BY <1>1, <1>2 DEF EventsOrdered
<1>7. Met' = Met /\ Scrolling!Listed' = Scrolling!Listed
  BY <1>1, <1>4 DEF Met, Scrolling!Listed
<1>8. MetOnce' /\ PagesInTurn' /\ MetAbove'
  BY <1>1, <1>2, <1>4, <1>7 DEF WalkSound, MetOnce, PagesInTurn, MetAbove
<1>9. SteadyMet'
  <2>1. walk.cursor = 0
    BY <1>1, <1>2 DEF WalkSound, PagesInTurn
  <2>. QED
    BY <1>2, <1>4, <1>7, <2>1 DEF WalkSound, SteadyMet
<1>10. HeaderBehind' /\ ServedWhole'
  BY <1>1, <1>2, <1>4 DEF WalkSound, HeaderBehind, ServedWhole, PagesInTurn, EventsOrdered
<1>. QED
  BY <1>5, <1>6, <1>8, <1>9, <1>10 DEF FeedInv, WalkSound

LEMMA LesserOf ==
  ASSUME NEW a \in Nat, NEW b \in Nat
  PROVE  Scrolling!Min({a, b}) = IF a <= b THEN a ELSE b
<1>. DEFINE m == IF a <= b THEN a ELSE b
<1>1. m \in {a, b} /\ \A y \in {a, b} : m <= y
  OBVIOUS
<1>2. \A x \in {a, b} : (\A y \in {a, b} : x <= y) => x = m
  OBVIOUS
<1>. HIDE DEF m
<1>3. Scrolling!Min({a, b}) = CHOOSE x \in {a, b} : \A y \in {a, b} : x <= y
  BY DEF Scrolling!Min
<1>4. (CHOOSE x \in {a, b} : \A y \in {a, b} : x <= y) = m
  BY <1>1, <1>2
<1>. QED
  BY <1>3, <1>4 DEF m

\* The rows that are left to be read.
Left == {n \in Scrolling!Listed : Scrolling!Below(n, walk.cursor)}

\* A page is the start of an order of the rows left, with smaller keys behind
\* greater ones; its cursor is the key of its last row, if there are more.
PageOfOrder(s, page, next) ==
  /\ s \in Seq(Left)
  /\ \A i, j \in 1..Len(s) : s[i] = s[j] => i = j
  /\ \A x \in Left : \E i \in 1..Len(s) : s[i] = x
  /\ \A i, j \in 1..Len(s) : i < j => rows[s[i]].key >= rows[s[j]].key
  /\ Len(s) = Cardinality(Left)
  /\ page \in Seq(1..RowLimit)
  /\ Len(page) = IF Len(s) > walk.limit THEN walk.limit ELSE Len(s)
  /\ \A i \in 1..Len(page) : page[i] = s[i]
  /\ next = IF Len(s) > walk.limit THEN rows[s[walk.limit]].key ELSE 0

LEMMA PageTaken ==
  ASSUME FeedTyped, walk # Scrolling!Away, NEW items \in Scrolling!Fetched(walk.cursor, walk.limit)
  PROVE  \E s : PageOfOrder(s, Scrolling!PageOf(items, walk.limit),
                            Scrolling!NextCursor(items, walk.limit))
<1>. DEFINE limit == walk.limit
<1>1. limit \in Nat /\ limit >= 1
  BY WalkFields
<1>. HIDE DEF limit
<1>2. PICK s \in Scrolling!SetToSeqs(Left) :
        /\ \A i, j \in DOMAIN s : i < j => rows[s[i]].key >= rows[s[j]].key
        /\ items = SubSeq(s, 1, Scrolling!Min({limit + 1, Len(s)}))
  BY DEF Scrolling!Fetched, Left, limit
<1>3. Len(rows) \in Nat /\ Len(rows) <= RowLimit /\ DOMAIN rows = 1..Len(rows)
  BY DEF FeedTyped
<1>4. Left \subseteq 1..Len(rows) /\ IsFiniteSet(1..Len(rows))
  BY <1>3, FS_Interval DEF Left, Scrolling!Listed
<1>5. Left \subseteq 1..RowLimit /\ IsFiniteSet(Left)
  <2>1. 1..Len(rows) \subseteq 1..RowLimit
    BY <1>3, BoundAssumption
  <2>2. IsFiniteSet(Left)
    BY <1>4, FS_Subset
  <2>. QED
    BY <1>4, <2>1, <2>2
<1>6. /\ s \in Seq(Left) /\ Len(s) = Cardinality(Left)
      /\ \A i, j \in 1..Len(s) : s[i] = s[j] => i = j
      /\ \A x \in Left : \E i \in 1..Len(s) : s[i] = x
  BY <1>2, <1>5, EnumerationWhole
<1>7. /\ Len(s) \in Nat /\ DOMAIN s = 1..Len(s)
      /\ \A i \in 1..Len(s) : s[i] \in 1..RowLimit
  <2>1. \A i \in 1..Len(s) : s[i] \in Left
    BY <1>6, ElementOfSeq
  <2>2. Len(s) \in Nat /\ DOMAIN s = 1..Len(s)
    BY <1>6, LenProperties
  <2>. QED
    BY <1>5, <2>1, <2>2
<1>. DEFINE L == IF limit + 1 <= Len(s) THEN limit + 1 ELSE Len(s)
            K == IF limit <= L THEN limit ELSE L
            page == Scrolling!PageOf(items, limit)
<1>8. items = SubSeq(s, 1, L)
  <2>1. limit + 1 \in Nat /\ Len(s) \in Nat
    BY <1>1, <1>7
  <2>2. Scrolling!Min({limit + 1, Len(s)}) = L
    BY <2>1, LesserOf
  <2>. QED
    BY <1>2, <2>2
<1>9. L \in 0..Len(s) /\ K \in 0..L /\ L \in Nat /\ K \in Nat
  BY <1>1, <1>7
<1>10. K = IF Len(s) > limit THEN limit ELSE Len(s)
  BY <1>1, <1>7
<1>11. L > limit <=> Len(s) > limit
  BY <1>1, <1>7
<1>. HIDE DEF L
<1>12. /\ items \in Seq(1..RowLimit) /\ Len(items) = L
       /\ \A i \in 1..L : items[i] = s[i]
  <2>1. items = [i \in 1..L |-> s[i]]
    <3>1. items = [i \in 1..(L - 1 + 1) |-> s[1 + i - 1]]
      BY <1>8, <1>9 DEF SubSeq
    <3>2. L - 1 + 1 = L /\ \A i \in 1..L : 1 + i - 1 = i
      BY <1>9
    <3>. QED
      BY <3>1, <3>2
  <2>2. \A i \in 1..L : s[i] \in 1..RowLimit
    BY <1>7, <1>9
  <2>. QED
    BY <1>9, <2>1, <2>2
<1>13. page = SubSeq(items, 1, K)
  BY <1>1, <1>9, <1>12, LesserOf DEF Scrolling!PageOf
<1>. HIDE DEF K, page
<1>14. /\ page \in Seq(1..RowLimit) /\ Len(page) = K
       /\ \A i \in 1..K : page[i] = items[i]
  <2>1. page = [i \in 1..K |-> items[i]]
    <3>1. page = [i \in 1..(K - 1 + 1) |-> items[1 + i - 1]]
      BY <1>9, <1>13 DEF SubSeq
    <3>2. K - 1 + 1 = K /\ \A i \in 1..K : 1 + i - 1 = i
      BY <1>9
    <3>. QED
      BY <3>1, <3>2
  <2>2. \A i \in 1..K : items[i] \in 1..RowLimit
    <3>1. \A i \in 1..L : items[i] \in 1..RowLimit
      BY <1>12, ElementOfSeq
    <3>. QED
      BY <1>9, <3>1
  <2>. QED
    BY <1>9, <2>1, <2>2
<1>15. \A i \in 1..K : page[i] = s[i]
  BY <1>9, <1>12, <1>14
<1>16. Scrolling!NextCursor(items, limit) = IF Len(s) > limit THEN rows[s[limit]].key ELSE 0
  <2>1. Len(s) > limit => items[limit] = s[limit]
    BY <1>1, <1>9, <1>11, <1>12
  <2>. QED
    BY <1>11, <1>12, <2>1 DEF Scrolling!NextCursor, Scrolling!HasMore, Scrolling!FromLast,
                              Scrolling!NoKey
<1>. QED
  BY <1>2, <1>6, <1>7, <1>10, <1>14, <1>15, <1>16 DEF PageOfOrder, page, limit

LEMMA PageKeeps ==
  ASSUME FeedInv, Scrolling!TakePage
  PROVE  FeedInv'
<1>1. /\ walk # Scrolling!Away /\ walk.step = "read"
      /\ list' = list /\ rows' = rows /\ counted' = counted /\ edits' = edits
  BY DEF Scrolling!TakePage
<1>2. PICK items \in Scrolling!Fetched(walk.cursor, walk.limit) :
        LET next == Scrolling!NextCursor(items, walk.limit) IN
        walk' = [walk EXCEPT !.page = Scrolling!PageOf(items, walk.limit), !.cursor = next,
                             !.ties = IF next = 0 THEN @ ELSE @ \cup {next},
                             !.step = "hydrate"]
  BY DEF Scrolling!TakePage, Scrolling!NoKey
<1>. DEFINE page == Scrolling!PageOf(items, walk.limit)
            next == Scrolling!NextCursor(items, walk.limit)
            ties == IF next = 0 THEN walk.ties ELSE walk.ties \cup {next}
<1>3. FeedTyped /\ WalkSound /\ EventsOrdered /\ walk \in Scrolling!Scroll
  BY <1>1, WalkFields DEF FeedInv
<1>4. PICK s : PageOfOrder(s, page, next)
  BY <1>1, <1>3, PageTaken
<1>5. walk' = [walk EXCEPT !.page = page, !.cursor = next, !.ties = ties, !.step = "hydrate"]
  BY <1>2, <1>3 DEF Scrolling!Scroll
<1>. HIDE DEF page, next
<1>6. /\ walk.cursor \in Nat /\ walk.limit \in Nat /\ walk.limit >= 1
      /\ walk.page \in Seq(1..RowLimit) /\ walk.seen \in Seq(1..RowLimit)
      /\ walk.header \in Nat /\ Len(walk.seen) \in Nat
  BY <1>1, <1>3, WalkFields
<1>7. /\ Len(rows) \in Nat /\ DOMAIN rows = 1..Len(rows)
      /\ \A n \in 1..Len(rows) : rows[n].key \in 1..KeyLimit /\ rows[n].key \in Nat
  BY <1>3, RowFields DEF FeedTyped
<1>8. /\ Left \subseteq 1..Len(rows) /\ Left \subseteq Scrolling!Listed
      /\ \A n \in Left : walk.cursor = 0 \/ rows[n].key < walk.cursor
  BY <1>7 DEF Left, Scrolling!Listed, Scrolling!Below, Scrolling!NoKey
<1>9. /\ s \in Seq(Left) /\ Len(s) \in Nat /\ Len(page) \in Nat /\ Len(page) <= Len(s)
      /\ \A i \in 1..Len(s) : s[i] \in Left
      /\ \A i \in 1..Len(page) : i \in 1..Len(s) /\ page[i] = s[i]
  <2>1. s \in Seq(Left) /\ page \in Seq(1..RowLimit) /\ Len(s) \in Nat /\ Len(page) \in Nat
    BY <1>4 DEF PageOfOrder
  <2>2. Len(page) <= Len(s)
    BY <1>4, <1>6, <2>1 DEF PageOfOrder
  <2>. QED
    BY <1>4, <2>1, <2>2 DEF PageOfOrder
<1>10. next = 0 <=> Len(s) <= walk.limit
  <2>1. Len(s) > walk.limit => walk.limit \in 1..Len(s)
    BY <1>6, <1>9
  <2>2. \A i \in 1..Len(s) : rows[s[i]].key \in 1..KeyLimit
    BY <1>7, <1>8, <1>9
  <2>. QED
    BY <1>4, <1>6, <1>9, <2>1, <2>2 DEF PageOfOrder
<1>11. next # 0 => /\ next = rows[s[walk.limit]].key /\ next \in 1..KeyLimit
                   /\ walk.limit \in 1..Len(s) /\ Len(page) = walk.limit
  <2>. SUFFICES ASSUME next # 0
       PROVE  /\ next = rows[s[walk.limit]].key /\ next \in 1..KeyLimit
              /\ walk.limit \in 1..Len(s) /\ Len(page) = walk.limit
    OBVIOUS
  <2>1. Len(s) > walk.limit
    BY <1>6, <1>9, <1>10
  <2>2. walk.limit \in 1..Len(s)
    BY <1>6, <1>9, <2>1
  <2>3. next = rows[s[walk.limit]].key /\ Len(page) = walk.limit
    BY <1>4, <2>1 DEF PageOfOrder
  <2>4. s[walk.limit] \in 1..Len(rows)
    BY <1>8, <1>9, <2>2
  <2>. QED
    BY <1>7, <2>2, <2>3, <2>4
<1>12. ties \subseteq 1..KeyLimit /\ walk.ties \subseteq ties
  BY <1>3, <1>11 DEF Scrolling!Scroll
<1>13. next # 0 => next \in ties
  OBVIOUS
<1>14. next = 0 => ties = walk.ties
  OBVIOUS
<1>. HIDE DEF ties
<1>15. /\ walk' \in Scrolling!Scroll
       /\ walk'.step = "hydrate" /\ walk'.page = page /\ walk'.cursor = next /\ walk'.ties = ties
       /\ walk'.seen = walk.seen /\ walk'.shown = walk.shown /\ walk'.unnamed = walk.unnamed
       /\ walk'.steady = walk.steady /\ walk'.header = walk.header
  <2>1. page \in Seq(1..RowLimit) /\ next \in 0..KeyLimit
    BY <1>4, <1>11, BoundAssumption DEF PageOfOrder
  <2>. QED
    BY <1>3, <1>5, <1>12, <2>1 DEF Scrolling!Scroll, Scrolling!RowId
<1>16. FeedTyped'
  BY <1>1, <1>3, <1>15 DEF FeedTyped, Scrolling!WalkState
<1>17. EventsOrdered' /\ Scrolling!Listed' = Scrolling!Listed
  BY <1>1, <1>3 DEF EventsOrdered, Scrolling!Listed
<1>18. walk.cursor = 0 => walk.seen = <<>> /\ Len(walk.seen) = 0
  BY <1>1, <1>3 DEF WalkSound, PagesInTurn
<1>19. \A i \in 1..Len(walk.seen) : walk.seen[i] \in Met
  BY DEF Met
<1>20. Met' = {walk.seen[i] : i \in 1..Len(walk.seen)} \cup {page[i] : i \in 1..Len(page)}
  BY <1>15 DEF Met
<1>21. MetOnce'
  <2>1. Met' \subseteq 1..Len(rows)
    BY <1>3, <1>8, <1>9, <1>19, <1>20 DEF WalkSound, MetOnce
  <2>2. \A i, j \in 1..Len(page) : page[i] = page[j] => i = j
    BY <1>4, <1>9 DEF PageOfOrder
  <2>3. ASSUME NEW i \in 1..Len(walk.seen), NEW j \in 1..Len(page) PROVE walk.seen[i] # page[j]
    <3>1. walk.cursor # 0
      BY <1>18
    <3>2. rows[walk.seen[i]].key >= walk.cursor
      BY <1>3, <1>19, <3>1 DEF WalkSound, MetAbove
    <3>3. page[j] \in 1..Len(rows) /\ rows[page[j]].key < walk.cursor
      BY <1>8, <1>9, <3>1
    <3>. QED
      BY <1>6, <1>7, <3>2, <3>3
  <2>. QED
    BY <1>1, <1>3, <1>15, <2>1, <2>2, <2>3 DEF WalkSound, MetOnce
<1>22. PagesInTurn'
  BY <1>1, <1>3, <1>15 DEF WalkSound, PagesInTurn
<1>23. MetAbove'
  <2>. SUFFICES ASSUME next # 0 PROVE \A n \in Met' : rows[n].key >= next
    BY <1>1, <1>13, <1>15 DEF MetAbove
  <2>1. walk.limit \in 1..Len(s) /\ next = rows[s[walk.limit]].key /\ Len(page) = walk.limit
    BY <1>11
  <2>2. \A i \in 1..Len(page) : rows[page[i]].key >= next
    <3>. SUFFICES ASSUME NEW i \in 1..Len(page) PROVE rows[page[i]].key >= next
      OBVIOUS
    <3>1. i \in 1..Len(s) /\ page[i] = s[i] /\ i \in Nat /\ i <= walk.limit
      BY <1>6, <1>9, <2>1
    <3>2. s[i] \in 1..Len(rows) /\ rows[s[i]].key \in Nat
      BY <1>7, <1>8, <1>9, <3>1
    <3>3. CASE i = walk.limit
      BY <2>1, <3>1, <3>2, <3>3
    <3>4. CASE i # walk.limit
      <4>1. i < walk.limit
        BY <1>6, <3>1, <3>4
      <4>. QED
        BY <1>4, <2>1, <3>1, <4>1 DEF PageOfOrder
    <3>. QED
      BY <3>3, <3>4
  <2>3. \A i \in 1..Len(walk.seen) : rows[walk.seen[i]].key >= next
    <3>. SUFFICES ASSUME NEW i \in 1..Len(walk.seen) PROVE rows[walk.seen[i]].key >= next
      OBVIOUS
    <3>1. walk.cursor # 0
      BY <1>18
    <3>2. rows[walk.seen[i]].key >= walk.cursor
      BY <1>3, <1>19, <3>1 DEF WalkSound, MetAbove
    <3>3. next < walk.cursor /\ next \in Nat
      BY <1>7, <1>8, <1>9, <2>1, <3>1
    <3>4. walk.seen[i] \in 1..Len(rows)
      BY <1>3, <1>19 DEF WalkSound, MetOnce
    <3>. QED
      BY <1>6, <1>7, <3>2, <3>3, <3>4
  <2>. QED
    BY <1>20, <2>2, <2>3
<1>24. SteadyMet'
  <2>. SUFFICES ASSUME NEW n \in walk.steady
       PROVE  \/ n \in Met'
              \/ list # "timeline" /\ rows[n].key \in ties
              \/ next # 0 /\ rows[n].key < next
    <3>1. \A n \in walk.steady : n \in Scrolling!Listed
      BY <1>3 DEF WalkSound, SteadyMet
    <3>. QED
      BY <1>1, <1>15, <1>17, <3>1 DEF SteadyMet
  <2>1. CASE n \in Met
    <3>1. walk.page = <<>> /\ Len(walk.page) = 0
      BY <1>1, <1>3 DEF WalkSound, PagesInTurn
    <3>2. Met = {walk.seen[i] : i \in 1..Len(walk.seen)}
      BY <3>1 DEF Met
    <3>. QED
      BY <1>20, <2>1, <3>2
  <2>2. CASE list # "timeline" /\ rows[n].key \in walk.ties
    BY <1>12, <2>2
  <2>3. CASE n \in Left
    <3>1. PICK i \in 1..Len(s) : s[i] = n
      BY <1>4, <2>3 DEF PageOfOrder
    <3>2. CASE i \in 1..Len(page)
      BY <1>9, <1>20, <3>1, <3>2
    <3>3. CASE i \notin 1..Len(page)
      <4>1. i \in Nat /\ i > Len(page) /\ i <= Len(s)
        BY <1>9, <3>3
      <4>2. Len(page) # Len(s)
        BY <1>9, <4>1
      <4>3. Len(s) > walk.limit
        BY <1>4, <1>6, <1>9, <4>2 DEF PageOfOrder
      <4>4. next # 0
        BY <1>6, <1>9, <1>10, <4>3
      <4>5. walk.limit \in 1..Len(s) /\ walk.limit < i /\ next = rows[s[walk.limit]].key
        BY <1>6, <1>9, <1>11, <4>1, <4>4
      <4>6. rows[n].key <= next
        <5>1. \A j, k \in 1..Len(s) : j < k => rows[s[j]].key >= rows[s[k]].key
          BY <1>4 DEF PageOfOrder
        <5>2. rows[s[walk.limit]].key >= rows[s[i]].key
          BY <3>1, <4>5, <5>1
        <5>3. rows[s[i]].key \in Nat /\ rows[s[walk.limit]].key \in Nat
          BY <1>7, <1>8, <1>9, <3>1, <4>5
        <5>. QED
          BY <3>1, <4>5, <5>2, <5>3
      <4>7. CASE rows[n].key < next
        BY <4>4, <4>7
      <4>8. CASE rows[n].key = next /\ list # "timeline"
        BY <1>13, <4>4, <4>8
      <4>9. CASE rows[n].key = next /\ list = "timeline"
        <5>1. n \in 1..Len(rows) /\ s[walk.limit] \in 1..Len(rows)
          BY <1>8, <1>9, <2>3, <4>5
        <5>2. n = s[walk.limit]
          BY <1>3, <4>5, <4>9, <5>1 DEF EventsOrdered
        <5>3. i = walk.limit
          BY <1>4, <3>1, <4>5, <5>2 DEF PageOfOrder
        <5>. QED
          BY <1>6, <4>5, <5>3
      <4>. QED
        BY <1>7, <1>8, <1>11, <2>3, <4>4, <4>6, <4>7, <4>8, <4>9
    <3>. QED
      BY <3>2, <3>3
  <2>4. /\ n \in Scrolling!Listed
        /\ \/ n \in Met
           \/ list # "timeline" /\ rows[n].key \in walk.ties
           \/ rows[n].key < walk.cursor
           \/ walk.cursor = 0
    BY <1>3 DEF WalkSound, SteadyMet
  <2>. QED
    BY <2>1, <2>2, <2>3, <2>4 DEF Left, Scrolling!Below, Scrolling!NoKey
<1>25. HeaderBehind'
  <2>. SUFFICES ASSUME ties = {} PROVE walk.header <= Len(walk.seen) + Len(page)
    BY <1>1, <1>3, <1>15 DEF WalkSound, HeaderBehind
  <2>1. next = 0 /\ walk.ties = {}
    BY <1>12, <1>13
  <2>2. walk.cursor = 0
    BY <1>3, <2>1 DEF WalkSound, MetAbove
  <2>3. Len(walk.seen) = 0 /\ Len(page) = Cardinality(Left)
    BY <1>4, <1>6, <1>9, <1>10, <1>18, <2>1, <2>2 DEF PageOfOrder
  <2>4. CASE list = "timeline"
    <3>1. Left = 1..Len(rows)
      BY <1>7, <2>2, <2>4 DEF Left, Scrolling!Listed, Scrolling!Below, Scrolling!NoKey
    <3>2. Cardinality(Left) = Len(rows)
      <4>. DEFINE m == Len(rows)
      <4>1. m \in Nat /\ Left = 1..m
        BY <1>7, <3>1
      <4>. HIDE DEF m
      <4>2. Cardinality(1..m) = IF 1 > m THEN 0 ELSE m - 1 + 1
        BY <4>1, FS_Interval
      <4>3. Cardinality(1..m) = m
        BY <4>1, <4>2
      <4>. QED
        BY <4>1, <4>3 DEF m
    <3>. QED
      BY <1>3, <1>6, <1>7, <2>3, <3>2 DEF WalkSound, HeaderBehind
  <2>5. CASE list # "timeline"
    BY <1>3, <1>6, <1>9, <2>3, <2>5 DEF WalkSound, HeaderBehind
  <2>. QED
    BY <2>4, <2>5
<1>26. ServedWhole'
  BY <1>1, <1>3, <1>15 DEF WalkSound, ServedWhole
<1>. QED
  BY <1>16, <1>17, <1>21, <1>22, <1>23, <1>24, <1>25, <1>26 DEF FeedInv, WalkSound

\* Whoever the mapper names in a page is one of those looked up with it.
LEMMA NamesLookedUp ==
  ASSUME NEW page, NEW n \in Scrolling!Range(page)
  PROVE  Scrolling!Resolved(Shape[n]) \subseteq Scrolling!LookedUp(page)
<1>1. Scrolling!Resolved(Shape[n]) \subseteq Scrolling!Extracted(Shape[n])
  BY DEF Scrolling!Resolved, Scrolling!Extracted
<1>2. Scrolling!Extracted(Shape[n]) \subseteq Scrolling!LookedUp(page)
  BY DEF Scrolling!LookedUp
<1>. QED
  BY <1>1, <1>2

LEMMA ServeKeeps ==
  ASSUME FeedInv, Scrolling!Serve
  PROVE  FeedInv'
<1>. DEFINE page == walk.page
            met == walk.seen \o walk.page
            shown == walk.shown \cup Scrolling!Previews(walk.page)
            unnamed == walk.unnamed \cup {n \in Scrolling!Range(walk.page) :
                         ~(Scrolling!Resolved(Shape[n]) \subseteq Scrolling!LookedUp(walk.page))}
            step == IF walk.cursor = 0 THEN "done" ELSE "read"
<1>1. /\ walk # Scrolling!Away /\ walk.step = "hydrate"
      /\ walk' = [walk EXCEPT !.seen = @ \o walk.page, !.page = <<>>,
                              !.shown = @ \cup Scrolling!Previews(walk.page),
                              !.unnamed = @ \cup {n \in Scrolling!Range(walk.page) :
                                 ~(Scrolling!Resolved(Shape[n]) \subseteq Scrolling!LookedUp(walk.page))},
                              !.step = IF walk.cursor = 0 THEN "done" ELSE "read"]
      /\ list' = list /\ rows' = rows /\ counted' = counted /\ edits' = edits
  BY DEF Scrolling!Serve, Scrolling!NoKey
<1>2. FeedTyped /\ WalkSound /\ EventsOrdered /\ walk \in Scrolling!Scroll
  BY <1>1, WalkFields DEF FeedInv
<1>3. walk' = [walk EXCEPT !.seen = met, !.page = <<>>, !.shown = shown,
                           !.unnamed = unnamed, !.step = step]
  BY <1>1, <1>2 DEF Scrolling!Scroll
<1>4. /\ walk.cursor \in Nat /\ walk.header \in Nat
      /\ walk.page \in Seq(1..RowLimit) /\ walk.seen \in Seq(1..RowLimit)
      /\ Len(walk.page) \in Nat /\ Len(walk.seen) \in Nat
      /\ walk.shown \subseteq 1..RowLimit
  BY <1>1, <1>2, WalkFields DEF Scrolling!Scroll, Scrolling!RowId
<1>5. /\ DOMAIN walk.page = 1..Len(walk.page)
      /\ Scrolling!Range(walk.page) = {walk.page[i] : i \in 1..Len(walk.page)}
      /\ Scrolling!Range(walk.page) \subseteq 1..RowLimit
  <2>1. DOMAIN walk.page = 1..Len(walk.page)
    BY <1>4, LenProperties
  <2>2. \A i \in 1..Len(walk.page) : walk.page[i] \in 1..RowLimit
    BY <1>4, ElementOfSeq
  <2>. QED
    BY <2>1, <2>2 DEF Scrolling!Range
<1>6. met \in Seq(1..RowLimit) /\ Joined(walk.seen, walk.page, met)
  BY <1>4, JoinedWhole
<1>7. unnamed = {}
  BY <1>2, NamesLookedUp DEF WalkSound, ServedWhole
<1>8. /\ shown \subseteq 1..RowLimit /\ walk.shown \subseteq shown
      /\ \A n \in Scrolling!Range(walk.page) : Shape[n].file /\ rows[n].live => n \in shown
  BY <1>4, <1>5 DEF Scrolling!Previews
<1>9. step \in {"read", "done"} /\ (step = "done" <=> walk.cursor = 0)
  OBVIOUS
<1>. HIDE DEF met, shown, unnamed, step
<1>10. /\ walk' \in Scrolling!Scroll
       /\ walk'.seen = met /\ walk'.page = <<>> /\ walk'.shown = shown
       /\ walk'.unnamed = unnamed /\ walk'.step = step
       /\ walk'.cursor = walk.cursor /\ walk'.ties = walk.ties
       /\ walk'.steady = walk.steady /\ walk'.header = walk.header
  <2>1. <<>> \in Seq(1..RowLimit) /\ unnamed \subseteq 1..RowLimit
    BY <1>7
  <2>. QED
    BY <1>2, <1>3, <1>6, <1>8, <1>9, <2>1 DEF Scrolling!Scroll, Scrolling!RowId
<1>11. FeedTyped'
  BY <1>1, <1>2, <1>10 DEF FeedTyped, Scrolling!WalkState
<1>12. EventsOrdered' /\ Scrolling!Listed' = Scrolling!Listed
  BY <1>1, <1>2 DEF EventsOrdered, Scrolling!Listed
<1>13. Len(walk'.page) = 0 /\ 1..Len(walk'.page) = {}
  BY <1>10
<1>14. Met' = Met
  <2>1. Met' = {met[i] : i \in 1..Len(met)}
    BY <1>10, <1>13 DEF Met
  <2>2. Held(met) = Held(walk.seen) \cup Held(walk.page)
    BY <1>6, JoinedRange
  <2>. QED
    BY <2>1, <2>2 DEF Met, Held
<1>15. MetOnce'
  <2>1. \A i, j \in 1..Len(met) : met[i] = met[j] => i = j
    BY <1>2, <1>6, JoinedOnce DEF WalkSound, MetOnce
  <2>2. Met' \subseteq 1..Len(rows')
    BY <1>1, <1>2, <1>14 DEF WalkSound, MetOnce
  <2>3. \A i, j \in 1..Len(walk'.seen) : walk'.seen[i] = walk'.seen[j] => i = j
    BY <1>10, <2>1
  <2>. QED
    BY <1>13, <2>2, <2>3 DEF MetOnce
<1>16. PagesInTurn' /\ MetAbove'
  BY <1>1, <1>2, <1>9, <1>10, <1>14 DEF WalkSound, PagesInTurn, MetAbove
<1>17. SteadyMet'
  BY <1>1, <1>2, <1>10, <1>12, <1>14 DEF WalkSound, SteadyMet
<1>18. HeaderBehind'
  <2>1. Len(walk'.seen) + Len(walk'.page) = Len(walk.seen) + Len(walk.page)
    <3>1. Len(walk'.page) = 0 /\ walk'.seen = met
      BY <1>10, <1>13
    <3>2. Len(met) = Len(walk.seen) + Len(walk.page)
      BY <1>6 DEF Joined
    <3>. QED
      BY <1>4, <3>1, <3>2
  <2>. QED
    BY <1>1, <1>2, <1>10, <2>1 DEF WalkSound, HeaderBehind
<1>19. ServedWhole'
  <2>1. ASSUME list = "timeline", NEW i \in 1..Len(met), Shape[met[i]].file /\ rows[met[i]].live
        PROVE  met[i] \in shown
    <3>1. CASE i \in 1..Len(walk.seen) /\ met[i] = walk.seen[i]
      BY <1>2, <1>8, <2>1, <3>1 DEF WalkSound, ServedWhole
    <3>2. CASE i - Len(walk.seen) \in 1..Len(walk.page)
               /\ met[i] = walk.page[i - Len(walk.seen)]
      BY <1>5, <1>8, <2>1, <3>2
    <3>. QED
      BY <1>6, <3>1, <3>2 DEF Joined
  <2>. QED
    BY <1>1, <1>7, <1>10, <2>1 DEF ServedWhole
<1>. QED
  BY <1>11, <1>12, <1>15, <1>16, <1>17, <1>18, <1>19 DEF FeedInv, WalkSound

LEMMA FeedInvStep ==
  ASSUME FeedInv, [Scrolling!Next]_feedVars
  PROVE  FeedInv'
<1>1. CASE UNCHANGED feedVars
  <2>1. list' = list /\ rows' = rows /\ counted' = counted /\ edits' = edits /\ walk' = walk
    BY <1>1 DEF feedVars
  <2>2. FeedTyped' /\ EventsOrdered'
    BY <2>1 DEF FeedInv, FeedTyped, EventsOrdered
  <2>3. walk' # Scrolling!Away => WalkSound'
    BY <2>1, <2>2, RowsKept
  <2>. QED
    BY <2>2, <2>3 DEF FeedInv
<1>2. CASE Scrolling!Next
  <2>1. CASE \E l \in Scrolling!Lists : Scrolling!Choose(l)
    BY <2>1, ListChosen
  <2>2. CASE \E key \in 1..KeyLimit : Scrolling!InsertEvent(key) \/ Scrolling!InsertRow(key)
    BY <2>2, RowInserted
  <2>3. CASE Scrolling!CountEvent
    BY <2>3, EventCounted
  <2>4. CASE \E n \in Scrolling!RowId : Scrolling!RemoveFile(n)
    BY <2>4, FileRemoved
  <2>5. CASE \E set \in SUBSET Scrolling!RowId, key \in 1..KeyLimit : Scrolling!ViewAgain(set, key)
    BY <2>5, ViewedAgain
  <2>6. CASE \E limit \in 1..PageCap, header \in BOOLEAN : Scrolling!Open(limit, header)
    BY <2>6, ScrollOpens
  <2>7. CASE Scrolling!ReadHeader
    BY <2>7, HeaderRead
  <2>8. CASE Scrolling!TakePage
    BY <2>8, PageKeeps
  <2>9. CASE Scrolling!Serve
    BY <2>9, ServeKeeps
  <2>. QED
    BY <1>2, <2>1, <2>2, <2>3, <2>4, <2>5, <2>6, <2>7, <2>8, <2>9
       DEF Scrolling!Next, Scrolling!ReadTimeline, Scrolling!ReadAttachments, Scrolling!ReadRecent
<1>. QED
  BY <1>1, <1>2

-------------------------------------------------------------------------------
(* Deadlines                                                               *)

\* The Indian day of an instant.
LEMMA DayOfInstant ==
  \A t \in Nat :
    /\ Deadlines!IndianDay(t) \in Nat
    /\ 1440 * Deadlines!IndianDay(t) <= t + 330
    /\ t + 330 < 1440 * Deadlines!IndianDay(t) + 1440
<1>. TAKE t \in Nat
<1>1. Deadlines!IndianDay(t) = (t + 330) \div 1440
  BY DEF Deadlines!IndianDay, Deadlines!India, Deadlines!Day
<1>. QED
  BY <1>1

\* Each day has the minutes from its start in UTC.
LEMMA StartOfDay ==
  \A t \in Nat : Deadlines!BusinessDayStart(t) = 1440 * Deadlines!IndianDay(t) - 330
<1>. TAKE t \in Nat
<1>1. Deadlines!IndianDay(t) \in Nat
  BY DayOfInstant
<1>. QED
  BY <1>1 DEF Deadlines!BusinessDayStart, Deadlines!InZone, Deadlines!India, Deadlines!Day

LEMMA FirstDaysMonths == Calendar(Deadlines!FirstDay)
<1>1. PICK f : Calendar(f)
  BY CalendarExists
<1>2. \E g : g = [month \in 1..(Len(MonthLength) + 1) |->
                   IF month = 1 THEN 0 ELSE g[month - 1] + MonthLength[month - 1]]
  BY <1>1, CalendarEquation
<1>3. Deadlines!FirstDay =
        [month \in 1..(Len(MonthLength) + 1) |->
           IF month = 1 THEN 0 ELSE Deadlines!FirstDay[month - 1] + MonthLength[month - 1]]
  BY <1>2 DEF Deadlines!FirstDay
<1>. QED
  BY <1>3, EquationCalendar

\* A day of the calendar is in the month whose days it is among, and in no other.
LEMMA MonthWhole ==
  ASSUME NEW d \in Nat, d < Deadlines!FirstDay[Len(MonthLength) + 1]
  PROVE  /\ Deadlines!Month(d) \in Months
         /\ Deadlines!FirstDay[Deadlines!Month(d)] <= d
         /\ d < Deadlines!FirstDay[Deadlines!Month(d) + 1]
         /\ \A n \in Months : Deadlines!FirstDay[n] <= d /\ d < Deadlines!FirstDay[n + 1]
                                => n = Deadlines!Month(d)
<1>. DEFINE f == Deadlines!FirstDay
<1>1. Calendar(f)
  BY FirstDaysMonths
<1>2. Deadlines!Month(d) = CHOOSE m \in Months : f[m] <= d /\ d < f[m + 1]
  BY DEF Deadlines!Month, Months
<1>3. d < f[Len(MonthLength) + 1]
  OBVIOUS
<1>. HIDE DEF f
<1>4. PICK m \in Months :
        /\ f[m] <= d /\ d < f[m + 1]
        /\ \A n \in Months : f[n] <= d /\ d < f[n + 1] => n = m
  BY <1>1, <1>3, MonthOfDay
<1>5. Deadlines!Month(d) = m
  BY <1>2, <1>4
<1>. QED
  BY <1>4, <1>5 DEF f

\* What is known of the present and of a deadline.
DeadlineKnown ==
  /\ minute \in Nat
  /\ Deadlines!IndianDay(minute) < Deadlines!FirstDay[Len(MonthLength) + 1]
  /\ due # Deadlines!Unset =>
       /\ due.date \in Nat /\ due.time \in Nat /\ due.time < 1440
       /\ Deadlines!IndianDay(due.date) < Deadlines!FirstDay[Len(MonthLength) + 1]

LEMMA DeadlinesKnown ==
  ASSUME Deadlines!TypeOK
  PROVE  DeadlineKnown
<1>1. minute \in Nat /\ minute <= LastMinute
  BY DeadlineAssumption DEF Deadlines!TypeOK
<1>2. Deadlines!IndianDay(minute) <= Deadlines!IndianDay(LastMinute)
  <2>. DEFINE a == Deadlines!IndianDay(minute)
              b == Deadlines!IndianDay(LastMinute)
  <2>1. LastMinute \in Nat
    BY DeadlineAssumption
  <2>2. a \in Nat /\ 1440 * a <= minute + 330
    BY <1>1, DayOfInstant
  <2>3. b \in Nat /\ LastMinute + 330 < 1440 * b + 1440
    BY <2>1, DayOfInstant
  <2>. HIDE DEF a, b
  <2>4. a <= b
    BY <1>1, <2>1, <2>2, <2>3
  <2>. QED
    BY <2>4 DEF a, b
<1>3. Deadlines!FirstDay[Len(MonthLength) + 1] \in Nat
  BY FirstDaysMonths, MonthsWhole DEF Calendar
<1>4. Deadlines!IndianDay(minute) < Deadlines!FirstDay[Len(MonthLength) + 1]
  <2>1. Deadlines!IndianDay(LastMinute) < Deadlines!FirstDay[Len(MonthLength) + 1]
    BY DeadlineAssumption
  <2>2. Deadlines!IndianDay(minute) \in Nat /\ Deadlines!IndianDay(LastMinute) \in Nat
    BY <1>1, DeadlineAssumption, DayOfInstant
  <2>. QED
    BY <1>2, <1>3, <2>1, <2>2
<1>5. ASSUME due # Deadlines!Unset
      PROVE  /\ due.date \in Nat /\ due.time \in Nat /\ due.time < 1440
             /\ Deadlines!IndianDay(due.date) < Deadlines!FirstDay[Len(MonthLength) + 1]
  <2>1. due \in [date : DueDates, time : DueTimes]
    BY <1>5 DEF Deadlines!TypeOK
  <2>. DEFINE d == due.date
              t == due.time
  <2>2. d \in DueDates /\ t \in DueTimes
    BY <2>1
  <2>. HIDE DEF d, t
  <2>3. t \in 0..(1440 - 1)
    BY <2>2, DeadlineAssumption DEF Deadlines!Day
  <2>4. t \in Nat /\ t < 1440
    BY <2>3
  <2>5. d \in Nat /\ Deadlines!IndianDay(d) < Deadlines!FirstDay[Len(MonthLength) + 1]
    BY <2>2, DeadlineAssumption
  <2>. QED
    BY <2>4, <2>5 DEF d, t
<1>. QED
  BY <1>1, <1>4, <1>5 DEF DeadlineKnown

\* The deadline is in the Indian day of dueDate.
LEMMA DeadlineInDay ==
  ASSUME DeadlineKnown, due # Deadlines!Unset
  PROVE  /\ Deadlines!DueAt = 1440 * Deadlines!IndianDay(due.date) + due.time - 330
         /\ Deadlines!IndianDay(Deadlines!DueAt) = Deadlines!IndianDay(due.date)
<1>. DEFINE d == due.date
            t == due.time
            D == Deadlines!IndianDay(d)
<1>1. d \in Nat /\ t \in Nat /\ t < 1440
  BY DEF DeadlineKnown
<1>2. Deadlines!DueAt = D * 1440 + t - 330
  BY DEF Deadlines!DueAt, Deadlines!InZone, Deadlines!India, Deadlines!Day
<1>. HIDE DEF d, t
<1>3. D \in Nat
  BY <1>1, DayOfInstant
<1>. HIDE DEF D
<1>4. Deadlines!IndianDay(Deadlines!DueAt) = (D * 1440 + t - 330 + 330) \div 1440
  BY <1>2 DEF Deadlines!IndianDay, Deadlines!India, Deadlines!Day
<1>5. (D * 1440 + t - 330 + 330) \div 1440 = D
  BY <1>1, <1>3
<1>6. D * 1440 + t - 330 = 1440 * D + t - 330
  BY <1>1, <1>3
<1>. QED
  BY <1>2, <1>4, <1>5, <1>6 DEF D, d, t

LEMMA WindowsShowDeadlines ==
  ASSUME DeadlineKnown
  PROVE  Deadlines!DueIsCandidate
<1>. SUFFICES ASSUME due # Deadlines!Unset
     PROVE  /\ (\E lead \in Deadlines!Leads : Deadlines!IsDueInReminderWindow(lead))
                 => Deadlines!Candidate
            /\ Deadlines!Cardinality({lead \in Deadlines!Leads :
                                       Deadlines!IsDueInReminderWindow(lead)}) <= 1
  BY DEF Deadlines!DueIsCandidate
<1>. DEFINE at == Deadlines!DueAt
            d == due.date
            t == due.time
            m == minute
            D == Deadlines!IndianDay(d)
<1>1. m \in Nat /\ d \in Nat /\ t \in Nat /\ t < 1440
  BY DEF DeadlineKnown
<1>. HIDE DEF d, t
<1>2. D \in Nat /\ 1440 * D <= d + 330 /\ d + 330 < 1440 * D + 1440
  BY <1>1, DayOfInstant
<1>3. at = 1440 * D + t - 330
  BY DeadlineInDay DEF d, t
<1>4. Deadlines!Min(Deadlines!Leads) = 0 /\ Deadlines!Max(Deadlines!Leads) = 60
  <2>1. \A x \in {0, 30, 60} : (\A y \in {0, 30, 60} : x <= y) <=> x = 0
    OBVIOUS
  <2>2. \A x \in {0, 30, 60} : (\A y \in {0, 30, 60} : x >= y) <=> x = 60
    OBVIOUS
  <2>3. (CHOOSE x \in {0, 30, 60} : \A y \in {0, 30, 60} : x <= y) = 0
    BY <2>1
  <2>4. (CHOOSE x \in {0, 30, 60} : \A y \in {0, 30, 60} : x >= y) = 60
    BY <2>2
  <2>. QED
    BY <2>3, <2>4 DEF Deadlines!Min, Deadlines!Max, Deadlines!Leads
<1>5. \A lead \in Deadlines!Leads :
        /\ lead \in {0, 30, 60}
        /\ Deadlines!IsDueInReminderWindow(lead) <=> at > m + lead - 5 /\ at <= m + lead
  BY DEF Deadlines!Leads, Deadlines!IsDueInReminderWindow, Deadlines!WindowStart,
         Deadlines!WindowEnd, Deadlines!Catchup
<1>. DEFINE E == Deadlines!IndianDay(m + 60)
            S == (m - 5 + 330) \div 1440
<1>6. E \in Nat /\ 1440 * E <= m + 60 + 330 /\ m + 60 + 330 < 1440 * E + 1440
      /\ Deadlines!SearchEnd = 1440 * E - 330 + 1440 - 1
  <2>. DEFINE later == m + 60
  <2>1. later \in Nat
    BY <1>1
  <2>2. Deadlines!SearchEnd = Deadlines!BusinessDayStart(m + 60) + 1440 - 1
    BY <1>4 DEF Deadlines!SearchEnd, Deadlines!BusinessDayEnd, Deadlines!WindowEnd, Deadlines!Day
  <2>. HIDE DEF later
  <2>3. /\ Deadlines!IndianDay(later) \in Nat
        /\ 1440 * Deadlines!IndianDay(later) <= later + 330
        /\ later + 330 < 1440 * Deadlines!IndianDay(later) + 1440
        /\ Deadlines!BusinessDayStart(later) = 1440 * Deadlines!IndianDay(later) - 330
    BY <2>1, DayOfInstant, StartOfDay
  <2>4. E = Deadlines!IndianDay(later)
    BY DEF later
  <2>. HIDE DEF E
  <2>. QED
    BY <2>2, <2>3, <2>4 DEF later
<1>7. S \in Int /\ 1440 * S <= m - 5 + 330 /\ m - 5 + 330 < 1440 * S + 1440
  BY <1>1
<1>8. Deadlines!SearchStart = 1440 * S - 330
  <2>1. Deadlines!SearchStart = ((m + 0 - 5 + 330) \div 1440) * 1440 + 0 - 330
    BY <1>4 DEF Deadlines!SearchStart, Deadlines!BusinessDayStart, Deadlines!IndianDay,
                Deadlines!InZone, Deadlines!WindowStart, Deadlines!Catchup, Deadlines!India,
                Deadlines!Day
  <2>2. m + 0 - 5 + 330 = m - 5 + 330
    BY <1>1
  <2>. QED
    BY <1>7, <2>1, <2>2
<1>. HIDE DEF D, at, m, E, S
<1>9. ASSUME NEW lead \in {0, 30, 60}, at > m + lead - 5, at <= m + lead
      PROVE  d >= 1440 * S - 330 /\ d <= 1440 * E - 330 + 1440 - 1
  BY <1>1, <1>2, <1>3, <1>6, <1>7, <1>9
<1>10. (\E lead \in Deadlines!Leads : Deadlines!IsDueInReminderWindow(lead)) => Deadlines!Candidate
  BY <1>5, <1>6, <1>8, <1>9 DEF Deadlines!Candidate, d
<1>11. Deadlines!Cardinality({lead \in Deadlines!Leads : Deadlines!IsDueInReminderWindow(lead)}) <= 1
  <2>. DEFINE W == {lead \in Deadlines!Leads : Deadlines!IsDueInReminderWindow(lead)}
  <2>1. at \in Int
    BY <1>1, <1>2, <1>3
  <2>2. \A x, y \in W : x = y
    BY <1>1, <1>5, <2>1
  <2>3. Deadlines!Cardinality(W) = Cardinality(W)
    BY DEF Deadlines!Cardinality, Cardinality
  <2>. HIDE DEF W
  <2>4. CASE W = {}
    <3>1. Cardinality(W) = 0
      BY <2>4, FS_EmptySet
    <3>. QED
      BY <2>3, <3>1 DEF W
  <2>5. CASE W # {}
    <3>1. PICK x \in W : W = {x}
      BY <2>2, <2>5
    <3>2. Cardinality(W) = 1
      BY <3>1, FS_Singleton
    <3>. QED
      BY <2>3, <3>2 DEF W
  <2>. QED
    BY <2>4, <2>5 DEF W
<1>. QED
  BY <1>10, <1>11

LEMMA OverviewCounts ==
  ASSUME DeadlineKnown
  PROVE  Deadlines!OverviewCountsIndianDays
<1>. DEFINE d == due.date
            D == Deadlines!IndianDay(d)
            T == Deadlines!IndianDay(minute)
            f == Deadlines!FirstDay
<1>. SUFFICES ASSUME due # Deadlines!Unset
     PROVE  /\ Deadlines!DueToday <=> D = T
            /\ Deadlines!DueThisWeek <=> D \in T..(T + 6)
            /\ Deadlines!DueThisMonth <=> D >= T /\ Deadlines!Month(D) = Deadlines!Month(T)
  BY DeadlineInDay DEF Deadlines!OverviewCountsIndianDays
<1>1. d \in Nat /\ minute \in Nat
  BY DEF DeadlineKnown
<1>2. D < f[Len(MonthLength) + 1] /\ T < f[Len(MonthLength) + 1]
  BY DEF DeadlineKnown
<1>3. \A a, b : Deadlines!Between(a, b) <=> d >= a /\ d <= b
  BY DEF Deadlines!Between
<1>. HIDE DEF d
<1>4. D \in Nat /\ 1440 * D <= d + 330 /\ d + 330 < 1440 * D + 1440
  BY <1>1, DayOfInstant
<1>5. T \in Nat /\ Deadlines!BusinessDayStart(minute) = 1440 * T - 330
  BY <1>1, DayOfInstant, StartOfDay
<1>6. \A a, n : Deadlines!RangeEnd(a, n) = a + n * 1440 - 1
  BY DEF Deadlines!RangeEnd, Deadlines!Day
<1>7. Deadlines!DueToday <=> d >= 1440 * T - 330 /\ d <= 1440 * T - 330 + 1 * 1440 - 1
  BY <1>5, <1>3, <1>6 DEF Deadlines!DueToday
<1>8. Deadlines!DueThisWeek <=> d >= 1440 * T - 330 /\ d <= 1440 * T - 330 + 7 * 1440 - 1
  BY <1>5, <1>3, <1>6 DEF Deadlines!DueThisWeek
<1>. DEFINE M == Deadlines!Month(T)
<1>9. M \in Months /\ f[M] <= T /\ T < f[M + 1]
  BY <1>5, <1>2, MonthWhole
<1>10. \A x \in 1..(Len(MonthLength) + 1) : f[x] \in Nat
  BY FirstDaysMonths DEF Calendar
<1>11. f[M] \in Nat /\ f[M + 1] \in Nat
  BY <1>9, <1>10, MonthsWhole DEF Months
<1>. DEFINE F == f[M + 1]
<1>12. Deadlines!BusinessMonthEnd(minute) = 1440 * F - 330 - 1
  <2>1. F * 1440 \in Nat
    BY <1>11
  <2>2. Deadlines!IndianDay(F * 1440) = F
    <3>1. Deadlines!IndianDay(F * 1440) = (F * 1440 + 330) \div 1440
      BY DEF Deadlines!IndianDay, Deadlines!India, Deadlines!Day
    <3>. HIDE DEF F
    <3>2. F \in Nat
      BY <1>11 DEF F
    <3>3. (F * 1440 + 330) \div 1440 = F
      BY <3>2
    <3>. QED
      BY <3>1, <3>3
  <2>3. Deadlines!BusinessMonthEnd(minute) = Deadlines!BusinessDayStart(F * 1440) - 1
    BY DEF Deadlines!BusinessMonthEnd, Deadlines!Day
  <2>. QED
    BY <2>1, <2>2, <2>3, StartOfDay
<1>13. Deadlines!DueThisMonth <=> d >= 1440 * T - 330 /\ d <= 1440 * F - 330 - 1
  BY <1>5, <1>3, <1>12 DEF Deadlines!DueThisMonth
<1>14. D >= T => (D < F <=> Deadlines!Month(D) = M)
  <2>. SUFFICES ASSUME D >= T PROVE D < F <=> Deadlines!Month(D) = M
    OBVIOUS
  <2>1. /\ f[Deadlines!Month(D)] <= D /\ D < f[Deadlines!Month(D) + 1]
        /\ \A n \in Months : f[n] <= D /\ D < f[n + 1] => n = Deadlines!Month(D)
    BY <1>4, <1>2, MonthWhole
  <2>2. f[M] <= D
    BY <1>4, <1>5, <1>9, <1>11
  <2>. QED
    BY <1>9, <2>1, <2>2
<1>15. F \in Nat
  BY <1>11
<1>. HIDE DEF D, T, F, M
<1>16. d >= 1440 * T - 330 /\ d <= 1440 * T - 330 + 1 * 1440 - 1 <=> D = T
  BY <1>1, <1>4, <1>5
<1>17. d >= 1440 * T - 330 /\ d <= 1440 * T - 330 + 7 * 1440 - 1 <=> D \in T..(T + 6)
  BY <1>1, <1>4, <1>5
<1>18. d >= 1440 * T - 330 /\ d <= 1440 * F - 330 - 1 <=> D >= T /\ D < F
  BY <1>1, <1>4, <1>5, <1>15
<1>19. Deadlines!DueThisMonth <=> D >= T /\ Deadlines!Month(D) = M
  BY <1>13, <1>14, <1>18
<1>. QED
  BY <1>7, <1>8, <1>16, <1>17, <1>19 DEF M

LEMMA DeadlineInvImplies ==
  ASSUME Deadlines!TypeOK
  PROVE  Deadlines!DueIsCandidate /\ Deadlines!OverviewCountsIndianDays
BY DeadlinesKnown, WindowsShowDeadlines, OverviewCounts

LEMMA InitDeadlineInv == Deadlines!Init => Deadlines!TypeOK
<1>1. FirstMinute \in FirstMinute..LastMinute
  BY DeadlineAssumption
<1>. QED
  BY <1>1 DEF Deadlines!Init, Deadlines!TypeOK

LEMMA DeadlineInvStep ==
  ASSUME Deadlines!TypeOK, [Deadlines!Next]_deadlineVars
  PROVE  Deadlines!TypeOK'
<1>1. CASE UNCHANGED deadlineVars
  BY <1>1 DEF deadlineVars, Deadlines!TypeOK
<1>4. CASE \E date \in DueDates, time \in DueTimes : Deadlines!SetDue(date, time)
  BY <1>4 DEF Deadlines!SetDue, Deadlines!TypeOK
<1>5. CASE \E minutes \in {1, 240} : Deadlines!Pass(minutes)
  BY <1>5, DeadlineAssumption DEF Deadlines!Pass, Deadlines!TypeOK
<1>. QED
  BY <1>1, <1>4, <1>5 DEF Deadlines!Next

-------------------------------------------------------------------------------
(* Catalogue                                                               *)

\* In a finite set whose elements are ordered, each has a place of its own, and
\* every place up to the number of elements is taken.  B has, for each element,
\* those before it.
Ordered(S, B) ==
  /\ B \in [S -> SUBSET S]
  /\ \A n \in S : n \notin B[n]
  /\ \A m, n \in S : m # n => m \in B[n] \/ n \in B[m]
  /\ \A m, n \in S : m \in B[n] => B[m] \subseteq B[n]

LEMMA PlacesTaken ==
  ASSUME NEW S, IsFiniteSet(S), NEW B, Ordered(S, B)
  PROVE  /\ \A n \in S : Cardinality(B[n]) + 1 \in 1..Cardinality(S)
         /\ \A m, n \in S : Cardinality(B[m]) = Cardinality(B[n]) => m = n
         /\ \A i \in 1..Cardinality(S) : \E n \in S : Cardinality(B[n]) + 1 = i
<1>. DEFINE k == Cardinality(S)
            D == 1..k
            place == [n \in S |-> Cardinality(B[n]) + 1]
<1>1. k \in Nat
  BY FS_CardinalityType
<1>2. \A n \in S : IsFiniteSet(B[n]) /\ Cardinality(B[n]) \in Nat
  <2>1. \A n \in S : B[n] \subseteq S
    BY DEF Ordered
  <2>2. \A n \in S : IsFiniteSet(B[n])
    BY <2>1, FS_Subset
  <2>. QED
    BY <2>2, FS_CardinalityType
<1>3. \A n \in S : Cardinality(B[n]) < k
  <2>. SUFFICES ASSUME NEW n \in S PROVE Cardinality(B[n]) < k
    OBVIOUS
  <2>1. B[n] \subseteq S /\ B[n] # S
    BY DEF Ordered
  <2>2. Cardinality(B[n]) <= k /\ (Cardinality(B[n]) = k => B[n] = S)
    BY <2>1, FS_Subset
  <2>. QED
    BY <1>1, <1>2, <2>1, <2>2
<1>4. \A m, n \in S : m \in B[n] => Cardinality(B[m]) < Cardinality(B[n])
  <2>. SUFFICES ASSUME NEW m \in S, NEW n \in S, m \in B[n]
       PROVE  Cardinality(B[m]) < Cardinality(B[n])
    OBVIOUS
  <2>1. B[m] \subseteq B[n] /\ B[m] # B[n]
    BY DEF Ordered
  <2>2. Cardinality(B[m]) <= Cardinality(B[n])
        /\ (Cardinality(B[m]) = Cardinality(B[n]) => B[m] = B[n])
    BY <1>2, <2>1, FS_Subset
  <2>. QED
    BY <1>2, <2>1, <2>2
<1>5. \A m, n \in S : Cardinality(B[m]) = Cardinality(B[n]) => m = n
  BY <1>2, <1>4 DEF Ordered
<1>6. \A n \in S : Cardinality(B[n]) + 1 \in D
  BY <1>1, <1>2, <1>3
<1>7. place \in Injection(S, D)
  <2>1. place \in [S -> D]
    BY <1>6
  <2>2. \A m, n \in S : place[m] = place[n] => m = n
    BY <1>2, <1>5
  <2>. HIDE DEF place, D
  <2>. QED
    BY <2>1, <2>2 DEF Injection, IsInjective
<1>8. IsFiniteSet(D) /\ Cardinality(D) = k
  BY <1>1, FS_Interval
<1>9. place \in Surjection(S, D)
  BY <1>7, <1>8, FS_Injection
<1>10. \A i \in D : \E n \in S : place[n] = i
  <2>1. place \in [S -> D]
    BY <1>6
  <2>. HIDE DEF place, D
  <2>. QED
    BY <1>9, <2>1 DEF Surjection, Range
<1>11. \A n \in S : place[n] = Cardinality(B[n]) + 1
  OBVIOUS
<1>. HIDE DEF place
<1>. QED
  BY <1>5, <1>6, <1>10, <1>11

LEMMA SameCount == \A S : Listings!Cardinality(S) = Cardinality(S)
BY DEF Listings!Cardinality, Cardinality

\* Every service lists its documents in one of three orders.
LEMMA ServiceOrders ==
  ASSUME NEW s \in Listings!Services
  PROVE  s.order \in {"oldest", "newest", "tag"} /\ s # Listings!NoService
<1>. DEFINE yes == TRUE
            no == FALSE
            plain == [order |-> "oldest", atOnce |-> yes, filter |-> no, capped |-> no,
                      paged |-> yes, update |-> yes, remove |-> yes]
<1>1. Listings!Plain = plain
  BY DEF Listings!Plain
<1>2. \/ s = plain
      \/ s = [plain EXCEPT !.filter = yes]
      \/ s = [plain EXCEPT !.order = "tag"]
      \/ s = [plain EXCEPT !.filter = yes, !.capped = yes]
      \/ s = [plain EXCEPT !.paged = no]
      \/ s = [plain EXCEPT !.order = "newest", !.atOnce = no, !.filter = yes,
                           !.update = no, !.remove = no]
      \/ s = [plain EXCEPT !.order = "newest", !.filter = yes]
      \/ s = [plain EXCEPT !.order = "newest"]
  BY <1>1 DEF Listings!Services, Listings!CategoryService, Listings!OutletTypeService,
              Listings!ProductService, Listings!TaskCategoryService,
              Listings!CakeCustomizationService, Listings!AddressService,
              Listings!CustomCakeService, Listings!UploadedCakesService,
              Listings!UsersService, Listings!OutletService, Listings!OutletTableService,
              Listings!FormService, Listings!ReviewService
<1>. HIDE DEF yes, no
<1>3. s = plain => s.order = "oldest"
  OBVIOUS
<1>4. s = [plain EXCEPT !.filter = yes] => s.order = "oldest"
  OBVIOUS
<1>5. s = [plain EXCEPT !.order = "tag"] => s.order = "tag"
  OBVIOUS
<1>6. s = [plain EXCEPT !.filter = yes, !.capped = yes] => s.order = "oldest"
  OBVIOUS
<1>7. s = [plain EXCEPT !.paged = no] => s.order = "oldest"
  OBVIOUS
<1>8. s = [plain EXCEPT !.order = "newest", !.atOnce = no, !.filter = yes,
                        !.update = no, !.remove = no] => s.order = "newest"
  OBVIOUS
<1>9. s = [plain EXCEPT !.order = "newest", !.filter = yes] => s.order = "newest"
  OBVIOUS
<1>10. s = [plain EXCEPT !.order = "newest"] => s.order = "newest"
  OBVIOUS
<1>. HIDE DEF plain
<1>11. s.order \in {"oldest", "newest", "tag"}
  BY <1>2, <1>3, <1>4, <1>5, <1>6, <1>7, <1>8, <1>9, <1>10
<1>. QED
  BY <1>11 DEF Listings!NoService

Documents == [live : BOOLEAN, tag : Tag]

LEMMA DocFields ==
  ASSUME NEW s, s \in Seq(Documents)
  PROVE  /\ Len(s) \in Nat /\ DOMAIN s = 1..Len(s)
         /\ \A n \in 1..Len(s) : s[n] \in Documents /\ s[n].tag \in Tag /\ s[n].tag \in Nat
<1>1. Len(s) \in Nat /\ DOMAIN s = 1..Len(s)
  BY LenProperties
<1>2. \A n \in 1..Len(s) : s[n] \in Documents
  BY ElementOfSeq
<1>3. \A n \in 1..Len(s) : s[n].tag \in Tag
  BY <1>2 DEF Documents
<1>. QED
  BY <1>1, <1>2, <1>3, TagAssumption

\* The documents before one in the listing.
Ahead(tag, n) == {m \in Listings!Listed(tag) : Listings!Before(m, n)}

\* A listing is in order.
LEMMA ListingOrdered ==
  ASSUME docs \in Seq(Documents), service \in Listings!Services, NEW tag
  PROVE  /\ IsFiniteSet(Listings!Listed(tag))
         /\ Listings!Listed(tag) \subseteq 1..Len(docs)
         /\ Ordered(Listings!Listed(tag), [n \in Listings!Listed(tag) |-> Ahead(tag, n)])
<1>. DEFINE S == Listings!Listed(tag)
            B == [n \in S |-> Ahead(tag, n)]
<1>1. /\ Len(docs) \in Nat /\ DOMAIN docs = 1..Len(docs)
      /\ \A n \in 1..Len(docs) : docs[n].tag \in Nat
  BY DocFields
<1>2. S \subseteq 1..Len(docs)
  BY <1>1 DEF Listings!Listed
<1>3. IsFiniteSet(S)
  <2>1. 1 \in Int /\ Len(docs) \in Int
    BY <1>1
  <2>2. IsFiniteSet(1..Len(docs))
    BY <2>1, FS_Interval
  <2>. QED
    BY <1>2, <2>2, FS_Subset
<1>4. S \subseteq Nat /\ \A n \in S : docs[n].tag \in Nat
  BY <1>1, <1>2
<1>5. \A n \in S : B[n] = {m \in S : Listings!Before(m, n)}
  BY DEF Ahead
<1>6. B \in [S -> SUBSET S]
  BY DEF Ahead
<1>. HIDE DEF S, B
<1>7. service.order \in {"oldest", "newest", "tag"}
  BY ServiceOrders
<1>8. CASE service.order = "oldest"
  <2>1. \A m, n : Listings!Before(m, n) <=> m < n
    BY <1>8 DEF Listings!Before
  <2>. QED
    BY <1>2, <1>3, <1>4, <1>5, <1>6, <2>1 DEF Ordered, S, B
<1>9. CASE service.order = "newest"
  <2>1. \A m, n : Listings!Before(m, n) <=> m > n
    BY <1>9 DEF Listings!Before
  <2>. QED
    BY <1>2, <1>3, <1>4, <1>5, <1>6, <2>1 DEF Ordered, S, B
<1>10. CASE service.order = "tag"
  <2>1. \A m, n : Listings!Before(m, n)
                    <=> docs[m].tag < docs[n].tag \/ (docs[m].tag = docs[n].tag /\ m > n)
    BY <1>10 DEF Listings!Before
  <2>2. \A n \in S : n \notin B[n]
    BY <1>4, <1>5, <2>1
  <2>3. \A m, n \in S : m # n => m \in B[n] \/ n \in B[m]
    BY <1>4, <1>5, <2>1
  <2>4. ASSUME NEW m \in S, NEW n \in S, m \in B[n], NEW l \in B[m]
        PROVE  l \in B[n]
    <3>1. l \in S
      BY <1>5
    <3>2. PICK a \in Nat : a = docs[l].tag
      BY <1>4, <3>1
    <3>3. PICK b \in Nat : b = docs[m].tag
      BY <1>4
    <3>4. PICK c \in Nat : c = docs[n].tag
      BY <1>4
    <3>5. (b < c \/ (b = c /\ m > n)) /\ (a < b \/ (a = b /\ l > m))
      BY <1>5, <2>1, <2>4, <3>1, <3>2, <3>3, <3>4
    <3>6. l \in Nat /\ m \in Nat /\ n \in Nat
      BY <1>4, <3>1
    <3>7. a < c \/ (a = c /\ l > n)
      BY <3>5, <3>6
    <3>. QED
      BY <1>5, <2>1, <3>1, <3>2, <3>4, <3>7
  <2>. QED
    BY <1>2, <1>3, <1>6, <2>2, <2>3, <2>4 DEF Ordered, S, B
<1>. QED
  BY <1>7, <1>8, <1>9, <1>10

\* What a listing has at which place.
LEMMA SortedWhole ==
  ASSUME docs \in Seq(Documents), service \in Listings!Services, NEW tag,
         NEW k, k = Cardinality(Listings!Listed(tag))
  PROVE  /\ k \in 0..Len(docs)
         /\ Len(Listings!Sorted(tag)) = k
         /\ \A n \in Listings!Listed(tag) :
              /\ Listings!Place(tag, n) = Cardinality(Ahead(tag, n)) + 1
              /\ Listings!Place(tag, n) \in 1..k
              /\ Listings!Sorted(tag)[Listings!Place(tag, n)] = n
         /\ \A i \in 1..k : /\ Listings!Sorted(tag)[i] \in Listings!Listed(tag)
                            /\ Listings!Place(tag, Listings!Sorted(tag)[i]) = i
<1>. DEFINE S == Listings!Listed(tag)
            B == [n \in S |-> Ahead(tag, n)]
<1>1. IsFiniteSet(S) /\ S \subseteq 1..Len(docs) /\ Ordered(S, B)
  BY ListingOrdered
<1>2. k \in 0..Len(docs)
  <2>1. Len(docs) \in Nat
    BY DocFields
  <2>2. IsFiniteSet(1..Len(docs)) /\ Cardinality(1..Len(docs)) = Len(docs)
    BY <2>1, FS_Interval
  <2>3. k <= Len(docs) /\ k \in Nat
    BY <1>1, <2>2, FS_Subset, FS_CardinalityType
  <2>. QED
    BY <2>1, <2>3
<1>3. \A n \in S : Listings!Place(tag, n) = Cardinality(B[n]) + 1
  BY SameCount DEF Listings!Place, Ahead
<1>4. \A n \in S : B[n] = Ahead(tag, n)
  OBVIOUS
<1>. HIDE DEF B
<1>5. /\ \A n \in S : Listings!Place(tag, n) \in 1..k
      /\ \A m, n \in S : Cardinality(B[m]) = Cardinality(B[n]) => m = n
      /\ \A i \in 1..k : \E n \in S : Listings!Place(tag, n) = i
  BY <1>1, <1>3, PlacesTaken
<1>6. \A m, n \in S : Listings!Place(tag, m) = Listings!Place(tag, n) => m = n
  <2>1. \A n \in S : Cardinality(B[n]) \in Nat
    BY <1>1, FS_Subset, FS_CardinalityType DEF Ordered
  <2>. QED
    BY <1>3, <1>5, <2>1
<1>7. Listings!Sorted(tag) = [i \in 1..k |-> CHOOSE n \in S : Listings!Place(tag, n) = i]
  BY SameCount DEF Listings!Sorted
<1>. HIDE DEF S
<1>8. \A i \in 1..k : Listings!Sorted(tag)[i] = CHOOSE n \in S : Listings!Place(tag, n) = i
  BY <1>7
<1>9. \A i \in 1..k : Listings!Sorted(tag)[i] \in S
                      /\ Listings!Place(tag, Listings!Sorted(tag)[i]) = i
  BY <1>5, <1>8
<1>10. Len(Listings!Sorted(tag)) = k
  BY <1>2, <1>7
<1>11. \A n \in S : Listings!Sorted(tag)[Listings!Place(tag, n)] = n
  BY <1>5, <1>6, <1>9
<1>. QED
  BY <1>2, <1>3, <1>4, <1>5, <1>9, <1>10, <1>11 DEF S

\* What the client was shown before, by place, and what a page has.
Behind ==
  {n \in Listings!Listed(reader.tag) :
     Listings!Place(reader.tag, n) <= Listings!Skip(reader.page, reader.limit)}

Excused == reader.moved \/ (reader.added /\ (service.order # "oldest" \/ reader.tag # Listings!NoTag))

\* A document that stayed and is behind the client was shown.
StayedShown ==
  ~reader.left /\ ~reader.moved => reader.steady \cap Behind \subseteq Held(reader.seen)

\* A count is right until a document joins or leaves.
CountRight ==
  reader.step = "find" /\ ~reader.left /\ ~reader.split
    => reader.total = Cardinality(Listings!Listed(reader.tag))

\* What was shown is behind the client, or no longer listed.
ShownBehind ==
  \/ Excused
  \/ /\ \A i, j \in 1..Len(reader.seen) : reader.seen[i] = reader.seen[j] => i = j
     /\ Held(reader.seen) \cap Listings!Listed(reader.tag) \subseteq Behind

PagesSound ==
  /\ service \in Listings!Services
  /\ Held(reader.seen) \subseteq 1..Len(docs)
  /\ Listings!Walking =>
       /\ reader.steady \subseteq Listings!Listed(reader.tag)
       /\ StayedShown /\ CountRight /\ ShownBehind
  /\ Listings!WalkComplete
  /\ Listings!WalkShowsOnce

CatalogueTyped ==
  /\ service \in Listings!Services \cup {Listings!NoService}
  /\ docs \in Seq(Documents) /\ Len(docs) <= DocLimit
  /\ changes \in 0..EditLimit
  /\ reader \in Listings!ReaderState

CatalogueInv == CatalogueTyped /\ (reader # Listings!Away => PagesSound)

LEMMA InitCatalogueInv == Listings!Init => CatalogueInv
<1>. SUFFICES ASSUME Listings!Init PROVE CatalogueInv
  OBVIOUS
<1>1. docs = <<>> /\ docs \in Seq(Documents) /\ Len(docs) = 0
  BY DEF Listings!Init
<1>. QED
  BY <1>1, BoundAssumption DEF Listings!Init, CatalogueInv, CatalogueTyped, Listings!ReaderState

LEMMA CatalogueInvImplies ==
  ASSUME CatalogueInv
  PROVE  Listings!TypeOK /\ Listings!WalkComplete /\ Listings!WalkShowsOnce
<1>1. Listings!TypeOK
  BY DEF CatalogueInv, CatalogueTyped, Listings!TypeOK, Documents
<1>2. CASE reader = Listings!Away
  <2>1. reader.step = "away"
    BY <1>2 DEF Listings!Away
  <2>. QED
    BY <1>1, <2>1 DEF Listings!WalkComplete, Listings!WalkShowsOnce, Listings!Walking
<1>3. CASE reader # Listings!Away
  BY <1>1, <1>3 DEF CatalogueInv, PagesSound
<1>. QED
  BY <1>2, <1>3

LEMMA ReaderFields ==
  ASSUME CatalogueTyped, reader # Listings!Away
  PROVE  /\ reader \in Listings!Reading
         /\ reader.step \in {"count", "find", "done"}
         /\ reader.page \in 1..(DocLimit + 1) /\ reader.limit \in 0..(DocLimit + PageCap)
         /\ reader.tag \in Tag \cup {Listings!NoTag}
         /\ reader.total \in 0..DocLimit /\ reader.seen \in Seq(1..DocLimit)
         /\ reader.steady \subseteq 1..DocLimit
         /\ reader.left \in BOOLEAN /\ reader.moved \in BOOLEAN /\ reader.added \in BOOLEAN
         /\ reader.split \in BOOLEAN
<1>1. reader \in Listings!Reading
  BY DEF CatalogueTyped, Listings!ReaderState
<1>. QED
  BY <1>1 DEF Listings!Reading, Listings!DocId

LEMMA PlaceCounts ==
  \A tag, n : Listings!Place(tag, n) = Cardinality(Ahead(tag, n)) + 1
BY SameCount DEF Listings!Place, Ahead

\* A listing before and after a change of the documents: a place is no higher
\* when there is no other document ahead, and no lower when all stay ahead.
LEMMA PlacesCompared ==
  ASSUME docs \in Seq(Documents), docs' \in Seq(Documents), NEW tag, NEW n
  PROVE  /\ Ahead(tag, n)' \subseteq Ahead(tag, n)
              => Listings!Place(tag, n)' <= Listings!Place(tag, n)
         /\ Ahead(tag, n) \subseteq Ahead(tag, n)'
              => Listings!Place(tag, n) <= Listings!Place(tag, n)'
         /\ Listings!Place(tag, n) \in Nat \ {0} /\ Listings!Place(tag, n)' \in Nat \ {0}
<1>. DEFINE A == Ahead(tag, n)
            B == Ahead(tag, n)'
<1>1. IsFiniteSet(1..Len(docs)) /\ IsFiniteSet(1..Len(docs'))
  <2>1. Len(docs) \in Nat /\ Len(docs') \in Nat
    BY LenProperties
  <2>. QED
    BY <2>1, FS_Interval
<1>2. A \subseteq 1..Len(docs)
  <2>1. DOMAIN docs = 1..Len(docs)
    BY LenProperties
  <2>. QED
    BY <2>1 DEF Ahead, Listings!Listed
<1>3. B \subseteq 1..Len(docs')
  <2>1. DOMAIN docs' = 1..Len(docs')
    BY LenProperties
  <2>. QED
    BY <2>1 DEF Ahead, Listings!Listed
<1>4. IsFiniteSet(A) /\ IsFiniteSet(B)
  BY <1>1, <1>2, <1>3, FS_Subset
<1>5. Listings!Place(tag, n) = Cardinality(A) + 1
  BY PlaceCounts
<1>6. Listings!Place(tag, n)' = Cardinality(B) + 1
  BY SameCount DEF Listings!Place, Ahead
<1>. HIDE DEF A, B
<1>7. Cardinality(A) \in Nat /\ Cardinality(B) \in Nat
  BY <1>4, FS_CardinalityType
<1>8. B \subseteq A => Cardinality(B) <= Cardinality(A)
  BY <1>4, FS_Subset
<1>9. A \subseteq B => Cardinality(A) <= Cardinality(B)
  BY <1>4, FS_Subset
<1>10. /\ B \subseteq A => Listings!Place(tag, n)' <= Listings!Place(tag, n)
       /\ A \subseteq B => Listings!Place(tag, n) <= Listings!Place(tag, n)'
       /\ Listings!Place(tag, n) \in Nat \ {0} /\ Listings!Place(tag, n)' \in Nat \ {0}
  BY <1>5, <1>6, <1>7, <1>8, <1>9
<1>. QED
  BY <1>10 DEF A, B

\* What a change of the documents tells the walk.
LEMMA ToldFields ==
  ASSUME CatalogueTyped, reader # Listings!Away, Listings!Walking,
         reader' = Listings!Told(docs'), NEW t, t = reader.tag,
         NEW before, before = Listings!Listed(t), NEW after, after = Listings!Listed(t)'
  PROVE  /\ reader'.step = reader.step /\ reader'.page = reader.page
         /\ reader'.limit = reader.limit /\ reader'.tag = reader.tag
         /\ reader'.total = reader.total /\ reader'.seen = reader.seen
         /\ reader'.steady = reader.steady \cap after
         /\ reader'.left <=> (reader.left \/ ~(before \subseteq after))
         /\ reader'.added <=> (reader.added \/ ~(after \subseteq before))
         /\ reader'.split <=> (reader.split \/ (reader.step = "find" /\ ~(after \subseteq before)))
         /\ reader'.moved <=> (reader.moved \/ \E n \in before \cap after : docs[n].tag # docs'[n].tag)
         /\ reader' \in Listings!Reading
<1>. DEFINE left == reader.left \/ ~(before \subseteq after)
            added == reader.added \/ ~(after \subseteq before)
            split == reader.split \/ (reader.step = "find" /\ ~(after \subseteq before))
            moved == reader.moved \/ \E n \in before \cap after : docs[n].tag # docs'[n].tag
            steady == reader.steady \cap after
            new == [reader EXCEPT !.steady = steady, !.left = left, !.added = added,
                                  !.split = split, !.moved = moved]
<1>1. reader' = new
  <2>1. before = {n \in DOMAIN docs : Listings!Matches(docs[n], reader.tag)}
    BY DEF Listings!Listed
  <2>2. after = {n \in DOMAIN docs' : Listings!Matches(docs'[n], reader.tag)}
    BY DEF Listings!Listed
  <2>. QED
    BY <2>1, <2>2 DEF Listings!Told
<1>2. /\ left \in BOOLEAN /\ added \in BOOLEAN /\ split \in BOOLEAN /\ moved \in BOOLEAN
  BY ReaderFields
<1>3. steady \subseteq 1..DocLimit
  BY ReaderFields
<1>4. reader \in Listings!Reading
  BY ReaderFields
<1>. HIDE DEF left, added, split, moved, steady
<1>5. new \in Listings!Reading
  BY <1>2, <1>3, <1>4 DEF Listings!Reading, Listings!DocId
<1>6. /\ new.step = reader.step /\ new.page = reader.page
      /\ new.limit = reader.limit /\ new.tag = reader.tag
      /\ new.total = reader.total /\ new.seen = reader.seen
      /\ new.steady = steady
  BY <1>4 DEF Listings!Reading
<1>7. new.left = left /\ new.added = added /\ new.split = split /\ new.moved = moved
  BY <1>4 DEF Listings!Reading
<1>. HIDE DEF new
<1>8. /\ reader'.left <=> left
      /\ reader'.added <=> added
      /\ reader'.split <=> split
      /\ reader'.moved <=> moved
  BY <1>1, <1>7
<1>. QED
  BY <1>1, <1>5, <1>6, <1>8 DEF left, added, split, moved, steady

\* The order of two documents stays while their tags do.
LEMMA OrderStays ==
  ASSUME service' = service, NEW m, NEW n,
         docs'[m].tag = docs[m].tag, docs'[n].tag = docs[n].tag
  PROVE  Listings!Before(m, n)' <=> Listings!Before(m, n)
BY DEF Listings!Before

\* A change of the documents.
LEMMA DocsChange ==
  ASSUME CatalogueInv, service \in Listings!Services, service' = service,
         docs' \in Seq(Documents), Len(docs) <= Len(docs'), Len(docs') <= DocLimit,
         \A n \in 1..Len(docs) : docs'[n].live => docs[n].live,
         changes' \in 0..EditLimit, reader' = Listings!Told(docs')
  PROVE  CatalogueInv'
<1>. USE DEF CatalogueInv
<1>1. CASE ~Listings!Walking
  <2>1. reader' = reader
    BY <1>1 DEF Listings!Told
  <2>2. CatalogueTyped'
    BY <2>1 DEF CatalogueTyped
  <2>3. CASE reader # Listings!Away
    <3>1. Held(reader.seen) \subseteq 1..Len(docs')
      <4>1. Len(docs) \in Nat /\ Len(docs') \in Nat
        BY LenProperties DEF CatalogueTyped
      <4>2. Held(reader.seen) \subseteq 1..Len(docs)
        BY <2>3 DEF PagesSound
      <4>. QED
        BY <4>1, <4>2
    <3>2. ~Listings!Walking'
      BY <1>1, <2>1 DEF Listings!Walking
    <3>3. Listings!WalkComplete' /\ Listings!WalkShowsOnce'
      BY <1>1, <2>1, <2>3, <3>2 DEF PagesSound, Listings!WalkComplete, Listings!WalkShowsOnce
    <3>. QED
      BY <2>1, <2>2, <3>1, <3>2, <3>3 DEF PagesSound
  <2>. QED
    BY <2>1, <2>2, <2>3
<1>2. CASE Listings!Walking
  <2>1. reader # Listings!Away
    BY <1>2 DEF Listings!Walking, Listings!Away
  <2>. PICK t : t = reader.tag
    OBVIOUS
  <2>. DEFINE before == Listings!Listed(t)
              after == Listings!Listed(t)'
  <2>2. /\ reader'.step = reader.step /\ reader'.page = reader.page
        /\ reader'.limit = reader.limit /\ reader'.tag = t
        /\ reader'.total = reader.total /\ reader'.seen = reader.seen
        /\ reader'.steady = reader.steady \cap after
        /\ reader'.left <=> (reader.left \/ ~(before \subseteq after))
        /\ reader'.added <=> (reader.added \/ ~(after \subseteq before))
        /\ reader'.split <=> (reader.split \/ (reader.step = "find" /\ ~(after \subseteq before)))
        /\ reader'.moved <=> (reader.moved \/ \E n \in before \cap after : docs[n].tag # docs'[n].tag)
        /\ reader' \in Listings!Reading
    BY <1>2, <2>1, ToldFields
  <2>3. CatalogueTyped'
    BY <2>2 DEF CatalogueTyped, Listings!ReaderState
  <2>4. Listings!Walking' /\ reader' # Listings!Away /\ reader'.step # "done"
    BY <1>2, <2>2 DEF Listings!Walking, Listings!Away
  <2>5. /\ reader.left \in BOOLEAN /\ reader.moved \in BOOLEAN /\ reader.added \in BOOLEAN
        /\ reader.split \in BOOLEAN /\ reader.page \in Nat /\ reader.limit \in Nat
    BY <2>1, ReaderFields, BoundAssumption
  <2>6. PagesSound
    BY <2>1
  <2>7. /\ Listings!Listed(reader.tag)' = after
        /\ Behind' = {n \in after : Listings!Place(t, n)' <= Listings!Skip(reader.page, reader.limit)}
        /\ Behind = {n \in before : Listings!Place(t, n) <= Listings!Skip(reader.page, reader.limit)}
    <3>1. Listings!Listed(reader.tag)' = after
      BY <2>2 DEF Listings!Listed
    <3>2. \A n : Listings!Place(reader.tag, n)' = Listings!Place(t, n)'
      BY <2>2 DEF Listings!Place, Listings!Listed
    <3>3. Listings!Skip(reader.page, reader.limit)' = Listings!Skip(reader.page, reader.limit)
      BY <2>2 DEF Listings!Skip
    <3>. QED
      BY <3>1, <3>2, <3>3 DEF Behind
  <2>8. Listings!Skip(reader.page, reader.limit) \in Int
    BY <2>5 DEF Listings!Skip
  <2>9. DOMAIN docs = 1..Len(docs) /\ DOMAIN docs' = 1..Len(docs')
        /\ Len(docs) \in Nat /\ Len(docs') \in Nat
    BY LenProperties DEF CatalogueTyped
  <2>10. before \subseteq 1..Len(docs) /\ after \subseteq 1..Len(docs')
    BY <2>9 DEF Listings!Listed
  <2>11. \A m, n : m \in Ahead(t, n) <=> m \in before /\ Listings!Before(m, n)
    BY DEF Ahead
  <2>12. \A m, n : m \in Ahead(t, n)' <=> m \in after /\ Listings!Before(m, n)'
    BY DEF Ahead
  <2>. HIDE DEF before, after
  <2>13. \A n : /\ Listings!Place(t, n) \in Nat /\ Listings!Place(t, n)' \in Nat
                /\ Ahead(t, n)' \subseteq Ahead(t, n)
                     => Listings!Place(t, n)' <= Listings!Place(t, n)
                /\ Ahead(t, n) \subseteq Ahead(t, n)'
                     => Listings!Place(t, n) <= Listings!Place(t, n)'
    BY PlacesCompared DEF CatalogueTyped
  <2>14. Held(reader.seen) \subseteq 1..Len(docs)
    BY <2>6 DEF PagesSound
  <2>15. StayedShown'
    <3>. SUFFICES ASSUME ~reader'.left, ~reader'.moved,
                         NEW n \in reader'.steady, n \in Behind'
         PROVE  n \in Held(reader.seen)
      BY <2>2 DEF StayedShown, Held
    <3>1. before \subseteq after /\ \A m \in before : docs'[m].tag = docs[m].tag
      BY <2>2
    <3>2. n \in reader.steady /\ n \in before
      BY <2>2, <2>6, <1>2 DEF PagesSound, before
    <3>3. Ahead(t, n) \subseteq Ahead(t, n)'
      <4>. SUFFICES ASSUME NEW m \in Ahead(t, n) PROVE m \in Ahead(t, n)'
        OBVIOUS
      <4>1. m \in before /\ m \in after /\ Listings!Before(m, n)
        BY <2>11, <3>1
      <4>2. Listings!Before(m, n)'
        BY <3>1, <3>2, <4>1, OrderStays
      <4>. QED
        BY <2>12, <4>1, <4>2
    <3>4. n \in Behind
      BY <2>7, <2>8, <2>13, <3>2, <3>3
    <3>. QED
      BY <1>2, <2>2, <2>6, <3>2, <3>4 DEF PagesSound, StayedShown
  <2>16. CountRight'
    <3>. SUFFICES ASSUME reader'.step = "find", ~reader'.left, ~reader'.split
         PROVE  reader'.total = Cardinality(after)
      BY <2>7 DEF CountRight, Cardinality
    <3>1. after = before /\ reader.step = "find" /\ ~reader.left /\ ~reader.split
      BY <2>2
    <3>. QED
      BY <1>2, <2>2, <2>6, <3>1 DEF PagesSound, CountRight, before
  <2>17. Excused => Excused'
    BY <2>2 DEF Excused
  <2>18. ShownBehind'
    <3>. SUFFICES ASSUME ~Excused' PROVE ShownBehind'
      BY DEF ShownBehind
    <3>1. ~Excused
      BY <2>17
    <3>2. /\ \A i, j \in 1..Len(reader.seen) : reader.seen[i] = reader.seen[j] => i = j
          /\ Held(reader.seen) \cap before \subseteq Behind
      BY <1>2, <2>6, <3>1 DEF PagesSound, ShownBehind, before
    <3>3. \A m \in before \cap after : docs'[m].tag = docs[m].tag
      BY <2>2 DEF Excused
    <3>4. ASSUME NEW n \in Held(reader.seen), n \in after
          PROVE  n \in before /\ Ahead(t, n)' \subseteq Ahead(t, n)
      <4>1. CASE after \subseteq before
        <5>1. n \in before
          BY <3>4, <4>1
        <5>2. ASSUME NEW m \in Ahead(t, n)' PROVE m \in Ahead(t, n)
          <6>1. m \in after /\ m \in before /\ Listings!Before(m, n)'
            BY <2>12, <4>1, <5>2
          <6>2. Listings!Before(m, n)
            BY <3>3, <3>4, <5>1, <6>1, OrderStays
          <6>. QED
            BY <2>11, <6>1, <6>2
        <5>. QED
          BY <5>1, <5>2
      <4>2. CASE ~(after \subseteq before)
        <5>1. service.order = "oldest" /\ t = Listings!NoTag
          BY <2>2, <4>2 DEF Excused
        <5>2. \A l, m : /\ Listings!Before(l, m) <=> l < m
                        /\ Listings!Before(l, m)' <=> l < m
          BY <5>1 DEF Listings!Before
        <5>3. \A m \in 1..Len(docs) : m \in after => m \in before
          BY <2>9, <5>1 DEF before, after, Listings!Listed, Listings!Matches
        <5>4. n \in before
          BY <2>14, <3>4, <5>3
        <5>5. ASSUME NEW m \in Ahead(t, n)' PROVE m \in Ahead(t, n)
          <6>1. m \in after /\ m < n
            BY <2>12, <5>2, <5>5
          <6>2. m \in 1..Len(docs)
            BY <2>9, <2>10, <5>4, <6>1
          <6>. QED
            BY <2>11, <5>2, <5>3, <6>1, <6>2
        <5>. QED
          BY <5>4, <5>5
      <4>. QED
        BY <4>1, <4>2
    <3>5. Held(reader.seen) \cap after \subseteq Behind'
      <4>. SUFFICES ASSUME NEW n \in Held(reader.seen), n \in after
           PROVE  n \in Behind'
        OBVIOUS
      <4>1. n \in before /\ Ahead(t, n)' \subseteq Ahead(t, n)
        BY <3>4
      <4>2. n \in Behind
        BY <3>2, <4>1
      <4>. QED
        BY <2>7, <2>8, <2>13, <4>1, <4>2
    <3>. QED
      BY <2>2, <2>7, <3>2, <3>5 DEF ShownBehind, Held
  <2>19. Held(reader.seen)' \subseteq 1..Len(docs')
    <3>1. Held(reader.seen)' = Held(reader.seen)
      BY <2>2 DEF Held
    <3>. QED
      BY <2>9, <2>14, <3>1
  <2>20. reader'.steady \subseteq after
    BY <2>2
  <2>21. Listings!WalkShowsOnce'
    <3>1. DOMAIN reader'.seen = 1..Len(reader'.seen)
      BY <2>1, <2>2, ReaderFields, LenProperties
    <3>. QED
      BY <2>18, <3>1 DEF ShownBehind, Excused, Listings!WalkShowsOnce, Listings!IsInjective
  <2>22. Listings!WalkComplete'
    BY <2>4 DEF Listings!WalkComplete
  <2>. QED
    BY <2>3, <2>4, <2>7, <2>15, <2>16, <2>18, <2>19, <2>20, <2>21, <2>22 DEF PagesSound
<1>. QED
  BY <1>1, <1>2

LEMMA SmallerOf ==
  ASSUME NEW a \in Nat, NEW b \in Nat
  PROVE  Listings!Min({a, b}) = IF a <= b THEN a ELSE b
<1>. DEFINE m == IF a <= b THEN a ELSE b
<1>1. m \in {a, b} /\ \A y \in {a, b} : m <= y
  OBVIOUS
<1>2. \A x \in {a, b} : (\A y \in {a, b} : x <= y) => x = m
  OBVIOUS
<1>. HIDE DEF m
<1>3. Listings!Min({a, b}) = CHOOSE x \in {a, b} : \A y \in {a, b} : x <= y
  BY DEF Listings!Min
<1>4. (CHOOSE x \in {a, b} : \A y \in {a, b} : x <= y) = m
  BY <1>1, <1>2
<1>. QED
  BY <1>3, <1>4 DEF m

\* A page has the documents of its places, each once.
PageOfPlaces(page, t, p, l) ==
  /\ page \in Seq(Listings!Listed(t))
  /\ \A i, j \in 1..Len(page) : page[i] = page[j] => i = j
  /\ \A n \in Listings!Listed(t) :
       n \in Held(page)
         <=> \/ l = 0
             \/ /\ Listings!Skip(p, l) < Listings!Place(t, n)
                /\ Listings!Place(t, n) <= Listings!Skip(p, l) + l

LEMMA PageHolds ==
  ASSUME docs \in Seq(Documents), service \in Listings!Services,
         NEW t, NEW p \in Nat \ {0}, NEW l \in Nat
  PROVE  PageOfPlaces(Listings!Page(t, p, l), t, p, l)
<1>. DEFINE k == Cardinality(Listings!Listed(t))
            S == Listings!Listed(t)
            all == Listings!Sorted(t)
            skip == Listings!Skip(p, l)
<1>1. /\ k \in Nat /\ Len(all) = k
      /\ \A n \in S : Listings!Place(t, n) \in 1..k /\ all[Listings!Place(t, n)] = n
      /\ \A i \in 1..k : all[i] \in S /\ Listings!Place(t, all[i]) = i
  <2>1. Len(docs) \in Nat
    BY LenProperties
  <2>. QED
    BY <2>1, SortedWhole
<1>2. all \in Seq(S)
  <2>1. all = [i \in 1..k |-> CHOOSE n \in S : Listings!Place(t, n) = i]
    BY SameCount DEF Listings!Sorted
  <2>. HIDE DEF all, k, S
  <2>2. all \in [1..k -> S]
    BY <1>1, <2>1
  <2>. QED
    BY <1>1, <2>2 DEF Seq
<1>. HIDE DEF k, S, all
<1>. PICK page : page = Listings!Page(t, p, l)
  OBVIOUS
<1>3. CASE l = 0
  <2>1. page = all
    BY <1>3 DEF Listings!Page, all
  <2>2. \A i, j \in 1..Len(page) : page[i] = page[j] => i = j
    BY <1>1, <2>1
  <2>3. \A n \in S : n \in Held(page)
    BY <1>1, <2>1 DEF Held
  <2>. QED
    BY <1>2, <1>3, <2>1, <2>2, <2>3 DEF S, PageOfPlaces
<1>4. CASE l # 0
  <2>1. skip \in Nat
    <3>1. skip = (p - 1) * l /\ p - 1 \in Nat
      BY DEF Listings!Skip
    <3>. QED
      BY <3>1
  <2>. HIDE DEF skip
  <2>2. Listings!LastOnPage(p, l) = skip + l
    BY DEF Listings!LastOnPage, skip
  <2>. DEFINE last == IF skip + l <= k THEN skip + l ELSE k
              first == skip + 1
  <2>3. last \in Nat /\ last <= k /\ last <= skip + l /\ first \in Nat \ {0}
    BY <1>1, <2>1
  <2>4. page = SubSeq(all, first, last)
    <3>1. Listings!Min({skip + l, k}) = last
      BY <1>1, <2>1, SmallerOf
    <3>2. page = SubSeq(all, skip + 1, Listings!Min({Listings!LastOnPage(p, l), Len(all)}))
      BY <1>4 DEF Listings!Page, all, skip
    <3>. QED
      BY <1>1, <2>2, <3>1, <3>2
  <2>5. \A i \in Nat : i <= last <=> i <= k /\ i <= skip + l
    BY <1>1, <2>1
  <2>. HIDE DEF last, first
  <2>. DEFINE len == IF skip <= last THEN last - skip ELSE 0
  <2>6. len \in Nat /\ 1..(last - first + 1) = 1..len
    BY <2>1, <2>3 DEF first
  <2>7. \A i \in Nat : first + i - 1 = skip + i
    BY <2>1 DEF first
  <2>8. \A i \in 1..len : skip + i \in 1..k /\ skip + i <= last
    BY <1>1, <2>1, <2>3
  <2>9. page = [i \in 1..(last - first + 1) |-> all[first + i - 1]]
    BY <2>3, <2>4 DEF SubSeq
  <2>. HIDE DEF len
  <2>10. page = [i \in 1..len |-> all[skip + i]]
    <3>1. \A i \in 1..len : all[first + i - 1] = all[skip + i]
      BY <2>6, <2>7
    <3>. QED
      BY <2>6, <2>9, <3>1
  <2>11. page \in [1..len -> S] /\ \A i \in 1..len : page[i] = all[skip + i]
    BY <1>1, <2>8, <2>10
  <2>12. page \in Seq(S) /\ Len(page) = len
    BY <2>6, <2>11 DEF Seq
  <2>13. \A i, j \in 1..len : page[i] = page[j] => i = j
    <3>. SUFFICES ASSUME NEW i \in 1..len, NEW j \in 1..len, page[i] = page[j]
         PROVE  i = j
      OBVIOUS
    <3>1. skip + i = skip + j
      BY <1>1, <2>8, <2>11
    <3>. QED
      BY <2>1, <2>6, <3>1
  <2>14. ASSUME NEW n \in S, n \in Held(page)
         PROVE  skip < Listings!Place(t, n) /\ Listings!Place(t, n) <= skip + l
    <3>1. PICK i \in 1..len : n = all[skip + i]
      BY <2>11, <2>12, <2>14 DEF Held
    <3>2. Listings!Place(t, n) = skip + i
      BY <1>1, <2>8, <3>1
    <3>3. skip + i <= last
      BY <2>8
    <3>. QED
      BY <2>1, <2>3, <2>6, <3>2, <3>3
  <2>15. ASSUME NEW n \in S, skip < Listings!Place(t, n), Listings!Place(t, n) <= skip + l
         PROVE  n \in Held(page)
    <3>1. PICK q \in 1..k : q = Listings!Place(t, n) /\ all[q] = n
      BY <1>1
    <3>2. q <= last /\ q \in Nat
      BY <1>1, <2>5, <2>15, <3>1
    <3>3. q - skip \in 1..len /\ skip + (q - skip) = q
      BY <2>1, <2>3, <2>15, <3>1, <3>2 DEF len
    <3>4. page[q - skip] = n
      BY <2>11, <3>1, <3>3
    <3>. QED
      BY <2>12, <3>3, <3>4 DEF Held
  <2>. QED
    BY <1>4, <2>12, <2>13, <2>14, <2>15 DEF S, skip, PageOfPlaces
<1>. QED
  BY <1>3, <1>4

LEMMA PageFollows ==
  \A p, l \in Nat : (p + 1 - 1) * l = p * l /\ (p - 1) * l + l = p * l
<1>. SUFFICES ASSUME NEW p \in Nat, NEW l \in Nat PROVE (p - 1) * l + l = p * l
  OBVIOUS
<1>. QED
  OBVIOUS

LEMMA SkipWhole ==
  ASSUME NEW k \in Nat, NEW l \in Nat
  PROVE  k * l \in Nat /\ (l = 0 => k * l = 0)
  OBVIOUS

\* One page is shown.
LEMMA ShownKeeps ==
  ASSUME CatalogueInv, Listings!Walking, NEW total \in 0..DocLimit,
         ~reader.left /\ ~reader.split => total = Cardinality(Listings!Listed(reader.tag)),
         reader' = Listings!Shown(total), service' = service, docs' = docs, changes' = changes
  PROVE  CatalogueInv'
<1>1. reader # Listings!Away
  BY DEF Listings!Walking, Listings!Away
<1>2. CatalogueTyped /\ PagesSound
  BY <1>1 DEF CatalogueInv
<1>3. docs \in Seq(Documents) /\ service \in Listings!Services
  BY <1>2 DEF CatalogueTyped, PagesSound
<1>. PICK t : t = reader.tag
  OBVIOUS
<1>. PICK p \in Nat \ {0} : p = reader.page
  BY <1>1, <1>2, ReaderFields, BoundAssumption
<1>. PICK l \in Nat : l = reader.limit
  BY <1>1, <1>2, ReaderFields, BoundAssumption
<1>. PICK old \in Seq(1..DocLimit) : old = reader.seen
  BY <1>1, <1>2, ReaderFields
<1>. PICK page : page = Listings!Page(t, p, l)
  OBVIOUS
<1>. DEFINE S == Listings!Listed(t)
            skip == Listings!Skip(p, l)
            more == Listings!HasNextPage(p, l, total)
            met == old \o page
            next == IF more THEN p + 1 ELSE p
            step == IF more THEN "count" ELSE "done"
<1>4. /\ reader.steady \subseteq 1..DocLimit /\ reader \in Listings!Reading
      /\ reader.left \in BOOLEAN /\ reader.moved \in BOOLEAN /\ reader.added \in BOOLEAN
      /\ reader.split \in BOOLEAN /\ p \in 1..(DocLimit + 1)
  BY <1>1, <1>2, ReaderFields
<1>5. /\ page \in Seq(S)
      /\ \A i, j \in 1..Len(page) : page[i] = page[j] => i = j
      /\ \A n \in S : n \in Held(page)
                        <=> \/ l = 0
                            \/ /\ skip < Listings!Place(t, n)
                               /\ Listings!Place(t, n) <= skip + l
  <2>1. PageOfPlaces(page, t, p, l)
    BY <1>3, PageHolds
  <2>. QED
    BY <2>1 DEF PageOfPlaces
<1>6. S \subseteq 1..Len(docs) /\ Len(docs) \in Nat /\ Len(docs) <= DocLimit
  <2>1. DOMAIN docs = 1..Len(docs) /\ Len(docs) \in Nat
    BY <1>3, LenProperties
  <2>. QED
    BY <1>2, <2>1 DEF CatalogueTyped, Listings!Listed
<1>7. \A n \in S : Listings!Place(t, n) \in 1..Cardinality(S)
  BY <1>3, SortedWhole
<1>8. Cardinality(S) \in Nat
  BY <1>3, <1>6, SortedWhole
<1>. HIDE DEF S
<1>9. page \in Seq(1..DocLimit) /\ Held(page) \subseteq S
  <2>1. \A i \in 1..Len(page) : page[i] \in S
    BY <1>5, ElementOfSeq
  <2>2. S \subseteq 1..DocLimit
    BY <1>6, BoundAssumption
  <2>3. page \in Seq(1..DocLimit)
    BY <1>5, <2>2, SeqMonotonic
  <2>4. Held(page) \subseteq S
    BY <2>1 DEF Held
  <2>. QED
    BY <2>3, <2>4
<1>10. met \in Seq(1..DocLimit) /\ Joined(old, page, met)
  BY <1>9, JoinedWhole
<1>11. Held(met) = Held(old) \cup Held(page)
  BY <1>10, JoinedRange
<1>12. more <=> l # 0 /\ p * l < total
  BY DEF Listings!HasNextPage
<1>13. reader' = [reader EXCEPT !.total = total, !.seen = met, !.step = step, !.page = next]
  BY DEF Listings!Shown
<1>14. next \in 1..(DocLimit + 1)
  <2>. HIDE DEF more
  <2>1. ASSUME more PROVE p + 1 \in 1..(DocLimit + 1)
    <3>1. p * l < total /\ l \in Nat \ {0}
      BY <1>12, <2>1
    <3>2. p <= p * l /\ p * l \in Nat
      BY <3>1
    <3>3. total <= DocLimit /\ total \in Nat /\ DocLimit \in Nat
      BY BoundAssumption
    <3>. QED
      BY <3>1, <3>2, <3>3
  <2>. QED
    BY <1>4, <2>1
<1>15. step \in {"count", "done"}
  OBVIOUS
<1>. HIDE DEF met, more, next, step, skip
<1>16. reader' \in Listings!Reading
  BY <1>4, <1>10, <1>13, <1>14, <1>15 DEF Listings!Reading, Listings!DocId
<1>17. /\ reader'.total = total /\ reader'.seen = met /\ reader'.step = step
       /\ reader'.page = next /\ reader'.limit = l /\ reader'.tag = t
       /\ reader'.steady = reader.steady /\ reader'.left = reader.left
       /\ reader'.moved = reader.moved /\ reader'.added = reader.added
       /\ reader'.split = reader.split
  BY <1>4, <1>13 DEF Listings!Reading
<1>18. CatalogueTyped'
  BY <1>2, <1>16 DEF CatalogueTyped, Listings!ReaderState
<1>19. reader' # Listings!Away
  BY <1>15, <1>17 DEF Listings!Away
<1>20. Held(old) \subseteq 1..Len(docs)
  BY <1>2 DEF PagesSound
<1>21. Held(reader.seen)' \subseteq 1..Len(docs')
  <2>1. Held(reader.seen)' = Held(met)
    BY <1>17 DEF Held
  <2>. QED
    BY <1>6, <1>9, <1>11, <1>20, <2>1
<1>22. /\ reader.steady \subseteq S
       /\ ~reader.left /\ ~reader.moved => reader.steady \cap Behind \subseteq Held(old)
       /\ \/ Excused
          \/ /\ \A i, j \in 1..Len(old) : old[i] = old[j] => i = j
             /\ Held(old) \cap S \subseteq Behind
  BY <1>2 DEF PagesSound, StayedShown, ShownBehind, S
<1>23. Behind = {n \in S : Listings!Place(t, n) <= skip}
  BY DEF Behind, S, skip
<1>24. skip \in Nat /\ (l = 0 => skip = 0)
  <2>1. skip = (p - 1) * l
    BY DEF Listings!Skip, skip
  <2>. PICK k \in Nat : k = p - 1
    OBVIOUS
  <2>2. k * l \in Nat /\ (l = 0 => k * l = 0)
    BY SkipWhole
  <2>. QED
    BY <2>1, <2>2, Zenon
<1>25. Excused' <=> Excused
  BY <1>17 DEF Excused
<1>26. Excused \/ \A i, j \in 1..Len(met) : met[i] = met[j] => i = j
  <2>. SUFFICES ASSUME ~Excused PROVE \A i, j \in 1..Len(met) : met[i] = met[j] => i = j
    OBVIOUS
  <2>1. ASSUME NEW n \in Held(old), n \in Held(page) PROVE FALSE
    <3>1. n \in S /\ n \in Behind
      BY <1>9, <1>22, <2>1
    <3>2. Listings!Place(t, n) <= skip /\ Listings!Place(t, n) \in 1..Cardinality(S)
      BY <1>7, <1>23, <3>1
    <3>. QED
      BY <1>5, <1>8, <1>24, <2>1, <3>1, <3>2
  <2>2. \A i \in 1..Len(old), j \in 1..Len(page) : old[i] # page[j]
    BY <2>1 DEF Held
  <2>3. \A i, j \in 1..Len(old) : old[i] = old[j] => i = j
    BY <1>22
  <2>4. \A i, j \in 1..Len(page) : page[i] = page[j] => i = j
    BY <1>5
  <2>5. Joined(old, page, met)
    BY <1>10
  <2>. HIDE DEF met
  <2>. QED
    BY <2>2, <2>3, <2>4, <2>5, JoinedOnce
<1>27. ASSUME more
       PROVE  /\ Behind' = {n \in S : n \in Behind \/ n \in Held(page)}
              /\ Listings!Listed(reader.tag)' = S
  <2>1. Listings!Listed(reader.tag)' = S
    BY <1>17 DEF Listings!Listed, S
  <2>2. \A n : Listings!Place(reader.tag, n)' = Listings!Place(t, n)
    BY <1>17 DEF Listings!Place, Listings!Listed, Listings!Before
  <2>3. Listings!Skip(reader.page, reader.limit)' = skip + l
    <3>1. Listings!Skip(reader.page, reader.limit)' = (p + 1 - 1) * l
      BY <1>17, <1>27 DEF Listings!Skip, next
    <3>2. skip = (p - 1) * l
      BY DEF Listings!Skip, skip
    <3>3. (p + 1 - 1) * l = p * l /\ (p - 1) * l + l = p * l
      <4>1. p \in Nat /\ l \in Nat
        OBVIOUS
      <4>. QED
        BY <4>1, PageFollows, Zenon
    <3>. QED
      BY <3>1, <3>2, <3>3, Zenon
  <2>4. Behind' = {n \in S : Listings!Place(t, n) <= skip + l}
    BY <2>1, <2>2, <2>3 DEF Behind
  <2>5. l # 0
    BY <1>12, <1>27
  <2>6. \A n \in S : Listings!Place(t, n) <= skip + l <=> n \in Behind \/ n \in Held(page)
    BY <1>5, <1>7, <1>8, <1>23, <1>24, <2>5
  <2>. QED
    BY <2>1, <2>4, <2>6
<1>28. ASSUME Listings!Walking'
       PROVE  /\ (reader.steady \subseteq Listings!Listed(reader.tag))'
              /\ StayedShown' /\ CountRight' /\ ShownBehind'
  <2>1. more
    BY <1>17, <1>28 DEF step, Listings!Walking
  <2>2. Held(reader.seen)' = Held(old) \cup Held(page)
    BY <1>11, <1>17 DEF Held
  <2>3. Behind' = {n \in S : n \in Behind \/ n \in Held(page)}
    BY <1>27, <2>1
  <2>4. StayedShown'
    <3>1. ~reader.left /\ ~reader.moved
            => reader.steady \cap Behind' \subseteq Held(reader.seen)'
      BY <1>22, <2>2, <2>3
    <3>. QED
      BY <1>17, <3>1 DEF StayedShown
  <2>5. CountRight'
    BY <1>15, <1>17 DEF CountRight
  <2>6. ShownBehind'
    <3>1. Excused \/ Held(reader.seen)' \cap S \subseteq Behind'
      BY <1>22, <2>2, <2>3
    <3>2. Excused \/ (\A i, j \in 1..Len(reader.seen) : reader.seen[i] = reader.seen[j] => i = j)'
      BY <1>17, <1>26
    <3>3. (Held(reader.seen) \cap Listings!Listed(reader.tag) \subseteq Behind)'
            <=> Held(reader.seen)' \cap S \subseteq Behind'
      BY <1>27, <2>1
    <3>. QED
      BY <1>25, <3>1, <3>2, <3>3 DEF ShownBehind
  <2>. QED
    BY <1>17, <1>22, <1>27, <2>1, <2>4, <2>5, <2>6
<1>29. DOMAIN reader'.seen = 1..Len(met) /\ Listings!Range(reader'.seen) = Held(met)
  <2>1. DOMAIN met = 1..Len(met)
    BY <1>10, LenProperties
  <2>. QED
    BY <1>17, <2>1 DEF Listings!Range, Held
<1>30. Listings!WalkShowsOnce'
  BY <1>17, <1>25, <1>26, <1>29 DEF Listings!WalkShowsOnce, Listings!IsInjective, Excused
<1>31. Listings!WalkComplete'
  <2>. SUFFICES ASSUME ~more, ~reader.left, ~reader.moved, ~reader.split,
                       NEW n \in reader.steady
       PROVE  n \in Held(met)
    BY <1>15, <1>17, <1>29 DEF Listings!WalkComplete, step
  <2>1. n \in S
    BY <1>22
  <2>2. CASE l = 0
    BY <1>5, <1>11, <2>1, <2>2
  <2>3. CASE l # 0
    <3>1. ~(p * l < total) /\ total = Cardinality(S)
      BY <1>12, <2>3 DEF S
    <3>2. p * l = skip + l
      <4>1. skip = (p - 1) * l
        BY DEF Listings!Skip, skip
      <4>. QED
        BY <4>1, PageFollows
    <3>3. Listings!Place(t, n) <= skip + l /\ Listings!Place(t, n) \in Nat
      BY <1>7, <1>8, <1>24, <2>1, <3>1, <3>2
    <3>4. CASE Listings!Place(t, n) <= skip
      BY <1>11, <1>22, <1>23, <2>1, <3>4
    <3>5. CASE ~(Listings!Place(t, n) <= skip)
      BY <1>5, <1>11, <1>24, <2>1, <3>3, <3>5
    <3>. QED
      BY <3>4, <3>5
  <2>. QED
    BY <2>2, <2>3
<1>. QED
  BY <1>2, <1>18, <1>19, <1>21, <1>28, <1>30, <1>31 DEF CatalogueInv, PagesSound

LEMMA ServiceChosen ==
  ASSUME CatalogueInv, NEW s \in Listings!Services, Listings!Choose(s)
  PROVE  CatalogueInv'
<1>1. /\ service = Listings!NoService /\ service' = s /\ docs' = docs
      /\ changes' = changes /\ reader' = reader
  BY DEF Listings!Choose
<1>2. reader = Listings!Away
  BY <1>1, ServiceOrders DEF CatalogueInv, PagesSound
<1>. QED
  BY <1>1, <1>2 DEF CatalogueInv, CatalogueTyped

LEMMA DocumentChanges ==
  ASSUME CatalogueInv,
         \/ \E tag \in Tag : Listings!Create(tag)
         \/ \E n \in Listings!DocId, tag \in Tag : Listings!Update(n, tag)
         \/ \E n \in Listings!DocId : Listings!SoftDelete(n)
  PROVE  CatalogueInv'
<1>1. docs \in Seq(Documents) /\ Len(docs) \in Nat /\ DOMAIN docs = 1..Len(docs)
      /\ Len(docs) <= DocLimit /\ changes \in 0..EditLimit
      /\ service \in Listings!Services \cup {Listings!NoService}
  <2>1. docs \in Seq(Documents)
    BY DEF CatalogueInv, CatalogueTyped
  <2>. QED
    BY <2>1, LenProperties DEF CatalogueInv, CatalogueTyped
<1>2. service \in Listings!Services /\ service' = service /\ reader' = Listings!Told(docs')
  BY <1>1 DEF Listings!Create, Listings!Update, Listings!SoftDelete
<1>3. ASSUME NEW tag \in Tag, Listings!Create(tag)
      PROVE  CatalogueInv'
  <2>. DEFINE yes == TRUE
              new == [live |-> yes, tag |-> tag]
  <2>1. Len(docs) < DocLimit /\ docs' = Append(docs, new) /\ changes' = changes
    BY <1>3 DEF Listings!Create
  <2>2. new \in Documents
    BY DEF Documents
  <2>. HIDE DEF new
  <2>3. /\ docs' \in Seq(Documents) /\ Len(docs') = Len(docs) + 1
        /\ \A m \in 1..Len(docs) : docs'[m] = docs[m]
    BY <1>1, <2>1, <2>2, AppendProperties
  <2>4. Len(docs) <= Len(docs') /\ Len(docs') <= DocLimit
    BY <1>1, <2>1, <2>3, BoundAssumption
  <2>. QED
    BY <1>1, <1>2, <2>1, <2>3, <2>4, DocsChange
<1>4. ASSUME NEW n \in Listings!DocId,
             (\E tag \in Tag : Listings!Update(n, tag)) \/ Listings!SoftDelete(n)
      PROVE  CatalogueInv'
  <2>1. n \in 1..Len(docs) /\ changes' = changes + 1 /\ changes < EditLimit
    BY <1>1, <1>4 DEF Listings!Update, Listings!SoftDelete
  <2>2. docs[n] \in Documents
    BY <1>1, <2>1, ElementOfSeq
  <2>3. PICK new \in Documents : /\ docs' = [docs EXCEPT ![n] = new]
                                 /\ new.live => docs[n].live
    <3>1. ASSUME NEW tag \in Tag, Listings!Update(n, tag)
          PROVE  \E new \in Documents : /\ docs' = [docs EXCEPT ![n] = new]
                                        /\ new.live => docs[n].live
      <4>1. docs' = [docs EXCEPT ![n] = [docs[n] EXCEPT !.tag = tag]]
        BY <3>1 DEF Listings!Update
      <4>2. [docs[n] EXCEPT !.tag = tag] \in Documents
        BY <2>2 DEF Documents
      <4>3. [docs[n] EXCEPT !.tag = tag].live = docs[n].live
        BY <2>2 DEF Documents
      <4>. QED
        BY <4>1, <4>2, <4>3
    <3>2. CASE Listings!SoftDelete(n)
      <4>. DEFINE no == FALSE
                  doc == [docs[n] EXCEPT !.live = no]
      <4>1. docs' = [docs EXCEPT ![n] = doc]
        BY <3>2 DEF Listings!SoftDelete
      <4>2. no \in BOOLEAN /\ ~no
        OBVIOUS
      <4>. HIDE DEF no
      <4>3. doc \in Documents
        BY <2>2, <4>2 DEF Documents
      <4>4. doc.live = no
        BY <2>2 DEF Documents
      <4>. HIDE DEF doc
      <4>5. doc.live => docs[n].live
        BY <4>2, <4>4
      <4>. QED
        BY <4>1, <4>3, <4>5
    <3>. QED
      BY <1>4, <3>1, <3>2
  <2>4. docs' \in Seq(Documents) /\ Len(docs') = Len(docs)
    BY <1>1, <2>1, <2>3, ExceptSeq
  <2>5. \A m \in 1..Len(docs) : docs'[m] = IF m = n THEN new ELSE docs[m]
    BY <1>1, <2>1, <2>3
  <2>6. \A m \in 1..Len(docs) : docs'[m].live => docs[m].live
    BY <2>3, <2>5
  <2>7. changes' \in 0..EditLimit
    BY <1>1, <2>1, BoundAssumption
  <2>. QED
    BY <1>1, <1>2, <2>4, <2>6, <2>7, DocsChange
<1>. QED
  BY <1>3, <1>4

LEMMA WalkBegins ==
  ASSUME CatalogueInv, NEW limit \in 0..DocLimit, NEW tag \in Tag \cup {Listings!NoTag},
         Listings!Begin(limit, tag)
  PROVE  CatalogueInv'
<1>. DEFINE no == FALSE
            per == Listings!PerPage(limit)
            listed == Listings!Listed(tag)
            new == [step |-> "count", page |-> 1, limit |-> per, tag |-> tag,
                    total |-> 0, seen |-> <<>>, steady |-> listed,
                    left |-> no, moved |-> no, added |-> no, split |-> no]
<1>1. /\ service \in Listings!Services /\ docs \in Seq(Documents) /\ Len(docs) \in Nat
      /\ Len(docs) <= DocLimit /\ DOMAIN docs = 1..Len(docs)
  <2>1. docs \in Seq(Documents) /\ Len(docs) <= DocLimit
    BY DEF CatalogueInv, CatalogueTyped
  <2>2. service \in Listings!Services
    BY DEF Listings!Begin, CatalogueInv, CatalogueTyped
  <2>. QED
    BY <2>1, <2>2, LenProperties
<1>2. reader' = new /\ service' = service /\ docs' = docs /\ changes' = changes
  BY DEF Listings!Begin
<1>3. per \in 0..(DocLimit + PageCap)
  BY BoundAssumption DEF Listings!PerPage
<1>4. listed \subseteq 1..DocLimit
  <2>1. listed \subseteq 1..Len(docs)
    BY <1>1 DEF Listings!Listed
  <2>. QED
    BY <1>1, <2>1, BoundAssumption
<1>5. no \in BOOLEAN /\ 1 \in 1..(DocLimit + 1) /\ 0 \in 0..DocLimit /\ <<>> \in Seq(1..DocLimit)
  BY BoundAssumption
<1>. HIDE DEF no, per, listed
<1>6. new \in Listings!Reading
  BY <1>3, <1>4, <1>5 DEF Listings!Reading, Listings!DocId
<1>7. CatalogueTyped'
  BY <1>2, <1>6 DEF CatalogueInv, CatalogueTyped, Listings!ReaderState
<1>8. /\ reader'.step = "count" /\ reader'.page = 1 /\ reader'.limit = per /\ reader'.tag = tag
      /\ reader'.seen = <<>> /\ reader'.steady = listed
  BY <1>2
<1>9. Held(reader'.seen) = {} /\ Len(reader'.seen) = 0
  BY <1>8 DEF Held
<1>10. Listings!Listed(reader.tag)' = listed
  BY <1>2, <1>8 DEF Listings!Listed, listed
<1>11. Behind' = {}
  <2>1. \A n : Listings!Place(reader.tag, n)' = Listings!Place(tag, n)
    BY <1>2, <1>8 DEF Listings!Place, Listings!Listed, Listings!Before
  <2>2. Listings!Skip(reader.page, reader.limit)' = 0
    BY <1>3, <1>8, BoundAssumption DEF Listings!Skip
  <2>3. \A n \in listed : Listings!Place(tag, n) \in 1..Cardinality(Listings!Listed(tag))
    BY <1>1, SortedWhole DEF listed
  <2>. QED
    BY <1>10, <2>1, <2>2, <2>3 DEF Behind
<1>12. StayedShown' /\ CountRight' /\ ShownBehind'
  <2>1. StayedShown'
    BY <1>11 DEF StayedShown
  <2>2. CountRight'
    BY <1>8 DEF CountRight
  <2>3. Held(reader.seen)' = {}
    BY <1>9 DEF Held
  <2>4. ShownBehind'
    BY <1>9, <2>3 DEF ShownBehind
  <2>. QED
    BY <2>1, <2>2, <2>4
<1>13. Listings!WalkComplete' /\ Listings!WalkShowsOnce'
  BY <1>8 DEF Listings!WalkComplete, Listings!WalkShowsOnce, Listings!IsInjective
<1>. QED
  BY <1>1, <1>2, <1>7, <1>8, <1>9, <1>10, <1>12, <1>13 DEF CatalogueInv, PagesSound, Held

LEMMA CountKeeps ==
  ASSUME CatalogueInv, Listings!Count
  PROVE  CatalogueInv'
<1>. DEFINE total == Len(Listings!Sorted(reader.tag))
            listed == Listings!Listed(reader.tag)
<1>1. /\ reader.step = "count" /\ reader' = [reader EXCEPT !.total = total, !.step = "find"]
      /\ service' = service /\ docs' = docs /\ changes' = changes
  BY DEF Listings!Count
<1>2. Listings!Walking /\ reader # Listings!Away
  BY <1>1 DEF Listings!Walking, Listings!Away
<1>3. CatalogueTyped /\ PagesSound /\ reader \in Listings!Reading
  BY <1>2, ReaderFields DEF CatalogueInv
<1>4. total = Cardinality(listed) /\ total \in 0..DocLimit
  <2>1. docs \in Seq(Documents) /\ service \in Listings!Services /\ Len(docs) <= DocLimit
    BY <1>3 DEF CatalogueTyped, PagesSound
  <2>2. total = Cardinality(listed) /\ total \in 0..Len(docs)
    BY <2>1, SortedWhole
  <2>3. Len(docs) \in Nat
    BY <2>1, LenProperties
  <2>. QED
    BY <2>1, <2>2, <2>3, BoundAssumption
<1>. HIDE DEF total
<1>5. /\ reader' \in Listings!Reading /\ reader'.step = "find" /\ reader'.total = total
      /\ reader'.page = reader.page /\ reader'.limit = reader.limit /\ reader'.tag = reader.tag
      /\ reader'.seen = reader.seen /\ reader'.steady = reader.steady
      /\ reader'.left = reader.left /\ reader'.moved = reader.moved
      /\ reader'.added = reader.added /\ reader'.split = reader.split
  BY <1>1, <1>3, <1>4 DEF Listings!Reading
<1>6. CatalogueTyped' /\ reader' # Listings!Away
  BY <1>1, <1>3, <1>5 DEF CatalogueTyped, Listings!ReaderState, Listings!Away
<1>7. listed' = listed /\ Behind' = Behind
  <2>1. listed' = listed
    BY <1>1, <1>5 DEF Listings!Listed
  <2>2. \A n : Listings!Place(reader.tag, n)' = Listings!Place(reader.tag, n)
    BY <1>1, <1>5 DEF Listings!Place, Listings!Listed, Listings!Before
  <2>3. Listings!Skip(reader.page, reader.limit)' = Listings!Skip(reader.page, reader.limit)
    BY <1>5 DEF Listings!Skip
  <2>. QED
    BY <2>1, <2>2, <2>3 DEF Behind
<1>8. Held(reader.seen)' = Held(reader.seen) /\ Excused' = Excused
  BY <1>1, <1>5 DEF Held, Excused
<1>9. StayedShown' /\ ShownBehind'
  BY <1>2, <1>3, <1>5, <1>7, <1>8 DEF PagesSound, StayedShown, ShownBehind
<1>10. CountRight'
  BY <1>4, <1>5, <1>7 DEF CountRight
<1>11. Listings!WalkComplete' /\ Listings!WalkShowsOnce'
  BY <1>1, <1>2, <1>3, <1>5 DEF PagesSound, Listings!WalkComplete, Listings!WalkShowsOnce,
                                Listings!Walking
<1>. QED
  BY <1>1, <1>2, <1>3, <1>5, <1>6, <1>7, <1>8, <1>9, <1>10, <1>11 DEF CatalogueInv, PagesSound

LEMMA PageKept ==
  ASSUME CatalogueInv, Listings!ReadAtOnce \/ Listings!Find
  PROVE  CatalogueInv'
<1>1. Listings!Walking /\ reader # Listings!Away
  BY DEF Listings!ReadAtOnce, Listings!Find, Listings!Walking, Listings!Away
<1>2. CatalogueTyped /\ PagesSound
  BY <1>1 DEF CatalogueInv
<1>3. CASE Listings!ReadAtOnce
  <2>. DEFINE total == Len(Listings!Sorted(reader.tag))
  <2>1. docs \in Seq(Documents) /\ service \in Listings!Services /\ Len(docs) <= DocLimit
    BY <1>2 DEF CatalogueTyped, PagesSound
  <2>2. total = Cardinality(Listings!Listed(reader.tag)) /\ total \in 0..Len(docs)
    BY <2>1, SortedWhole
  <2>3. Len(docs) \in Nat
    BY <2>1, LenProperties
  <2>4. total \in 0..DocLimit
    BY <2>1, <2>2, <2>3, BoundAssumption
  <2>5. reader' = Listings!Shown(total) /\ service' = service /\ docs' = docs /\ changes' = changes
    BY <1>3 DEF Listings!ReadAtOnce
  <2>. QED
    BY <1>1, <2>2, <2>4, <2>5, ShownKeeps
<1>4. CASE Listings!Find
  <2>1. reader' = Listings!Shown(reader.total) /\ reader.step = "find"
        /\ service' = service /\ docs' = docs /\ changes' = changes
    BY <1>4 DEF Listings!Find
  <2>2. reader.total \in 0..DocLimit
    BY <1>1, <1>2, ReaderFields
  <2>3. ~reader.left /\ ~reader.split
           => reader.total = Cardinality(Listings!Listed(reader.tag))
    BY <1>1, <1>2, <2>1 DEF PagesSound, CountRight
  <2>. QED
    BY <1>1, <2>1, <2>2, <2>3, ShownKeeps
<1>. QED
  BY <1>3, <1>4

LEMMA CatalogueInvStep ==
  ASSUME CatalogueInv, [Listings!Next]_catalogueVars
  PROVE  CatalogueInv'
<1>1. CASE UNCHANGED catalogueVars
  <2>1. service' = service /\ docs' = docs /\ changes' = changes /\ reader' = reader
    BY <1>1 DEF catalogueVars
  <2>2. CatalogueTyped'
    BY <2>1 DEF CatalogueInv, CatalogueTyped
  <2>3. \A tag, n : Listings!Listed(tag)' = Listings!Listed(tag)
                    /\ Listings!Place(tag, n)' = Listings!Place(tag, n)
    BY <2>1 DEF Listings!Place, Listings!Listed, Listings!Before
  <2>4. Behind' = Behind /\ Excused' = Excused
    <3>1. Listings!Listed(reader.tag)' = Listings!Listed(reader.tag)
      BY <2>1 DEF Listings!Listed
    <3>2. \A n : Listings!Place(reader.tag, n)' = Listings!Place(reader.tag, n)
      BY <2>1 DEF Listings!Place, Listings!Listed, Listings!Before
    <3>. QED
      BY <2>1, <3>1, <3>2 DEF Behind, Excused, Listings!Skip
  <2>5. CASE reader # Listings!Away
    <3>1. PagesSound'
      BY <2>1, <2>4, <2>5 DEF CatalogueInv, PagesSound, StayedShown, CountRight, ShownBehind,
                             Held, Listings!Listed, Listings!Walking, Listings!WalkComplete,
                             Listings!WalkShowsOnce
    <3>. QED
      BY <2>2, <3>1 DEF CatalogueInv
  <2>. QED
    BY <2>1, <2>2, <2>5 DEF CatalogueInv
<1>2. CASE \E s \in Listings!Services : Listings!Choose(s)
  BY <1>2, ServiceChosen
<1>3. CASE \E tag \in Tag : Listings!Create(tag) \/ \E n \in Listings!DocId : Listings!Update(n, tag)
  BY <1>3, DocumentChanges
<1>4. CASE \E n \in Listings!DocId : Listings!SoftDelete(n)
  BY <1>4, DocumentChanges
<1>5. CASE \E limit \in 0..DocLimit, tag \in Tag \cup {Listings!NoTag} : Listings!Begin(limit, tag)
  BY <1>5, WalkBegins
<1>6. CASE Listings!ReadAtOnce \/ Listings!Find
  BY <1>6, PageKept
<1>7. CASE Listings!Count
  BY <1>7, CountKeeps
<1>. QED
  BY <1>1, <1>2, <1>3, <1>4, <1>5, <1>6, <1>7 DEF Listings!Next

-------------------------------------------------------------------------------
(* Ratings                                                                 *)

\* The sums of the first numbers of a sequence.
Sums(s, f) ==
  /\ f \in [0..Len(s) -> Int]
  /\ f[0] = 0
  /\ \A i \in 1..Len(s) : f[i] = f[i - 1] + s[i]

LEMMA SumsExist ==
  ASSUME NEW s \in Seq(Int)
  PROVE  \E f : Sums(s, f)
<1>. DEFINE n == Len(s)
            step == [p \in Nat \X Int |-> p[2] + (IF p[1] \in 1..n THEN s[p[1]] ELSE 0)]
<1>1. n \in Nat /\ \A i \in 1..n : s[i] \in Int
  BY LenProperties, ElementOfSeq
<1>2. step \in Steps(Int)
  <2>1. \A p \in Nat \X Int : p[2] + (IF p[1] \in 1..n THEN s[p[1]] ELSE 0) \in Int
    BY <1>1
  <2>. QED
    BY <2>1 DEF Steps
<1>3. \A i \in 1..n, v \in Int : step[<<i, v>>] = v + s[i]
  BY <1>1
<1>. HIDE DEF step
<1>4. PICK f : Iterates(f, Int, 0, step, n)
  BY <1>1, <1>2, IterationExists
<1>5. f \in [0..n -> Int] /\ f[0] = 0 /\ \A i \in 1..n : f[i] = step[<<i, f[i - 1]>>]
  BY <1>4 DEF Iterates
<1>6. \A i \in 1..n : i - 1 \in 0..n
  BY <1>1
<1>7. \A i \in 1..n : f[i - 1] \in Int
  BY <1>5, <1>6
<1>8. \A i \in 1..n : f[i] = f[i - 1] + s[i]
  BY <1>3, <1>5, <1>7
<1>. QED
  BY <1>5, <1>8 DEF Sums

LEMMA SumUnfolds ==
  ASSUME NEW s \in Seq(Int)
  PROVE  \E f : Sums(s, f) /\ Scores!SumOf(s) = f[Len(s)]
<1>1. Len(s) \in Nat /\ \A i \in 1..Len(s) : s[i] \in Int
  BY LenProperties, ElementOfSeq
<1>. DEFINE n == Len(s)
            Equation(f) == f = [i \in 0..n |-> IF i = 0 THEN 0 ELSE f[i - 1] + s[i]]
            sum == CHOOSE f : Equation(f)
<1>. HIDE DEF n
<1>2. \E f : Equation(f)
  <2>1. PICK f : Sums(s, f)
    BY SumsExist
  <2>2. ASSUME NEW i \in 0..n PROVE f[i] = IF i = 0 THEN 0 ELSE f[i - 1] + s[i]
    BY <1>1, <2>1 DEF Sums, n
  <2>3. f = [i \in 0..n |-> f[i]]
    BY <2>1 DEF Sums, n
  <2>. QED
    BY <2>2, <2>3
<1>3. Equation(sum)
  BY <1>2
<1>4. Scores!SumOf(s) = sum[n]
  BY DEF Scores!SumOf, n
<1>. HIDE DEF sum
<1>5. sum[0] = 0 /\ DOMAIN sum = 0..n
  BY <1>1, <1>3 DEF n
<1>6. \A i \in 1..n : sum[i] = sum[i - 1] + s[i]
  BY <1>1, <1>3 DEF n
<1>7. \A i \in 0..n : sum[i] \in Int
  <2>. SUFFICES ASSUME NEW i \in 0..n PROVE sum[i] \in Int
    OBVIOUS
  <2>1. i \in Nat /\ 1..i \subseteq 1..n /\ \A j \in 1..n : s[j] \in Int
    BY <1>1 DEF n
  <2>2. ASSUME NEW j \in 1..i, sum[j - 1] \in Int PROVE sum[j] \in Int
    <3>1. sum[j] = sum[j - 1] + s[j] /\ s[j] \in Int
      BY <1>6, <2>1
    <3>. PICK x \in Int : x = sum[j - 1]
      BY <2>2
    <3>. PICK y \in Int : y = s[j]
      BY <3>1
    <3>2. x + y \in Int
      OBVIOUS
    <3>. QED
      BY <3>1, <3>2
  <2>3. sum[0] \in Int
    BY <1>5
  <2>. QED
    BY <2>1, <2>2, <2>3, StaysWithin
<1>8. sum \in [0..n -> Int]
  BY <1>3, <1>5, <1>7
<1>. QED
  BY <1>4, <1>5, <1>6, <1>8 DEF Sums, n

LEMMA SumIsNumber ==
  ASSUME NEW s \in Seq(Int)
  PROVE  Scores!SumOf(s) \in Int
<1>1. PICK f : Sums(s, f) /\ Scores!SumOf(s) = f[Len(s)]
  BY SumUnfolds
<1>2. Len(s) \in 0..Len(s)
  BY LenProperties
<1>. QED
  BY <1>1, <1>2 DEF Sums

\* Numbers within bounds have a sum within these bounds, as often as there are
\* numbers.
LEMMA SumWithin ==
  ASSUME NEW s \in Seq(Int), NEW low \in Int, NEW high \in Int,
         \A i \in 1..Len(s) : low <= s[i] /\ s[i] <= high
  PROVE  /\ Scores!SumOf(s) \in Int
         /\ low * Len(s) <= Scores!SumOf(s)
         /\ Scores!SumOf(s) <= high * Len(s)
<1>. DEFINE n == Len(s)
            Between == {p \in Nat \X Int : low * p[1] <= p[2] /\ p[2] <= high * p[1]}
<1>1. PICK f : Sums(s, f) /\ Scores!SumOf(s) = f[n]
  BY SumUnfolds
<1>2. n \in Nat /\ \A i \in 1..n : s[i] \in Int
  BY LenProperties, ElementOfSeq
<1>. DEFINE g == [i \in 0..n |-> <<i, f[i]>>]
<1>. HIDE DEF n
<1>3. f \in [0..n -> Int] /\ f[0] = 0 /\ \A i \in 1..n : f[i] = f[i - 1] + s[i]
  BY <1>1 DEF Sums, n
<1>4. g[0] \in Between
  BY <1>2, <1>3
<1>5. ASSUME NEW i \in 1..n, g[i - 1] \in Between PROVE g[i] \in Between
  <2>1. i \in Nat /\ i - 1 \in 0..n /\ i \in 0..n
    BY <1>2
  <2>2. low * (i - 1) <= f[i - 1] /\ f[i - 1] <= high * (i - 1) /\ f[i - 1] \in Int
    BY <1>3, <1>5, <2>1
  <2>3. low * i = low * (i - 1) + low /\ high * i = high * (i - 1) + high
    BY <2>1
  <2>4. low <= s[i] /\ s[i] <= high /\ s[i] \in Int /\ f[i] = f[i - 1] + s[i]
    BY <1>2, <1>3 DEF n
  <2>5. low * (i - 1) \in Int /\ high * (i - 1) \in Int
    BY <2>1
  <2>6. low * i <= f[i] /\ f[i] <= high * i /\ f[i] \in Int
    BY <2>2, <2>3, <2>4, <2>5
  <2>. QED
    BY <2>1, <2>6
<1>6. g[n] \in Between
  <2>. HIDE DEF g, Between
  <2>. QED
    BY <1>2, <1>4, <1>5, StaysWithin
<1>7. f[n] \in Int /\ low * n <= f[n] /\ f[n] <= high * n
  BY <1>2, <1>6
<1>. QED
  BY <1>1, <1>7 DEF n

\* Greater numbers have a greater sum.
LEMMA SumGrows ==
  ASSUME NEW s \in Seq(Int), NEW t \in Seq(Int), Len(s) = Len(t),
         \A i \in 1..Len(s) : s[i] <= t[i]
  PROVE  Scores!SumOf(s) <= Scores!SumOf(t)
<1>. DEFINE n == Len(s)
            Between == {p \in Int \X Int : p[1] <= p[2]}
<1>1. PICK f : Sums(s, f) /\ Scores!SumOf(s) = f[n]
  BY SumUnfolds
<1>2. PICK h : Sums(t, h) /\ Scores!SumOf(t) = h[n]
  BY SumUnfolds
<1>3. n \in Nat /\ \A i \in 1..n : s[i] \in Int /\ t[i] \in Int /\ s[i] <= t[i]
  BY LenProperties, ElementOfSeq
<1>. DEFINE g == [i \in 0..n |-> <<f[i], h[i]>>]
<1>. HIDE DEF n
<1>4. /\ f \in [0..n -> Int] /\ f[0] = 0 /\ \A i \in 1..n : f[i] = f[i - 1] + s[i]
      /\ h \in [0..n -> Int] /\ h[0] = 0 /\ \A i \in 1..n : h[i] = h[i - 1] + t[i]
  BY <1>1, <1>2 DEF Sums, n
<1>5. g[0] \in Between
  BY <1>3, <1>4
<1>6. ASSUME NEW i \in 1..n, g[i - 1] \in Between PROVE g[i] \in Between
  <2>1. i - 1 \in 0..n /\ i \in 0..n
    BY <1>3
  <2>2. f[i - 1] <= h[i - 1] /\ f[i - 1] \in Int /\ h[i - 1] \in Int
    BY <1>4, <1>6, <2>1
  <2>3. f[i] = f[i - 1] + s[i] /\ h[i] = h[i - 1] + t[i]
    BY <1>4
  <2>4. s[i] \in Int /\ t[i] \in Int /\ s[i] <= t[i]
    BY <1>3
  <2>5. f[i] <= h[i] /\ f[i] \in Int /\ h[i] \in Int
    BY <2>2, <2>3, <2>4
  <2>. QED
    BY <2>1, <2>5
<1>7. g[n] \in Between
  <2>. HIDE DEF g, Between
  <2>. QED
    BY <1>3, <1>5, <1>6, StaysWithin
<1>8. f[n] <= h[n]
  BY <1>3, <1>7
<1>. QED
  BY <1>1, <1>2, <1>8 DEF n

-------------------------------------------------------------------------------
(* Rounding and limits                                                     *)

LEMMA ScoreMinimum ==
  ASSUME NEW a \in Int, NEW b \in Int
  PROVE  Scores!Min({a, b}) = IF a <= b THEN a ELSE b
<1>. DEFINE Least(x) == x \in {a, b} /\ \A y \in {a, b} : x <= y
<1>1. Scores!Min({a, b}) = CHOOSE x \in {a, b} : \A y \in {a, b} : x <= y
  BY DEF Scores!Min
<1>2. Least(IF a <= b THEN a ELSE b)
  OBVIOUS
<1>3. \A x : Least(x) => x = IF a <= b THEN a ELSE b
  OBVIOUS
<1>. QED
  BY <1>1, <1>2, <1>3

LEMMA ScoreMaximum ==
  ASSUME NEW a \in Int, NEW b \in Int
  PROVE  Scores!Max({a, b}) = IF a >= b THEN a ELSE b
<1>. DEFINE Most(x) == x \in {a, b} /\ \A y \in {a, b} : x >= y
<1>1. Scores!Max({a, b}) = CHOOSE x \in {a, b} : \A y \in {a, b} : x >= y
  BY DEF Scores!Max
<1>2. Most(IF a >= b THEN a ELSE b)
  OBVIOUS
<1>3. \A x : Most(x) => x = IF a >= b THEN a ELSE b
  OBVIOUS
<1>. QED
  BY <1>1, <1>2, <1>3

LEMMA Clamped ==
  ASSUME NEW n \in Int, NEW low \in Int, NEW high \in Int, low <= high
  PROVE  Scores!Clamp(n, low, high) = IF n < low THEN low ELSE IF n > high THEN high ELSE n
<1>. DEFINE m == Scores!Min({n, high})
<1>1. m = IF n <= high THEN n ELSE high
  BY ScoreMinimum
<1>2. m \in Int
  BY <1>1
<1>. HIDE DEF m
<1>3. Scores!Max({low, m}) = IF low >= m THEN low ELSE m
  BY <1>2, ScoreMaximum
<1>. QED
  BY <1>1, <1>3 DEF Scores!Clamp, m

\* What a quotient says of the number divided.
LEMMA QuotientIs ==
  ASSUME NEW a \in Int, NEW d \in Nat \ {0}
  PROVE  a \div d \in Int /\ d * (a \div d) <= a /\ a < d * (a \div d) + d
OBVIOUS

LEMMA QuotientAtLeast ==
  ASSUME NEW a \in Int, NEW d \in Nat \ {0}, NEW q \in Int, d * q <= a
  PROVE  q <= a \div d
<1>. DEFINE p == a \div d
<1>1. p \in Int /\ a < d * p + d
  BY QuotientIs
<1>. HIDE DEF p
<1>2. ASSUME p + 1 <= q PROVE FALSE
  <2>1. d * (p + 1) <= d * q
    BY <1>1, <1>2
  <2>2. d * (p + 1) = d * p + d
    BY <1>1
  <2>. QED
    BY <1>1, <2>1, <2>2
<1>3. q <= p
  BY <1>1, <1>2
<1>. QED
  BY <1>3 DEF p

LEMMA QuotientGrows ==
  ASSUME NEW a \in Int, NEW b \in Int, NEW d \in Nat \ {0}, a <= b
  PROVE  a \div d <= b \div d
<1>1. a \div d \in Int /\ d * (a \div d) <= a
  BY QuotientIs
<1>2. d * (a \div d) \in Int
  BY <1>1
<1>3. d * (a \div d) <= b
  BY <1>1, <1>2
<1>. QED
  BY <1>1, <1>3, QuotientAtLeast

\* A mean is between the least and the greatest of its numbers.
LEMMA QuotientOfMultiple ==
  ASSUME NEW a \in Int, NEW b \in Int, NEW d \in Nat \ {0}, NEW n \in Nat \ {0}
  PROVE  /\ a <= n * b => a \div (n * d) <= b \div d
         /\ n * b <= a => b \div d <= a \div (n * d)
<1>1. n * d \in Nat \ {0}
  OBVIOUS
<1>2. ASSUME a <= n * b PROVE a \div (n * d) <= b \div d
  <2>. DEFINE q == a \div (n * d)
  <2>1. q \in Int /\ (n * d) * q <= a
    BY <1>1, QuotientIs
  <2>. HIDE DEF q
  <2>2. n * (d * q) <= n * b
    BY <1>2, <2>1
  <2>3. d * q \in Int
    BY <2>1
  <2>4. d * q <= b
    BY <2>2, <2>3
  <2>. QED
    BY <2>1, <2>4, QuotientAtLeast DEF q
<1>3. ASSUME n * b <= a PROVE b \div d <= a \div (n * d)
  <2>. DEFINE q == b \div d
  <2>1. q \in Int /\ d * q <= b
    BY QuotientIs
  <2>. HIDE DEF q
  <2>2. n * (d * q) <= n * b
    BY <2>1
  <2>3. (n * d) * q <= a
    BY <1>3, <2>1, <2>2
  <2>. QED
    BY <1>1, <2>1, <2>3, QuotientAtLeast DEF q
<1>. QED
  BY <1>2, <1>3

-------------------------------------------------------------------------------
(* The units of an answer, and the rating of answers                       *)

\* An answer of a customer, or of one who gave more stars.
Answers == [maxRatings : Int, num : Int]

LEMMA AnswersAre == Scores!Answer \subseteq Answers
BY StarAssumption DEF Scores!Answer, Answers

LEMMA ScaleKnown ==
  ASSUME NEW q \in Answers
  PROVE  /\ Scores!ScaleOf(q) \in {3, 5, 10}
         /\ q.maxRatings \in {3, 5, 10} => Scores!ScaleOf(q) = q.maxRatings
BY DEF Scores!ScaleOf

\* An answer has 36 units to a star of five, from one to five, and a better
\* answer on the same scale no fewer.
LEMMA UnitsOf ==
  ASSUME NEW q \in Answers
  PROVE  /\ Scores!Normalized(q) \in 36..180
         /\ q.num >= Scores!ScaleOf(q) => Scores!Normalized(q) = 180
         /\ q.num <= 1 => Scores!Normalized(q) = 36
<1>. DEFINE m == Scores!ScaleOf(q)
            x == Scores!Clamp(q.num, 1, m)
<1>1. m \in {3, 5, 10} /\ q.num \in Int
  BY ScaleKnown DEF Answers
<1>. HIDE DEF m
<1>2. x = IF q.num < 1 THEN 1 ELSE IF q.num > m THEN m ELSE q.num
  BY <1>1, Clamped
<1>3. Scores!Normalized(q) = 36 + (x - 1) * (144 \div (m - 1))
  BY DEF Scores!Normalized, m
<1>. HIDE DEF x
<1>4. x \in 1..m
  BY <1>1, <1>2
<1>5. CASE m = 3
  <2>1. Scores!Normalized(q) = 36 + (x - 1) * 72
    BY <1>3, <1>5
  <2>. QED
    BY <1>1, <1>2, <1>4, <1>5, <2>1 DEF m
<1>6. CASE m = 5
  <2>1. Scores!Normalized(q) = 36 + (x - 1) * 36
    BY <1>3, <1>6
  <2>. QED
    BY <1>1, <1>2, <1>4, <1>6, <2>1 DEF m
<1>7. CASE m = 10
  <2>1. Scores!Normalized(q) = 36 + (x - 1) * 16
    BY <1>3, <1>7
  <2>. QED
    BY <1>1, <1>2, <1>4, <1>7, <2>1 DEF m
<1>. QED
  BY <1>1, <1>5, <1>6, <1>7

LEMMA UnitsGrow ==
  ASSUME NEW q \in Answers, NEW r \in Answers, q.maxRatings = r.maxRatings, q.num <= r.num
  PROVE  Scores!Normalized(q) <= Scores!Normalized(r)
<1>. DEFINE m == Scores!ScaleOf(q)
            x == Scores!Clamp(q.num, 1, m)
            y == Scores!Clamp(r.num, 1, m)
<1>1. m \in {3, 5, 10} /\ q.num \in Int /\ r.num \in Int
  BY ScaleKnown DEF Answers
<1>2. Scores!ScaleOf(r) = m
  BY DEF Scores!ScaleOf
<1>. HIDE DEF m
<1>3. /\ x = IF q.num < 1 THEN 1 ELSE IF q.num > m THEN m ELSE q.num
      /\ y = IF r.num < 1 THEN 1 ELSE IF r.num > m THEN m ELSE r.num
  BY <1>1, Clamped
<1>4. /\ Scores!Normalized(q) = 36 + (x - 1) * (144 \div (m - 1))
      /\ Scores!Normalized(r) = 36 + (y - 1) * (144 \div (m - 1))
  BY <1>2 DEF Scores!Normalized, m
<1>. HIDE DEF x, y
<1>5. x <= y /\ x \in Int /\ y \in Int
  BY <1>1, <1>3
<1>6. CASE m = 3
  <2>1. 144 \div (m - 1) = 72
    BY <1>6
  <2>. QED
    BY <1>4, <1>5, <2>1
<1>7. CASE m = 5
  <2>1. 144 \div (m - 1) = 36
    BY <1>7
  <2>. QED
    BY <1>4, <1>5, <2>1
<1>8. CASE m = 10
  <2>1. 144 \div (m - 1) = 16
    BY <1>8
  <2>. QED
    BY <1>4, <1>5, <2>1
<1>. QED
  BY <1>1, <1>6, <1>7, <1>8

Units(as) == [i \in DOMAIN as |-> Scores!Normalized(as[i])]

\* The rating of so many units in so many answers.
TenthsOf(units, n) == Scores!Clamp(Scores!Rounded(10 * units, 36 * n), 10, 50)

LEMMA TenthsTyped ==
  ASSUME NEW u \in Int, NEW n \in Nat \ {0}
  PROVE  TenthsOf(u, n) \in 10..50
<1>1. 72 * n \in Nat \ {0} /\ 20 * u + 36 * n \in Int
  OBVIOUS
<1>2. Scores!Rounded(10 * u, 36 * n) = (20 * u + 36 * n) \div (72 * n)
  BY DEF Scores!Rounded
<1>3. Scores!Rounded(10 * u, 36 * n) \in Int
  BY <1>1, <1>2, QuotientIs
<1>. DEFINE r == Scores!Rounded(10 * u, 36 * n)
<1>. HIDE DEF r
<1>4. Scores!Clamp(r, 10, 50) = IF r < 10 THEN 10 ELSE IF r > 50 THEN 50 ELSE r
  BY <1>3, Clamped DEF r
<1>5. r \in Int
  BY <1>3 DEF r
<1>. QED
  BY <1>4, <1>5 DEF TenthsOf, r

LEMMA RoundedIs ==
  ASSUME NEW u \in Int, NEW n \in Nat \ {0}
  PROVE  /\ Scores!Rounded(10 * u, 36 * n) = (20 * u + 36 * n) \div (n * 72)
         /\ Scores!Rounded(10 * u, 36 * n) \in Int
<1>1. n * 72 \in Nat \ {0} /\ 20 * u + 36 * n \in Int
  OBVIOUS
<1>2. 2 * (10 * u) + 36 * n = 20 * u + 36 * n /\ 2 * (36 * n) = n * 72
  OBVIOUS
<1>3. Scores!Rounded(10 * u, 36 * n) = (20 * u + 36 * n) \div (n * 72)
  BY <1>2 DEF Scores!Rounded
<1>. QED
  BY <1>1, <1>3, QuotientIs

LEMMA ClampGrows ==
  ASSUME NEW a \in Int, NEW b \in Int, a <= b
  PROVE  Scores!Clamp(a, 10, 50) <= Scores!Clamp(b, 10, 50)
<1>1. Scores!Clamp(a, 10, 50) = IF a < 10 THEN 10 ELSE IF a > 50 THEN 50 ELSE a
  BY Clamped
<1>2. Scores!Clamp(b, 10, 50) = IF b < 10 THEN 10 ELSE IF b > 50 THEN 50 ELSE b
  BY Clamped
<1>. QED
  BY <1>1, <1>2

LEMMA TenthsGrow ==
  ASSUME NEW u \in Int, NEW v \in Int, NEW n \in Nat \ {0}, u <= v
  PROVE  TenthsOf(u, n) <= TenthsOf(v, n)
<1>1. /\ n * 72 \in Nat \ {0} /\ 20 * u + 36 * n \in Int /\ 20 * v + 36 * n \in Int
      /\ 20 * u + 36 * n <= 20 * v + 36 * n
  OBVIOUS
<1>2. (20 * u + 36 * n) \div (n * 72) <= (20 * v + 36 * n) \div (n * 72)
  BY <1>1, QuotientGrows
<1>3. Scores!Rounded(10 * u, 36 * n) <= Scores!Rounded(10 * v, 36 * n)
  BY <1>2, RoundedIs
<1>. QED
  BY <1>3, RoundedIs, ClampGrows DEF TenthsOf

\* The mean of answers has a rating between those of the least and the greatest.
LEMMA TenthsOfMean ==
  ASSUME NEW u \in Int, NEW v \in Int, NEW n \in Nat \ {0}
  PROVE  /\ u <= n * v => TenthsOf(u, n) <= TenthsOf(v, 1)
         /\ n * v <= u => TenthsOf(v, 1) <= TenthsOf(u, n)
<1>. DEFINE a == 20 * u + 36 * n
            b == 20 * v + 36
<1>1. a \in Int /\ b \in Int
  OBVIOUS
<1>2. n * b = 20 * (n * v) + 36 * n /\ n * v \in Int
  OBVIOUS
<1>3. (u <= n * v => a <= n * b) /\ (n * v <= u => n * b <= a)
  BY <1>2
<1>4. /\ Scores!Rounded(10 * u, 36 * n) = a \div (n * 72)
      /\ Scores!Rounded(10 * u, 36 * n) \in Int
  BY RoundedIs
<1>5. /\ Scores!Rounded(10 * v, 36 * 1) = b \div 72
      /\ Scores!Rounded(10 * v, 36 * 1) \in Int
  <2>1. 1 \in Nat \ {0} /\ 20 * v + 36 * 1 = b /\ 1 * 72 = 72
    OBVIOUS
  <2>2. /\ Scores!Rounded(10 * v, 36 * 1) = (20 * v + 36 * 1) \div (1 * 72)
        /\ Scores!Rounded(10 * v, 36 * 1) \in Int
    BY <2>1, RoundedIs
  <2>. HIDE DEF b
  <2>. QED
    BY <2>1, <2>2
<1>. HIDE DEF a, b
<1>6. 72 \in Nat \ {0}
  OBVIOUS
<1>7. /\ a <= n * b => a \div (n * 72) <= b \div 72
      /\ n * b <= a => b \div 72 <= a \div (n * 72)
  BY <1>1, <1>6, QuotientOfMultiple
<1>. DEFINE r == Scores!Rounded(10 * u, 36 * n)
            t == Scores!Rounded(10 * v, 36 * 1)
<1>8. r \in Int /\ t \in Int /\ (u <= n * v => r <= t) /\ (n * v <= u => t <= r)
  BY <1>3, <1>4, <1>5, <1>7
<1>. HIDE DEF r, t
<1>9. /\ r <= t => Scores!Clamp(r, 10, 50) <= Scores!Clamp(t, 10, 50)
      /\ t <= r => Scores!Clamp(t, 10, 50) <= Scores!Clamp(r, 10, 50)
  BY <1>8, ClampGrows
<1>10. TenthsOf(u, n) = Scores!Clamp(r, 10, 50) /\ TenthsOf(v, 1) = Scores!Clamp(t, 10, 50)
  BY DEF TenthsOf, r, t
<1>. QED
  BY <1>8, <1>9, <1>10

LEMMA TenthsAtEnds == TenthsOf(180, 1) = 50 /\ TenthsOf(36, 1) = 10
<1>1. Scores!Rounded(10 * 180, 36 * 1) = 50 /\ Scores!Rounded(10 * 36, 36 * 1) = 10
  BY SMT DEF Scores!Rounded
<1>2. Scores!Clamp(50, 10, 50) = 50 /\ Scores!Clamp(10, 10, 50) = 10
  <2>1. Scores!Clamp(50, 10, 50) = IF 50 < 10 THEN 10 ELSE IF 50 > 50 THEN 50 ELSE 50
    BY Clamped
  <2>2. Scores!Clamp(10, 10, 50) = IF 10 < 10 THEN 10 ELSE IF 10 > 50 THEN 50 ELSE 10
    BY Clamped
  <2>. QED
    BY <2>1, <2>2, SMT
<1>. QED
  BY <1>1, <1>2, SMT DEF TenthsOf

LEMMA UnitsTyped ==
  ASSUME NEW as \in Seq(Answers)
  PROVE  Units(as) \in Seq(Int) /\ Len(Units(as)) = Len(as) /\ DOMAIN as = 1..Len(as)
<1>1. Len(as) \in Nat /\ DOMAIN as = 1..Len(as)
  BY LenProperties
<1>. DEFINE units(i) == Scores!Normalized(as[i])
<1>2. \A i \in 1..Len(as) : units(i) \in Int
  <2>. SUFFICES ASSUME NEW i \in 1..Len(as) PROVE units(i) \in Int
    OBVIOUS
  <2>1. as[i] \in Answers
    BY ElementOfSeq
  <2>2. units(i) \in 36..180
    BY <2>1, UnitsOf
  <2>3. \A x \in 36..180 : x \in Int
    OBVIOUS
  <2>. HIDE DEF units
  <2>. QED
    BY <2>2, <2>3
<1>3. Units(as) \in [1..Len(as) -> Int]
  BY <1>1, <1>2 DEF Units
<1>. QED
  BY <1>1, <1>3, SeqOfLength

\* The overall rating is the rating of the units of its answers.
LEMMA OverallIs ==
  ASSUME NEW as \in Seq(Answers)
  PROVE  /\ Scores!OverallRating(as) = IF as = <<>> THEN 10
                                       ELSE TenthsOf(Scores!SumOf(Units(as)), Len(as))
         /\ Scores!SumOf(Units(as)) \in Int
         /\ Scores!OverallRating(as) \in 10..50
<1>1. Units(as) \in Seq(Int)
  BY UnitsTyped
<1>2. Scores!SumOf(Units(as)) \in Int
  BY <1>1, SumIsNumber
<1>3. Scores!OverallRating(as) = IF as = <<>> THEN 10
                                 ELSE TenthsOf(Scores!SumOf(Units(as)), Len(as))
  BY DEF Scores!OverallRating, TenthsOf, Units
<1>4. as # <<>> => Len(as) \in Nat \ {0}
  BY LenProperties, EmptySeq
<1>5. as # <<>> => TenthsOf(Scores!SumOf(Units(as)), Len(as)) \in 10..50
  BY <1>2, <1>4, TenthsTyped
<1>6. 10 \in 10..50
  OBVIOUS
<1>. QED
  BY <1>2, <1>3, <1>5, <1>6

LEMMA ScoreMinIs ==
  ASSUME NEW S, S \subseteq Int, NEW x \in S, \A y \in S : x <= y
  PROVE  Scores!Min(S) = x
<1>. DEFINE Least(z) == z \in S /\ \A y \in S : z <= y
<1>1. Least(x)
  OBVIOUS
<1>2. ASSUME NEW z, Least(z) PROVE z = x
  <2>1. z \in Int /\ x \in Int /\ z <= x /\ x <= z
    BY <1>2
  <2>. QED
    BY <2>1
<1>3. Scores!Min(S) = CHOOSE z \in S : \A y \in S : z <= y
  BY DEF Scores!Min
<1>. QED
  BY <1>1, <1>2, <1>3

LEMMA ScoreMaxIs ==
  ASSUME NEW S, S \subseteq Int, NEW x \in S, \A y \in S : y <= x
  PROVE  Scores!Max(S) = x
<1>. DEFINE Most(z) == z \in S /\ \A y \in S : z >= y
<1>1. Most(x)
  OBVIOUS
<1>2. ASSUME NEW z, Most(z) PROVE z = x
  <2>1. z \in Int /\ x \in Int /\ z >= x /\ x >= z
    BY <1>2
  <2>. QED
    BY <2>1
<1>3. Scores!Max(S) = CHOOSE z \in S : \A y \in S : z >= y
  BY DEF Scores!Max
<1>. QED
  BY <1>1, <1>2, <1>3

LEMMA Numbered ==
  ASSUME NEW D, NEW as \in Seq(D), as # <<>>
  PROVE  Len(as) \in Nat \ {0} /\ DOMAIN as = 1..Len(as) /\ 1 \in DOMAIN as
<1>. DEFINE n == Len(as)
<1>1. n \in Nat /\ DOMAIN as = 1..n
  BY LenProperties
<1>2. n # 0
  BY EmptySeq
<1>. HIDE DEF n
<1>3. n \in Nat \ {0} /\ 1 \in 1..n
  BY <1>1, <1>2
<1>. QED
  BY <1>1, <1>3 DEF n

\* The rating an answer would give alone.
LEMMA AloneRating ==
  ASSUME NEW q \in Answers
  PROVE  Scores!OverallRating(<<q>>) = TenthsOf(Scores!Normalized(q), 1)
<1>. DEFINE as == <<q>>
            u == Scores!Normalized(q)
<1>1. as \in Seq(Answers) /\ Len(as) = 1 /\ as[1] = q /\ as # <<>>
  OBVIOUS
<1>2. u \in 36..180
  BY UnitsOf
<1>3. \A x \in 36..180 : x \in Int
  OBVIOUS
<1>. HIDE DEF u
<1>4. u \in Int
  BY <1>2, <1>3
<1>5. Units(as) \in Seq(Int) /\ Len(Units(as)) = 1 /\ DOMAIN as = 1..1
  BY <1>1, UnitsTyped
<1>6. \A i \in 1..Len(Units(as)) : Units(as)[i] = u
  BY <1>1, <1>5 DEF Units, u
<1>. HIDE DEF as
<1>. DEFINE us == Units(as)
            sum == Scores!SumOf(us)
<1>. HIDE DEF us
<1>7. u <= u /\ \A i \in 1..Len(us) : us[i] = u
  <2>1. u <= u
    BY <1>4
  <2>2. \A i \in 1..Len(us) : us[i] = u
    BY <1>6 DEF us
  <2>. QED
    BY <2>1, <2>2
<1>8. us \in Seq(Int) /\ Len(us) = 1
  BY <1>5 DEF us
<1>9. sum \in Int /\ u * 1 <= sum /\ sum <= u * 1
  <2>1. \A i \in 1..Len(us) : u <= us[i] /\ us[i] <= u
    BY <1>7
  <2>. QED
    BY <1>4, <1>8, <2>1, SumWithin
<1>. HIDE DEF sum
<1>10. sum = u
  BY <1>4, <1>9
<1>11. Scores!OverallRating(as) = TenthsOf(u, 1)
  BY <1>1, <1>10, OverallIs DEF sum, us
<1>. QED
  BY <1>11 DEF as, u

\* The answers have a least and a greatest number of units.
LEMMA AnswersRange ==
  ASSUME NEW as \in Seq(Answers), as # <<>>
  PROVE  /\ \A i \in DOMAIN as : as[i] \in Answers /\ Units(as)[i] = Scores!Normalized(as[i])
                                 /\ Units(as)[i] \in Int
         /\ \E i \in DOMAIN as : \A j \in DOMAIN as : Units(as)[i] <= Units(as)[j]
         /\ \E i \in DOMAIN as : \A j \in DOMAIN as : Units(as)[j] <= Units(as)[i]
<1>. DEFINE u == Units(as)
            U == {u[i] : i \in DOMAIN as}
<1>1. \A i \in DOMAIN as : as[i] \in Answers /\ u[i] = Scores!Normalized(as[i])
  BY ElementOfSeq, LenProperties DEF Units
<1>2. ASSUME NEW i \in DOMAIN as PROVE u[i] \in 36..180
  <2>1. u[i] = Scores!Normalized(as[i]) /\ as[i] \in Answers
    BY <1>1
  <2>2. Scores!Normalized(as[i]) \in 36..180
    BY <2>1, UnitsOf
  <2>. QED
    BY <2>1, <2>2
<1>3. \A x \in 36..180 : x \in Int /\ x \in Nat /\ x \in 0..180
  OBVIOUS
<1>. HIDE DEF u
<1>4. 1 \in DOMAIN as
  BY Numbered
<1>5. U \subseteq Nat /\ U \subseteq 0..180 /\ U # {}
  <2>1. \A x \in U : x \in 36..180
    BY <1>2, Zenon
  <2>2. u[1] \in U
    BY <1>4, Zenon
  <2>. HIDE DEF U
  <2>3. U \subseteq Nat /\ U \subseteq 0..180
    BY <1>3, <2>1
  <2>. QED
    BY <2>2, <2>3
<1>. HIDE DEF U
<1>6. PICK x \in U : \A y \in U : x <= y
  BY <1>5, LeastOf
<1>7. 180 \in Nat
  OBVIOUS
<1>8. PICK z \in U : \A y \in U : y <= z
  BY <1>5, <1>7, GreatestOf
<1>9. \E i \in DOMAIN as : \A j \in DOMAIN as : u[i] <= u[j]
  BY <1>6 DEF U
<1>10. \E i \in DOMAIN as : \A j \in DOMAIN as : u[j] <= u[i]
  BY <1>8 DEF U
<1>. QED
  BY <1>1, <1>2, <1>3, <1>9, <1>10 DEF u

LEMMA RatingBetween ==
  ASSUME NEW as \in Seq(Answers), as # <<>>
  PROVE  LET alone == {Scores!OverallRating(<<as[i]>>) : i \in DOMAIN as} IN
         Scores!OverallRating(as) \in Scores!Min(alone)..Scores!Max(alone)
<1>. DEFINE alone == {Scores!OverallRating(<<as[i]>>) : i \in DOMAIN as}
            u == Units(as)
            n == Len(as)
            r(i) == Scores!OverallRating(<<as[i]>>)
            all == Scores!OverallRating(as)
<1>1. /\ n \in Nat \ {0} /\ DOMAIN as = 1..n
      /\ u \in Seq(Int) /\ Len(u) = n
  BY UnitsTyped, Numbered
<1>2. \A i \in DOMAIN as : u[i] \in Int /\ r(i) = TenthsOf(u[i], 1)
  BY AnswersRange, AloneRating
<1>3. all = TenthsOf(Scores!SumOf(u), n) /\ Scores!SumOf(u) \in Int
  BY OverallIs
<1>4. PICK low \in DOMAIN as : \A j \in DOMAIN as : u[low] <= u[j]
  BY AnswersRange
<1>5. PICK high \in DOMAIN as : \A j \in DOMAIN as : u[j] <= u[high]
  BY AnswersRange
<1>. HIDE DEF u, n, all
<1>6. n \in Nat \ {0} /\ 1 \in Nat \ {0}
  BY <1>1
<1>7. u[low] * n <= Scores!SumOf(u) /\ Scores!SumOf(u) <= u[high] * n
  <2>1. \A i \in 1..Len(u) : u[low] <= u[i] /\ u[i] <= u[high]
    BY <1>1, <1>4, <1>5
  <2>. QED
    BY <1>1, <1>2, <2>1, SumWithin
<1>8. u[low] * n = n * u[low] /\ u[high] * n = n * u[high]
  BY <1>1, <1>2
<1>9. r(low) <= all /\ all <= r(high)
  BY <1>2, <1>3, <1>6, <1>7, <1>8, TenthsOfMean
<1>10. \A i \in DOMAIN as : r(low) <= r(i) /\ r(i) <= r(high)
  BY <1>2, <1>4, <1>5, <1>6, TenthsGrow
<1>11. \A i \in DOMAIN as : r(i) \in 10..50
  BY <1>2, <1>6, TenthsTyped
<1>12. all \in 10..50
  BY <1>3, <1>6, TenthsTyped
<1>13. \A x \in 10..50 : x \in Int
  OBVIOUS
<1>14. alone = {r(i) : i \in DOMAIN as}
  OBVIOUS
<1>. HIDE DEF r
<1>15. alone \subseteq Int /\ r(low) \in alone /\ r(high) \in alone
  BY <1>11, <1>13, <1>14
<1>16. \A y \in alone : r(low) <= y /\ y <= r(high)
  BY <1>10, <1>14
<1>. HIDE DEF alone
<1>17. Scores!Min(alone) = r(low)
  BY <1>15, <1>16, ScoreMinIs
<1>18. Scores!Max(alone) = r(high)
  BY <1>15, <1>16, ScoreMaxIs
<1>19. all \in Scores!Min(alone)..Scores!Max(alone)
  BY <1>9, <1>11, <1>12, <1>13, <1>17, <1>18
<1>. QED
  BY <1>19 DEF alone, all

\* A better answer to one of the questions.
LEMMA BetterAnswer ==
  ASSUME NEW as \in Seq(Answers), as # <<>>, NEW i \in DOMAIN as,
         NEW more \in Int, more >= as[i].num
  PROVE  Scores!OverallRating([as EXCEPT ![i].num = more]) >= Scores!OverallRating(as)
<1>. DEFINE n == Len(as)
            q == [as[i] EXCEPT !.num = more]
            bs == [as EXCEPT ![i] = q]
            u == Units(as)
            v == Units(bs)
<1>1. n \in Nat \ {0} /\ DOMAIN as = 1..n /\ n \in Nat
  BY Numbered
<1>2. \A j \in 1..n : as[j] \in Answers
  BY <1>1, ElementOfSeq
<1>3. as[i] \in Answers /\ as[i].num \in Int
  BY <1>1, <1>2 DEF Answers
<1>4. q \in Answers /\ q.maxRatings = as[i].maxRatings /\ q.num = more
  BY <1>3 DEF Answers
<1>5. [as EXCEPT ![i].num = more] = bs
  OBVIOUS
<1>. HIDE DEF q
<1>6. /\ DOMAIN bs = 1..n /\ bs[i] = q
      /\ \A j \in 1..n : j # i => bs[j] = as[j]
  BY <1>1
<1>7. bs \in [1..n -> Answers]
  BY <1>1, <1>2, <1>4
<1>. HIDE DEF n, bs
<1>8. bs \in Seq(Answers) /\ Len(bs) = n /\ bs # <<>>
  <2>1. bs \in Seq(Answers) /\ Len(bs) = n
    BY <1>1, <1>7, SeqOfLength
  <2>. QED
    BY <1>1, <2>1, EmptySeq
<1>9. Scores!Normalized(as[i]) <= Scores!Normalized(q)
  BY <1>3, <1>4, UnitsGrow
<1>10. ASSUME NEW j \in 1..n PROVE u[j] <= v[j]
  <2>1. u[j] = Scores!Normalized(as[j]) /\ u[j] \in Int
    BY <1>1, AnswersRange
  <2>2. v[j] = Scores!Normalized(bs[j])
    BY <1>6, <1>8, AnswersRange
  <2>3. CASE j = i
    BY <1>6, <1>9, <2>1, <2>2, <2>3
  <2>4. CASE j # i
    <3>1. v[j] = u[j]
      BY <1>6, <2>1, <2>2, <2>4
    <3>. HIDE DEF u, v
    <3>2. \A a \in Int : a <= a
      OBVIOUS
    <3>. QED
      BY <2>1, <3>1, <3>2
  <2>. QED
    BY <2>3, <2>4
<1>11. u \in Seq(Int) /\ Len(u) = n /\ v \in Seq(Int) /\ Len(v) = n
  BY <1>8, UnitsTyped DEF n
<1>12. /\ Scores!OverallRating(as) = TenthsOf(Scores!SumOf(u), n) /\ Scores!SumOf(u) \in Int
       /\ Scores!OverallRating(bs) = TenthsOf(Scores!SumOf(v), n) /\ Scores!SumOf(v) \in Int
       /\ Scores!OverallRating(as) \in 10..50 /\ Scores!OverallRating(bs) \in 10..50
  BY <1>8, OverallIs DEF n
<1>. HIDE DEF u, v
<1>13. Scores!SumOf(u) <= Scores!SumOf(v)
  BY <1>10, <1>11, SumGrows
<1>. DEFINE x == Scores!SumOf(u)
            y == Scores!SumOf(v)
            a == TenthsOf(x, n)
            b == TenthsOf(y, n)
<1>14. x \in Int /\ y \in Int /\ x <= y
  BY <1>12, <1>13
<1>15. a \in 10..50 /\ b \in 10..50
  BY <1>12
<1>. HIDE DEF x, y
<1>16. a <= b
  BY <1>1, <1>14, TenthsGrow
<1>. HIDE DEF a, b
<1>17. b >= a
  BY <1>15, <1>16
<1>. QED
  BY <1>5, <1>12, <1>17 DEF a, b, x, y

\* All answers at the same end of their scales.
LEMMA AnswersAtEnd ==
  ASSUME NEW as \in Seq(Answers), as # <<>>, NEW e \in Int,
         \A i \in DOMAIN as : Scores!Normalized(as[i]) = e
  PROVE  Scores!OverallRating(as) = TenthsOf(e, 1)
<1>. DEFINE n == Len(as)
            u == Units(as)
            x == Scores!SumOf(u)
<1>1. n \in Nat \ {0} /\ DOMAIN as = 1..n /\ u \in Seq(Int) /\ Len(u) = n
  BY Numbered, UnitsTyped
<1>2. e \in Int
  OBVIOUS
<1>3. \A i \in DOMAIN as : u[i] = e
  <2>1. \A i \in DOMAIN as : u[i] = Scores!Normalized(as[i])
    BY AnswersRange
  <2>. QED
    BY <2>1
<1>4. Scores!OverallRating(as) = TenthsOf(x, n)
  BY OverallIs
<1>. HIDE DEF n, u
<1>5. e * n <= x /\ x <= e * n /\ x \in Int
  <2>1. e <= e
    BY <1>2
  <2>2. \A i \in 1..Len(u) : e <= u[i] /\ u[i] <= e
    BY <1>1, <1>3, <2>1
  <2>3. e * Len(u) <= x /\ x <= e * Len(u) /\ x \in Int
    BY <1>1, <1>2, <2>2, SumWithin
  <2>. HIDE DEF x
  <2>. QED
    BY <1>1, <2>3
<1>. HIDE DEF x
<1>6. n * e <= x /\ x <= n * e
  BY <1>1, <1>2, <1>5
<1>7. TenthsOf(e, 1) <= TenthsOf(x, n) /\ TenthsOf(x, n) <= TenthsOf(e, 1)
  BY <1>1, <1>2, <1>5, <1>6, TenthsOfMean
<1>8. TenthsOf(e, 1) \in 10..50 /\ TenthsOf(x, n) \in 10..50
  <2>1. 1 \in Nat \ {0}
    OBVIOUS
  <2>. QED
    BY <1>1, <1>2, <1>5, <2>1, TenthsTyped
<1>. DEFINE a == TenthsOf(e, 1)
            b == TenthsOf(x, n)
<1>. HIDE DEF a, b
<1>9. a = b
  <2>1. a <= b /\ b <= a /\ a \in 10..50 /\ b \in 10..50
    BY <1>7, <1>8 DEF a, b
  <2>. QED
    BY <2>1
<1>. QED
  BY <1>4, <1>9 DEF a, b

\* Whatever has been answered, the rating follows the answers.
LEMMA RatingFollows ==
  ASSUME answers \in Seq(Scores!Answer)
  PROVE  Scores!RatingFollowsAnswers
<1>. SUFFICES ASSUME answers # <<>> PROVE Scores!RatingFollowsAnswers
  BY DEF Scores!RatingFollowsAnswers
<1>1. answers \in Seq(Answers)
  BY AnswersAre, SeqMonotonic
<1>2. Stars \subseteq Int
  BY StarAssumption
<1>3. \A i \in DOMAIN answers : \A more \in Stars :
        more >= answers[i].num =>
          Scores!OverallRating([answers EXCEPT ![i].num = more]) >= Scores!OverallRating(answers)
  BY <1>1, <1>2, BetterAnswer
<1>4. LET alone == {Scores!OverallRating(<<answers[i]>>) : i \in DOMAIN answers} IN
      Scores!OverallRating(answers) \in Scores!Min(alone)..Scores!Max(alone)
  BY <1>1, RatingBetween
<1>5. \A i \in DOMAIN answers : answers[i] \in Answers
  BY <1>1, AnswersRange
<1>6. (\A i \in DOMAIN answers : answers[i].num >= Scores!ScaleOf(answers[i]))
        => Scores!OverallRating(answers) = 50
  <2>. SUFFICES ASSUME \A i \in DOMAIN answers : answers[i].num >= Scores!ScaleOf(answers[i])
       PROVE  Scores!OverallRating(answers) = 50
    OBVIOUS
  <2>1. \A i \in DOMAIN answers : Scores!Normalized(answers[i]) = 180
    BY <1>5, UnitsOf
  <2>2. 180 \in Int
    OBVIOUS
  <2>. QED
    BY <1>1, <2>1, <2>2, AnswersAtEnd, TenthsAtEnds
<1>7. (\A i \in DOMAIN answers : answers[i].num <= 1) => Scores!OverallRating(answers) = 10
  <2>. SUFFICES ASSUME \A i \in DOMAIN answers : answers[i].num <= 1
       PROVE  Scores!OverallRating(answers) = 10
    OBVIOUS
  <2>1. \A i \in DOMAIN answers : Scores!Normalized(answers[i]) = 36
    BY <1>5, UnitsOf
  <2>2. 36 \in Int
    OBVIOUS
  <2>. QED
    BY <1>1, <2>1, <2>2, AnswersAtEnd, TenthsAtEnds
<1>. QED
  BY <1>3, <1>4, <1>6, <1>7 DEF Scores!RatingFollowsAnswers

\* The dashboard's breakdown scores an answer as the review does.
LEMMA DashboardUnitsAre ==
  ASSUME NEW q \in Answers, q.maxRatings \in {3, 5, 10}
  PROVE  Scores!DashboardUnits(q) = Scores!Normalized(q)
<1>. DEFINE m == q.maxRatings
<1>1. m \in {3, 5, 10} /\ Scores!ScaleOf(q) = m
  BY ScaleKnown
<1>2. Scores!AsItIs(q).maxRatings = Scores!Max({2, m})
  BY DEF Scores!AsItIs, Answers
<1>. HIDE DEF m
<1>3. m \in Int /\ 2 \in Int /\ ~(2 >= m)
  BY <1>1
<1>4. Scores!Max({2, m}) = m
  BY <1>3, ScoreMaximum
<1>. QED
  BY <1>1, <1>2, <1>4 DEF Scores!DashboardUnits, Scores!Normalized

LEMMA DashboardScores ==
  ASSUME answers \in Seq(Scores!Answer)
  PROVE  Scores!DashboardAgrees
<1>1. answers \in Seq(Answers)
  BY AnswersAre, SeqMonotonic
<1>. SUFFICES ASSUME NEW i \in DOMAIN answers, answers[i].maxRatings \in {3, 5, 10}
     PROVE  Scores!Rounded(10 * Scores!DashboardUnits(answers[i]), 36)
              = Scores!OverallRating(<<answers[i]>>)
  BY DEF Scores!DashboardAgrees
<1>. DEFINE q == answers[i]
            u == Scores!Normalized(q)
            r == Scores!Rounded(10 * u, 36)
<1>2. q \in Answers
  BY <1>1, ElementOfSeq, LenProperties
<1>3. Scores!DashboardUnits(q) = u /\ u \in 36..180
  BY <1>2, DashboardUnitsAre, UnitsOf
<1>4. Scores!OverallRating(<<q>>) = TenthsOf(u, 1)
  BY <1>2, AloneRating
<1>. HIDE DEF q, u
<1>5. r = (20 * u + 36) \div 72
  <2>1. u \in Int
    BY <1>3
  <2>2. 2 * (10 * u) + 36 = 20 * u + 36 /\ 2 * 36 = 72
    BY <2>1
  <2>. QED
    BY <2>2 DEF Scores!Rounded
<1>6. r \in Int /\ 10 <= r /\ r <= 50
  BY <1>3, <1>5
<1>7. TenthsOf(u, 1) = Scores!Clamp(r, 10, 50)
  <2>1. 36 * 1 = 36
    OBVIOUS
  <2>. QED
    BY <2>1 DEF TenthsOf
<1>. HIDE DEF r
<1>8. Scores!Clamp(r, 10, 50) = IF r < 10 THEN 10 ELSE IF r > 50 THEN 50 ELSE r
  BY <1>6, Clamped
<1>9. Scores!Clamp(r, 10, 50) = r
  BY <1>6, <1>8
<1>. QED
  BY <1>3, <1>4, <1>7, <1>9 DEF r, q

-------------------------------------------------------------------------------
(* The summary of ratings                                                  *)

\* The sum of five numbers.
Five(f) == f[1] + f[2] + f[3] + f[4] + f[5]

LEMMA FiveAdded ==
  ASSUME NEW f \in [1..5 -> Int]
  PROVE  Scores!SumOf(f) = Five(f)
<1>1. f \in Seq(Int) /\ Len(f) = 5
  <2>1. 5 \in Nat
    OBVIOUS
  <2>. QED
    BY <2>1, SeqOfLength
<1>2. PICK g : Sums(f, g) /\ Scores!SumOf(f) = g[Len(f)]
  BY <1>1, SumUnfolds
<1>3. g[0] = 0 /\ \A i \in 1..5 : g[i] = g[i - 1] + f[i]
  BY <1>1, <1>2 DEF Sums
<1>4. f[1] \in Int /\ f[2] \in Int /\ f[3] \in Int /\ f[4] \in Int /\ f[5] \in Int
  OBVIOUS
<1>5. g[1] = f[1]
  <2>1. g[1] = g[1 - 1] + f[1] /\ 1 - 1 = 0
    BY <1>3
  <2>. QED
    BY <1>3, <1>4, <2>1
<1>6. g[2] = g[1] + f[2]
  <2>1. g[2] = g[2 - 1] + f[2] /\ 2 - 1 = 1
    BY <1>3
  <2>. QED
    BY <2>1
<1>7. g[3] = g[2] + f[3]
  <2>1. g[3] = g[3 - 1] + f[3] /\ 3 - 1 = 2
    BY <1>3
  <2>. QED
    BY <2>1
<1>8. g[4] = g[3] + f[4]
  <2>1. g[4] = g[4 - 1] + f[4] /\ 4 - 1 = 3
    BY <1>3
  <2>. QED
    BY <2>1
<1>9. g[5] = g[4] + f[5]
  <2>1. g[5] = g[5 - 1] + f[5] /\ 5 - 1 = 4
    BY <1>3
  <2>. QED
    BY <2>1
<1>10. Scores!SumOf(f) = g[5]
  BY <1>1, <1>2
<1>. QED
  BY <1>4, <1>5, <1>6, <1>7, <1>8, <1>9, <1>10 DEF Five

\* A rating is at most half a star from its whole stars.
LEMMA WholeStarsNear ==
  ASSUME NEW r \in 10..50
  PROVE  /\ Scores!WholeStars(r) \in 1..5
         /\ 10 * Scores!WholeStars(r) - r \in -5..5
<1>. DEFINE s == IF r % 10 = 5 THEN (r \div 10) + ((r \div 10) % 2)
                 ELSE Scores!Rounded(r, 10)
<1>1. Scores!Rounded(r, 10) = (2 * r + 10) \div 20
  <2>1. 2 * 10 = 20
    OBVIOUS
  <2>. QED
    BY <2>1 DEF Scores!Rounded
<1>2. s \in 1..5 /\ 10 * s - r \in -5..5
  BY <1>1
<1>3. Scores!WholeStars(r) = Scores!Clamp(s, 1, 5)
  BY DEF Scores!WholeStars
<1>. HIDE DEF s
<1>4. s \in Int /\ 1 \in Int /\ 5 \in Int
  BY <1>2
<1>5. Scores!Clamp(s, 1, 5) = IF s < 1 THEN 1 ELSE IF s > 5 THEN 5 ELSE s
  BY <1>4, Clamped
<1>6. Scores!WholeStars(r) = s
  BY <1>2, <1>3, <1>5
<1>. QED
  BY <1>2, <1>6

\* How many of the first reviews have so many stars.
Starred(star, m) == {n \in 1..m : Scores!WholeStars(ratings[n]) = star}

Bar(star, m) == Cardinality(Starred(star, m))

LEMMA BarGrows ==
  ASSUME NEW m \in Nat, NEW star
  PROVE  /\ Bar(star, 0) = 0
         /\ Bar(star, m) \in Nat
         /\ Bar(star, m + 1) = IF Scores!WholeStars(ratings[m + 1]) = star
                                 THEN Bar(star, m) + 1 ELSE Bar(star, m)
<1>1. Starred(star, 0) = {}
  BY DEF Starred
<1>2. Bar(star, 0) = 0
  BY <1>1, FS_EmptySet DEF Bar
<1>3. IsFiniteSet(1..m)
  <2>1. 1 \in Int /\ m \in Int
    OBVIOUS
  <2>. QED
    BY <2>1, FS_Interval
<1>4. IsFiniteSet(Starred(star, m)) /\ m + 1 \notin Starred(star, m)
  <2>1. Starred(star, m) \subseteq 1..m /\ m + 1 \notin 1..m
    BY DEF Starred
  <2>. QED
    BY <1>3, <2>1, FS_Subset
<1>5. Bar(star, m) \in Nat
  BY <1>4, FS_CardinalityType DEF Bar
<1>6. CASE Scores!WholeStars(ratings[m + 1]) = star
  <2>1. Starred(star, m + 1) = Starred(star, m) \cup {m + 1}
    BY <1>6 DEF Starred
  <2>2. Cardinality(Starred(star, m) \cup {m + 1}) = Cardinality(Starred(star, m)) + 1
    BY <1>4, FS_AddElement
  <2>. QED
    BY <1>2, <1>5, <1>6, <2>1, <2>2 DEF Bar
<1>7. CASE Scores!WholeStars(ratings[m + 1]) # star
  <2>1. Starred(star, m + 1) = Starred(star, m)
    BY <1>7 DEF Starred
  <2>. QED
    BY <1>2, <1>5, <1>7, <2>1 DEF Bar
<1>. QED
  BY <1>6, <1>7

\* The bars of the first reviews, taken together, and in tenths of stars.
BarsTogether(m) == Bar(5, m) + Bar(4, m) + Bar(3, m) + Bar(2, m) + Bar(1, m)

BarsWeigh(m) == 50 * Bar(5, m) + 40 * Bar(4, m) + 30 * Bar(3, m) + 20 * Bar(2, m) + 10 * Bar(1, m)

LEMMA OneMoreReview ==
  ASSUME NEW m \in Nat, ratings[m + 1] \in 10..50
  PROVE  /\ BarsTogether(m) \in Int /\ BarsWeigh(m) \in Int
         /\ BarsTogether(m + 1) = BarsTogether(m) + 1
         /\ \E near \in -5..5 : BarsWeigh(m + 1) = BarsWeigh(m) + ratings[m + 1] + near
<1>. DEFINE r == ratings[m + 1]
            s == Scores!WholeStars(r)
<1>1. s \in 1..5 /\ 10 * s - r \in -5..5
  BY WholeStarsNear
<1>2. PICK b \in [1..5 -> Nat] : \A i \in 1..5 : b[i] = Bar(i, m)
  <2>1. \A i \in 1..5 : Bar(i, m) \in Nat
    BY BarGrows
  <2>2. [i \in 1..5 |-> Bar(i, m)] \in [1..5 -> Nat]
    BY <2>1
  <2>. QED
    BY <2>2
<1>3. ASSUME NEW i \in 1..5
      PROVE  Bar(i, m + 1) = IF s = i THEN b[i] + 1 ELSE b[i]
  BY <1>2, BarGrows
<1>4. 1 \in 1..5 /\ 2 \in 1..5 /\ 3 \in 1..5 /\ 4 \in 1..5 /\ 5 \in 1..5
  OBVIOUS
<1>. HIDE DEF s
<1>5. /\ BarsTogether(m) = b[5] + b[4] + b[3] + b[2] + b[1]
      /\ BarsWeigh(m) = 50 * b[5] + 40 * b[4] + 30 * b[3] + 20 * b[2] + 10 * b[1]
  BY <1>2, <1>4 DEF BarsTogether, BarsWeigh
<1>6. b[1] \in Nat /\ b[2] \in Nat /\ b[3] \in Nat /\ b[4] \in Nat /\ b[5] \in Nat
  BY <1>4
<1>7. /\ Bar(1, m + 1) = IF s = 1 THEN b[1] + 1 ELSE b[1]
      /\ Bar(2, m + 1) = IF s = 2 THEN b[2] + 1 ELSE b[2]
      /\ Bar(3, m + 1) = IF s = 3 THEN b[3] + 1 ELSE b[3]
      /\ Bar(4, m + 1) = IF s = 4 THEN b[4] + 1 ELSE b[4]
      /\ Bar(5, m + 1) = IF s = 5 THEN b[5] + 1 ELSE b[5]
  BY <1>3, <1>4
<1>8. s = 1 \/ s = 2 \/ s = 3 \/ s = 4 \/ s = 5
  BY <1>1
<1>9. BarsTogether(m) \in Int /\ BarsWeigh(m) \in Int
  BY <1>5, <1>6
<1>10. BarsTogether(m + 1) = BarsTogether(m) + 1
  BY <1>5, <1>6, <1>7, <1>8 DEF BarsTogether
<1>11. BarsWeigh(m + 1) = BarsWeigh(m) + 10 * s
  BY <1>5, <1>6, <1>7, <1>8 DEF BarsWeigh
<1>. DEFINE near == 10 * s - r
<1>12. near \in -5..5 /\ BarsWeigh(m + 1) = BarsWeigh(m) + r + near
  <2>1. s \in Int /\ r \in Int
    BY <1>1
  <2>. QED
    BY <1>1, <1>9, <1>11, <2>1
<1>. QED
  BY <1>9, <1>10, <1>12

LEMMA BarsAdd ==
  ASSUME ratings \in Seq(10..50)
  PROVE  LET n == Len(ratings) IN
         /\ BarsTogether(n) = n
         /\ BarsWeigh(n) \in Int
         /\ 2 * (BarsWeigh(n) - Scores!SumOf(ratings)) \in (-10 * n)..(10 * n)
<1>. DEFINE n == Len(ratings)
            Added(f, m) == /\ BarsTogether(m) = m
                           /\ -5 * m <= BarsWeigh(m) - f[m]
                           /\ BarsWeigh(m) - f[m] <= 5 * m
<1>1. n \in Nat /\ \A i \in 1..n : ratings[i] \in 10..50
  BY LenProperties, ElementOfSeq
<1>2. ratings \in Seq(Int)
  <2>1. 10..50 \subseteq Int
    OBVIOUS
  <2>. QED
    BY <2>1, SeqMonotonic
<1>3. PICK f : Sums(ratings, f) /\ Scores!SumOf(ratings) = f[n]
  BY <1>2, SumUnfolds
<1>4. f \in [0..n -> Int] /\ f[0] = 0 /\ \A i \in 1..n : f[i] = f[i - 1] + ratings[i]
  BY <1>3 DEF Sums
<1>. DEFINE T == {m \in Nat : m <= n => Added(f, m)}
<1>. HIDE DEF n
<1>5. 0 \in T
  <2>1. 0 \in Nat
    OBVIOUS
  <2>2. Bar(1, 0) = 0 /\ Bar(2, 0) = 0 /\ Bar(3, 0) = 0 /\ Bar(4, 0) = 0 /\ Bar(5, 0) = 0
    BY <2>1, BarGrows
  <2>3. BarsTogether(0) = 0 /\ BarsWeigh(0) = 0
    BY <2>2 DEF BarsTogether, BarsWeigh
  <2>4. Added(f, 0)
    BY <1>4, <2>3
  <2>. QED
    BY <2>1, <2>4
<1>6. ASSUME NEW m \in Nat, m \in T PROVE m + 1 \in T
  <2>. SUFFICES ASSUME m + 1 <= n PROVE Added(f, m + 1)
    BY <1>6
  <2>1. m + 1 \in 1..n /\ (m + 1) - 1 = m /\ m \in 0..n /\ m <= n
    BY <1>1
  <2>2. Added(f, m)
    BY <1>6, <2>1
  <2>3. ratings[m + 1] \in 10..50
    BY <1>1, <2>1
  <2>4. f[m + 1] = f[m] + ratings[m + 1] /\ f[m] \in Int
    BY <1>4, <2>1
  <2>5. /\ BarsTogether(m) \in Int /\ BarsWeigh(m) \in Int
        /\ BarsTogether(m + 1) = BarsTogether(m) + 1
    BY <2>3, OneMoreReview
  <2>6. PICK near \in -5..5 : BarsWeigh(m + 1) = BarsWeigh(m) + ratings[m + 1] + near
    BY <2>3, OneMoreReview
  <2>7. BarsTogether(m + 1) = m + 1
    BY <2>2, <2>5
  <2>8. BarsWeigh(m + 1) - f[m + 1] = (BarsWeigh(m) - f[m]) + near
    <3>1. \A w, x, r, d \in Int : (w + r + d) - (x + r) = (w - x) + d
      OBVIOUS
    <3>2. ratings[m + 1] \in Int
      <4>1. \A x \in 10..50 : x \in Int
        OBVIOUS
      <4>. QED
        BY <2>3, <4>1
    <3>3. near \in Int
      OBVIOUS
    <3>. QED
      BY <2>4, <2>5, <2>6, <3>1, <3>2, <3>3
  <2>9. /\ -5 * (m + 1) <= (BarsWeigh(m) - f[m]) + near
        /\ (BarsWeigh(m) - f[m]) + near <= 5 * (m + 1)
    BY <2>2, <2>4, <2>5
  <2>. QED
    BY <2>7, <2>8, <2>9
<1>7. Added(f, n)
  <2>. HIDE DEF T
  <2>1. Nat \subseteq T
    BY <1>5, <1>6, NatSetInduction
  <2>2. n \in T /\ n <= n
    BY <1>1, <2>1
  <2>. QED
    BY <2>2 DEF T
<1>8. BarsWeigh(n) \in Int
  <2>1. \A i \in 1..5 : Bar(i, n) \in Nat
    BY <1>1, BarGrows
  <2>2. /\ Bar(1, n) \in Nat
        /\ Bar(2, n) \in Nat
        /\ Bar(3, n) \in Nat
        /\ Bar(4, n) \in Nat
        /\ Bar(5, n) \in Nat
    BY <2>1
  <2>3. \A a, b, c, d, e \in Nat :
          50 * a + 40 * b + 30 * c + 20 * d + 10 * e \in Int
    OBVIOUS
  <2>4. 50 * Bar(5, n) + 40 * Bar(4, n) + 30 * Bar(3, n) + 20 * Bar(2, n)
          + 10 * Bar(1, n) \in Int
    BY <2>2, <2>3
  <2>. QED
    BY <2>4, Zenon DEF BarsWeigh
<1>9. f[n] \in Int
  BY <1>1, <1>4
<1>10. 2 * (BarsWeigh(n) - f[n]) \in (-10 * n)..(10 * n)
  <2>. DEFINE d == BarsWeigh(n) - f[n]
  <2>1. d \in Int /\ -5 * n <= d /\ d <= 5 * n
    BY <1>7, <1>8, <1>9
  <2>. HIDE DEF d
  <2>2. 2 * d \in (-10 * n)..(10 * n)
    BY <1>1, <2>1
  <2>. QED
    BY <2>2 DEF d
<1>. QED
  BY <1>3, <1>7, <1>8, <1>10 DEF n

\* A share of a whole, in tenths of a percent, and the mean, rounded.
Share(c, n, p) ==
  /\ p \in Int
  /\ 2 * (n * p) <= 2000 * c + n
  /\ 2000 * c + n < 2 * (n * p) + 2 * n

LEMMA ShareIs ==
  ASSUME NEW c \in Nat, NEW n \in Nat \ {0}
  PROVE  Share(c, n, Scores!Rounded(1000 * c, n))
<1>. DEFINE d == 2 * n
            a == 2000 * c + n
<1>1. d \in Nat \ {0} /\ a \in Int
  OBVIOUS
<1>2. Scores!Rounded(1000 * c, n) = a \div d
  <2>1. 2 * (1000 * c) + n = a
    OBVIOUS
  <2>. QED
    BY <2>1 DEF Scores!Rounded
<1>3. a \div d \in Int /\ d * (a \div d) <= a /\ a < d * (a \div d) + d
  <2>. HIDE DEF a, d
  <2>. QED
    BY <1>1, QuotientIs
<1>. DEFINE p == a \div d
<1>. HIDE DEF p
<1>4. p \in Int /\ d * p <= a /\ a < d * p + d
  BY <1>3 DEF p
<1>5. d * p = 2 * (n * p)
  BY <1>4
<1>. QED
  BY <1>2, <1>4, <1>5 DEF p, Share

LEMMA MeanIs ==
  ASSUME NEW x \in Int, NEW n \in Nat \ {0}
  PROVE  LET p == Scores!Rounded(x, n) IN
         /\ p \in Int
         /\ 2 * (n * p) <= 2 * x + n
         /\ 2 * x + n < 2 * (n * p) + 2 * n
<1>. DEFINE d == 2 * n
            a == 2 * x + n
<1>1. d \in Nat \ {0} /\ a \in Int
  OBVIOUS
<1>2. Scores!Rounded(x, n) = a \div d
  BY DEF Scores!Rounded
<1>3. a \div d \in Int /\ d * (a \div d) <= a /\ a < d * (a \div d) + d
  <2>. HIDE DEF a, d
  <2>. QED
    BY <1>1, QuotientIs
<1>. DEFINE p == a \div d
<1>. HIDE DEF p
<1>4. p \in Int /\ d * p <= a /\ a < d * p + d
  BY <1>3 DEF p
<1>5. d * p = 2 * (n * p)
  BY <1>4
<1>. QED
  BY <1>2, <1>4, <1>5 DEF p

LEMMA WholeNumberNear ==
  ASSUME NEW n \in Nat \ {0}, NEW p \in Int, n * (2 * p) <= n * 2005, n * 1995 < n * (2 * p)
  PROVE  p \in 998..1002
<1>1. 2 * p <= 2005
  <2>. SUFFICES ASSUME 2 * p >= 2006 PROVE FALSE
    OBVIOUS
  <2>1. n * (2 * p) >= n * 2006
    OBVIOUS
  <2>. QED
    BY <2>1
<1>2. 2 * p >= 1996
  <2>. SUFFICES ASSUME 2 * p <= 1995 PROVE FALSE
    OBVIOUS
  <2>1. n * (2 * p) <= n * 1995
    OBVIOUS
  <2>. QED
    BY <2>1
<1>. QED
  BY <1>1, <1>2

\* In tenths of a percent, 100% but for a fifth.
NearWhole(p) == p \in 998..1002

\* Five rounded shares of a whole make 100% but for a fifth of a percent.
LEMMA SharesAdd ==
  ASSUME NEW n \in Nat \ {0}, NEW c \in [1..5 -> Nat], NEW p \in [1..5 -> Int],
         Five(c) = n,
         \A i \in 1..5 : Share(c[i], n, p[i])
  PROVE  NearWhole(Five(p))
<1>. DEFINE q == [i \in 1..5 |-> n * p[i]]
<1>1. q \in [1..5 -> Int] /\ \A i \in 1..5 : q[i] = n * p[i]
  OBVIOUS
<1>. HIDE DEF q
<1>2. \A i \in 1..5 : 2 * q[i] <= 2000 * c[i] + n /\ 2000 * c[i] + n < 2 * q[i] + 2 * n
  BY <1>1 DEF Share
<1>3. 1 \in 1..5 /\ 2 \in 1..5 /\ 3 \in 1..5 /\ 4 \in 1..5 /\ 5 \in 1..5
  OBVIOUS
<1>4. /\ p[1] \in Int /\ p[2] \in Int /\ p[3] \in Int /\ p[4] \in Int /\ p[5] \in Int
      /\ q[1] \in Int /\ q[2] \in Int /\ q[3] \in Int /\ q[4] \in Int /\ q[5] \in Int
      /\ c[1] \in Nat /\ c[2] \in Nat /\ c[3] \in Nat /\ c[4] \in Nat /\ c[5] \in Nat
  BY <1>1, <1>3
<1>5. /\ 2 * q[1] <= 2000 * c[1] + n /\ 2000 * c[1] + n < 2 * q[1] + 2 * n
      /\ 2 * q[2] <= 2000 * c[2] + n /\ 2000 * c[2] + n < 2 * q[2] + 2 * n
      /\ 2 * q[3] <= 2000 * c[3] + n /\ 2000 * c[3] + n < 2 * q[3] + 2 * n
      /\ 2 * q[4] <= 2000 * c[4] + n /\ 2000 * c[4] + n < 2 * q[4] + 2 * n
      /\ 2 * q[5] <= 2000 * c[5] + n /\ 2000 * c[5] + n < 2 * q[5] + 2 * n
  BY <1>2, <1>3
<1>6. /\ 2 * (q[1] + q[2] + q[3] + q[4] + q[5]) <= n * 2005
      /\ n * 1995 < 2 * (q[1] + q[2] + q[3] + q[4] + q[5])
  BY <1>4, <1>5 DEF Five
<1>7. q[1] + q[2] + q[3] + q[4] + q[5] = n * (p[1] + p[2] + p[3] + p[4] + p[5])
  <2>1. /\ q[1] = n * p[1] /\ q[2] = n * p[2] /\ q[3] = n * p[3]
        /\ q[4] = n * p[4] /\ q[5] = n * p[5]
    BY <1>1, <1>3
  <2>. QED
    BY <1>4, <2>1
<1>8. \A z \in Int : 2 * (n * z) = n * (2 * z)
  OBVIOUS
<1>9. p[1] + p[2] + p[3] + p[4] + p[5] \in Int
  BY <1>4
<1>10. /\ n * (2 * (p[1] + p[2] + p[3] + p[4] + p[5])) <= n * 2005
       /\ n * 1995 < n * (2 * (p[1] + p[2] + p[3] + p[4] + p[5]))
  BY <1>6, <1>7, <1>8, <1>9
<1>. DEFINE z == p[1] + p[2] + p[3] + p[4] + p[5]
<1>. HIDE DEF z
<1>11. z \in Int /\ n * (2 * z) <= n * 2005 /\ n * 1995 < n * (2 * z)
  BY <1>9, <1>10 DEF z
<1>12. z \in 998..1002
  BY <1>11, WholeNumberNear
<1>. QED
  BY <1>12 DEF z, Five, NearWhole

\* Whatever is stored, the summary adds up.
LEMMA SummaryOf ==
  ASSUME ratings \in Seq(10..50)
  PROVE  Scores!SummaryAddsUp
<1>. DEFINE n == Len(ratings)
            x == Scores!SumOf(ratings)
            weighted == Scores!SumOf([i \in 1..5 |-> 10 * Scores!Breakdown[i].rating
                                                          * Scores!Breakdown[i].count])
<1>1. n \in Nat /\ DOMAIN ratings = 1..n
  BY LenProperties
<1>2. \A S : Scores!Cardinality(S) = Cardinality(S)
  BY DEF Scores!Cardinality, Cardinality
<1>3. PICK c \in [1..5 -> Nat] : \A i \in 1..5 : c[i] = Bar(6 - i, n)
  <2>1. \A i \in 1..5 : Bar(6 - i, n) \in Nat
    BY <1>1, BarGrows
  <2>2. [i \in 1..5 |-> Bar(6 - i, n)] \in [1..5 -> Nat]
    BY <2>1
  <2>. QED
    BY <2>2
<1>4. ASSUME NEW i \in 1..5
      PROVE  /\ Scores!Breakdown[i].rating = 6 - i
             /\ Scores!Breakdown[i].count = c[i]
             /\ n # 0 => Scores!Breakdown[i].percentage = Scores!Rounded(1000 * c[i], n)
  <2>. DEFINE S == {m \in DOMAIN ratings : Scores!WholeStars(ratings[m]) = 6 - i}
  <2>1. S = Starred(6 - i, n)
    BY <1>1 DEF Starred
  <2>2. Scores!Cardinality(S) = c[i]
    BY <1>2, <1>3, <2>1 DEF Bar
  <2>3. n # 0 => ratings # <<>>
    BY EmptySeq
  <2>4. Scores!Breakdown[i] =
          [rating |-> 6 - i, count |-> Scores!Cardinality(S),
           percentage |-> IF ratings = <<>> THEN 0
                          ELSE Scores!Rounded(1000 * Scores!Cardinality(S), n)]
    BY DEF Scores!Breakdown
  <2>. HIDE DEF S, n
  <2>. QED
    BY <2>2, <2>3, <2>4
<1>5. ratings \in Seq(Int)
  <2>1. 10..50 \subseteq Int
    OBVIOUS
  <2>. QED
    BY <2>1, SeqMonotonic
<1>6. x \in Int
  BY <1>5, SumIsNumber
<1>. HIDE DEF n, x
<1>7. 1 \in 1..5 /\ 2 \in 1..5 /\ 3 \in 1..5 /\ 4 \in 1..5 /\ 5 \in 1..5
  OBVIOUS
<1>8. /\ c[1] = Bar(5, n) /\ c[2] = Bar(4, n) /\ c[3] = Bar(3, n)
      /\ c[4] = Bar(2, n) /\ c[5] = Bar(1, n)
  <2>1. 6 - 1 = 5 /\ 6 - 2 = 4 /\ 6 - 3 = 3 /\ 6 - 4 = 2 /\ 6 - 5 = 1
    OBVIOUS
  <2>. QED
    BY <1>3, <1>7, <2>1
<1>9. /\ BarsTogether(n) = n /\ BarsWeigh(n) \in Int
      /\ 2 * (BarsWeigh(n) - x) \in (-10 * n)..(10 * n)
  BY BarsAdd DEF n, x
<1>10. /\ c[1] \in Nat /\ c[2] \in Nat /\ c[3] \in Nat /\ c[4] \in Nat /\ c[5] \in Nat
  BY <1>7
<1>11. /\ BarsTogether(n) = c[1] + c[2] + c[3] + c[4] + c[5]
       /\ BarsWeigh(n) = 50 * c[1] + 40 * c[2] + 30 * c[3] + 20 * c[4] + 10 * c[5]
  BY <1>8 DEF BarsTogether, BarsWeigh
<1>12. c[1] + c[2] + c[3] + c[4] + c[5] = n
  BY <1>9, <1>11
<1>13. Scores!SumOf([i \in 1..5 |-> Scores!Breakdown[i].count]) = n
  <2>1. [i \in 1..5 |-> Scores!Breakdown[i].count] = [i \in 1..5 |-> c[i]]
    BY <1>4
  <2>2. [i \in 1..5 |-> c[i]] \in [1..5 -> Int]
    OBVIOUS
  <2>3. Scores!SumOf([i \in 1..5 |-> c[i]]) = c[1] + c[2] + c[3] + c[4] + c[5]
    <3>. DEFINE f == [i \in 1..5 |-> c[i]]
    <3>1. f[1] = c[1] /\ f[2] = c[2] /\ f[3] = c[3] /\ f[4] = c[4] /\ f[5] = c[5]
      BY <1>7
    <3>. HIDE DEF f
    <3>2. Scores!SumOf(f) = f[1] + f[2] + f[3] + f[4] + f[5]
      BY <2>2, FiveAdded DEF f, Five
    <3>. QED
      BY <3>1, <3>2 DEF f
  <2>. QED
    BY <1>12, <2>1, <2>3
<1>14. weighted = BarsWeigh(n)
  <2>. DEFINE f == [i \in 1..5 |-> (10 * (6 - i)) * c[i]]
  <2>1. [i \in 1..5 |-> 10 * Scores!Breakdown[i].rating * Scores!Breakdown[i].count] = f
    <3>1. ASSUME NEW i \in 1..5
          PROVE  10 * Scores!Breakdown[i].rating * Scores!Breakdown[i].count
                   = (10 * (6 - i)) * c[i]
      <4>1. Scores!Breakdown[i].rating = 6 - i /\ Scores!Breakdown[i].count = c[i]
        BY <1>4
      <4>. QED
        BY <4>1
    <3>. QED
      BY <3>1
  <2>2. f \in [1..5 -> Int]
    <3>1. \A a, b \in Int : a * b \in Int
      OBVIOUS
    <3>2. ASSUME NEW i \in 1..5 PROVE (10 * (6 - i)) * c[i] \in Int
      <4>1. 10 * (6 - i) \in Int /\ c[i] \in Int
        OBVIOUS
      <4>. QED
        BY <3>1, <4>1, Zenon
    <3>. QED
      BY <3>2
  <2>3. /\ f[1] = 50 * c[1] /\ f[2] = 40 * c[2] /\ f[3] = 30 * c[3]
        /\ f[4] = 20 * c[4] /\ f[5] = 10 * c[5]
    BY <1>7, <1>10
  <2>. HIDE DEF f
  <2>4. Scores!SumOf(f) = f[1] + f[2] + f[3] + f[4] + f[5]
    BY <2>2, FiveAdded DEF Five
  <2>5. Scores!SumOf(f) = 50 * c[1] + 40 * c[2] + 30 * c[3] + 20 * c[4] + 10 * c[5]
    BY <2>3, <2>4
  <2>6. Scores!SumOf(f) = BarsWeigh(n)
    BY <1>11, <2>5
  <2>. QED
    BY <2>1, <2>6
<1>. HIDE DEF weighted
<1>15. ASSUME n # 0
       PROVE  Scores!SumOf([i \in 1..5 |-> Scores!Breakdown[i].percentage]) \in 998..1002
  <2>. DEFINE p == [i \in 1..5 |-> Scores!Rounded(1000 * c[i], n)]
  <2>1. n \in Nat \ {0}
    BY <1>1, <1>15
  <2>. DEFINE q == [i \in 1..5 |-> Scores!Breakdown[i].percentage]
  <2>2. q = p
    BY <1>4, <1>15
  <2>3. ASSUME NEW i \in 1..5 PROVE Share(c[i], n, p[i])
    <3>. DEFINE share(k) == Scores!Rounded(1000 * k, n)
    <3>1. c[i] \in Nat /\ p[i] = share(c[i])
      OBVIOUS
    <3>2. \A k \in Nat : Share(k, n, share(k))
      BY <2>1, ShareIs
    <3>. HIDE DEF p, share
    <3>. QED
      BY <3>1, <3>2
  <2>4. p \in [1..5 -> Int]
    BY <2>3 DEF Share
  <2>. HIDE DEF p
  <2>5. Five(p) \in 998..1002
    <3>1. Five(c) = n
      BY <1>12 DEF Five
    <3>2. NearWhole(Five(p))
      BY <2>1, <2>3, <2>4, <3>1, SharesAdd, Zenon
    <3>. QED
      BY <3>2 DEF NearWhole
  <2>6. Scores!SumOf(p) = Five(p)
    BY <2>4, FiveAdded
  <2>. HIDE DEF q
  <2>7. Scores!SumOf(q) \in 998..1002
    BY <2>2, <2>5, <2>6
  <2>. QED
    BY <2>7 DEF q
<1>16. ASSUME n # 0
       PROVE  2 * (weighted - Scores!AverageRating * n) \in (-11 * n)..(11 * n)
  <2>. DEFINE a == Scores!AverageRating
  <2>0. n \in Nat \ {0}
    BY <1>1, <1>16
  <2>1. a = Scores!Rounded(x, n)
    <3>1. ratings # <<>>
      BY <1>16, EmptySeq DEF n
    <3>. QED
      BY <3>1 DEF Scores!AverageRating, n, x
  <2>2. a \in Int /\ 2 * (n * a) <= 2 * x + n /\ 2 * x + n < 2 * (n * a) + 2 * n
    BY <1>6, <2>0, <2>1, MeanIs
  <2>. HIDE DEF a
  <2>. DEFINE p == n * a
              w == BarsWeigh(n)
  <2>3. p \in Int /\ a * n = p
    BY <2>0, <2>2
  <2>4. 2 * p <= 2 * x + n /\ 2 * x + n < 2 * p + 2 * n
    BY <2>2
  <2>5. w \in Int /\ weighted = w /\ 2 * (w - x) \in (-10 * n)..(10 * n)
    BY <1>9, <1>14
  <2>. HIDE DEF p, w
  <2>6. 2 * (w - p) \in (-11 * n)..(11 * n)
    BY <1>6, <2>0, <2>3, <2>4, <2>5
  <2>. QED
    BY <2>3, <2>5, <2>6 DEF a
<1>. QED
  BY <1>9, <1>13, <1>14, <1>15, <1>16 DEF Scores!SummaryAddsUp, n, x, weighted

-------------------------------------------------------------------------------
(* The reviews *)

LEMMA RatingRemoved ==
  ASSUME NEW s \in Seq(10..50), NEW n \in DOMAIN s
  PROVE  Scores!RemoveAt(s, n) \in Seq(10..50) /\ Len(Scores!RemoveAt(s, n)) = Len(s) - 1
<1>. DEFINE k == Len(s)
            a == SubSeq(s, 1, n - 1)
            b == SubSeq(s, n + 1, k)
<1>1. k \in Nat /\ n \in 1..k /\ \A i \in 1..k : s[i] \in 10..50
  BY LenProperties, ElementOfSeq
<1>. HIDE DEF k
<1>2. 1 \in Int /\ n - 1 \in Int /\ n + 1 \in Int /\ k \in Int
  BY <1>1
<1>3. \A i \in 1..(n - 1) : s[i] \in 10..50
  BY <1>1
<1>4. \A i \in (n + 1)..k : s[i] \in 10..50
  BY <1>1
<1>5. a \in Seq(10..50) /\ Len(a) = IF 1 <= n - 1 THEN (n - 1) - 1 + 1 ELSE 0
  BY <1>2, <1>3, SubSeqProperties
<1>6. b \in Seq(10..50) /\ Len(b) = IF n + 1 <= k THEN k - (n + 1) + 1 ELSE 0
  BY <1>2, <1>4, SubSeqProperties
<1>. HIDE DEF a, b
<1>7. a \o b \in Seq(10..50) /\ Len(a \o b) = Len(a) + Len(b)
  BY <1>5, <1>6, ConcatProperties
<1>8. Len(a) = n - 1 /\ Len(b) = k - n
  BY <1>1, <1>5, <1>6
<1>9. Len(a \o b) = k - 1
  BY <1>1, <1>7, <1>8
<1>10. Scores!RemoveAt(s, n) = a \o b
  BY DEF Scores!RemoveAt, a, b, k
<1>. QED
  BY <1>7, <1>9, <1>10 DEF k

LEMMA InitRatingInv == Scores!Init => Scores!TypeOK
<1>. SUFFICES ASSUME Scores!Init PROVE Scores!TypeOK
  OBVIOUS
<1>1. answers = <<>> /\ ratings = <<>>
  BY DEF Scores!Init
<1>2. \A S : <<>> \in Seq(S)
  OBVIOUS
<1>3. Len(<<>>) = 0 /\ 0 <= AnswerLimit /\ 0 <= RatedLimit
  BY EmptySeq, StarAssumption
<1>. QED
  BY <1>1, <1>2, <1>3 DEF Scores!TypeOK

LEMMA RatingInvStep ==
  ASSUME Scores!TypeOK, [Scores!Next]_ratingVars
  PROVE  Scores!TypeOK'
<1>1. /\ answers \in Seq(Scores!Answer) /\ Len(answers) <= AnswerLimit
      /\ ratings \in Seq(10..50) /\ Len(ratings) <= RatedLimit
      /\ Len(answers) \in Nat /\ Len(ratings) \in Nat
  BY LenProperties DEF Scores!TypeOK
<1>2. CASE UNCHANGED ratingVars
  BY <1>2 DEF ratingVars, Scores!TypeOK
<1>3. ASSUME NEW q \in Scores!Answer, Scores!Fill(q) PROVE Scores!TypeOK'
  <2>1. answers' = Append(answers, q) /\ ratings' = ratings /\ Len(answers) < AnswerLimit
    BY <1>3 DEF Scores!Fill
  <2>2. answers' \in Seq(Scores!Answer) /\ Len(answers') = Len(answers) + 1
    BY <1>1, <2>1, AppendProperties
  <2>3. Len(answers') <= AnswerLimit
    BY <1>1, <2>1, <2>2, StarAssumption
  <2>. QED
    BY <1>1, <2>1, <2>2, <2>3 DEF Scores!TypeOK
<1>4. CASE Scores!Submit
  <2>1. /\ Len(ratings) < RatedLimit
        /\ ratings' = Append(ratings, Scores!OverallRating(answers)) /\ answers' = <<>>
    BY <1>4 DEF Scores!Submit
  <2>2. Scores!OverallRating(answers) \in 10..50
    <3>1. answers \in Seq(Answers)
      BY <1>1, AnswersAre, SeqMonotonic
    <3>. QED
      BY <3>1, OverallIs
  <2>3. ratings' \in Seq(10..50) /\ Len(ratings') = Len(ratings) + 1
    BY <1>1, <2>1, <2>2, AppendProperties
  <2>4. Len(ratings') <= RatedLimit
    BY <1>1, <2>1, <2>3, StarAssumption
  <2>5. answers' \in Seq(Scores!Answer) /\ Len(answers') <= AnswerLimit
    <3>1. <<>> \in Seq(Scores!Answer) /\ Len(<<>>) = 0 /\ 0 <= AnswerLimit
      BY EmptySeq, StarAssumption
    <3>. QED
      BY <2>1, <3>1
  <2>. QED
    BY <2>3, <2>4, <2>5 DEF Scores!TypeOK
<1>5. ASSUME NEW n \in 1..RatedLimit, Scores!Delete(n) PROVE Scores!TypeOK'
  <2>1. n \in DOMAIN ratings /\ ratings' = Scores!RemoveAt(ratings, n) /\ answers' = answers
    BY <1>5 DEF Scores!Delete
  <2>2. ratings' \in Seq(10..50) /\ Len(ratings') = Len(ratings) - 1
    BY <1>1, <2>1, RatingRemoved
  <2>3. Len(ratings') <= RatedLimit
    BY <1>1, <2>2, StarAssumption
  <2>. QED
    BY <1>1, <2>1, <2>2, <2>3 DEF Scores!TypeOK
<1>. QED
  BY <1>2, <1>3, <1>4, <1>5 DEF Scores!Next

-------------------------------------------------------------------------------
(* Figures taken over a finite set, one element after another               *)

\* The element that is taken first.
Pick(s) == CHOOSE x \in s : TRUE

\* Induction over the subsets of a finite set: what the empty set has, and a set
\* has when it has it without any one of its elements, every subset has.
LEMMA SubsetInduction ==
  ASSUME NEW S, IsFiniteSet(S), NEW T, {} \in T,
         \A s \in SUBSET S : s # {} /\ (\A x \in s : s \ {x} \in T) => s \in T
  PROVE  \A s \in SUBSET S : s \in T
<1>. DEFINE N == {n \in Nat : \A s \in SUBSET S : Cardinality(s) = n => s \in T}
<1>1. \A s \in SUBSET S : IsFiniteSet(s) /\ Cardinality(s) \in Nat
  BY FS_Subset, FS_CardinalityType
<1>2. 0 \in N
  BY <1>1, FS_EmptySet
<1>3. ASSUME NEW n \in Nat, n \in N PROVE n + 1 \in N
  <2>. SUFFICES ASSUME NEW s \in SUBSET S, Cardinality(s) = n + 1 PROVE s \in T
    OBVIOUS
  <2>1. s # {}
    <3>1. n + 1 # 0
      OBVIOUS
    <3>. QED
      BY <3>1, FS_EmptySet
  <2>2. ASSUME NEW x \in s PROVE s \ {x} \in T
    <3>1. Cardinality(s \ {x}) = n
      BY <1>1, FS_RemoveElement
    <3>. QED
      BY <1>3, <3>1
  <2>. QED
    BY <2>1, <2>2
<1>. HIDE DEF N
<1>4. Nat \subseteq N
  BY <1>2, <1>3, NatSetInduction
<1>. QED
  BY <1>1, <1>4 DEF N

\* A value for every subset: that of the empty set, and a step from an element
\* and the value of the others.
Folds(g, S, V, base, step) ==
  /\ g \in [SUBSET S -> V]
  /\ g[{}] = base
  /\ \A s \in SUBSET S : s # {} => g[s] = step[<<Pick(s), g[s \ {Pick(s)}]>>]

LEMMA FoldExists ==
  ASSUME NEW S, IsFiniteSet(S), NEW V, NEW base \in V, NEW step \in [S \X V -> V]
  PROVE  \E g : Folds(g, S, V, base, step)
<1>. DEFINE Up(g, n) == /\ g \in [SUBSET S -> V]
                        /\ g[{}] = base
                        /\ \A s \in SUBSET S : s # {} /\ Cardinality(s) <= n =>
                             g[s] = step[<<Pick(s), g[s \ {Pick(s)}]>>]
            N == {n \in Nat : \E g : Up(g, n)}
<1>1. \A s \in SUBSET S : IsFiniteSet(s) /\ Cardinality(s) \in Nat
  BY FS_Subset, FS_CardinalityType
<1>2. \A s \in SUBSET S : s # {} => Pick(s) \in s /\ Pick(s) \in S /\ s \ {Pick(s)} \in SUBSET S
  BY DEF Pick
<1>3. 0 \in N
  <2>. DEFINE g == [s \in SUBSET S |-> base]
  <2>1. \A s \in SUBSET S : s # {} => ~(Cardinality(s) <= 0)
    BY <1>1, FS_EmptySet
  <2>2. Up(g, 0)
    BY <2>1
  <2>. QED
    BY <2>2
<1>4. ASSUME NEW n \in Nat, n \in N PROVE n + 1 \in N
  <2>1. PICK g : Up(g, n)
    BY <1>4
  <2>. DEFINE f == [s \in SUBSET S |-> IF Cardinality(s) = n + 1
                                         THEN step[<<Pick(s), g[s \ {Pick(s)}]>>]
                                         ELSE g[s]]
  <2>2. f \in [SUBSET S -> V]
    <3>1. \A s \in SUBSET S : Cardinality(s) = n + 1 => s # {}
      BY FS_EmptySet
    <3>2. \A s \in SUBSET S : s # {} => step[<<Pick(s), g[s \ {Pick(s)}]>>] \in V
      <4>. SUFFICES ASSUME NEW s \in SUBSET S, s # {}
           PROVE  step[<<Pick(s), g[s \ {Pick(s)}]>>] \in V
        OBVIOUS
      <4>1. g[s \ {Pick(s)}] \in V
        BY <1>2, <2>1
      <4>. QED
        BY <1>2, <4>1
    <3>. QED
      BY <2>1, <3>1, <3>2
  <2>3. \A s \in SUBSET S : Cardinality(s) <= n => f[s] = g[s]
    BY <1>1
  <2>4. \A s \in SUBSET S : Cardinality(s) = n + 1 => f[s] = step[<<Pick(s), g[s \ {Pick(s)}]>>]
    OBVIOUS
  <2>. HIDE DEF f
  <2>5. f[{}] = base
    BY <2>1, <2>3, FS_EmptySet
  <2>6. ASSUME NEW s \in SUBSET S, s # {}, Cardinality(s) <= n + 1
        PROVE  f[s] = step[<<Pick(s), f[s \ {Pick(s)}]>>]
    <3>1. Cardinality(s \ {Pick(s)}) = Cardinality(s) - 1
      BY <1>1, <1>2, <2>6, FS_RemoveElement
    <3>2. f[s \ {Pick(s)}] = g[s \ {Pick(s)}]
      BY <1>1, <1>2, <2>3, <2>6, <3>1
    <3>. QED
      BY <1>1, <2>1, <2>3, <2>4, <2>6, <3>2
  <2>7. Up(f, n + 1)
    BY <2>2, <2>5, <2>6
  <2>. HIDE DEF Up
  <2>8. \E k : Up(k, n + 1)
    BY <2>7
  <2>. QED
    BY <2>8
<1>. HIDE DEF N
<1>5. Nat \subseteq N
  BY <1>3, <1>4, NatSetInduction
<1>6. Cardinality(S) \in N
  BY <1>1, <1>5
<1>7. PICK g : Up(g, Cardinality(S))
  BY <1>6 DEF N
<1>8. \A s \in SUBSET S : Cardinality(s) <= Cardinality(S)
  BY FS_Subset
<1>9. Folds(g, S, V, base, step)
  BY <1>7, <1>8 DEF Folds
<1>. QED
  BY <1>9

-------------------------------------------------------------------------------
(* Sums over a finite set                                                   *)

\* h has the sum of f over each subset of S, in whatever order it is taken.
Adds(h, f, S) ==
  /\ h \in [SUBSET S -> Int]
  /\ h[{}] = 0
  /\ \A s \in SUBSET S : \A x \in s : h[s] = f[x] + h[s \ {x}]

Summing(h, f, S) ==
  h = [s \in SUBSET S |-> IF s = {} THEN 0 ELSE f[Pick(s)] + h[s \ {Pick(s)}]]

LEMMA SummingExists ==
  ASSUME NEW S, IsFiniteSet(S), NEW f \in [S -> Int]
  PROVE  \E h : Summing(h, f, S)
<1>. DEFINE step == [p \in S \X Int |-> f[p[1]] + p[2]]
<1>1. step \in [S \X Int -> Int]
  OBVIOUS
<1>. HIDE DEF step
<1>2. PICK h : Folds(h, S, Int, 0, step)
  <2>1. 0 \in Int
    OBVIOUS
  <2>. QED
    BY <1>1, <2>1, FoldExists
<1>3. ASSUME NEW s \in SUBSET S, s # {} PROVE h[s] = f[Pick(s)] + h[s \ {Pick(s)}]
  <2>1. Pick(s) \in S /\ s \ {Pick(s)} \in SUBSET S
    BY <1>3 DEF Pick
  <2>2. h[s \ {Pick(s)}] \in Int
    BY <1>2, <2>1 DEF Folds
  <2>. QED
    BY <1>2, <1>3, <2>1, <2>2 DEF Folds, step
<1>4. Summing(h, f, S)
  <2>1. h \in [SUBSET S -> Int] /\ h[{}] = 0
    BY <1>2 DEF Folds
  <2>2. h = [s \in SUBSET S |-> h[s]]
    BY <2>1
  <2>3. \A s \in SUBSET S : h[s] = IF s = {} THEN 0 ELSE f[Pick(s)] + h[s \ {Pick(s)}]
    BY <1>3, <2>1
  <2>. QED
    BY <2>2, <2>3 DEF Summing
<1>. QED
  BY <1>4

LEMMA SummingAdds ==
  ASSUME NEW S, IsFiniteSet(S), NEW f \in [S -> Int], NEW h, Summing(h, f, S)
  PROVE  Adds(h, f, S)
<1>1. /\ h = [s \in SUBSET S |-> h[s]]
      /\ h[{}] = 0
      /\ \A s \in SUBSET S : s # {} => h[s] = f[Pick(s)] + h[s \ {Pick(s)}]
  BY DEF Summing
<1>2. \A s \in SUBSET S : s # {} => Pick(s) \in s /\ Pick(s) \in S
  BY DEF Pick
<1>. DEFINE T == {s \in SUBSET S : h[s] \in Int}
            U == {s \in SUBSET S : \A x \in s : h[s] = f[x] + h[s \ {x}]}
<1>3. {} \in T /\ {} \in U
  BY <1>1
<1>4. ASSUME NEW s \in SUBSET S, s # {}, \A x \in s : s \ {x} \in T
      PROVE  s \in T
  <2>1. h[s] = f[Pick(s)] + h[s \ {Pick(s)}]
    BY <1>1, <1>4
  <2>2. f[Pick(s)] \in Int
    BY <1>2, <1>4
  <2>3. h[s \ {Pick(s)}] \in Int
    BY <1>2, <1>4
  <2>4. h[s] \in Int
    BY <2>1, <2>2, <2>3
  <2>. QED
    BY <2>4
<1>5. ASSUME NEW s \in SUBSET S, s # {}, \A x \in s : s \ {x} \in U
      PROVE  s \in U
  <2>. SUFFICES ASSUME NEW x \in s PROVE h[s] = f[x] + h[s \ {x}]
    OBVIOUS
  <2>1. PICK y \in s : y = Pick(s)
    BY <1>2, <1>5
  <2>2. h[s] = f[y] + h[s \ {y}]
    BY <1>1, <1>5, <2>1
  <2>3. CASE x # y
    <3>1. x \in s \ {y} /\ y \in s \ {x}
      BY <2>3
    <3>2. h[s \ {y}] = f[x] + h[(s \ {y}) \ {x}]
      BY <1>5, <3>1
    <3>3. h[s \ {x}] = f[y] + h[(s \ {x}) \ {y}]
      BY <1>5, <3>1
    <3>4. (s \ {x}) \ {y} = (s \ {y}) \ {x}
      OBVIOUS
    <3>. DEFINE r == (s \ {y}) \ {x}
    <3>5. r \in T
      <4>1. {} \in T /\ \A t \in SUBSET S : t # {} /\ (\A z \in t : t \ {z} \in T) => t \in T
        BY <1>3, <1>4
      <4>. HIDE DEF T
      <4>2. r \in SUBSET S
        OBVIOUS
      <4>. HIDE DEF r
      <4>. QED
        BY <4>1, <4>2, SubsetInduction
    <3>6. f[x] \in Int /\ f[y] \in Int /\ h[r] \in Int
      BY <3>5
    <3>7. h[s] = f[y] + (f[x] + h[r])
      BY <2>2, <3>2
    <3>8. h[s \ {x}] = f[y] + h[r]
      BY <3>3, <3>4
    <3>. HIDE DEF r
    <3>. QED
      BY <3>6, <3>7, <3>8
  <2>. QED
    BY <2>2, <2>3
<1>. HIDE DEF T, U
<1>6. \A s \in SUBSET S : s \in T
  BY <1>3, <1>4, SubsetInduction
<1>7. \A s \in SUBSET S : s \in U
  BY <1>3, <1>5, SubsetInduction
<1>8. h \in [SUBSET S -> Int]
  BY <1>1, <1>6 DEF T
<1>. QED
  BY <1>1, <1>7, <1>8 DEF Adds, U

\* A sum is the same, whatever larger set it is a part of.
LEMMA AddsAgree ==
  ASSUME NEW S, IsFiniteSet(S), NEW f \in [S -> Int], NEW h, Adds(h, f, S),
         NEW R, S \subseteq R, NEW g, NEW k, Adds(k, g, R), \A x \in S : f[x] = g[x]
  PROVE  \A s \in SUBSET S : h[s] = k[s]
<1>. DEFINE T == {s \in SUBSET S : h[s] = k[s]}
<1>1. {} \in T
  BY DEF Adds
<1>2. ASSUME NEW s \in SUBSET S, s # {}, \A x \in s : s \ {x} \in T PROVE s \in T
  <2>1. PICK x \in s : TRUE
    BY <1>2
  <2>2. h[s] = f[x] + h[s \ {x}] /\ k[s] = g[x] + k[s \ {x}]
    BY DEF Adds
  <2>3. h[s \ {x}] = k[s \ {x}] /\ f[x] = g[x]
    BY <1>2
  <2>. QED
    BY <2>2, <2>3
<1>. HIDE DEF T
<1>3. \A s \in SUBSET S : s \in T
  BY <1>1, <1>2, SubsetInduction
<1>. QED
  BY <1>3 DEF T

\* The sum over two disjoint sets is that of the sums.
LEMMA AddsUnion ==
  ASSUME NEW S, IsFiniteSet(S), NEW f \in [S -> Int], NEW h, Adds(h, f, S),
         NEW a \in SUBSET S, NEW b \in SUBSET S, a \cap b = {}
  PROVE  h[a \cup b] = h[a] + h[b]
<1>. DEFINE T == {s \in SUBSET S : a \cap s = {} => h[a \cup s] = h[a] + h[s]}
<1>1. {} \in T
  <2>1. h[{}] = 0 /\ h[a] \in Int /\ a \cup {} = a
    BY DEF Adds
  <2>. QED
    BY <2>1
<1>2. ASSUME NEW s \in SUBSET S, s # {}, \A x \in s : s \ {x} \in T PROVE s \in T
  <2>. SUFFICES ASSUME a \cap s = {} PROVE h[a \cup s] = h[a] + h[s]
    OBVIOUS
  <2>1. PICK x \in s : TRUE
    BY <1>2
  <2>. DEFINE r == s \ {x}
  <2>2. (a \cup s) \ {x} = a \cup r /\ x \in a \cup s /\ a \cup s \in SUBSET S
    OBVIOUS
  <2>3. h[a \cup s] = f[x] + h[a \cup r]
    BY <2>2 DEF Adds
  <2>4. h[s] = f[x] + h[r]
    BY DEF Adds
  <2>5. h[a \cup r] = h[a] + h[r]
    BY <1>2
  <2>6. f[x] \in Int /\ h[a] \in Int /\ h[r] \in Int
    BY DEF Adds
  <2>. HIDE DEF r
  <2>. QED
    BY <2>3, <2>4, <2>5, <2>6
<1>. HIDE DEF T
<1>3. \A s \in SUBSET S : s \in T
  BY <1>1, <1>2, SubsetInduction
<1>. QED
  BY <1>3 DEF T

\* The elements of sets that have none in common are as many as those of each,
\* taken together.
Apart(F, S) ==
  /\ \A o \in S : IsFiniteSet(F[o])
  /\ \A o, p \in S : o # p => F[o] \cap F[p] = {}

Together(F, s) == UNION {F[o] : o \in s}

Counts(F, S) == [o \in S |-> Cardinality(F[o])]

LEMMA CountsAdd ==
  ASSUME NEW S, IsFiniteSet(S), NEW F, Apart(F, S), NEW h, Adds(h, Counts(F, S), S)
  PROVE  \A s \in SUBSET S : IsFiniteSet(Together(F, s)) /\ h[s] = Cardinality(Together(F, s))
<1>. DEFINE T == {s \in SUBSET S : IsFiniteSet(Together(F, s)) /\ h[s] = Cardinality(Together(F, s))}
<1>1. {} \in T
  <2>1. Together(F, {}) = {}
    BY DEF Together
  <2>2. h[{}] = 0
    BY DEF Adds
  <2>. QED
    BY <2>1, <2>2, FS_EmptySet
<1>2. ASSUME NEW s \in SUBSET S, s # {}, \A x \in s : s \ {x} \in T PROVE s \in T
  <2>1. PICK x \in s : TRUE
    BY <1>2
  <2>. DEFINE r == s \ {x}
  <2>2. r \in SUBSET S /\ IsFiniteSet(Together(F, r)) /\ h[r] = Cardinality(Together(F, r))
    BY <1>2
  <2>3. x \in S /\ IsFiniteSet(F[x])
    BY DEF Apart
  <2>4. Together(F, s) = F[x] \cup Together(F, r)
    BY DEF Together
  <2>5. F[x] \cap Together(F, r) = {}
    BY DEF Together, Apart
  <2>6. h[s] = Counts(F, S)[x] + h[r]
    BY DEF Adds
  <2>7. Counts(F, S)[x] = Cardinality(F[x])
    BY <2>3 DEF Counts
  <2>. HIDE DEF r
  <2>8. /\ IsFiniteSet(F[x] \cup Together(F, r))
        /\ Cardinality(F[x] \cup Together(F, r))
             = Cardinality(F[x]) + Cardinality(Together(F, r)) - Cardinality(F[x] \cap Together(F, r))
    BY <2>2, <2>3, FS_Union
  <2>9. Cardinality(F[x]) \in Nat /\ Cardinality(Together(F, r)) \in Nat /\ Cardinality({}) = 0
    BY <2>2, <2>3, FS_CardinalityType, FS_EmptySet
  <2>10. Cardinality(F[x] \cup Together(F, r)) = Cardinality(F[x]) + Cardinality(Together(F, r))
    <3>1. Cardinality(F[x] \cap Together(F, r)) = 0
      BY <2>5, <2>9
    <3>. QED
      BY <2>8, <2>9, <3>1
  <2>. QED
    BY <2>2, <2>4, <2>6, <2>7, <2>8, <2>10
<1>. HIDE DEF T
<1>3. \A s \in SUBSET S : s \in T
  BY <1>1, <1>2, SubsetInduction
<1>. QED
  BY <1>3 DEF T

LEMMA CountsWhole ==
  ASSUME NEW S, NEW F, Apart(F, S)
  PROVE  Counts(F, S) \in [S -> Int]
<1>1. \A o \in S : Cardinality(F[o]) \in Int
  BY FS_CardinalityType DEF Apart
<1>. QED
  BY <1>1 DEF Counts

-------------------------------------------------------------------------------
(* Extremes and orders                                                      *)

\* An element of a finite set than which none has more, and one than which none
\* has less.
LEMMA MostExists ==
  ASSUME NEW S, IsFiniteSet(S), NEW f \in [S -> Int]
  PROVE  S # {} => \E x \in S : \A y \in S : f[x] >= f[y]
<1>. DEFINE T == {s \in SUBSET S : s # {} => \E x \in s : \A y \in s : f[x] >= f[y]}
<1>1. {} \in T
  OBVIOUS
<1>2. ASSUME NEW s \in SUBSET S, s # {}, \A x \in s : s \ {x} \in T PROVE s \in T
  <2>1. PICK z \in s : TRUE
    BY <1>2
  <2>2. CASE s \ {z} = {}
    <3>1. \A y \in s : y = z
      BY <2>2
    <3>. QED
      BY <3>1
  <2>3. CASE s \ {z} # {}
    <3>1. PICK x \in s \ {z} : \A y \in s \ {z} : f[x] >= f[y]
      BY <1>2, <2>3
    <3>2. CASE f[x] >= f[z]
      <4>1. \A y \in s : f[x] >= f[y]
        BY <3>1, <3>2
      <4>. QED
        BY <4>1
    <3>3. CASE ~(f[x] >= f[z])
      <4>1. \A y \in s : f[z] >= f[y]
        BY <3>1, <3>3
      <4>. QED
        BY <4>1
    <3>. QED
      BY <3>2, <3>3
  <2>. QED
    BY <2>2, <2>3
<1>. HIDE DEF T
<1>3. S \in T
  BY <1>1, <1>2, SubsetInduction
<1>. QED
  BY <1>3 DEF T

LEMMA LeastExists ==
  ASSUME NEW S, IsFiniteSet(S), NEW f \in [S -> Int]
  PROVE  S # {} => \E x \in S : \A y \in S : f[x] <= f[y]
<1>. DEFINE g == [x \in S |-> -f[x]]
<1>1. g \in [S -> Int] /\ \A x \in S : g[x] = -f[x]
  OBVIOUS
<1>. HIDE DEF g
<1>2. S # {} => \E x \in S : \A y \in S : g[x] >= g[y]
  BY <1>1, MostExists
<1>. QED
  BY <1>1, <1>2

\* The least and the greatest number of a finite set.
LEMMA FigureExtremes ==
  ASSUME NEW S, IsFiniteSet(S), S \subseteq Int, S # {}
  PROVE  /\ Figures!Max(S) \in S /\ \A x \in S : x <= Figures!Max(S)
         /\ Figures!Min(S) \in S /\ \A x \in S : Figures!Min(S) <= x
<1>. DEFINE f == [x \in S |-> x]
<1>1. f \in [S -> Int] /\ \A x \in S : f[x] = x
  OBVIOUS
<1>. HIDE DEF f
<1>2. \E x \in S : \A y \in S : x >= y
  <2>1. \E x \in S : \A y \in S : f[x] >= f[y]
    BY <1>1, MostExists
  <2>. QED
    BY <1>1, <2>1
<1>3. \E x \in S : \A y \in S : x <= y
  <2>1. \E x \in S : \A y \in S : f[x] <= f[y]
    BY <1>1, LeastExists
  <2>. QED
    BY <1>1, <2>1
<1>4. Figures!Max(S) = CHOOSE x \in S : \A y \in S : x >= y
  BY DEF Figures!Max
<1>5. Figures!Min(S) = CHOOSE x \in S : \A y \in S : x <= y
  BY DEF Figures!Min
<1>6. Figures!Max(S) \in S /\ \A y \in S : Figures!Max(S) >= y
  BY <1>2, <1>4
<1>7. Figures!Min(S) \in S /\ \A y \in S : Figures!Min(S) <= y
  BY <1>3, <1>5
<1>. QED
  BY <1>6, <1>7

\* A finite set can be listed, what has most first.
InOrder(s, f, S) ==
  /\ s \in [1..Cardinality(S) -> S]
  /\ \A i, j \in 1..Cardinality(S) : i # j => s[i] # s[j]
  /\ \A i, j \in 1..Cardinality(S) : i < j => f[s[i]] >= f[s[j]]

LEMMA OrderExists ==
  ASSUME NEW S, IsFiniteSet(S), NEW f \in [S -> Int]
  PROVE  \E s : InOrder(s, f, S)
<1>. DEFINE T == {r \in SUBSET S : \E s : InOrder(s, f, r)}
<1>1. {} \in T
  <2>. DEFINE none == [i \in 1..Cardinality({}) |-> 0]
  <2>1. 1..Cardinality({}) = {}
    <3>1. 1..0 = {}
      OBVIOUS
    <3>. QED
      BY <3>1, FS_EmptySet
  <2>2. none \in [1..Cardinality({}) -> {}]
    BY <2>1
  <2>. HIDE DEF none
  <2>3. InOrder(none, f, {})
    BY <2>1, <2>2 DEF InOrder
  <2>. QED
    BY <2>3
<1>2. ASSUME NEW r \in SUBSET S, r # {}, \A x \in r : r \ {x} \in T PROVE r \in T
  <2>1. IsFiniteSet(r)
    BY FS_Subset
  <2>2. PICK x \in r : \A y \in r : f[x] <= f[y]
    <3>. DEFINE g == [y \in r |-> f[y]]
    <3>1. g \in [r -> Int] /\ \A y \in r : g[y] = f[y]
      OBVIOUS
    <3>. HIDE DEF g
    <3>. QED
      BY <1>2, <2>1, <3>1, LeastExists
  <2>. DEFINE q == r \ {x}
  <2>3. PICK s : InOrder(s, f, q)
    BY <1>2
  <2>4. PICK n \in Nat : n = Cardinality(q)
    BY <2>1, FS_Subset, FS_CardinalityType
  <2>5. Cardinality(r) = n + 1
    <3>1. Cardinality(q) = Cardinality(r) - 1
      BY <2>1, FS_RemoveElement
    <3>2. Cardinality(r) \in Nat
      BY <2>1, FS_CardinalityType
    <3>. QED
      BY <2>4, <3>1, <3>2
  <2>. DEFINE t == [i \in 1..(n + 1) |-> IF i = n + 1 THEN x ELSE s[i]]
  <2>6. \A i \in 1..n : t[i] = s[i] /\ s[i] \in q
    <3>1. s \in [1..n -> q]
      BY <2>3, <2>4 DEF InOrder
    <3>2. \A i \in 1..n : i \in 1..(n + 1) /\ i # n + 1
      OBVIOUS
    <3>3. \A i \in 1..n : t[i] = s[i]
      BY <3>2
    <3>. HIDE DEF t, q
    <3>. QED
      BY <3>1, <3>3
  <2>7. t[n + 1] = x /\ \A i \in 1..(n + 1) : i = n + 1 \/ i \in 1..n
    OBVIOUS
  <2>8. t \in [1..(n + 1) -> r]
    BY <2>6, <2>7
  <2>. HIDE DEF t
  <2>9. ASSUME NEW i \in 1..(n + 1), NEW j \in 1..(n + 1), i < j
        PROVE  t[i] # t[j] /\ f[t[i]] >= f[t[j]]
    <3>1. i \in 1..n
      BY <2>9
    <3>2. CASE j = n + 1
      <4>1. t[i] \in q /\ t[j] = x
        BY <2>6, <2>7, <3>1, <3>2
      <4>2. t[i] # x /\ t[i] \in r
        BY <4>1
      <4>3. f[x] <= f[t[i]] /\ f[x] \in Int /\ f[t[i]] \in Int
        BY <2>2, <4>2
      <4>. QED
        BY <4>1, <4>2, <4>3
    <3>3. CASE j # n + 1
      <4>1. j \in 1..n
        BY <3>3
      <4>2. t[i] = s[i] /\ t[j] = s[j]
        BY <2>6, <3>1, <4>1
      <4>3. /\ \A k, l \in 1..n : k # l => s[k] # s[l]
            /\ \A k, l \in 1..n : k < l => f[s[k]] >= f[s[l]]
        BY <2>3, <2>4 DEF InOrder
      <4>4. i # j
        BY <2>9
      <4>. QED
        BY <2>9, <3>1, <4>1, <4>2, <4>3, <4>4
    <3>. QED
      BY <3>2, <3>3
  <2>10. \A i, j \in 1..(n + 1) : i # j => t[i] # t[j]
    BY <2>9
  <2>11. InOrder(t, f, r)
    BY <2>5, <2>8, <2>9, <2>10 DEF InOrder
  <2>. QED
    BY <2>11
<1>. HIDE DEF T
<1>3. S \in T
  BY <1>1, <1>2, SubsetInduction
<1>. QED
  BY <1>3 DEF T

\* In a list of a finite set without repetitions every element has a place.
LEMMA ListedOnce ==
  ASSUME NEW S, IsFiniteSet(S), NEW s \in [1..Cardinality(S) -> S],
         \A i, j \in 1..Cardinality(S) : i # j => s[i] # s[j]
  PROVE  \A x \in S : \E i \in 1..Cardinality(S) : s[i] = x
<1>. DEFINE n == Cardinality(S)
            D == 1..n
<1>1. n \in Nat
  BY FS_CardinalityType
<1>2. IsFiniteSet(D) /\ Cardinality(D) = n
  BY <1>1, FS_Interval
<1>3. s \in Injection(D, S)
  BY DEF Injection, IsInjective
<1>. HIDE DEF n, D
<1>4. s \in Surjection(D, S)
  BY <1>2, <1>3, FS_Injection DEF n
<1>. QED
  BY <1>4 DEF Surjection, D, n

-------------------------------------------------------------------------------
(* Dashboard                                                                *)

\* No review is of a time to come.
DashboardInv ==
  /\ Figures!TypeOK
  /\ \A n \in DOMAIN posted : posted[n].at <= now

LEMMA MomentsWhole ==
  /\ \A t \in Instants : t \in Nat /\ t >= 1 /\ t \in 0..Figures!Max(Instants)
  /\ Figures!Min(Instants) \in Instants
<1>1. Instants \subseteq Int
  BY DashboardAssumption
<1>2. /\ Figures!Max(Instants) \in Instants /\ \A x \in Instants : x <= Figures!Max(Instants)
      /\ Figures!Min(Instants) \in Instants
  BY <1>1, DashboardAssumption, FigureExtremes
<1>3. \A t \in Instants : t \in Nat /\ t >= 1
  BY DashboardAssumption
<1>. QED
  BY <1>2, <1>3

\* The fields of the stored reviews.
LEMMA ReviewFields ==
  ASSUME Figures!TypeOK
  PROVE  /\ Len(posted) \in Nat /\ DOMAIN posted = 1..Len(posted)
         /\ \A n \in DOMAIN posted :
              /\ posted[n] \in Figures!ReviewDoc
              /\ posted[n].at \in Instants /\ posted[n].at \in Nat
              /\ posted[n].outlet \in Shop
              /\ posted[n].rating \in 10..50 /\ posted[n].rating \in Nat
              /\ posted[n].complaint \in BOOLEAN /\ posted[n].deleted \in BOOLEAN
              /\ posted[n].status \in {"pending", "resolved", "dismissed"}
              /\ posted[n].resolvedAt \in Instants \cup {0}
<1>1. posted \in Seq(Figures!ReviewDoc)
  BY DEF Figures!TypeOK
<1>2. Len(posted) \in Nat /\ DOMAIN posted = 1..Len(posted)
  BY <1>1, LenProperties
<1>3. \A n \in DOMAIN posted : posted[n] \in Figures!ReviewDoc
  BY <1>1, <1>2, ElementOfSeq
<1>4. ASSUME NEW r \in Figures!ReviewDoc
      PROVE  /\ r.at \in Instants /\ r.outlet \in Shop /\ r.rating \in Rating
             /\ r.complaint \in BOOLEAN /\ r.deleted \in BOOLEAN
             /\ r.status \in {"pending", "resolved", "dismissed"}
             /\ r.resolvedAt \in Instants \cup {0}
  BY DEF Figures!ReviewDoc, Figures!Status
<1>5. \A t \in Instants : t \in Nat
  BY DashboardAssumption
<1>6. \A r \in Rating : r \in 10..50 /\ r \in Nat
  BY DashboardAssumption
<1>. QED
  BY <1>2, <1>3, <1>4, <1>5, <1>6

LEMMA FiniteReviews ==
  ASSUME Figures!TypeOK
  PROVE  /\ IsFiniteSet(DOMAIN posted) /\ IsFiniteSet(Figures!Live)
         /\ Figures!Live \subseteq DOMAIN posted
<1>1. Figures!Live \subseteq DOMAIN posted
  BY DEF Figures!Live
<1>2. IsFiniteSet(DOMAIN posted)
  <2>1. Len(posted) \in Int /\ 1 \in Int /\ DOMAIN posted = 1..Len(posted)
    BY ReviewFields
  <2>2. IsFiniteSet(1..Len(posted))
    BY <2>1, FS_Interval
  <2>. QED
    BY <2>1, <2>2
<1>. QED
  BY <1>1, <1>2, FS_Subset

LEMMA InitDashboardInv == Figures!Init => DashboardInv
<1>. SUFFICES ASSUME Figures!Init PROVE DashboardInv
  OBVIOUS
<1>1. now = Figures!Min(Instants) /\ posted = <<>> /\ shut = {}
  BY DEF Figures!Init
<1>2. posted \in Seq(Figures!ReviewDoc) /\ Len(posted) = 0 /\ DOMAIN posted = {}
  BY <1>1
<1>. QED
  BY <1>1, <1>2, MomentsWhole, StarAssumption DEF DashboardInv, Figures!TypeOK

\* A review that is changed stays a review of its moment.
LEMMA ReviewChanged ==
  ASSUME DashboardInv, NEW n \in DOMAIN posted, NEW r \in Figures!ReviewDoc,
         r.at = posted[n].at, posted' = [posted EXCEPT ![n] = r],
         now' = now, shut' = shut
  PROVE  DashboardInv'
<1>1. /\ posted \in [1..Len(posted) -> Figures!ReviewDoc] /\ Len(posted) \in Nat
      /\ DOMAIN posted = 1..Len(posted)
  <2>1. posted \in Seq(Figures!ReviewDoc)
    BY DEF DashboardInv, Figures!TypeOK
  <2>. QED
    BY <2>1, LenProperties
<1>2. posted' \in [1..Len(posted) -> Figures!ReviewDoc]
  BY <1>1
<1>3. posted' \in Seq(Figures!ReviewDoc) /\ Len(posted') = Len(posted)
  BY <1>1, <1>2
<1>4. \A m \in DOMAIN posted' : m \in DOMAIN posted /\ posted'[m].at = posted[m].at
  BY <1>1, <1>2
<1>5. Figures!TypeOK'
  BY <1>3 DEF DashboardInv, Figures!TypeOK, Figures!ReviewDoc, Figures!Status
<1>. QED
  BY <1>4, <1>5 DEF DashboardInv

LEMMA DashboardInvStep ==
  ASSUME DashboardInv, [Figures!Next]_dashboardVars
  PROVE  DashboardInv'
<1>1. /\ now \in Instants /\ posted \in Seq(Figures!ReviewDoc) /\ Len(posted) <= RatedLimit
      /\ shut \subseteq Shop /\ \A n \in DOMAIN posted : posted[n].at <= now
  BY DEF DashboardInv, Figures!TypeOK
<1>2. CASE UNCHANGED dashboardVars
  BY <1>1, <1>2 DEF dashboardVars, DashboardInv, Figures!TypeOK, Figures!ReviewDoc, Figures!Status
<1>3. ASSUME NEW o \in Shop, NEW r \in Rating, NEW c \in BOOLEAN, Figures!Post(o, r, c)
      PROVE  DashboardInv'
  <2>. DEFINE no == FALSE
              d == [at |-> now, outlet |-> o, rating |-> r, complaint |-> c,
                    status |-> "pending", resolvedAt |-> 0, deleted |-> no]
  <2>1. posted' = Append(posted, d) /\ now' = now /\ shut' = shut /\ Len(posted) < RatedLimit
    BY <1>3 DEF Figures!Post
  <2>2. d \in Figures!ReviewDoc /\ d.at = now
    BY <1>1 DEF Figures!ReviewDoc, Figures!Status
  <2>. HIDE DEF d
  <2>3. /\ posted' \in Seq(Figures!ReviewDoc) /\ Len(posted') = Len(posted) + 1
        /\ \A i \in 1..Len(posted) : posted'[i] = posted[i]
        /\ posted'[Len(posted) + 1] = d
    BY <1>1, <2>1, <2>2, AppendProperties
  <2>4. DOMAIN posted = 1..Len(posted) /\ Len(posted) \in Nat /\ DOMAIN posted' = 1..Len(posted')
    BY <1>1, <2>3, LenProperties
  <2>5. Len(posted') <= RatedLimit
    BY <2>1, <2>3, <2>4, StarAssumption
  <2>6. Figures!TypeOK'
    BY <1>1, <2>1, <2>3, <2>5 DEF Figures!TypeOK, Figures!ReviewDoc, Figures!Status
  <2>7. now <= now
    BY <1>1, MomentsWhole
  <2>8. \A n \in DOMAIN posted' : n \in DOMAIN posted \/ n = Len(posted) + 1
    BY <2>3, <2>4
  <2>9. \A n \in DOMAIN posted' : posted'[n].at <= now
    BY <1>1, <2>2, <2>3, <2>4, <2>7, <2>8
  <2>. QED
    BY <2>1, <2>6, <2>9 DEF DashboardInv
<1>4. ASSUME NEW n, NEW s \in {"resolved", "dismissed"}, Figures!Resolve(n, s)
      PROVE  DashboardInv'
  <2>1. /\ n \in DOMAIN posted /\ now' = now /\ shut' = shut
        /\ posted' = [posted EXCEPT ![n].status = s, ![n].resolvedAt = now]
    BY <1>4 DEF Figures!Resolve
  <2>2. posted[n] \in Figures!ReviewDoc
    BY <2>1, ReviewFields DEF DashboardInv
  <2>. DEFINE r == [posted[n] EXCEPT !.status = s, !.resolvedAt = now]
  <2>3. r \in Figures!ReviewDoc /\ r.at = posted[n].at
    BY <1>1, <2>2 DEF Figures!ReviewDoc, Figures!Status
  <2>4. posted' = [posted EXCEPT ![n] = r]
    BY <2>1
  <2>. HIDE DEF r
  <2>. QED
    BY <2>1, <2>3, <2>4, ReviewChanged
<1>5. ASSUME NEW n, Figures!Delete(n) PROVE DashboardInv'
  <2>. DEFINE yes == TRUE
  <2>1. /\ n \in DOMAIN posted /\ now' = now /\ shut' = shut
        /\ posted' = [posted EXCEPT ![n].deleted = yes]
    BY <1>5 DEF Figures!Delete
  <2>2. posted[n] \in Figures!ReviewDoc
    BY <2>1, ReviewFields DEF DashboardInv
  <2>. DEFINE r == [posted[n] EXCEPT !.deleted = yes]
  <2>3. yes \in BOOLEAN
    OBVIOUS
  <2>. HIDE DEF yes
  <2>4. r \in Figures!ReviewDoc /\ r.at = posted[n].at
    BY <2>2, <2>3 DEF Figures!ReviewDoc, Figures!Status
  <2>5. posted' = [posted EXCEPT ![n] = r]
    BY <2>1
  <2>. HIDE DEF r
  <2>. QED
    BY <2>1, <2>4, <2>5, ReviewChanged
<1>6. ASSUME NEW o \in Shop, Figures!Shut(o) PROVE DashboardInv'
  <2>1. shut' = shut \cup {o} /\ now' = now /\ posted' = posted
    BY <1>6 DEF Figures!Shut
  <2>. QED
    BY <1>1, <2>1 DEF DashboardInv, Figures!TypeOK, Figures!ReviewDoc, Figures!Status
<1>7. ASSUME NEW t \in Instants, Figures!TimePasses(t) PROVE DashboardInv'
  <2>1. t > now /\ now' = t /\ posted' = posted /\ shut' = shut
    BY <1>7 DEF Figures!TimePasses
  <2>2. now \in Nat /\ t \in Nat /\ \A n \in DOMAIN posted : posted[n].at \in Nat
    BY <1>1, MomentsWhole, ReviewFields DEF DashboardInv
  <2>3. \A n \in DOMAIN posted : posted[n].at <= t
    BY <1>1, <2>1, <2>2
  <2>. QED
    BY <1>1, <2>1, <2>3 DEF DashboardInv, Figures!TypeOK, Figures!ReviewDoc, Figures!Status
<1>8. CASE Figures!Next
  BY <1>3, <1>4, <1>5, <1>6, <1>7, <1>8 DEF Figures!Next
<1>. QED
  BY <1>2, <1>8

LEMMA FigureCount == \A S : Figures!Cardinality(S) = Cardinality(S)
BY DEF Figures!Cardinality, Cardinality

\* What the filters let through.
LEMMA OpenReviews ==
  ASSUME Figures!TypeOK, NEW range, NEW extra, NEW n
  PROVE  n \in Figures!OpenComplaints(range, extra)
           <=> /\ n \in Figures!Live /\ posted[n].complaint /\ posted[n].status = "pending"
               /\ Figures!In(posted[n].at, range) /\ posted[n].rating < extra
<1>1. n \in Figures!Live => posted[n].status \in {"pending", "resolved", "dismissed"}
  BY FiniteReviews, ReviewFields
<1>2. \A s \in {"pending", "resolved", "dismissed"} : Figures!Unresolved(s) <=> s = "pending"
  BY DEF Figures!Unresolved
<1>. QED
  BY <1>1, <1>2 DEF Figures!OpenComplaints

LEMMA AlwaysIn ==
  ASSUME NEW t \in Instants
  PROVE  Figures!In(t, Figures!Always)
<1>1. Figures!Always.from = 0 /\ Figures!Always.to = Figures!Max(Instants)
  BY DEF Figures!Always
<1>. QED
  BY <1>1, MomentsWhole DEF Figures!In

LEMMA OverviewOf ==
  ASSUME Figures!TypeOK
  PROVE  Figures!OverviewMatchesList
<1>1. \A n \in Figures!Live : /\ Figures!In(posted[n].at, Figures!Always)
                              /\ posted[n].rating \in 10..50
  BY FiniteReviews, ReviewFields, AlwaysIn
<1>2. Figures!OfShown(Figures!OpenComplaints(Figures!Always, 51)) = Figures!ListOf("any")
  <2>1. \A r \in 10..50 : r < 51
    OBVIOUS
  <2>2. \A n : n \in Figures!OpenComplaints(Figures!Always, 51)
                 <=> n \in Figures!Live /\ posted[n].complaint /\ posted[n].status = "pending"
    BY <1>1, <2>1, OpenReviews
  <2>. QED
    BY <2>2 DEF Figures!OfShown, Figures!ListOf
<1>3. Figures!OfShown(Figures!OpenCritical(Figures!Always)) = Figures!ListOf("critical")
  <2>1. \A n : n \in Figures!OpenCritical(Figures!Always)
                 <=> /\ n \in Figures!Live /\ posted[n].complaint /\ posted[n].status = "pending"
                     /\ posted[n].rating < 20
    BY <1>1, OpenReviews DEF Figures!OpenCritical
  <2>. QED
    BY <2>1 DEF Figures!OfShown, Figures!ListOf
<1>4. Figures!ListOf("critical") \cap Figures!ListOf("concern") = {}
  <2>. SUFFICES ASSUME NEW n \in Figures!ListOf("critical"), n \in Figures!ListOf("concern")
       PROVE  FALSE
    OBVIOUS
  <2>1. n \in Figures!Live /\ posted[n].rating < 20 /\ posted[n].rating >= 20
    BY DEF Figures!ListOf, Figures!OfShown
  <2>2. PICK r \in 10..50 : r = posted[n].rating
    BY <1>1, <2>1
  <2>. QED
    BY <2>1, <2>2
<1>5. Figures!TotalOpenIncidents(Figures!Always) = Figures!Cardinality(Figures!ListOf("any"))
  BY <1>2 DEF Figures!TotalOpenIncidents
<1>6. Figures!CriticalIssues(Figures!Always) = Figures!Cardinality(Figures!ListOf("critical"))
  BY <1>3 DEF Figures!CriticalIssues
<1>. QED
  BY <1>4, <1>5, <1>6 DEF Figures!OverviewMatchesList

-------------------------------------------------------------------------------
(* The feedback of the outlets                                              *)

\* The open complaints and the resolved ones of an outlet.
OpenOf(range, extra) == [o \in Shop |-> {n \in Figures!OpenComplaints(range, extra) : posted[n].outlet = o}]

ResolvedOf(range) ==
  [o \in Shop |-> {n \in Figures!Live : /\ posted[n].outlet = o /\ posted[n].complaint
                                       /\ posted[n].status = "resolved"
                                       /\ Figures!In(posted[n].resolvedAt, range)}]

LEMMA OfOutlets ==
  ASSUME Figures!TypeOK, NEW range, NEW extra, NEW S, S \subseteq Shop
  PROVE  Apart(OpenOf(range, extra), S) /\ Apart(ResolvedOf(range), S)
<1>1. \A o \in S : /\ OpenOf(range, extra)[o] = {n \in Figures!OpenComplaints(range, extra) : posted[n].outlet = o}
                   /\ ResolvedOf(range)[o] = {n \in Figures!Live : /\ posted[n].outlet = o /\ posted[n].complaint
                                       /\ posted[n].status = "resolved"
                                       /\ Figures!In(posted[n].resolvedAt, range)}
  BY DEF OpenOf, ResolvedOf
<1>2. Figures!OpenComplaints(range, extra) \subseteq Figures!Live
  BY DEF Figures!OpenComplaints
<1>3. \A o \in S : OpenOf(range, extra)[o] \subseteq Figures!Live /\ ResolvedOf(range)[o] \subseteq Figures!Live
  BY <1>1, <1>2
<1>4. \A o \in S : IsFiniteSet(OpenOf(range, extra)[o]) /\ IsFiniteSet(ResolvedOf(range)[o])
  BY <1>3, FiniteReviews, FS_Subset
<1>5. \A o, p \in S : o # p => /\ OpenOf(range, extra)[o] \cap OpenOf(range, extra)[p] = {}
                               /\ ResolvedOf(range)[o] \cap ResolvedOf(range)[p] = {}
  BY <1>1
<1>. QED
  BY <1>4, <1>5 DEF Apart

\* The sum over the outlets shown, of the open complaints.
LEMMA OpenSum ==
  ASSUME Figures!TypeOK, NEW range
  PROVE  Figures!OpenOfShown(range) = Cardinality(Together(OpenOf(range, 51), Figures!Shown))
<1>. DEFINE S == Figures!Shown
            F == OpenOf(range, 51)
            f == Counts(F, S)
            iter(h) == h = [s \in SUBSET S |->
                              IF s = {} THEN 0
                              ELSE Figures!TotalFeedbacks(Pick(s), range) + h[s \ {Pick(s)}]]
            total == CHOOSE h : iter(h)
<1>1. S \subseteq Shop /\ IsFiniteSet(S)
  <2>1. S \subseteq Shop
    BY DEF Figures!Shown
  <2>. QED
    BY <2>1, DashboardAssumption, FS_Subset
<1>2. Apart(F, S) /\ f \in [S -> Int]
  BY <1>1, OfOutlets, CountsWhole
<1>3. \A o \in S : f[o] = Figures!TotalFeedbacks(o, range)
  BY <1>1, FigureCount DEF Counts, OpenOf, Figures!TotalFeedbacks
<1>4. Figures!OpenOfShown(range) = total[S]
  BY DEF Figures!OpenOfShown, Figures!MapThenSumSet, Figures!MapThenFoldSet, Pick
<1>. HIDE DEF S, F, f
<1>5. \A h : iter(h) <=> Summing(h, f, S)
  <2>1. \A s \in SUBSET S : s # {} => Pick(s) \in S
    BY DEF Pick
  <2>2. ASSUME NEW h
        PROVE  [s \in SUBSET S |-> IF s = {} THEN 0
                                   ELSE Figures!TotalFeedbacks(Pick(s), range) + h[s \ {Pick(s)}]]
                 = [s \in SUBSET S |-> IF s = {} THEN 0 ELSE f[Pick(s)] + h[s \ {Pick(s)}]]
    BY <1>3, <2>1
  <2>. QED
    BY <2>2 DEF Summing
<1>6. \E h : iter(h)
  <2>1. \E h : Summing(h, f, S)
    BY <1>1, <1>2, SummingExists
  <2>. HIDE DEF iter
  <2>. QED
    BY <1>5, <2>1
<1>7. iter(total)
  BY <1>6
<1>. HIDE DEF total, iter
<1>8. Adds(total, f, S)
  BY <1>1, <1>2, <1>5, <1>7, SummingAdds
<1>9. total[S] = Cardinality(Together(F, S))
  BY <1>1, <1>2, <1>8, CountsAdd DEF f
<1>. QED
  BY <1>4, <1>9 DEF S, F

\* The sum over the outlets shown, of the resolved complaints.
LEMMA ResolvedSum ==
  ASSUME Figures!TypeOK, NEW range
  PROVE  Figures!ResolvedOfShown(range) = Cardinality(Together(ResolvedOf(range), Figures!Shown))
<1>. DEFINE S == Figures!Shown
            F == ResolvedOf(range)
            f == Counts(F, S)
            iter(h) == h = [s \in SUBSET S |->
                              IF s = {} THEN 0
                              ELSE Figures!ResolvedFeedbacks(Pick(s), range) + h[s \ {Pick(s)}]]
            total == CHOOSE h : iter(h)
<1>1. S \subseteq Shop /\ IsFiniteSet(S)
  <2>1. S \subseteq Shop
    BY DEF Figures!Shown
  <2>. QED
    BY <2>1, DashboardAssumption, FS_Subset
<1>2. Apart(F, S) /\ f \in [S -> Int]
  BY <1>1, OfOutlets, CountsWhole
<1>3. \A o \in S : f[o] = Figures!ResolvedFeedbacks(o, range)
  BY <1>1, FigureCount DEF Counts, ResolvedOf, Figures!ResolvedFeedbacks
<1>4. Figures!ResolvedOfShown(range) = total[S]
  BY DEF Figures!ResolvedOfShown, Figures!MapThenSumSet, Figures!MapThenFoldSet, Pick
<1>. HIDE DEF S, F, f
<1>5. \A h : iter(h) <=> Summing(h, f, S)
  <2>1. \A s \in SUBSET S : s # {} => Pick(s) \in S
    BY DEF Pick
  <2>2. ASSUME NEW h
        PROVE  [s \in SUBSET S |-> IF s = {} THEN 0
                                   ELSE Figures!ResolvedFeedbacks(Pick(s), range) + h[s \ {Pick(s)}]]
                 = [s \in SUBSET S |-> IF s = {} THEN 0 ELSE f[Pick(s)] + h[s \ {Pick(s)}]]
    BY <1>3, <2>1
  <2>. QED
    BY <2>2 DEF Summing
<1>6. \E h : iter(h)
  <2>1. \E h : Summing(h, f, S)
    BY <1>1, <1>2, SummingExists
  <2>. HIDE DEF iter
  <2>. QED
    BY <1>5, <2>1
<1>7. iter(total)
  BY <1>6
<1>. HIDE DEF total, iter
<1>8. Adds(total, f, S)
  BY <1>1, <1>2, <1>5, <1>7, SummingAdds
<1>9. total[S] = Cardinality(Together(F, S))
  BY <1>1, <1>2, <1>8, CountsAdd DEF f
<1>. QED
  BY <1>4, <1>9 DEF S, F

\* The figures of an outlet: each is a part of the next.
LEMMA FeedbackNested ==
  ASSUME Figures!TypeOK, NEW range, NEW o \in Shop
  PROVE  /\ Figures!CriticalAt(o, range) <= Figures!NegativeFeedbacks(o, range)
         /\ Figures!NegativeFeedbacks(o, range) <= Figures!TotalFeedbacks(o, range)
         /\ Figures!TotalFeedbacks(o, range) + Figures!ResolvedFeedbacks(o, range)
              <= Figures!Cardinality({n \in Figures!Live : posted[n].outlet = o})
<1>. DEFINE own == {n \in Figures!Live : posted[n].outlet = o}
            open(extra) == {n \in Figures!OpenComplaints(range, extra) : posted[n].outlet = o}
            done == {n \in Figures!Live : /\ posted[n].outlet = o /\ posted[n].complaint
                                          /\ posted[n].status = "resolved"
                                          /\ Figures!In(posted[n].resolvedAt, range)}
<1>1. /\ Figures!CriticalAt(o, range) = Cardinality(open(20))
      /\ Figures!NegativeFeedbacks(o, range) = Cardinality(open(25))
      /\ Figures!TotalFeedbacks(o, range) = Cardinality(open(51))
      /\ Figures!ResolvedFeedbacks(o, range) = Cardinality(done)
      /\ Figures!Cardinality(own) = Cardinality(own)
  BY FigureCount DEF Figures!CriticalAt, Figures!OpenCritical, Figures!NegativeFeedbacks,
                     Figures!TotalFeedbacks, Figures!ResolvedFeedbacks
<1>2. own \subseteq Figures!Live /\ done \subseteq own /\ \A extra : open(extra) \subseteq own
  BY DEF Figures!OpenComplaints
<1>3. \A n \in own : posted[n].rating \in Nat
  BY <1>2, FiniteReviews, ReviewFields
<1>4. open(20) \subseteq open(25) /\ open(25) \subseteq open(51)
  BY <1>2, <1>3, OpenReviews
<1>5. open(51) \cap done = {}
  BY OpenReviews
<1>. HIDE DEF own, open, done
<1>6. IsFiniteSet(own) /\ IsFiniteSet(done) /\ \A extra : IsFiniteSet(open(extra))
  <2>1. IsFiniteSet(own)
    BY <1>2, FiniteReviews, FS_Subset
  <2>. QED
    BY <1>2, <2>1, FS_Subset
<1>7. Cardinality(open(20)) <= Cardinality(open(25)) /\ Cardinality(open(25)) <= Cardinality(open(51))
  BY <1>4, <1>6, FS_Subset
<1>8. Cardinality(open(51)) + Cardinality(done) <= Cardinality(own)
  <2>1. Cardinality(open(51)) \in Nat /\ Cardinality(done) \in Nat /\ Cardinality({}) = 0
    BY <1>6, FS_CardinalityType, FS_EmptySet
  <2>2. Cardinality(open(51) \cup done)
          = Cardinality(open(51)) + Cardinality(done) - Cardinality(open(51) \cap done)
    BY <1>6, FS_Union
  <2>3. Cardinality(open(51) \cap done) = 0
    BY <1>5, <2>1
  <2>4. open(51) \cup done \subseteq own
    BY <1>2
  <2>5. Cardinality(open(51) \cup done) <= Cardinality(own)
    BY <1>6, <2>4, FS_Subset
  <2>. QED
    BY <2>1, <2>2, <2>3, <2>5
<1>. QED
  BY <1>1, <1>7, <1>8 DEF own

LEMMA FeedbackOf ==
  ASSUME Figures!TypeOK
  PROVE  Figures!FeedbackAddsUp
<1>1. ASSUME NEW range PROVE Figures!TotalOpenIncidents(range) = Figures!OpenOfShown(range)
  <2>1. Figures!OfShown(Figures!OpenComplaints(range, 51)) = Together(OpenOf(range, 51), Figures!Shown)
    <3>1. \A o \in Figures!Shown : OpenOf(range, 51)[o] = {n \in Figures!OpenComplaints(range, 51) : posted[n].outlet = o}
      BY DEF OpenOf, Figures!Shown
    <3>. QED
      BY <3>1 DEF Together, Figures!OfShown
  <2>. QED
    BY <2>1, OpenSum, FigureCount DEF Figures!TotalOpenIncidents
<1>2. \A range : \A o \in Figures!Shown :
        /\ Figures!CriticalAt(o, range) <= Figures!NegativeFeedbacks(o, range)
        /\ Figures!NegativeFeedbacks(o, range) <= Figures!TotalFeedbacks(o, range)
        /\ Figures!TotalFeedbacks(o, range) + Figures!ResolvedFeedbacks(o, range)
             <= Figures!Cardinality({n \in Figures!Live : posted[n].outlet = o})
  <2>1. Figures!Shown \subseteq Shop
    BY DEF Figures!Shown
  <2>. QED
    BY <2>1, FeedbackNested
<1>3. Figures!ResolvedToday <= Figures!ResolvedOfShown(Figures!Always)
  <2>. DEFINE all == Together(ResolvedOf(Figures!Always), Figures!Shown)
              solved == {n \in Figures!OfShown(Figures!Live) :
                 /\ posted[n].complaint /\ posted[n].status = "resolved"
                 /\ Figures!In(posted[n].resolvedAt,
                      [from |-> Figures!DayStart(now), to |-> Figures!DayStart(now) + Figures!Day - 1])}
  <2>1. Figures!ResolvedToday = Cardinality(solved)
    BY FigureCount DEF Figures!ResolvedToday
  <2>2. \A n \in Figures!Live : Figures!In(posted[n].resolvedAt, Figures!Always)
    <3>1. Figures!In(0, Figures!Always)
      <4>1. Figures!Always.from = 0 /\ Figures!Always.to = Figures!Max(Instants)
        BY DEF Figures!Always
      <4>2. \A t \in Instants : t \in 0..Figures!Max(Instants)
        BY MomentsWhole
      <4>3. 0 \in 0..Figures!Max(Instants)
        <5>1. PICK t \in Instants : t \in Nat
          BY DashboardAssumption
        <5>2. Figures!Max(Instants) \in Nat
          <6>1. Instants \subseteq Int
            BY DashboardAssumption
          <6>2. Figures!Max(Instants) \in Instants
            BY <6>1, DashboardAssumption, FigureExtremes
          <6>. QED
            BY <6>2, DashboardAssumption
        <5>. QED
          BY <5>2
      <4>. QED
        BY <4>1, <4>3 DEF Figures!In
    <3>2. \A n \in Figures!Live : posted[n].resolvedAt \in Instants \cup {0}
      BY FiniteReviews, ReviewFields
    <3>. QED
      BY <3>1, <3>2, AlwaysIn
  <2>3. solved \subseteq all
    <3>1. \A o \in Figures!Shown : ResolvedOf(Figures!Always)[o]
            = {n \in Figures!Live : /\ posted[n].outlet = o /\ posted[n].complaint
                                    /\ posted[n].status = "resolved"
                                    /\ Figures!In(posted[n].resolvedAt, Figures!Always)}
      BY DEF ResolvedOf, Figures!Shown
    <3>2. \A n \in solved : n \in Figures!Live /\ posted[n].outlet \in Figures!Shown
                           /\ posted[n].complaint /\ posted[n].status = "resolved"
      BY DEF Figures!OfShown
    <3>3. \A n \in solved : n \in ResolvedOf(Figures!Always)[posted[n].outlet]
      BY <2>2, <3>1, <3>2
    <3>. QED
      BY <3>2, <3>3 DEF Together
  <2>. HIDE DEF solved
  <2>4. all \subseteq Figures!Live
    BY DEF Together, ResolvedOf, Figures!Shown
  <2>. HIDE DEF all
  <2>5. IsFiniteSet(all)
    BY <2>4, FiniteReviews, FS_Subset
  <2>6. Cardinality(solved) <= Cardinality(all)
    BY <2>3, <2>5, FS_Subset
  <2>. QED
    BY <2>1, <2>6, ResolvedSum DEF all
<1>. QED
  BY <1>1, <1>2, <1>3 DEF Figures!FeedbackAddsUp

-------------------------------------------------------------------------------
(* The trend                                                                *)

LEMMA FigureMin ==
  ASSUME NEW a \in Int, NEW b \in Int
  PROVE  /\ Figures!Min({a, b}) \in {a, b} /\ Figures!Min({a, b}) <= a /\ Figures!Min({a, b}) <= b
         /\ Figures!Max({a, b}) \in {a, b} /\ Figures!Max({a, b}) >= a /\ Figures!Max({a, b}) >= b
<1>1. IsFiniteSet({a, b})
  <2>1. {a, b} = {a} \cup {b}
    OBVIOUS
  <2>2. IsFiniteSet({a})
    BY FS_Singleton
  <2>3. IsFiniteSet({a} \cup {b})
    BY <2>2, FS_AddElement
  <2>. QED
    BY <2>1, <2>3
<1>2. {a, b} \subseteq Int /\ {a, b} # {} /\ a \in {a, b} /\ b \in {a, b}
  OBVIOUS
<1>3. /\ Figures!Max({a, b}) \in {a, b} /\ \A x \in {a, b} : x <= Figures!Max({a, b})
      /\ Figures!Min({a, b}) \in {a, b} /\ \A x \in {a, b} : Figures!Min({a, b}) <= x
  BY <1>1, <1>2, FigureExtremes
<1>4. Figures!Max({a, b}) \in Int
  BY <1>3
<1>. QED
  BY <1>3, <1>4

LEMMA PartOfWhole ==
  ASSUME NEW x \in Nat, NEW d \in Nat \ {0}
  PROVE  x \div d \in Nat
OBVIOUS

LEMMA TimesWhole ==
  ASSUME NEW x \in Nat, NEW d \in Nat
  PROVE  x * d \in Nat
OBVIOUS

\* A window of time in whole units.
Span(window) == window.from \in Int /\ window.to \in Int

LEMMA InSpan ==
  ASSUME NEW window, Span(window), NEW t \in Int
  PROVE  Figures!In(t, window) <=> window.from <= t /\ t <= window.to
BY DEF Figures!In, Span

\* The bucket of a moment of the window is one of the buckets.
LEMMA BucketInRange ==
  ASSUME NEW window, Span(window), NEW b \in Nat \ {0}, NEW t \in Int, Figures!In(t, window)
  PROVE  Figures!BucketOf(t, window, b) \in 0..b - 1
<1>1. PICK f \in Int : f = window.from
  BY DEF Span
<1>2. PICK u \in Int : u = window.to
  BY DEF Span
<1>3. f <= t /\ t <= u
  BY <1>1, <1>2, InSpan
<1>4. PICK d : d = Figures!Max({b, u - f})
  OBVIOUS
<1>5. d \in Nat \ {0}
  <2>1. b \in Int /\ u - f \in Int
    OBVIOUS
  <2>2. d \in {b, u - f} /\ d >= b
    BY <1>4, <2>1, FigureMin
  <2>. QED
    BY <2>1, <2>2
<1>6. PICK x : x = (t - f) * b
  OBVIOUS
<1>7. x \in Nat
  <2>1. t - f \in Nat /\ b \in Nat
    BY <1>3
  <2>. QED
    BY <1>6, <2>1, TimesWhole
<1>8. PICK y : y = x \div d
  OBVIOUS
<1>9. y \in Nat
  BY <1>5, <1>7, <1>8, PartOfWhole
<1>10. PICK z : z = Figures!Min({b - 1, y})
  OBVIOUS
<1>11. z \in {b - 1, y} /\ z <= b - 1
  <2>1. b - 1 \in Int /\ y \in Int
    BY <1>9
  <2>. QED
    BY <1>10, <2>1, FigureMin
<1>12. Figures!BucketOf(t, window, b) = z
  BY <1>1, <1>2, <1>4, <1>6, <1>8, <1>10 DEF Figures!BucketOf
<1>. QED
  BY <1>9, <1>11, <1>12

Buckets(window, b) == [i \in 0..b - 1 |-> Figures!Bucket(window, b, i)]

\* The buckets of a window have its reviews, each once.
LEMMA TrendSum ==
  ASSUME Figures!TypeOK, NEW window, Span(window), NEW b \in Nat \ {0}
  PROVE  Figures!TrendTotal(window, b)
           = Cardinality({n \in Figures!Live : Figures!In(posted[n].at, window)})
<1>. DEFINE S == 0..b - 1
            F == Buckets(window, b)
            f == Counts(F, S)
            iter(h) == h = [s \in SUBSET S |->
                              IF s = {} THEN 0
                              ELSE Figures!Cardinality(Figures!Bucket(window, b, Pick(s))) + h[s \ {Pick(s)}]]
            total == CHOOSE h : iter(h)
<1>1. IsFiniteSet(S)
  <2>1. 0 \in Int /\ b - 1 \in Int
    OBVIOUS
  <2>. QED
    BY <2>1, FS_Interval
<1>2. \A i \in S : F[i] = Figures!Bucket(window, b, i)
  BY DEF Buckets
<1>3. Apart(F, S) /\ f \in [S -> Int]
  <2>. HIDE DEF F
  <2>1. \A i \in S : F[i] \subseteq Figures!Live
    BY <1>2 DEF Figures!Bucket
  <2>2. \A i \in S : IsFiniteSet(F[i])
    BY <2>1, FiniteReviews, FS_Subset
  <2>3. \A i, j \in S : i # j => F[i] \cap F[j] = {}
    BY <1>2 DEF Figures!Bucket
  <2>4. Apart(F, S)
    BY <2>2, <2>3 DEF Apart
  <2>. QED
    BY <2>4, CountsWhole
<1>4. \A i \in S : f[i] = Figures!Cardinality(Figures!Bucket(window, b, i))
  BY <1>2, FigureCount DEF Counts
<1>5. Figures!TrendTotal(window, b) = total[S]
  BY DEF Figures!TrendTotal, Figures!MapThenSumSet, Figures!MapThenFoldSet, Pick
<1>. HIDE DEF S, F, f
<1>6. \A h : iter(h) <=> Summing(h, f, S)
  <2>1. \A s \in SUBSET S : s # {} => Pick(s) \in S
    BY DEF Pick
  <2>2. ASSUME NEW h
        PROVE  [s \in SUBSET S |-> IF s = {} THEN 0
                                   ELSE Figures!Cardinality(Figures!Bucket(window, b, Pick(s))) + h[s \ {Pick(s)}]]
                 = [s \in SUBSET S |-> IF s = {} THEN 0 ELSE f[Pick(s)] + h[s \ {Pick(s)}]]
    BY <1>4, <2>1
  <2>. QED
    BY <2>2 DEF Summing
<1>7. \E h : iter(h)
  <2>1. \E h : Summing(h, f, S)
    BY <1>1, <1>3, SummingExists
  <2>. HIDE DEF iter
  <2>. QED
    BY <1>6, <2>1
<1>8. iter(total)
  BY <1>7
<1>. HIDE DEF total, iter
<1>9. Adds(total, f, S)
  BY <1>1, <1>3, <1>6, <1>8, SummingAdds
<1>10. total[S] = Cardinality(Together(F, S))
  BY <1>1, <1>3, <1>9, CountsAdd DEF f
<1>11. Together(F, S) = {n \in Figures!Live : Figures!In(posted[n].at, window)}
  <2>1. \A n \in Figures!Live : posted[n].at \in Int
    BY FiniteReviews, ReviewFields
  <2>2. \A n \in Figures!Live : Figures!In(posted[n].at, window) =>
          Figures!BucketOf(posted[n].at, window, b) \in S
    BY <2>1, BucketInRange DEF S
  <2>. QED
    BY <1>2, <2>2 DEF Together, Figures!Bucket
<1>. QED
  BY <1>5, <1>10, <1>11

\* The two windows of a period: they end with the moment, do not overlap, and
\* but for 'daily' leave nothing out between them.
LEMMA WindowsMeet ==
  ASSUME Figures!TypeOK, NEW days \in Figures!Periods, NEW w, w = Figures!TrendWindows(days)
  PROVE  /\ Span(w.current) /\ Span(w.previous) /\ w.buckets \in Nat \ {0}
         /\ w.current.to = now /\ w.previous.to < w.current.from
         /\ w.previous.from <= w.current.from
         /\ days # 1 => w.previous.to = w.current.from - 1
<1>1. now \in Int
  BY MomentsWhole DEF Figures!TypeOK
<1>2. ASSUME NEW t \in Int
      PROVE  /\ Figures!DayStart(t) \in Int /\ Figures!DayStart(t) <= t
             /\ t - 96 < Figures!DayStart(t)
  BY DEF Figures!DayStart, Figures!Day, Figures!Hour
<1>3. PICK c \in Int : c = Figures!DayStart(now - (days - 1) * 96)
  <2>1. days \in Int
    BY DEF Figures!Periods
  <2>2. now - (days - 1) * 96 \in Int
    BY <1>1, <2>1
  <2>. QED
    BY <1>2, <2>2
<1>4. Figures!RangeOf(days) = [from |-> c, to |-> now]
  BY <1>3 DEF Figures!RangeOf, Figures!Day, Figures!Hour
<1>5. CASE days = 1
  <2>1. c = Figures!DayStart(now)
    <3>1. now - (1 - 1) * 96 = now
      BY <1>1
    <3>. QED
      BY <1>3, <1>5, <3>1
  <2>2. w = [current |-> [from |-> c, to |-> now], buckets |-> 6,
             previous |-> [from |-> c - 96, to |-> now - 96]]
    BY <1>4, <1>5 DEF Figures!TrendWindows, Figures!Day, Figures!Hour
  <2>3. /\ w.current.from = c /\ w.current.to = now /\ w.buckets = 6
        /\ w.previous.from = c - 96 /\ w.previous.to = now - 96
    BY <2>2
  <2>4. now - 96 < c
    BY <1>1, <1>2, <2>1
  <2>. QED
    BY <1>1, <1>5, <2>3, <2>4 DEF Span
<1>6. CASE days # 1
  <2>1. days \in {7, 30}
    BY <1>6 DEF Figures!Periods
  <2>2. PICK p \in Int : p = Figures!DayStart(c - 1 - (days - 1) * 96) /\ p <= c
    <3>1. PICK t \in Int : t = c - 1 - (days - 1) * 96 /\ t <= c
      <4>1. c - 1 - (days - 1) * 96 \in Int /\ c - 1 - (days - 1) * 96 <= c
        BY <2>1
      <4>. QED
        BY <4>1
    <3>2. Figures!DayStart(t) \in Int /\ Figures!DayStart(t) <= t
      BY <1>2
    <3>3. Figures!DayStart(t) <= c
      BY <3>1, <3>2
    <3>. QED
      BY <3>1, <3>2, <3>3
  <2>3. PICK b \in {6, 7} : b = IF days = 7 THEN 7 ELSE 6
    OBVIOUS
  <2>4. w = [current |-> [from |-> c, to |-> now], buckets |-> b,
             previous |-> [from |-> p, to |-> c - 1]]
    BY <1>4, <1>6, <2>2, <2>3 DEF Figures!TrendWindows, Figures!Day, Figures!Hour
  <2>5. /\ w.current.from = c /\ w.current.to = now /\ w.buckets = b
        /\ w.previous.from = p /\ w.previous.to = c - 1
    BY <2>4
  <2>. QED
    BY <1>1, <2>2, <2>5 DEF Span
<1>. QED
  BY <1>5, <1>6

LEMMA TrendOf ==
  ASSUME DashboardInv
  PROVE  Figures!TrendAddsUp
<1>. SUFFICES ASSUME NEW days \in Figures!Periods, NEW w, w = Figures!TrendWindows(days)
     PROVE  Figures!TrendTotal(w.current, w.buckets) + Figures!TrendTotal(w.previous, w.buckets)
              = Figures!Cardinality({n \in Figures!Live :
                   /\ posted[n].at >= w.previous.from
                   /\ days = 1 => Figures!In(posted[n].at, w.current) \/ Figures!In(posted[n].at, w.previous)})
  BY DEF Figures!TrendAddsUp
<1>1. Figures!TypeOK /\ \A n \in Figures!Live : posted[n].at \in Int /\ posted[n].at <= now
  BY FiniteReviews, ReviewFields DEF DashboardInv
<1>2. /\ Span(w.current) /\ Span(w.previous) /\ w.buckets \in Nat \ {0}
      /\ w.current.to = now /\ w.previous.to < w.current.from
      /\ w.previous.from <= w.current.from
      /\ days # 1 => w.previous.to = w.current.from - 1
  BY <1>1, WindowsMeet
<1>. DEFINE cur == {n \in Figures!Live : Figures!In(posted[n].at, w.current)}
            prev == {n \in Figures!Live : Figures!In(posted[n].at, w.previous)}
            both == {n \in Figures!Live :
                   /\ posted[n].at >= w.previous.from
                   /\ days = 1 => Figures!In(posted[n].at, w.current) \/ Figures!In(posted[n].at, w.previous)}
<1>3. Figures!TrendTotal(w.current, w.buckets) = Cardinality(cur)
  BY <1>1, <1>2, TrendSum
<1>4. Figures!TrendTotal(w.previous, w.buckets) = Cardinality(prev)
  BY <1>1, <1>2, TrendSum
<1>5. PICK c \in Int : c = w.current.from
  BY <1>2 DEF Span
<1>6. PICK p \in Int : p = w.previous.from
  BY <1>2 DEF Span
<1>7. PICK e \in Int : e = w.previous.to
  BY <1>2 DEF Span
<1>8. PICK m \in Int : m = now
  BY <1>2 DEF Span
<1>9. e < c /\ p <= c /\ (days # 1 => e = c - 1)
  BY <1>2, <1>5, <1>6, <1>7
<1>10. \A n \in Figures!Live : /\ n \in cur <=> c <= posted[n].at /\ posted[n].at <= m
                               /\ n \in prev <=> p <= posted[n].at /\ posted[n].at <= e
  BY <1>1, <1>2, <1>5, <1>6, <1>7, <1>8, InSpan
<1>11. cur \cap prev = {}
  <2>. SUFFICES ASSUME NEW n \in cur, n \in prev PROVE FALSE
    OBVIOUS
  <2>1. n \in Figures!Live
    OBVIOUS
  <2>. HIDE DEF cur, prev
  <2>2. PICK t \in Int : t = posted[n].at
    BY <1>1, <2>1
  <2>3. c <= t /\ t <= e
    BY <1>10, <2>1, <2>2
  <2>. QED
    BY <1>9, <2>3
<1>12. both = cur \cup prev
  <2>1. ASSUME NEW n \in Figures!Live PROVE n \in both <=> n \in cur \/ n \in prev
    <3>1. PICK t \in Int : t = posted[n].at
      BY <1>1
    <3>2. t <= m
      BY <1>1, <1>8, <3>1
    <3>3. (n \in cur <=> c <= t /\ t <= m) /\ (n \in prev <=> p <= t /\ t <= e)
      BY <1>10, <3>1
    <3>4. n \in both <=> t >= p /\ (days = 1 => n \in cur \/ n \in prev)
      BY <1>6, <3>1
    <3>. HIDE DEF cur, prev, both
    <3>. QED
      BY <1>9, <3>2, <3>3, <3>4
  <2>2. \A n : n \in both \/ n \in cur \/ n \in prev => n \in Figures!Live
    OBVIOUS
  <2>. HIDE DEF cur, prev, both
  <2>. QED
    BY <2>1, <2>2
<1>13. cur \subseteq Figures!Live /\ prev \subseteq Figures!Live
  OBVIOUS
<1>14. Figures!Cardinality(both) = Cardinality(both)
  BY FigureCount
<1>. HIDE DEF cur, prev, both
<1>15. IsFiniteSet(cur) /\ IsFiniteSet(prev)
  BY <1>1, <1>13, FiniteReviews, FS_Subset
<1>16. Cardinality(both) = Cardinality(cur) + Cardinality(prev)
  <2>1. Cardinality(cur) \in Nat /\ Cardinality(prev) \in Nat /\ Cardinality({}) = 0
    BY <1>15, FS_CardinalityType, FS_EmptySet
  <2>2. Cardinality(cur \cup prev) = Cardinality(cur) + Cardinality(prev) - Cardinality(cur \cap prev)
    BY <1>15, FS_Union
  <2>3. Cardinality(cur \cap prev) = 0
    BY <1>11, <2>1
  <2>. QED
    BY <1>12, <2>1, <2>2, <2>3
<1>. QED
  BY <1>3, <1>4, <1>14, <1>16 DEF both

-------------------------------------------------------------------------------
(* The insights                                                             *)

LEMMA PickIn ==
  ASSUME NEW s, s # {}
  PROVE  Pick(s) \in s
BY DEF Pick

\* The peak window has the most incidents.
LEMMA PeakMost ==
  ASSUME Figures!TypeOK, NEW range
  PROVE  \A w \in 0..7 : Figures!IncidentsIn(w, range) # {} =>
           Figures!Cardinality(Figures!IncidentsIn(w, range))
             <= Figures!Cardinality(Figures!IncidentsIn(Figures!PeakWindow(range), range))
<1>. DEFINE S == {w \in 0..7 : Figures!IncidentsIn(w, range) # {}}
            V == -1..7
            many(w) == Figures!Cardinality(Figures!IncidentsIn(w, range))
            step == [p \in S \X V |-> IF p[2] = -1 \/ many(p[1]) > many(p[2]) THEN p[1] ELSE p[2]]
            iter(h) == h = [s \in SUBSET S |->
                              IF s = {} THEN -1
                              ELSE IF h[s \ {Pick(s)}] = -1 \/ many(Pick(s)) > many(h[s \ {Pick(s)}])
                                     THEN Pick(s) ELSE h[s \ {Pick(s)}]]
            best == CHOOSE h : iter(h)
<1>1. IsFiniteSet(S) /\ S \subseteq 0..7
  <2>1. 0 \in Int /\ 7 \in Int
    OBVIOUS
  <2>2. IsFiniteSet(0..7)
    BY <2>1, FS_Interval
  <2>. QED
    BY <2>2, FS_Subset
<1>2. -1 \in V /\ step \in [S \X V -> V]
  <2>1. \A w \in S : w \in V
    BY <1>1
  <2>2. \A p \in S \X V : p[1] \in V /\ p[2] \in V
    BY <2>1
  <2>. QED
    BY <2>2
<1>3. \A w \in 0..7 : many(w) \in Nat
  <2>1. \A w : Figures!IncidentsIn(w, range) \subseteq Figures!Live
    BY DEF Figures!IncidentsIn, Figures!OpenComplaints
  <2>2. \A w : IsFiniteSet(Figures!IncidentsIn(w, range))
    BY <2>1, FiniteReviews, FS_Subset
  <2>. QED
    BY <2>2, FigureCount, FS_CardinalityType
<1>4. Figures!PeakWindow(range) = best[S]
  BY DEF Figures!PeakWindow, Figures!FoldSet, Figures!MapThenFoldSet, Figures!Better, Pick
<1>5. \A w \in S, v \in V : step[<<w, v>>] = IF v = -1 \/ many(w) > many(v) THEN w ELSE v
  OBVIOUS
<1>. HIDE DEF S, V, step, many
<1>6. \E h : iter(h)
  <2>1. PICK h : Folds(h, S, V, -1, step)
    BY <1>1, <1>2, FoldExists
  <2>2. h = [s \in SUBSET S |-> h[s]] /\ h[{}] = -1
    BY <2>1 DEF Folds
  <2>3. ASSUME NEW s \in SUBSET S, s # {}
        PROVE  h[s] = IF h[s \ {Pick(s)}] = -1 \/ many(Pick(s)) > many(h[s \ {Pick(s)}])
                        THEN Pick(s) ELSE h[s \ {Pick(s)}]
    <3>1. Pick(s) \in S /\ s \ {Pick(s)} \in SUBSET S
      BY <2>3, PickIn
    <3>2. h[s \ {Pick(s)}] \in V /\ h[s] = step[<<Pick(s), h[s \ {Pick(s)}]>>]
      BY <2>1, <2>3, <3>1 DEF Folds
    <3>. QED
      BY <1>5, <3>1, <3>2
  <2>4. iter(h)
    BY <2>2, <2>3
  <2>. HIDE DEF iter
  <2>. QED
    BY <2>4
<1>7. iter(best)
  BY <1>6
<1>8. /\ best[{}] = -1
      /\ \A s \in SUBSET S : s # {} =>
           best[s] = IF best[s \ {Pick(s)}] = -1 \/ many(Pick(s)) > many(best[s \ {Pick(s)}])
                       THEN Pick(s) ELSE best[s \ {Pick(s)}]
  <2>. HIDE DEF best
  <2>. QED
    BY <1>7
<1>. HIDE DEF best, iter
<1>. DEFINE T == {s \in SUBSET S : s # {} => best[s] \in s /\ \A w \in s : many(w) <= many(best[s])}
<1>9. {} \in T
  OBVIOUS
<1>10. ASSUME NEW s \in SUBSET S, s # {}, \A x \in s : s \ {x} \in T PROVE s \in T
  <2>1. PICK x \in s : x = Pick(s)
    BY <1>10, PickIn
  <2>2. PICK b : b = best[s \ {x}]
    OBVIOUS
  <2>3. best[s] = IF b = -1 \/ many(x) > many(b) THEN x ELSE b
    BY <1>8, <1>10, <2>1, <2>2
  <2>4. x \in 0..7 /\ many(x) \in Nat
    BY <1>1, <1>3
  <2>5. CASE s \ {x} = {}
    <3>1. b = -1 /\ \A w \in s : w = x
      BY <1>8, <2>2, <2>5
    <3>. QED
      BY <2>3, <2>4, <3>1
  <2>6. CASE s \ {x} # {}
    <3>1. b \in s \ {x} /\ \A w \in s \ {x} : many(w) <= many(b)
      BY <1>10, <2>2, <2>6
    <3>2. b \in 0..7 /\ b # -1 /\ many(b) \in Nat
      BY <1>1, <1>3, <3>1
    <3>3. CASE many(x) > many(b)
      <4>1. best[s] = x
        BY <2>3, <3>3
      <4>2. \A w \in s : many(w) \in Nat
        BY <1>1, <1>3
      <4>3. \A w \in s : many(w) <= many(x)
        BY <2>4, <3>1, <3>2, <3>3, <4>2
      <4>. QED
        BY <4>1, <4>3
    <3>4. CASE ~(many(x) > many(b))
      <4>1. best[s] = b
        BY <2>3, <3>2, <3>4
      <4>2. \A w \in s : many(w) <= many(b)
        BY <2>4, <3>1, <3>2, <3>4
      <4>. QED
        BY <3>1, <4>1, <4>2
    <3>. QED
      BY <3>3, <3>4
  <2>. QED
    BY <2>5, <2>6
<1>. HIDE DEF T
<1>11. S \in T
  <2>1. IsFiniteSet(S) /\ S \in SUBSET S
    BY <1>1
  <2>2. \A s \in SUBSET S : s # {} /\ (\A x \in s : s \ {x} \in T) => s \in T
    BY <1>10
  <2>3. \A s \in SUBSET S : s \in T
    BY <1>9, <2>1, <2>2, SubsetInduction
  <2>. QED
    BY <2>1, <2>3
<1>12. \A w \in S : many(w) <= many(best[S])
  BY <1>11 DEF T
<1>. QED
  BY <1>4, <1>12 DEF S, many

Marks == [n \in DOMAIN posted |-> posted[n].rating]

LEMMA MarksAdd ==
  ASSUME Figures!TypeOK
  PROVE  /\ Marks \in [DOMAIN posted -> Int]
         /\ \E k : Adds(k, Marks, DOMAIN posted)
<1>1. Marks \in [DOMAIN posted -> Int]
  BY ReviewFields DEF Marks
<1>2. PICK k : Summing(k, Marks, DOMAIN posted)
  BY <1>1, FiniteReviews, SummingExists
<1>. QED
  BY <1>1, <1>2, FiniteReviews, SummingAdds

\* An average is the sum of the ratings and their number, whatever the order in
\* which they are added.
LEMMA AverageIs ==
  ASSUME Figures!TypeOK, NEW k, Adds(k, Marks, DOMAIN posted), NEW X \in SUBSET DOMAIN posted
  PROVE  /\ Figures!Avg(X) = <<k[X], Cardinality(X)>>
         /\ k[X] \in Int /\ Cardinality(X) \in Nat /\ IsFiniteSet(X)
<1>. DEFINE f == [n \in X |-> posted[n].rating]
            iter(h) == h = [s \in SUBSET X |->
                              IF s = {} THEN 0 ELSE posted[Pick(s)].rating + h[s \ {Pick(s)}]]
            total == CHOOSE h : iter(h)
<1>1. IsFiniteSet(X) /\ f \in [X -> Int] /\ \A n \in X : f[n] = posted[n].rating /\ f[n] = Marks[n]
  BY ReviewFields, FiniteReviews, FS_Subset DEF Marks
<1>2. Figures!Avg(X) = <<total[X], Cardinality(X)>>
  BY FigureCount DEF Figures!Avg, Figures!FoldSet, Figures!MapThenFoldSet, Pick
<1>. HIDE DEF f
<1>3. \A h : iter(h) <=> Summing(h, f, X)
  <2>1. \A s \in SUBSET X : s # {} => Pick(s) \in X
    BY DEF Pick
  <2>2. ASSUME NEW h
        PROVE  [s \in SUBSET X |-> IF s = {} THEN 0 ELSE posted[Pick(s)].rating + h[s \ {Pick(s)}]]
                 = [s \in SUBSET X |-> IF s = {} THEN 0 ELSE f[Pick(s)] + h[s \ {Pick(s)}]]
    BY <1>1, <2>1
  <2>. QED
    BY <2>2 DEF Summing
<1>4. \E h : iter(h)
  <2>1. \E h : Summing(h, f, X)
    BY <1>1, SummingExists
  <2>. HIDE DEF iter
  <2>. QED
    BY <1>3, <2>1
<1>5. iter(total)
  BY <1>4
<1>. HIDE DEF total, iter
<1>6. Adds(total, f, X)
  BY <1>1, <1>3, <1>5, SummingAdds
<1>7. \A s \in SUBSET X : total[s] = k[s]
  BY <1>1, <1>6, AddsAgree
<1>8. k[X] \in Int
  BY DEF Adds
<1>. QED
  BY <1>1, <1>2, <1>7, <1>8, FS_CardinalityType

\* The reviews of an outlet, and of all, in a range.
OwnIn(o, range) == {n \in Figures!Live : posted[n].outlet = o /\ Figures!In(posted[n].at, range)}

AllIn(range) == {n \in Figures!Live : Figures!In(posted[n].at, range)}

LEMMA OutletAverage ==
  ASSUME Figures!TypeOK, NEW k, Adds(k, Marks, DOMAIN posted), NEW o, NEW range
  PROVE  /\ Figures!AvgOf(o, range) = <<k[OwnIn(o, range)], Cardinality(OwnIn(o, range))>>
         /\ k[OwnIn(o, range)] \in Int /\ Cardinality(OwnIn(o, range)) \in Nat
<1>1. OwnIn(o, range) \in SUBSET DOMAIN posted
  BY FiniteReviews DEF OwnIn
<1>2. Figures!AvgOf(o, range) = Figures!Avg(OwnIn(o, range))
  BY DEF Figures!AvgOf, OwnIn
<1>. QED
  BY <1>1, <1>2, AverageIs

\* Rounded averages are whole tenths.
LEMMA QuotientWhole ==
  ASSUME NEW x \in Int, NEW d \in Nat \ {0}
  PROVE  x \div d \in Int
OBVIOUS

LEMMA TenthsWhole ==
  ASSUME NEW s \in Int, NEW c \in Nat
  PROVE  /\ Figures!Tenths(<<s, c>>) \in Int
         /\ c # 0 => Figures!Tenths(<<s, c>>) = (2 * s + c) \div (2 * c)
         /\ c = 0 => Figures!Tenths(<<s, c>>) = 0
<1>1. <<s, c>>[1] = s /\ <<s, c>>[2] = c
  OBVIOUS
<1>2. c # 0 => Figures!Tenths(<<s, c>>) = (2 * s + c) \div (2 * c)
  BY <1>1 DEF Figures!Tenths
<1>3. c = 0 => Figures!Tenths(<<s, c>>) = 0
  BY <1>1 DEF Figures!Tenths
<1>4. c # 0 => (2 * s + c) \div (2 * c) \in Int
  <2>. SUFFICES ASSUME c # 0 PROVE (2 * s + c) \div (2 * c) \in Int
    OBVIOUS
  <2>1. 2 * s + c \in Int /\ 2 * c \in Nat \ {0}
    OBVIOUS
  <2>. QED
    BY <2>1, QuotientWhole
<1>. QED
  BY <1>2, <1>3, <1>4

LEMMA ProductWhole ==
  ASSUME NEW a \in Int, NEW b \in Int
  PROVE  a * b \in Int
OBVIOUS

LEMMA ImprovementWhole ==
  ASSUME Figures!TypeOK, NEW o, NEW range
  PROVE  Figures!Improvement(o, range) \in Int
<1>1. PICK k : Adds(k, Marks, DOMAIN posted)
  BY MarksAdd
<1>2. PICK before : before = [from |-> range.from - 1 - (range.to - range.from), to |-> range.from - 1]
  OBVIOUS
<1>3. PICK s \in Int, c \in Nat : Figures!AvgOf(o, range) = <<s, c>>
  BY <1>1, OutletAverage
<1>4. PICK t \in Int, e \in Nat : Figures!AvgOf(o, before) = <<t, e>>
  BY <1>1, OutletAverage
<1>5. PICK d \in Nat : d = IF e = 0 THEN 1 ELSE e
  OBVIOUS
<1>6. Figures!Improvement(o, range) = Figures!Tenths(<<s * d - t * c, c * d>>)
  <2>1. PICK cur : cur = Figures!AvgOf(o, range)
    OBVIOUS
  <2>2. PICK old : old = Figures!AvgOf(o, before)
    OBVIOUS
  <2>3. Figures!Improvement(o, range)
          = Figures!Tenths(<<cur[1] * (IF old[2] = 0 THEN 1 ELSE old[2]) - old[1] * cur[2],
                             cur[2] * (IF old[2] = 0 THEN 1 ELSE old[2])>>)
    BY <1>2, <2>1, <2>2 DEF Figures!Improvement
  <2>4. cur[1] = s /\ cur[2] = c /\ old[1] = t /\ old[2] = e
    BY <1>3, <1>4, <2>1, <2>2
  <2>. QED
    BY <1>5, <2>3, <2>4
<1>7. s * d - t * c \in Int /\ c * d \in Nat
  BY ProductWhole, TimesWhole
<1>. QED
  BY <1>6, <1>7, TenthsWhole

\* What a reduce keeps that replaces the best so far when the next one wins
\* against it: one than which none is greater.
Kept(h, f, S) ==
  \A s \in SUBSET S : s # {} =>
    \E b \in s : h[s] = {b} /\ \A o \in s : f[o] <= f[b]

Reduced(h, wins, S) ==
  /\ h[{}] = {}
  /\ \A s \in SUBSET S : s # {} =>
       h[s] = IF h[s \ {Pick(s)}] = {} \/ \E b \in h[s \ {Pick(s)}] : <<Pick(s), b>> \in wins
                THEN {Pick(s)} ELSE h[s \ {Pick(s)}]

LEMMA ReducedKeeps ==
  ASSUME NEW S, IsFiniteSet(S), NEW f \in [S -> Int], NEW wins, NEW h, Reduced(h, wins, S),
         \A o, p \in S : /\ <<o, p>> \in wins => f[o] >= f[p]
                         /\ <<o, p>> \notin wins => f[o] <= f[p]
  PROVE  Kept(h, f, S)
<1>. DEFINE T == {s \in SUBSET S : s # {} => \E b \in s : h[s] = {b} /\ \A o \in s : f[o] <= f[b]}
<1>1. {} \in T
  OBVIOUS
<1>2. ASSUME NEW s \in SUBSET S, s # {}, \A x \in s : s \ {x} \in T PROVE s \in T
  <2>1. PICK x \in s : x = Pick(s)
    BY <1>2, PickIn
  <2>2. PICK r : r = h[s \ {x}]
    OBVIOUS
  <2>3. h[s] = IF r = {} \/ \E b \in r : <<x, b>> \in wins THEN {x} ELSE r
    BY <1>2, <2>1, <2>2 DEF Reduced
  <2>4. x \in S /\ f[x] \in Int
    OBVIOUS
  <2>5. CASE s \ {x} = {}
    <3>1. r = {} /\ \A o \in s : o = x
      BY <2>2, <2>5 DEF Reduced
    <3>2. h[s] = {x} /\ \A o \in s : f[o] <= f[x]
      BY <2>3, <2>4, <3>1
    <3>. QED
      BY <3>2
  <2>6. CASE s \ {x} # {}
    <3>1. PICK b \in s \ {x} : r = {b} /\ \A o \in s \ {x} : f[o] <= f[b]
      BY <1>2, <2>2, <2>6
    <3>2. b \in S /\ f[b] \in Int
      BY <3>1
    <3>3. h[s] = IF <<x, b>> \in wins THEN {x} ELSE {b}
      BY <2>3, <3>1
    <3>4. CASE <<x, b>> \in wins
      <4>1. f[x] >= f[b]
        BY <2>4, <3>2, <3>4
      <4>2. \A o \in s : f[o] \in Int /\ (o = x \/ f[o] <= f[b])
        BY <3>1
      <4>3. \A o \in s : f[o] <= f[x]
        BY <2>4, <3>2, <4>1, <4>2
      <4>. QED
        BY <3>3, <3>4, <4>3
    <3>5. CASE <<x, b>> \notin wins
      <4>1. f[x] <= f[b]
        BY <2>4, <3>2, <3>5
      <4>2. \A o \in s : o = x \/ f[o] <= f[b]
        BY <3>1
      <4>3. \A o \in s : f[o] <= f[b]
        BY <4>1, <4>2
      <4>. QED
        BY <3>1, <3>3, <3>5, <4>3
    <3>. QED
      BY <3>4, <3>5
  <2>. QED
    BY <2>5, <2>6
<1>. HIDE DEF T
<1>3. \A s \in SUBSET S : s \in T
  BY <1>1, <1>2, SubsetInduction
<1>. QED
  BY <1>3 DEF Kept, T

\* Such a reduce exists.
Reducing(h, wins, S) ==
  h = [s \in SUBSET S |->
         IF s = {} THEN {}
         ELSE IF h[s \ {Pick(s)}] = {} \/ \E b \in h[s \ {Pick(s)}] : <<Pick(s), b>> \in wins
                THEN {Pick(s)} ELSE h[s \ {Pick(s)}]]

LEMMA ReducingExists ==
  ASSUME NEW S, IsFiniteSet(S), NEW wins
  PROVE  \E h : Reducing(h, wins, S) /\ h \in [SUBSET S -> SUBSET S]
<1>. DEFINE V == SUBSET S
            step == [p \in S \X V |-> IF p[2] = {} \/ \E b \in p[2] : <<p[1], b>> \in wins
                                        THEN {p[1]} ELSE p[2]]
<1>1. {} \in V /\ step \in [S \X V -> V]
  OBVIOUS
<1>2. \A x \in S, v \in V : step[<<x, v>>] = IF v = {} \/ \E b \in v : <<x, b>> \in wins THEN {x} ELSE v
  OBVIOUS
<1>. HIDE DEF V, step
<1>3. PICK h : Folds(h, S, V, {}, step)
  BY <1>1, FoldExists
<1>4. h = [s \in SUBSET S |-> h[s]] /\ h[{}] = {}
  BY <1>3 DEF Folds
<1>5. ASSUME NEW s \in SUBSET S, s # {}
      PROVE  h[s] = IF h[s \ {Pick(s)}] = {} \/ \E b \in h[s \ {Pick(s)}] : <<Pick(s), b>> \in wins
                      THEN {Pick(s)} ELSE h[s \ {Pick(s)}]
  <2>1. Pick(s) \in S /\ s \ {Pick(s)} \in SUBSET S
    BY <1>5, PickIn
  <2>2. h[s \ {Pick(s)}] \in V /\ h[s] = step[<<Pick(s), h[s \ {Pick(s)}]>>]
    BY <1>3, <1>5, <2>1 DEF Folds
  <2>. QED
    BY <1>2, <2>1, <2>2
<1>6. Reducing(h, wins, S)
  BY <1>4, <1>5 DEF Reducing
<1>7. h \in [SUBSET S -> SUBSET S]
  BY <1>3 DEF Folds, V
<1>. QED
  BY <1>6, <1>7

LEMMA ReducingReduces ==
  ASSUME NEW S, NEW wins, NEW h, Reducing(h, wins, S)
  PROVE  Reduced(h, wins, S)
BY DEF Reducing, Reduced

\* The focus area has the most critical reviews.
LEMMA FocusMost ==
  ASSUME Figures!TypeOK, NEW range
  PROVE  \A o \in Shop : Figures!CriticalAt(o, range) > 0 =>
           \E b \in Figures!FocusArea(range) : Figures!CriticalAt(o, range) <= Figures!CriticalAt(b, range)
<1>. DEFINE S == {o \in Shop : Figures!CriticalAt(o, range) > 0}
            wins == {p \in S \X S : Figures!CriticalAt(p[1], range) > Figures!CriticalAt(p[2], range)}
            f == [o \in S |-> Figures!CriticalAt(o, range)]
            iter(h) == h = [s \in SUBSET S |->
                  IF s = {} THEN {}
                  ELSE IF h[s \ {Pick(s)}] = {} \/ \E b \in h[s \ {Pick(s)}] : Figures!CriticalAt(Pick(s), range) > Figures!CriticalAt(b, range)
                         THEN {Pick(s)} ELSE h[s \ {Pick(s)}]]
            best == CHOOSE h : iter(h)
<1>1. IsFiniteSet(S) /\ S \subseteq Shop
  BY DashboardAssumption, FS_Subset
<1>2. \A o \in S : Figures!CriticalAt(o, range) \in Int
  <2>1. \A o : {n \in Figures!OpenCritical(range) : posted[n].outlet = o} \subseteq Figures!Live
    BY DEF Figures!OpenCritical, Figures!OpenComplaints
  <2>2. \A o : IsFiniteSet({n \in Figures!OpenCritical(range) : posted[n].outlet = o})
    BY <2>1, FiniteReviews, FS_Subset
  <2>3. ASSUME NEW o
        PROVE  Cardinality({n \in Figures!OpenCritical(range) : posted[n].outlet = o}) \in Int
    <3>1. PICK X : X = {n \in Figures!OpenCritical(range) : posted[n].outlet = o}
      OBVIOUS
    <3>2. Cardinality(X) \in Nat
      BY <2>2, <3>1, FS_CardinalityType
    <3>. QED
      BY <3>1, <3>2
  <2>. QED
    BY <2>3, FigureCount DEF Figures!CriticalAt
<1>3. Figures!FocusArea(range) = best[S]
  BY DEF Figures!FocusArea, Figures!FoldSet, Figures!MapThenFoldSet, Figures!Better, Pick
<1>4. f \in [S -> Int] /\ \A o \in S : f[o] = Figures!CriticalAt(o, range)
  BY <1>2
<1>5. \A o, p \in S : <<o, p>> \in wins <=> f[o] > f[p]
  BY <1>4
<1>. HIDE DEF S, wins, f
<1>6. PICK h : Reducing(h, wins, S) /\ h \in [SUBSET S -> SUBSET S]
  BY <1>1, ReducingExists
<1>7. Reduced(h, wins, S)
  BY <1>6, ReducingReduces
<1>8. Kept(h, f, S)
  <2>1. ASSUME NEW o \in S, NEW p \in S
        PROVE  /\ <<o, p>> \in wins => f[o] >= f[p]
               /\ <<o, p>> \notin wins => f[o] <= f[p]
    <3>1. f[o] \in Int /\ f[p] \in Int /\ (<<o, p>> \in wins <=> f[o] > f[p])
      BY <1>4, <1>5
    <3>. QED
      BY <3>1
  <2>. QED
    BY <1>1, <1>4, <1>7, <2>1, ReducedKeeps
<1>9. iter(h)
  <2>1. \A s \in SUBSET S : s # {} => Pick(s) \in S /\ h[s \ {Pick(s)}] \subseteq S
    BY <1>6, PickIn
  <2>2. \A s \in SUBSET S : s # {} => \A b \in h[s \ {Pick(s)}] :
          <<Pick(s), b>> \in wins <=> Figures!CriticalAt(Pick(s), range) > Figures!CriticalAt(b, range)
    BY <1>4, <1>5, <2>1
  <2>3. \A s \in SUBSET S : s # {} =>
          ((\E b \in h[s \ {Pick(s)}] : <<Pick(s), b>> \in wins)
             <=> \E b \in h[s \ {Pick(s)}] : Figures!CriticalAt(Pick(s), range) > Figures!CriticalAt(b, range))
    BY <2>2
  <2>4. h = [s \in SUBSET S |-> h[s]]
    BY <1>6
  <2>. QED
    BY <1>7, <2>3, <2>4 DEF Reduced
<1>10. iter(best)
  <2>. HIDE DEF iter
  <2>. QED
    BY <1>9
<1>. HIDE DEF best
<1>11. \A s \in SUBSET S : best[s] = h[s]
  <2>. DEFINE T == {s \in SUBSET S : best[s] = h[s]}
  <2>1. {} \in T
    BY <1>9, <1>10
  <2>2. ASSUME NEW s \in SUBSET S, s # {}, \A x \in s : s \ {x} \in T PROVE s \in T
    <3>1. best[s \ {Pick(s)}] = h[s \ {Pick(s)}]
      BY <2>2, PickIn
    <3>2. best[s] = h[s]
      BY <1>9, <1>10, <2>2, <3>1
    <3>. QED
      BY <3>2
  <2>. HIDE DEF T
  <2>3. \A s \in SUBSET S : s \in T
    BY <1>1, <2>1, <2>2, SubsetInduction
  <2>. QED
    BY <2>3 DEF T
<1>12. ASSUME NEW o \in S PROVE \E b \in best[S] : f[o] <= f[b] /\ b \in S
  BY <1>8, <1>11 DEF Kept
<1>. QED
  BY <1>3, <1>4, <1>12 DEF S

\* No outlet with reviews in the range outdid the most improved one.
LEMMA ImprovedMost ==
  ASSUME Figures!TypeOK, NEW range
  PROVE  \A b \in Figures!MostImproved(range), n \in Figures!Live :
           Figures!In(posted[n].at, range) =>
             Figures!Improvement(posted[n].outlet, range) <= Figures!Improvement(b, range)
<1>. DEFINE S == {posted[n].outlet : n \in {m \in Figures!Live : Figures!In(posted[m].at, range)}}
            wins == {p \in S \X S : Figures!Improved(p[1], p[2], range)}
            f == [o \in S |-> Figures!Improvement(o, range)]
            iter(h) == h = [s \in SUBSET S |->
                  IF s = {} THEN {}
                  ELSE IF h[s \ {Pick(s)}] = {} \/ \E b \in h[s \ {Pick(s)}] : Figures!Improved(Pick(s), b, range)
                         THEN {Pick(s)} ELSE h[s \ {Pick(s)}]]
            best == CHOOSE h : iter(h)
<1>1. IsFiniteSet(S) /\ S \subseteq Shop
  <2>1. S \subseteq Shop
    BY FiniteReviews, ReviewFields
  <2>. QED
    BY <2>1, DashboardAssumption, FS_Subset
<1>2. \A o \in S : Figures!Improvement(o, range) \in Int
  BY ImprovementWhole
<1>3. Figures!MostImproved(range) = best[S]
  BY DEF Figures!MostImproved, Figures!FoldSet, Figures!MapThenFoldSet, Pick
<1>4. f \in [S -> Int] /\ \A o \in S : f[o] = Figures!Improvement(o, range)
  BY <1>2
<1>5. \A o, p \in S : <<o, p>> \in wins <=> Figures!Improved(o, p, range)
  OBVIOUS
<1>. HIDE DEF S, wins, f
<1>6. PICK h : Reducing(h, wins, S) /\ h \in [SUBSET S -> SUBSET S]
  BY <1>1, ReducingExists
<1>7. Reduced(h, wins, S)
  BY <1>6, ReducingReduces
<1>8. Kept(h, f, S)
  <2>1. ASSUME NEW o \in S, NEW p \in S
        PROVE  /\ <<o, p>> \in wins => f[o] >= f[p]
               /\ <<o, p>> \notin wins => f[o] <= f[p]
    <3>1. f[o] \in Int /\ f[p] \in Int
      BY <1>4
    <3>2. Figures!Improved(o, p, range) => f[o] > f[p] \/ f[o] = f[p]
      BY <1>4 DEF Figures!Improved, Figures!Better
    <3>3. f[o] > f[p] => Figures!Improved(o, p, range)
      BY <1>4 DEF Figures!Improved, Figures!Better
    <3>. QED
      BY <1>5, <3>1, <3>2, <3>3
  <2>. QED
    BY <1>1, <1>4, <1>7, <2>1, ReducedKeeps
<1>9. iter(h)
  <2>1. \A s \in SUBSET S : s # {} => Pick(s) \in S /\ h[s \ {Pick(s)}] \subseteq S
    BY <1>6, PickIn
  <2>2. \A s \in SUBSET S : s # {} => \A b \in h[s \ {Pick(s)}] :
          <<Pick(s), b>> \in wins <=> Figures!Improved(Pick(s), b, range)
    BY <1>4, <1>5, <2>1
  <2>3. \A s \in SUBSET S : s # {} =>
          ((\E b \in h[s \ {Pick(s)}] : <<Pick(s), b>> \in wins)
             <=> \E b \in h[s \ {Pick(s)}] : Figures!Improved(Pick(s), b, range))
    BY <2>2
  <2>4. h = [s \in SUBSET S |-> h[s]]
    BY <1>6
  <2>. QED
    BY <1>7, <2>3, <2>4 DEF Reduced
<1>10. iter(best)
  <2>. HIDE DEF iter
  <2>. QED
    BY <1>9
<1>. HIDE DEF best
<1>11. \A s \in SUBSET S : best[s] = h[s]
  <2>. DEFINE T == {s \in SUBSET S : best[s] = h[s]}
  <2>1. {} \in T
    BY <1>9, <1>10
  <2>2. ASSUME NEW s \in SUBSET S, s # {}, \A x \in s : s \ {x} \in T PROVE s \in T
    <3>1. best[s \ {Pick(s)}] = h[s \ {Pick(s)}]
      BY <2>2, PickIn
    <3>. PICK old : old = h[s \ {Pick(s)}]
      OBVIOUS
    <3>2. h[s] = IF old = {} \/ (\E b \in old : Figures!Improved(Pick(s), b, range))
                   THEN {Pick(s)} ELSE old
      BY <1>9, <2>2
    <3>3. best[s] = IF old = {} \/ (\E b \in old : Figures!Improved(Pick(s), b, range))
                      THEN {Pick(s)} ELSE old
      BY <1>10, <2>2, <3>1
    <3>4. best[s] = h[s]
      BY <3>2, <3>3, Zenon
    <3>. QED
      BY <3>4
  <2>. HIDE DEF T
  <2>3. \A s \in SUBSET S : s \in T
    BY <1>1, <2>1, <2>2, SubsetInduction
  <2>. QED
    BY <2>3 DEF T
<1>12. ASSUME NEW b \in best[S], NEW o \in S PROVE b \in S /\ f[o] <= f[b]
  <2>1. PICK c \in S : h[S] = {c} /\ \A p \in S : f[p] <= f[c]
    BY <1>8 DEF Kept
  <2>. QED
    BY <1>11, <2>1
<1>13. \A n \in Figures!Live : Figures!In(posted[n].at, range) => posted[n].outlet \in S
  BY DEF S
<1>. QED
  BY <1>3, <1>4, <1>12, <1>13

LEMMA InsightsOf ==
  ASSUME Figures!TypeOK
  PROVE  Figures!InsightsAreExtreme
<1>. SUFFICES ASSUME NEW range
     PROVE  /\ \A w \in 0..7 : Figures!IncidentsIn(w, range) # {} =>
                 Figures!Cardinality(Figures!IncidentsIn(w, range))
                   <= Figures!Cardinality(Figures!IncidentsIn(Figures!QuickInsights(range).peak, range))
            /\ \A o \in Shop : Figures!CriticalAt(o, range) > 0 =>
                 \E b \in Figures!QuickInsights(range).focus :
                   Figures!CriticalAt(o, range) <= Figures!CriticalAt(b, range)
            /\ \A b \in Figures!QuickInsights(range).improved, n \in Figures!Live :
                 Figures!In(posted[n].at, range) =>
                   Figures!Improvement(posted[n].outlet, range) <= Figures!Improvement(b, range)
  BY DEF Figures!InsightsAreExtreme
<1>1. /\ Figures!QuickInsights(range).peak = Figures!PeakWindow(range)
      /\ Figures!QuickInsights(range).focus = Figures!FocusArea(range)
      /\ Figures!QuickInsights(range).improved = Figures!MostImproved(range)
  BY DEF Figures!QuickInsights
<1>. QED
  BY <1>1, PeakMost, FocusMost, ImprovedMost

-------------------------------------------------------------------------------
(* The ranking and the global score                                         *)

\* The quotient and the rest of a division.
LEMMA DivisionParts ==
  ASSUME NEW x \in Int, NEW d \in Nat \ {0}
  PROVE  /\ x \div d \in Int /\ x % d \in 0..d - 1
         /\ x = d * (x \div d) + (x % d)
OBVIOUS

\* An average rounded to a tenth, halves to the even one or upwards, is at most
\* half a tenth from it.
LEMMA HalfTenth ==
  ASSUME NEW s \in Int, NEW c \in Nat \ {0}, NEW t \in Int, NEW r \in 0..(2 * c) - 1,
         2 * s + c = (2 * c) * t + r
  PROVE  /\ (2 * t - 1) * c <= 2 * s /\ 2 * s <= (2 * t + 1) * c
         /\ r = 0 => (2 * (t - 1) - 1) * c <= 2 * s /\ 2 * s <= (2 * (t - 1) + 1) * c
<1>1. PICK p \in Int : p = t * c
  <2>1. t * c \in Int
    BY ProductWhole
  <2>. QED
    BY <2>1
<1>2. /\ (2 * c) * t = 2 * p /\ (2 * t - 1) * c = 2 * p - c /\ (2 * t + 1) * c = 2 * p + c
      /\ (2 * (t - 1) - 1) * c = 2 * p - 3 * c /\ (2 * (t - 1) + 1) * c = 2 * p - c
  BY <1>1
<1>3. r \in Int /\ r >= 0 /\ r < 2 * c
  OBVIOUS
<1>. QED
  BY <1>2, <1>3

LEMMA EvenTenthsNear ==
  ASSUME NEW s \in Int, NEW c \in Nat \ {0}, NEW e, e = Figures!EvenTenths(<<s, c>>)
  PROVE  e \in Int /\ (2 * e - 1) * c <= 2 * s /\ 2 * s <= (2 * e + 1) * c
<1>1. PICK t \in Int : t = (2 * s + c) \div (2 * c)
  <2>1. 2 * s + c \in Int /\ 2 * c \in Nat \ {0}
    OBVIOUS
  <2>2. (2 * s + c) \div (2 * c) \in Int
    BY <2>1, QuotientWhole
  <2>. QED
    BY <2>2
<1>2. PICK r \in 0..(2 * c) - 1 : r = (2 * s + c) % (2 * c) /\ 2 * s + c = (2 * c) * t + r
  <2>1. PICK x \in Int : x = 2 * s + c
    OBVIOUS
  <2>2. PICK d \in Nat \ {0} : d = 2 * c
    OBVIOUS
  <2>3. x % d \in 0..d - 1 /\ x = d * (x \div d) + (x % d)
    BY DivisionParts
  <2>. QED
    BY <1>1, <2>1, <2>2, <2>3
<1>3. <<s, c>>[1] = s /\ <<s, c>>[2] = c
  OBVIOUS
<1>4. Figures!Tenths(<<s, c>>) = t
  BY <1>1, TenthsWhole
<1>5. \/ e = t
      \/ e = t - 1 /\ r = 0
  BY <1>2, <1>3, <1>4 DEF Figures!EvenTenths
<1>6. /\ (2 * t - 1) * c <= 2 * s /\ 2 * s <= (2 * t + 1) * c
      /\ r = 0 => (2 * (t - 1) - 1) * c <= 2 * s /\ 2 * s <= (2 * (t - 1) + 1) * c
  BY <1>2, HalfTenth
<1>. QED
  BY <1>5, <1>6

LEMMA EvenTenthsWhole ==
  ASSUME NEW s \in Int, NEW c \in Nat
  PROVE  Figures!EvenTenths(<<s, c>>) \in Int
<1>1. CASE c = 0
  <2>1. <<s, c>>[2] = 0
    BY <1>1
  <2>2. Figures!EvenTenths(<<s, c>>) = Figures!Tenths(<<s, c>>)
    BY <2>1 DEF Figures!EvenTenths
  <2>. QED
    BY <2>2, TenthsWhole
<1>2. CASE c # 0
  BY <1>2, EvenTenthsNear
<1>. QED
  BY <1>1, <1>2

\* An average between two bounds in half tenths is rounded to between them.
LEMMA TenthsBetween ==
  ASSUME NEW s \in Int, NEW c \in Nat \ {0}, NEW m \in Int, NEW u \in Int,
         (2 * m - 1) * c <= 2 * s, 2 * s <= (2 * u + 1) * c
  PROVE  Figures!Tenths(<<s, c>>) \in m..u + 1
<1>1. PICK x \in Int : x = 2 * s + c
  OBVIOUS
<1>2. PICK d \in Nat \ {0} : d = 2 * c
  OBVIOUS
<1>3. PICK t \in Int : t = x \div d
  <2>1. x \div d \in Int
    BY QuotientWhole
  <2>. QED
    BY <2>1
<1>4. Figures!Tenths(<<s, c>>) = t
  BY <1>1, <1>2, <1>3, TenthsWhole
<1>5. d * t <= x /\ x < d * t + d
  <2>1. PICK p \in Int : p = d * t
    <3>1. d * t \in Int
      BY ProductWhole
    <3>. QED
      BY <3>1
  <2>2. PICK r \in 0..d - 1 : r = x % d /\ x = d * t + r
    BY <1>3, DivisionParts
  <2>. QED
    BY <2>1, <2>2
<1>6. d * m <= x /\ x <= d * (u + 1)
  <2>1. PICK p \in Int : p = m * c
    <3>1. m * c \in Int
      BY ProductWhole
    <3>. QED
      BY <3>1
  <2>2. PICK q \in Int : q = u * c
    <3>1. u * c \in Int
      BY ProductWhole
    <3>. QED
      BY <3>1
  <2>3. (2 * m - 1) * c = 2 * p - c /\ (2 * u + 1) * c = 2 * q + c
    BY <2>1, <2>2
  <2>4. d * m = 2 * p /\ d * (u + 1) = 2 * q + 2 * c
    BY <1>2, <2>1, <2>2
  <2>. QED
    BY <1>1, <2>3, <2>4
<1>7. m <= t
  <2>. SUFFICES ASSUME t + 1 <= m PROVE FALSE
    BY <1>3
  <2>1. d * (t + 1) <= d * m
    OBVIOUS
  <2>2. d * (t + 1) = d * t + d
    OBVIOUS
  <2>3. d * t \in Int /\ d * m \in Int
    BY ProductWhole
  <2>. QED
    BY <1>5, <1>6, <2>1, <2>2, <2>3
<1>8. t <= u + 1
  <2>. SUFFICES ASSUME u + 1 + 1 <= t PROVE FALSE
    BY <1>3
  <2>1. d * (u + 1 + 1) <= d * t
    OBVIOUS
  <2>2. d * (u + 1 + 1) = d * (u + 1) + d
    OBVIOUS
  <2>3. d * t \in Int /\ d * (u + 1) \in Int
    BY ProductWhole
  <2>. QED
    BY <1>5, <1>6, <2>1, <2>2, <2>3
<1>. QED
  BY <1>4, <1>7, <1>8

LEMMA BoundsJoin ==
  ASSUME NEW q \in Int, NEW a \in Int, NEW b \in Int, NEW x \in Int, NEW y \in Int
  PROVE  /\ q * a <= 2 * x /\ q * b <= 2 * y => q * (a + b) <= 2 * (x + y)
         /\ 2 * x <= q * a /\ 2 * y <= q * b => 2 * (x + y) <= q * (a + b)
<1>1. PICK p \in Int : p = q * a
  <2>1. q * a \in Int
    BY ProductWhole
  <2>. QED
    BY <2>1
<1>2. PICK r \in Int : r = q * b
  <2>1. q * b \in Int
    BY ProductWhole
  <2>. QED
    BY <2>1
<1>3. q * (a + b) = p + r
  BY <1>1, <1>2
<1>. QED
  BY <1>1, <1>2, <1>3

\* The reviews of a set of outlets in a range.
OfSet(s, range) == {n \in AllIn(range) : posted[n].outlet \in s}

\* What holds of every outlet's average holds of all reviews.
LEMMA TogetherBetween ==
  ASSUME Figures!TypeOK, NEW k, Adds(k, Marks, DOMAIN posted), NEW range,
         NEW low \in Int, NEW high \in Int,
         \A o \in Shop : OwnIn(o, range) # {} =>
           /\ low * Cardinality(OwnIn(o, range)) <= 2 * k[OwnIn(o, range)]
           /\ 2 * k[OwnIn(o, range)] <= high * Cardinality(OwnIn(o, range))
  PROVE  /\ low * Cardinality(AllIn(range)) <= 2 * k[AllIn(range)]
         /\ 2 * k[AllIn(range)] <= high * Cardinality(AllIn(range))
<1>. DEFINE T == {s \in SUBSET Shop :
                    /\ low * Cardinality(OfSet(s, range)) <= 2 * k[OfSet(s, range)]
                    /\ 2 * k[OfSet(s, range)] <= high * Cardinality(OfSet(s, range))}
<1>1. /\ \A s : OfSet(s, range) \subseteq DOMAIN posted
      /\ \A o : OwnIn(o, range) \subseteq DOMAIN posted
  BY FiniteReviews DEF OfSet, AllIn, OwnIn
<1>2. /\ \A s : /\ IsFiniteSet(OfSet(s, range)) /\ Cardinality(OfSet(s, range)) \in Int
                /\ k[OfSet(s, range)] \in Int
      /\ \A o : /\ IsFiniteSet(OwnIn(o, range)) /\ Cardinality(OwnIn(o, range)) \in Int
                /\ k[OwnIn(o, range)] \in Int
  <2>1. \A X \in SUBSET DOMAIN posted : IsFiniteSet(X) /\ Cardinality(X) \in Int /\ k[X] \in Int
    BY AverageIs
  <2>. QED
    BY <1>1, <2>1
<1>3. {} \in T
  <2>1. OfSet({}, range) = {}
    BY DEF OfSet
  <2>2. k[{}] = 0 /\ Cardinality({}) = 0
    BY FS_EmptySet DEF Adds
  <2>3. low * 0 = 0 /\ high * 0 = 0 /\ 2 * 0 = 0 /\ 0 <= 0
    OBVIOUS
  <2>4. Cardinality(OfSet({}, range)) = 0 /\ k[OfSet({}, range)] = 0
    BY <2>1, <2>2
  <2>. QED
    BY <2>3, <2>4
<1>4. ASSUME NEW s \in SUBSET Shop, s # {}, \A x \in s : s \ {x} \in T PROVE s \in T
  <2>1. PICK o \in s : TRUE
    BY <1>4
  <2>. DEFINE r == s \ {o}
  <2>2. r \in T
    BY <1>4
  <2>3. PICK a : a = OfSet(r, range)
    OBVIOUS
  <2>4. PICK b : b = OwnIn(o, range)
    OBVIOUS
  <2>5. PICK i \in Int : i = Cardinality(a)
    BY <1>2, <2>3
  <2>6. PICK j \in Int : j = Cardinality(b)
    BY <1>2, <2>4
  <2>7. PICK x \in Int : x = k[a]
    BY <1>2, <2>3
  <2>8. PICK y \in Int : y = k[b]
    BY <1>2, <2>4
  <2>9. OfSet(s, range) = a \cup b /\ a \cap b = {}
    BY <2>3, <2>4 DEF OfSet, OwnIn, AllIn
  <2>10. low * i <= 2 * x /\ 2 * x <= high * i
    BY <2>2, <2>3, <2>5, <2>7
  <2>11. low * j <= 2 * y /\ 2 * y <= high * j
    <3>1. CASE b = {}
      <4>1. j = 0 /\ y = 0
        BY <2>6, <2>8, <3>1, FS_EmptySet DEF Adds
      <4>2. low * 0 = 0 /\ high * 0 = 0 /\ 2 * 0 = 0
        OBVIOUS
      <4>. QED
        BY <4>1, <4>2
    <3>2. CASE b # {}
      BY <2>4, <2>6, <2>8, <3>2
    <3>. QED
      BY <3>1, <3>2
  <2>12. Cardinality(a \cup b) = i + j
    <3>1. IsFiniteSet(a) /\ IsFiniteSet(b)
      BY <1>2, <2>3, <2>4
    <3>2. Cardinality(a \cup b) = Cardinality(a) + Cardinality(b) - Cardinality(a \cap b)
      BY <3>1, FS_Union
    <3>3. Cardinality(a \cap b) = 0
      BY <2>9, FS_EmptySet
    <3>. QED
      BY <2>5, <2>6, <3>2, <3>3
  <2>13. k[a \cup b] = x + y
    <3>1. a \in SUBSET DOMAIN posted /\ b \in SUBSET DOMAIN posted
      BY <1>1, <2>3, <2>4
    <3>2. IsFiniteSet(DOMAIN posted) /\ Marks \in [DOMAIN posted -> Int]
      BY FiniteReviews, MarksAdd
    <3>3. k[a \cup b] = k[a] + k[b]
      BY <2>9, <3>1, <3>2, AddsUnion
    <3>. QED
      BY <2>7, <2>8, <3>3
  <2>14. low * (i + j) <= 2 * (x + y) /\ 2 * (x + y) <= high * (i + j)
    BY <2>10, <2>11, BoundsJoin
  <2>. QED
    BY <2>9, <2>12, <2>13, <2>14
<1>. HIDE DEF T
<1>5. \A s \in SUBSET Shop : s \in T
  BY <1>3, <1>4, DashboardAssumption, SubsetInduction
<1>6. OfSet(Shop, range) = AllIn(range)
  BY FiniteReviews, ReviewFields DEF OfSet, AllIn
<1>7. Shop \in T
  BY <1>5
<1>. QED
  BY <1>6, <1>7 DEF T

\* The global score lies between those of the outlets.
LEMMA GlobalBetween ==
  ASSUME Figures!TypeOK, NEW range,
         NEW scores, scores = {Figures!CsatOf(posted[n].outlet, range) : n \in AllIn(range)},
         scores # {}
  PROVE  Figures!GlobalCsat(range) \in Figures!Min(scores)..Figures!Max(scores) + 1
<1>1. PICK k : Adds(k, Marks, DOMAIN posted)
  BY MarksAdd
<1>2. \A o : /\ Figures!AvgOf(o, range) = <<k[OwnIn(o, range)], Cardinality(OwnIn(o, range))>>
             /\ k[OwnIn(o, range)] \in Int /\ Cardinality(OwnIn(o, range)) \in Nat
  BY <1>1, OutletAverage
<1>3. \A o : Figures!CsatOf(o, range) \in Int
  <2>. SUFFICES ASSUME NEW o PROVE Figures!CsatOf(o, range) \in Int
    OBVIOUS
  <2>1. PICK s \in Int, c \in Nat : Figures!AvgOf(o, range) = <<s, c>>
    BY <1>2
  <2>. QED
    BY <2>1, EvenTenthsWhole DEF Figures!CsatOf
<1>4. AllIn(range) \in SUBSET DOMAIN posted /\ IsFiniteSet(AllIn(range))
  BY FiniteReviews, FS_Subset DEF AllIn
<1>5. IsFiniteSet(scores) /\ scores \subseteq Int
  <2>1. scores \subseteq Int
    BY <1>3
  <2>. DEFINE f == [n \in AllIn(range) |-> Figures!CsatOf(posted[n].outlet, range)]
  <2>2. f \in Surjection(AllIn(range), scores)
    <3>1. f \in [AllIn(range) -> scores]
      OBVIOUS
    <3>2. \A x \in scores : \E n \in AllIn(range) : f[n] = x
      OBVIOUS
    <3>. HIDE DEF f
    <3>. QED
      BY <3>1, <3>2 DEF Surjection
  <2>. HIDE DEF f
  <2>. QED
    BY <1>4, <2>1, <2>2, FS_Surjection
<1>6. PICK m \in Int : m = Figures!Min(scores) /\ \A x \in scores : m <= x
  BY <1>5, FigureExtremes
<1>7. PICK u \in Int : u = Figures!Max(scores) /\ \A x \in scores : x <= u
  BY <1>5, FigureExtremes
<1>8. ASSUME NEW o \in Shop, OwnIn(o, range) # {}
      PROVE  /\ (2 * m - 1) * Cardinality(OwnIn(o, range)) <= 2 * k[OwnIn(o, range)]
             /\ 2 * k[OwnIn(o, range)] <= (2 * u + 1) * Cardinality(OwnIn(o, range))
  <2>1. PICK s \in Int : s = k[OwnIn(o, range)]
    BY <1>2
  <2>2. PICK c \in Nat \ {0} : c = Cardinality(OwnIn(o, range))
    <3>1. OwnIn(o, range) \subseteq AllIn(range)
      BY DEF OwnIn, AllIn
    <3>2. IsFiniteSet(OwnIn(o, range))
      BY <1>4, <3>1, FS_Subset
    <3>3. Cardinality(OwnIn(o, range)) # 0
      BY <1>8, <3>2, FS_EmptySet
    <3>. QED
      BY <1>2, <3>3
  <2>3. PICK e : e = Figures!CsatOf(o, range)
    OBVIOUS
  <2>4. e = Figures!EvenTenths(<<s, c>>)
    BY <1>2, <2>1, <2>2, <2>3 DEF Figures!CsatOf
  <2>5. e \in Int /\ (2 * e - 1) * c <= 2 * s /\ 2 * s <= (2 * e + 1) * c
    BY <2>4, EvenTenthsNear
  <2>6. e \in scores
    <3>1. PICK n \in OwnIn(o, range) : n \in AllIn(range) /\ posted[n].outlet = o
      BY <1>8 DEF OwnIn, AllIn
    <3>. QED
      BY <2>3, <3>1
  <2>7. m <= e /\ e <= u
    BY <1>6, <1>7, <2>6
  <2>8. (2 * m - 1) * c <= (2 * e - 1) * c /\ (2 * e + 1) * c <= (2 * u + 1) * c
    BY <2>5, <2>7
  <2>9. /\ (2 * m - 1) * c \in Int /\ (2 * e - 1) * c \in Int
        /\ (2 * e + 1) * c \in Int /\ (2 * u + 1) * c \in Int
    BY <2>5, ProductWhole
  <2>10. (2 * m - 1) * c <= 2 * s /\ 2 * s <= (2 * u + 1) * c
    BY <2>5, <2>8, <2>9
  <2>. QED
    BY <2>1, <2>2, <2>10
<1>9. 2 * m - 1 \in Int /\ 2 * u + 1 \in Int
  OBVIOUS
<1>10. /\ (2 * m - 1) * Cardinality(AllIn(range)) <= 2 * k[AllIn(range)]
       /\ 2 * k[AllIn(range)] <= (2 * u + 1) * Cardinality(AllIn(range))
  BY <1>1, <1>8, <1>9, TogetherBetween
<1>11. /\ Figures!Avg(AllIn(range)) = <<k[AllIn(range)], Cardinality(AllIn(range))>>
       /\ k[AllIn(range)] \in Int /\ Cardinality(AllIn(range)) \in Nat
  BY <1>1, <1>4, AverageIs
<1>12. Cardinality(AllIn(range)) # 0
  <2>1. AllIn(range) # {}
    OBVIOUS
  <2>. QED
    BY <1>4, <2>1, FS_EmptySet
<1>13. PICK s \in Int : s = k[AllIn(range)]
  BY <1>11
<1>14. PICK c \in Nat \ {0} : c = Cardinality(AllIn(range))
  BY <1>11, <1>12
<1>15. Figures!GlobalCsat(range) = Figures!Tenths(<<s, c>>)
  BY <1>11, <1>13, <1>14 DEF Figures!GlobalCsat, AllIn
<1>16. Figures!Tenths(<<s, c>>) \in m..u + 1
  BY <1>10, <1>13, <1>14, TenthsBetween
<1>. QED
  BY <1>6, <1>7, <1>15, <1>16

\* Every outlet shown has a place, and none is placed above a better one.
LEMMA RankingOrdered ==
  ASSUME Figures!TypeOK, NEW range, NEW ranking, ranking = Figures!FranchiseRanking(range)
  PROVE  /\ Figures!Range(ranking) = Figures!Shown /\ Figures!IsInjective(ranking)
         /\ \A i, j \in DOMAIN ranking :
              i < j => Figures!CsatOf(ranking[i], range) >= Figures!CsatOf(ranking[j], range)
<1>. DEFINE S == Figures!Shown
            f == [o \in S |-> Figures!CsatOf(o, range)]
            D == 1..Cardinality(S)
            lists == {t \in [D -> S] : \A i, j \in D : i # j => t[i] # t[j]}
            good(t) == \A i, j \in DOMAIN t :
                         i < j => Figures!CsatOf(t[i], range) >= Figures!CsatOf(t[j], range)
<1>1. IsFiniteSet(S)
  <2>1. S \subseteq Shop
    BY DEF Figures!Shown
  <2>. QED
    BY <2>1, DashboardAssumption, FS_Subset
<1>2. f \in [S -> Int] /\ \A o \in S : f[o] = Figures!CsatOf(o, range)
  <2>1. PICK k : Adds(k, Marks, DOMAIN posted)
    BY MarksAdd
  <2>2. ASSUME NEW o PROVE Figures!CsatOf(o, range) \in Int
    <3>1. PICK s \in Int, c \in Nat : Figures!AvgOf(o, range) = <<s, c>>
      BY <2>1, OutletAverage
    <3>. QED
      BY <3>1, EvenTenthsWhole DEF Figures!CsatOf
  <2>. QED
    BY <2>2
<1>3. Figures!SetToSeqs(S) = lists
  BY FigureCount DEF Figures!SetToSeqs
<1>4. ranking = CHOOSE t \in lists : good(t)
  BY <1>3 DEF Figures!FranchiseRanking, Figures!AllOutlets
<1>. HIDE DEF S, f
<1>5. \E t \in lists : good(t)
  <2>1. PICK t : InOrder(t, f, S)
    BY <1>1, <1>2, OrderExists
  <2>2. t \in [D -> S] /\ t \in lists
    BY <2>1 DEF InOrder
  <2>3. good(t)
    <3>1. DOMAIN t = D /\ \A i \in D : t[i] \in S
      BY <2>2
    <3>2. \A i, j \in D : i < j => f[t[i]] >= f[t[j]]
      BY <2>1 DEF InOrder
    <3>. HIDE DEF D
    <3>. QED
      BY <1>2, <3>1, <3>2
  <2>. HIDE DEF good
  <2>. QED
    BY <2>2, <2>3
<1>6. ranking \in lists /\ good(ranking)
  <2>. HIDE DEF good, lists
  <2>. QED
    BY <1>4, <1>5
<1>7. ranking \in [D -> S] /\ \A i, j \in D : i # j => ranking[i] # ranking[j]
  BY <1>6
<1>8. \A x \in S : \E i \in D : ranking[i] = x
  BY <1>1, <1>7, ListedOnce
<1>. HIDE DEF D
<1>9. Figures!Range(ranking) = S
  BY <1>7, <1>8 DEF Figures!Range
<1>10. Figures!IsInjective(ranking)
  BY <1>7 DEF Figures!IsInjective
<1>. QED
  BY <1>6, <1>9, <1>10 DEF S

LEMMA RankingOf ==
  ASSUME Figures!TypeOK
  PROVE  Figures!RankingWhole
<1>. SUFFICES ASSUME NEW range, NEW ranking, ranking = Figures!FranchiseRanking(range),
                     NEW scores,
                     scores = {Figures!CsatOf(posted[n].outlet, range) :
                                 n \in {m \in Figures!Live : Figures!In(posted[m].at, range)}}
     PROVE  /\ Figures!Range(ranking) = Figures!Shown /\ Figures!IsInjective(ranking)
            /\ \A i, j \in DOMAIN ranking :
                 i < j => Figures!CsatOf(ranking[i], range) >= Figures!CsatOf(ranking[j], range)
            /\ scores # {} =>
                 Figures!GlobalCsat(range) \in Figures!Min(scores)..Figures!Max(scores) + 1
  BY DEF Figures!RankingWhole
<1>1. scores = {Figures!CsatOf(posted[n].outlet, range) : n \in AllIn(range)}
  BY DEF AllIn
<1>. QED
  BY <1>1, RankingOrdered, GlobalBetween

-------------------------------------------------------------------------------
(* The composition of what is computed                                     *)

\* A step is one of the component that runs.
LEMMA AreaSteps ==
  ASSUME [PagesNext]_PagesVars
  PROVE  /\ area' = area
         /\ area = "recurrence" => [Recurring!Next]_recurrenceVars
         /\ area = "feed" => [Scrolling!Next]_feedVars
         /\ area = "deadlines" => [Deadlines!Next]_deadlineVars
         /\ area = "catalogue" => [Listings!Next]_catalogueVars
         /\ area = "ratings" => [Scores!Next]_ratingVars
         /\ area = "dashboard" => [Figures!Next]_dashboardVars
<1>1. CASE UNCHANGED PagesVars
  BY <1>1 DEF PagesVars
<1>2. CASE RecurrenceStep \/ FeedStep \/ DeadlineStep
  BY <1>2 DEF RecurrenceStep, FeedStep, DeadlineStep
<1>3. CASE CatalogueStep \/ RatingStep \/ DashboardStep
  BY <1>3 DEF CatalogueStep, RatingStep, DashboardStep
<1>. QED
  BY <1>1, <1>2, <1>3 DEF PagesNext

LEMMA RecurrenceKept ==
  ASSUME RecurrenceInv, [Recurring!Next]_recurrenceVars
  PROVE  RecurrenceInv'
<1>1. CASE UNCHANGED recurrenceVars
  <2>1. /\ today' = today /\ tasks' = tasks /\ run' = run /\ ran' = ran /\ served' = served
        /\ told' = told /\ missed' = missed /\ overlapped' = overlapped
    BY <1>1 DEF recurrenceVars
  <2>2. DueToday' = DueToday /\ MonthPlan' = MonthPlan /\ ThisDay' = ThisDay
    BY <2>1, SameDay
  <2>3. Made' = Made
    BY <2>1 DEF Made
  <2>4. Recurring!TypeOK' /\ TasksKnown' /\ RunsKnown' /\ RunsApart'
    BY <2>1, <2>2 DEF RecurrenceInv, Recurring!TypeOK, Recurring!Keys, TasksKnown,
                      RunsKnown, RunsApart
  <2>5. MadeOnce' /\ ToldWhole' /\ ServedAsPlanned'
    BY <2>1, <2>2, <2>3 DEF RecurrenceInv, MadeOnce, ToldWhole, ServedAsPlanned
  <2>. QED
    BY <2>4, <2>5 DEF RecurrenceInv
<1>2. CASE Recurring!Next
  BY <1>2, RecurrenceInvStep
<1>. QED
  BY <1>1, <1>2

\* However the runs of the recurrence cron overlap and die, on any calendar, for
\* any plans that name days of a month and any people: no instance of a day is
\* made twice by runs that do not overlap, every planned day of every month has
\* its instance, and everybody who sees it is told once (InstancesAsPlanned).
THEOREM InstancesFollowPlans == PagesSpec => []InstancesAsPlanned
<1>. DEFINE Inv == area = "recurrence" => RecurrenceInv
<1>1. PagesInit => Inv
  BY InitRecurrenceInv DEF PagesInit
<1>2. Inv /\ [PagesNext]_PagesVars => Inv'
  BY AreaSteps, RecurrenceKept
<1>3. Inv => InstancesAsPlanned
  BY RecurrenceInvImplies DEF InstancesAsPlanned
<1>. QED
  BY <1>1, <1>2, <1>3, PTL DEF PagesSpec

\* A client that scrolls the timeline, the attachments or the recently viewed
\* tasks, while rows are inserted, removed and viewed again, meets every row
\* that stays, none twice, and gets each with all it refers to; the header is
\* never ahead of the page (ScrollFaithful): for any number of rows and keys,
\* any shape of their references and any page size.
THEOREM ScrollsStayFaithful == PagesSpec => []ScrollFaithful
<1>. DEFINE Inv == area = "feed" => FeedInv
<1>1. PagesInit => Inv
  BY InitFeedInv DEF PagesInit
<1>2. Inv /\ [PagesNext]_PagesVars => Inv'
  BY AreaSteps, FeedInvStep
<1>3. Inv => ScrollFaithful
  BY FeedInvImplies DEF ScrollFaithful
<1>. QED
  BY <1>1, <1>2, <1>3, PTL DEF PagesSpec

\* Whatever deadlines are set and however the minutes pass, on any calendar:
\* the cron's database filter hides no deadline that is in a window, and the
\* overview counts by Indian days and months (CalendarsAgree).
THEOREM CalendarsStayAgreed == PagesSpec => []CalendarsAgree
<1>. DEFINE Inv == area = "deadlines" => Deadlines!TypeOK
<1>1. PagesInit => Inv
  BY InitDeadlineInv DEF PagesInit
<1>2. Inv /\ [PagesNext]_PagesVars => Inv'
  BY AreaSteps, DeadlineInvStep
<1>3. Inv => CalendarsAgree
  BY DeadlineInvImplies DEF CalendarsAgree
<1>. QED
  BY <1>1, <1>2, <1>3, PTL DEF PagesSpec

\* A client that walks the pages of any of the listings to the end, while
\* documents are added, changed and deleted, has met every document that
\* stayed, and none twice, whatever is asked for and whether the count and the
\* page are one statement or two (WalkFaithful): for any number of documents and
\* tags and any page size.
THEOREM WalksStayFaithful == PagesSpec => []WalkFaithful
<1>. DEFINE Inv == area = "catalogue" => CatalogueInv
<1>1. PagesInit => Inv
  BY InitCatalogueInv DEF PagesInit
<1>2. Inv /\ [PagesNext]_PagesVars => Inv'
  BY AreaSteps, CatalogueInvStep
<1>3. Inv => WalkFaithful
  BY CatalogueInvImplies DEF WalkFaithful
<1>. QED
  BY <1>1, <1>2, <1>3, PTL DEF PagesSpec

\* Whatever customers answer on whatever scales and whatever is deleted: a
\* review's rating follows its answers, the dashboard scores an answer as the
\* review does, and the bars of the summary add up, to the whole and to the
\* average (RatingsAgree).
THEOREM RatingsStayAgreed == PagesSpec => []RatingsAgree
<1>. DEFINE Inv == area = "ratings" => Scores!TypeOK
<1>1. PagesInit => Inv
  BY InitRatingInv DEF PagesInit
<1>2. Inv /\ [PagesNext]_PagesVars => Inv'
  BY AreaSteps, RatingInvStep
<1>3. Inv => RatingsAgree
  BY RatingFollows, DashboardScores, SummaryOf DEF RatingsAgree, Scores!TypeOK
<1>. QED
  BY <1>1, <1>2, <1>3, PTL DEF PagesSpec

\* However reviews are posted, resolved and deleted, outlets closed, and time
\* passes, over windows of one, seven and thirty days: the overview agrees with
\* the list behind it, the feedback of the outlets adds up, the ranking has every
\* outlet once and in order and the global score between the outlets' scores,
\* every review falls into one bucket of the trend, and the insights are
\* extremes (DashboardAddsUp): for any outlets, ratings, moments and number of
\* reviews.
THEOREM FiguresAddUp == PagesSpec => []DashboardAddsUp
<1>. DEFINE Inv == area = "dashboard" => DashboardInv
<1>1. PagesInit => Inv
  BY InitDashboardInv DEF PagesInit
<1>2. Inv /\ [PagesNext]_PagesVars => Inv'
  BY AreaSteps, DashboardInvStep
<1>3. Inv => DashboardAddsUp
  BY OverviewOf, FeedbackOf, RankingOf, TrendOf, InsightsOf DEF DashboardAddsUp, DashboardInv
<1>. QED
  BY <1>1, <1>2, <1>3, PTL DEF PagesSpec

\* Every component keeps its variables within their types, whatever the values
\* of the constants (PagesTypeOK).
THEOREM PagesStayTyped == PagesSpec => []PagesTypeOK
<1>. DEFINE Inv == /\ area \in Areas
                   /\ area = "recurrence" => RecurrenceInv
                   /\ area = "feed" => FeedInv
                   /\ area = "deadlines" => Deadlines!TypeOK
                   /\ area = "catalogue" => CatalogueInv
                   /\ area = "ratings" => Scores!TypeOK
                   /\ area = "dashboard" => DashboardInv
<1>1. PagesInit => Inv
  BY InitRecurrenceInv, InitFeedInv, InitDeadlineInv, InitCatalogueInv, InitRatingInv,
     InitDashboardInv DEF PagesInit
<1>2. Inv /\ [PagesNext]_PagesVars => Inv'
  <2>. SUFFICES ASSUME Inv, [PagesNext]_PagesVars PROVE Inv'
    OBVIOUS
  <2>1. area' = area
    BY AreaSteps
  <2>2. area = "recurrence" => RecurrenceInv'
    BY AreaSteps, RecurrenceKept
  <2>3. area = "feed" => FeedInv'
    BY AreaSteps, FeedInvStep
  <2>4. area = "deadlines" => Deadlines!TypeOK'
    BY AreaSteps, DeadlineInvStep
  <2>5. area = "catalogue" => CatalogueInv'
    BY AreaSteps, CatalogueInvStep
  <2>6. area = "ratings" => Scores!TypeOK'
    BY AreaSteps, RatingInvStep
  <2>7. area = "dashboard" => DashboardInv'
    BY AreaSteps, DashboardInvStep
  <2>. QED
    BY <2>1, <2>2, <2>3, <2>4, <2>5, <2>6, <2>7
<1>3. Inv => PagesTypeOK
  <2>1. RecurrenceInv => Recurring!TypeOK
    BY DEF RecurrenceInv
  <2>2. FeedInv => Scrolling!TypeOK
    BY FeedInvImplies
  <2>3. CatalogueInv => Listings!TypeOK
    BY CatalogueInvImplies
  <2>4. DashboardInv => Figures!TypeOK
    BY DEF DashboardInv
  <2>. QED
    BY <2>1, <2>2, <2>3, <2>4 DEF PagesTypeOK
<1>. QED
  BY <1>1, <1>2, <1>3, PTL DEF PagesSpec
===============================================================================
