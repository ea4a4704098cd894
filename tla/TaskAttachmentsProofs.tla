----------------------- MODULE TaskAttachmentsProofs -----------------------
(***************************************************************************)
(* Proofs about TaskAttachments, for any number of files, requests, other  *)
(* events and failures: the records agree with the timeline as far as they *)
(* can, and the count kept on the task is the length of the list.          *)
(***************************************************************************)
EXTENDS TaskAttachments, SequenceTheorems, FunctionTheorems,
        FiniteSetTheorems, TLAPS

Elements(q) == {q[i] : i \in DOMAIN q}

\* The files whose addition request r still has to record.
Adding(r) ==
  IF job[r] # None /\ job[r].type = "added" THEN Elements(job[r].queue) ELSE {}

Kept == {"stored", "flagged"}

\* A file that is being added has no record before its request has stored it,
\* and then keeps it until the request gets to its event.
AddedFiles ==
  \A r \in Requests : job[r] # None /\ job[r].type = "added" =>
    /\ job[r].step # "mark"
    /\ \A a \in Elements(job[r].queue) :
         IF job[r].step = "store" THEN record[a] = "none" ELSE record[a] \in Kept

\* A file that is being removed has had a record.
RemovedFiles ==
  \A r \in Requests : job[r] # None /\ job[r].type = "removed" =>
    /\ job[r].step \notin {"store", "cleanup"}
    /\ \A a \in Elements(job[r].queue) : record[a] # "none"

\* A file is being added by one request at most.
OneAdder == \A r, s \in Requests : r # s => Adding(r) \cap Adding(s) = {}

LoggedHadRecord ==
  \A a \in Attachments : Logged("added", a) => record[a] # "none"

OwnInv == AddedFiles /\ RemovedFiles /\ OneAdder /\ LoggedHadRecord

\* While nothing has failed, a file that is being added is not in the timeline
\* yet, a file is there once, and it has a record exactly if it is in the
\* timeline or its request is about to add it.
NotYetLogged == \A r \in Requests : \A a \in Adding(r) : ~Logged("added", a)

LoggedKept == \A a \in Attachments : Logged("added", a) => record[a] \in Kept

KeptExplained ==
  \A a \in Attachments : record[a] \in Kept =>
    Logged("added", a) \/ \E r \in Requests : a \in Adding(r)

AddedOnce ==
  \A i, j \in DOMAIN log : log[i] = log[j] /\ log[i].type = "added" => i = j

TimelineInv == NotYetLogged /\ LoggedKept /\ KeptExplained /\ AddedOnce

\* The number of events of a type.
Tally(events, type) == Cardinality({i \in DOMAIN events : events[i].type = type})

CountIsTally == count = Tally(log, "added") - Tally(log, "removed")

\* The inductive invariant behind RecordsMatchTimeline and CountMatchesList.
Inv ==
  /\ TypeOK
  /\ OwnInv
  /\ failures = 0 => TimelineInv
  /\ CountIsTally

------------------------------------------------------------------------------
(* Batches *)

\* A batch is a non-empty sequence of different files.
LEMMA BatchShape ==
  ASSUME NEW q \in Batches
  PROVE  /\ q \in Seq(Attachments)
         /\ Len(q) \in 1..MaxBatch
         /\ DOMAIN q = 1..Len(q)
         /\ \A i, j \in 1..Len(q) : i # j => q[i] # q[j]
         /\ Head(q) = q[1]
         /\ Head(q) \in Elements(q)
         /\ Elements(q) \subseteq Attachments
<1>1. PICK n \in 1..MaxBatch : q \in [1..n -> Attachments]
  BY DEF Batches
<1>2. n \in Nat /\ q \in Seq(Attachments) /\ Len(q) = n /\ DOMAIN q = 1..n
  BY <1>1, BoundsAssumption
<1>3. \A i, j \in 1..n : i # j => q[i] # q[j]
  BY <1>2 DEF Batches
<1>4. q[1] \in Elements(q) /\ Elements(q) \subseteq Attachments
  BY <1>1, <1>2 DEF Elements
<1>5. Head(q) = q[1]
  BY <1>2
<1>. QED
  BY <1>1, <1>2, <1>3, <1>4, <1>5

\* The rest of a batch is a batch, without the file that is done.
LEMMA BatchRest ==
  ASSUME NEW q \in Batches
  PROVE  /\ Len(q) = 1 => Elements(q) = {Head(q)}
         /\ Len(q) # 1 => /\ Tail(q) \in Batches
                          /\ Elements(Tail(q)) = Elements(q) \ {Head(q)}
<1>1. /\ q \in Seq(Attachments) /\ Len(q) \in 1..MaxBatch /\ DOMAIN q = 1..Len(q)
      /\ \A i, j \in 1..Len(q) : i # j => q[i] # q[j]
      /\ Head(q) = q[1]
  BY BatchShape
<1>2. ASSUME Len(q) = 1 PROVE Elements(q) = {Head(q)}
  BY <1>1, <1>2 DEF Elements
<1>3. ASSUME Len(q) # 1
      PROVE  Tail(q) \in Batches /\ Elements(Tail(q)) = Elements(q) \ {Head(q)}
  <2>. DEFINE t == Tail(q)
              m == Len(q) - 1
  <2>1. m \in 1..MaxBatch /\ q # <<>>
    BY <1>1, <1>3, BoundsAssumption
  <2>2. t \in Seq(Attachments) /\ Len(t) = m /\ \A i \in 1..m : t[i] = q[i + 1]
    BY <1>1, <2>1, HeadTailProperties
  <2>. HIDE DEF t
  <2>3. t \in [1..m -> Attachments] /\ DOMAIN t = 1..m
    BY <2>2, LenProperties
  <2>4. \A i, j \in 1..m : i # j => t[i] # t[j]
    BY <1>1, <2>1, <2>2
  <2>5. t \in Batches
    BY <2>1, <2>3, <2>4 DEF Batches
  <2>6. ASSUME NEW a PROVE a \in Elements(t) <=> a \in Elements(q) /\ a # Head(q)
    <3>1. a \in Elements(t) <=> \E i \in 1..m : a = q[i + 1]
      BY <2>2, <2>3 DEF Elements
    <3>2. a \in Elements(q) <=> \E j \in 1..Len(q) : a = q[j]
      BY <1>1 DEF Elements
    <3>3. ASSUME a \in Elements(t) PROVE a \in Elements(q) /\ a # Head(q)
      BY <1>1, <2>1, <3>1, <3>2, <3>3
    <3>4. ASSUME a \in Elements(q), a # Head(q) PROVE a \in Elements(t)
      <4>1. PICK j \in 1..Len(q) : a = q[j]
        BY <3>2, <3>4
      <4>2. j # 1 /\ j - 1 \in 1..m /\ (j - 1) + 1 = j
        BY <1>1, <3>4, <4>1
      <4>. QED
        BY <3>1, <4>1, <4>2
    <3>. QED
      BY <3>3, <3>4
  <2>7. Elements(t) = Elements(q) \ {Head(q)}
    BY <2>6
  <2>. QED
    BY <2>5, <2>7 DEF t
<1>. QED
  BY <1>2, <1>3

\* A file alone is a batch.
LEMMA BatchOfOne ==
  ASSUME NEW a \in Attachments
  PROVE  <<a>> \in Batches /\ Elements(<<a>>) = {a}
<1>1. 1 \in 1..MaxBatch /\ <<a>> \in [1..1 -> Attachments] /\ DOMAIN <<a>> = 1..1
  BY BoundsAssumption
<1>2. \A i, j \in DOMAIN <<a>> : i # j => <<a>>[i] # <<a>>[j]
  BY <1>1
<1>. QED
  BY <1>1, <1>2 DEF Batches, Elements

------------------------------------------------------------------------------
(* What becomes of a request *)

Steps == {"store", "mark", "append", "commit", "cleanup"}

\* The fields of what a request is doing.
LEMMA JobFields ==
  ASSUME TypeOK, NEW r \in Requests, job[r] # None
  PROVE  /\ job[r] \in Job
         /\ job[r].type \in {"added", "removed"}
         /\ job[r].queue \in Batches
         /\ Current(r) \in Elements(job[r].queue)
         /\ Elements(job[r].queue) \subseteq Attachments
         /\ BatchOf(r) = Elements(job[r].queue)
<1>1. job[r] \in Job
  BY DEF TypeOK
<1>2. job[r].type \in {"added", "removed"} /\ job[r].queue \in Batches
  BY <1>1 DEF Job
<1>. QED
  BY <1>1, <1>2, BatchShape DEF Current, BatchOf, Elements

\* A request that goes on with the same file.
GoesOn(r) ==
  /\ job' \in [Requests -> Job \cup {None}]
  /\ job'[r] # None
  /\ job'[r].type = job[r].type
  /\ job'[r].queue = job[r].queue
  /\ \A s \in Requests \ {r} : job'[s] = job[s]
  /\ \A s \in Requests : Adding(s)' = Adding(s)

\* A request that is through with a file.
FileDone(r) ==
  /\ job' \in [Requests -> Job \cup {None}]
  /\ job'[r] # None =>
       /\ job'[r].step = "append"
       /\ job'[r].type = job[r].type
       /\ Elements(job'[r].queue) = Elements(job[r].queue) \ {Current(r)}
  /\ \A s \in Requests \ {r} : job'[s] = job[s] /\ Adding(s)' = Adding(s)
  /\ Adding(r)' = Adding(r) \ {Current(r)}

\* A move to another step of the same file is a request that goes on.
LEMMA MoveGoesOn ==
  ASSUME TypeOK, NEW r \in Requests, job[r] # None, NEW step \in Steps,
         Move(r, step)
  PROVE  GoesOn(r) /\ job'[r].step = step
<1>. DEFINE j == [job[r] EXCEPT !.step = step]
<1>1. job[r] \in Job
  BY JobFields
<1>2. j \in Job /\ j.type = job[r].type /\ j.queue = job[r].queue /\ j.step = step
  BY <1>1 DEF Job, Steps
<1>3. job' = [job EXCEPT ![r] = j]
  BY DEF Move
<1>4. job \in [Requests -> Job \cup {None}]
  BY DEF TypeOK
<1>. HIDE DEF j
<1>5. /\ job' \in [Requests -> Job \cup {None}]
      /\ job'[r] = j
      /\ \A s \in Requests \ {r} : job'[s] = job[s]
  BY <1>2, <1>3, <1>4
<1>6. job'[r] # None
  BY <1>2, <1>5, NoneAssumption
<1>7. \A s \in Requests : Adding(s)' = Adding(s)
  BY <1>2, <1>5, <1>6 DEF Adding
<1>. QED
  BY <1>2, <1>5, <1>6, <1>7 DEF GoesOn

\* NextInBatch leaves one file behind.
LEMMA NextFileDone ==
  ASSUME TypeOK, NEW r \in Requests, job[r] # None, NextInBatch(r)
  PROVE  FileDone(r)
<1>. DEFINE j == [job[r] EXCEPT !.step = "append", !.queue = Tail(job[r].queue)]
            q == job[r].queue
<1>1. job[r] \in Job /\ q \in Batches
  BY JobFields
<1>2. job \in [Requests -> Job \cup {None}]
  BY DEF TypeOK
<1>3. job' = [job EXCEPT ![r] = IF Len(q) = 1 THEN None ELSE j]
  BY DEF NextInBatch
<1>4. CASE Len(q) = 1
  <2>1. Elements(q) = {Current(r)}
    BY <1>1, <1>4, BatchRest DEF Current
  <2>2. /\ job' \in [Requests -> Job \cup {None}]
        /\ job'[r] = None
        /\ \A s \in Requests \ {r} : job'[s] = job[s]
    BY <1>2, <1>3, <1>4
  <2>3. \A s \in Requests \ {r} : Adding(s)' = Adding(s)
    BY <2>2 DEF Adding
  <2>4. Adding(r)' = {} /\ Adding(r) \subseteq {Current(r)}
    BY <2>1, <2>2 DEF Adding
  <2>. QED
    BY <2>2, <2>3, <2>4 DEF FileDone
<1>5. CASE Len(q) # 1
  <2>1. Tail(q) \in Batches /\ Elements(Tail(q)) = Elements(q) \ {Current(r)}
    BY <1>1, <1>5, BatchRest DEF Current
  <2>2. j \in Job /\ j.type = job[r].type /\ j.queue = Tail(q) /\ j.step = "append"
    BY <1>1, <2>1 DEF Job
  <2>. HIDE DEF j
  <2>3. /\ job' \in [Requests -> Job \cup {None}]
        /\ job'[r] = j
        /\ \A s \in Requests \ {r} : job'[s] = job[s]
    BY <1>2, <1>3, <1>5, <2>2
  <2>4. job'[r] # None
    BY <2>2, <2>3, NoneAssumption
  <2>5. \A s \in Requests \ {r} : Adding(s)' = Adding(s)
    BY <2>3 DEF Adding
  <2>6. Adding(r)' = Adding(r) \ {Current(r)}
    BY <2>1, <2>2, <2>3, <2>4 DEF Adding
  <2>. QED
    BY <2>1, <2>2, <2>3, <2>5, <2>6 DEF FileDone
<1>. QED
  BY <1>4, <1>5

\* After a refusal an addition is cleaned up, and a removal goes on.
LEMMA RefusedJob ==
  ASSUME TypeOK, NEW r \in Requests, job[r] # None, Refused(r)
  PROVE  \/ job[r].type = "added" /\ GoesOn(r) /\ job'[r].step = "cleanup"
         \/ job[r].type = "removed" /\ FileDone(r)
<1>1. CASE job[r].type = "added"
  BY <1>1, MoveGoesOn DEF Refused, Steps
<1>2. CASE job[r].type = "removed"
  BY <1>2, NextFileDone DEF Refused
<1>. QED
  BY <1>1, <1>2, JobFields

\* A request that has read the task commits with the version it has read.
LEMMA ReadEffect ==
  ASSUME TypeOK, NEW r \in Requests, job[r] # None,
         job' = [job EXCEPT ![r].step = "commit", ![r].seen = version]
  PROVE  GoesOn(r) /\ job'[r].step = "commit"
<1>. DEFINE j == [job[r] EXCEPT !.step = "commit", !.seen = version]
<1>1. job[r] \in Job /\ version \in Nat
  BY JobFields DEF TypeOK
<1>2. j \in Job /\ j.type = job[r].type /\ j.queue = job[r].queue /\ j.step = "commit"
  BY <1>1 DEF Job
<1>3. job \in [Requests -> Job \cup {None}]
  BY DEF TypeOK
<1>4. job'[r] = j /\ \A s \in Requests \ {r} : job'[s] = job[s]
      /\ DOMAIN job' = Requests /\ job' = [q \in Requests |-> job'[q]]
  BY <1>1, <1>3 DEF Job
<1>. HIDE DEF j
<1>5. /\ job' \in [Requests -> Job \cup {None}]
      /\ job'[r] = j
      /\ \A s \in Requests \ {r} : job'[s] = job[s]
  BY <1>2, <1>3, <1>4
<1>6. job'[r] # None
  BY <1>2, <1>5, NoneAssumption
<1>7. ASSUME NEW s \in Requests PROVE Adding(s)' = Adding(s)
  <2>1. CASE s = r
    BY ONLY <1>2, <1>5, <1>6, <2>1, job[r] # None DEF Adding
  <2>2. CASE s # r
    BY ONLY <1>5, <2>2, s \in Requests DEF Adding
  <2>. QED
    BY <2>1, <2>2
<1>. QED
  BY <1>2, <1>5, <1>6, <1>7 DEF GoesOn

\* A request that ends.
LEMMA JobEnds ==
  ASSUME TypeOK, NEW r \in Requests, job' = [job EXCEPT ![r] = None]
  PROVE  /\ job' \in [Requests -> Job \cup {None}]
         /\ job'[r] = None
         /\ \A s \in Requests \ {r} : job'[s] = job[s] /\ Adding(s)' = Adding(s)
         /\ Adding(r)' = {}
<1>1. job \in [Requests -> Job \cup {None}]
  BY DEF TypeOK
<1>2. /\ job' \in [Requests -> Job \cup {None}]
      /\ job'[r] = None
      /\ \A s \in Requests \ {r} : job'[s] = job[s]
  BY <1>1
<1>. QED
  BY <1>2 DEF Adding

------------------------------------------------------------------------------
(* What an append does *)

\* One event more is counted under its type.
LEMMA OneMoreEvent ==
  ASSUME NEW events \in Seq(Event), NEW e \in Event, NEW type
  PROVE  /\ Tally(events, type) \in Nat
         /\ Tally(Append(events, e), type)
              = Tally(events, type) + (IF e.type = type THEN 1 ELSE 0)
<1>. DEFINE m == Len(events)
            longer == Append(events, e)
            S == {i \in DOMAIN events : events[i].type = type}
            T == {i \in DOMAIN longer : longer[i].type = type}
<1>1. /\ m \in Nat /\ DOMAIN events = 1..m
      /\ Len(longer) = m + 1 /\ DOMAIN longer = 1..(m + 1)
      /\ longer[m + 1] = e
      /\ \A i \in 1..m : longer[i] = events[i]
  OBVIOUS
<1>2. IsFiniteSet(S) /\ Cardinality(S) \in Nat
  <2>1. IsFiniteSet(1..m)
    BY <1>1, FS_Interval
  <2>. QED
    BY <1>1, <2>1, FS_Subset, FS_CardinalityType
<1>. HIDE DEF m, longer
<1>3. T = IF e.type = type THEN S \cup {m + 1} ELSE S
  <2>1. ASSUME NEW i
        PROVE  i \in T <=> i \in S \/ (i = m + 1 /\ e.type = type)
    BY <1>1
  <2>. QED
    BY <2>1
<1>4. m + 1 \notin S
  BY <1>1
<1>. HIDE DEF S, T
<1>5. Cardinality(T) = Cardinality(S) + (IF e.type = type THEN 1 ELSE 0)
  <2>1. CASE e.type # type
    BY <1>2, <1>3, <2>1
  <2>2. CASE e.type = type
    <3>1. Cardinality(S \cup {m + 1}) = Cardinality(S) + 1
      BY <1>2, <1>4, FS_AddElement
    <3>. QED
      BY <1>3, <2>2, <3>1
  <2>. QED
    BY <2>1, <2>2
<1>. QED
  BY <1>2, <1>5 DEF S, T, longer, Tally

\* An append adds the event of the request's file, and counts it.
LEMMA ApplyEffect ==
  ASSUME TypeOK, NEW r \in Requests, job[r] # None, Apply(r)
  PROVE  /\ version' \in Nat /\ count' \in Int /\ log' \in Seq(Event)
         /\ Len(log) \in Nat /\ DOMAIN log = 1..Len(log)
         /\ DOMAIN log' = 1..(Len(log) + 1)
         /\ \A i \in 1..Len(log) : log'[i] = log[i]
         /\ log'[Len(log) + 1] = [type |-> job[r].type, attachment |-> Current(r)]
         /\ \A type, a : Logged(type, a)' <=>
              Logged(type, a) \/ (type = job[r].type /\ a = Current(r))
         /\ CountIsTally => CountIsTally'
<1>. DEFINE e == [type |-> job[r].type, attachment |-> Current(r)]
            m == Len(log)
<1>1. log \in Seq(Event) /\ version \in Nat /\ count \in Int
  BY DEF TypeOK
<1>2. job[r].type \in {"added", "removed"} /\ Current(r) \in Attachments
  BY JobFields
<1>3. e \in Event /\ e.type = job[r].type
  BY <1>2 DEF Event
<1>4. log' = Append(log, e) /\ version' = version + 1
      /\ count' = count + CountStep(job[r].type)
  BY DEF Apply
<1>. HIDE DEF e
<1>5. version' \in Nat /\ count' \in Int /\ log' \in Seq(Event)
  BY <1>1, <1>2, <1>3, <1>4 DEF CountStep
<1>6. /\ m \in Nat /\ DOMAIN log = 1..m /\ DOMAIN log' = 1..(m + 1)
      /\ \A i \in 1..m : log'[i] = log[i]
      /\ log'[m + 1] = e
  BY <1>1, <1>3, <1>4
<1>. HIDE DEF m
<1>7. ASSUME NEW type, NEW a
      PROVE  Logged(type, a)' <=>
              Logged(type, a) \/ (type = job[r].type /\ a = Current(r))
  <2>. DEFINE f == [type |-> type, attachment |-> a]
  <2>1. Logged(type, a) <=> \E i \in 1..m : log[i] = f
    BY <1>6 DEF Logged
  <2>2. Logged(type, a)' <=> \E i \in 1..(m + 1) : log'[i] = f
    BY <1>6 DEF Logged
  <2>3. e = f <=> type = job[r].type /\ a = Current(r)
    BY DEF e
  <2>. HIDE DEF f
  <2>. QED
    BY <1>6, <2>1, <2>2, <2>3
<1>8. ASSUME CountIsTally PROVE CountIsTally'
  <2>1. \A type : /\ Tally(log, type) \in Nat
                  /\ Tally(log', type)
                       = Tally(log, type) + (IF e.type = type THEN 1 ELSE 0)
    BY <1>1, <1>3, <1>4, OneMoreEvent
  <2>2. CASE job[r].type = "added"
    <3>1. Tally(log', "added") = Tally(log, "added") + 1
          /\ Tally(log', "removed") = Tally(log, "removed")
      BY <1>3, <2>1, <2>2
    <3>. QED
      BY <1>4, <1>8, <2>1, <2>2, <3>1 DEF CountIsTally, CountStep
  <2>3. CASE job[r].type = "removed"
    <3>1. Tally(log', "added") = Tally(log, "added")
          /\ Tally(log', "removed") = Tally(log, "removed") + 1
      BY <1>3, <2>1, <2>3
    <3>. QED
      BY <1>4, <1>8, <2>1, <2>3, <3>1 DEF CountIsTally, CountStep
  <2>. QED
    BY <1>2, <2>2, <2>3
<1>. QED
  BY <1>5, <1>6, <1>7, <1>8 DEF e, m

------------------------------------------------------------------------------
(* Types *)

\* The initial state is typed.
LEMMA InitType == Init => TypeOK
BY BoundsAssumption DEF Init, TypeOK

\* Every step keeps the types.
LEMMA NextType == TypeOK /\ [Next]_vars => TypeOK'
<1>. SUFFICES ASSUME TypeOK, [Next]_vars PROVE TypeOK'
  OBVIOUS
<1>0. /\ job \in [Requests -> Job \cup {None}]
      /\ record \in [Attachments -> {"none", "stored", "flagged", "gone"}]
      /\ version \in Nat /\ failures \in 0..MaxFailures /\ MaxFailures \in Nat
      /\ others \in 0..MaxOthers /\ MaxOthers \in Nat
  BY BoundsAssumption DEF TypeOK
<1>1. ASSUME NEW r \in Requests, NEW batch \in Batches, BeginAdd(r, batch)
      PROVE  TypeOK'
  <2>. DEFINE j == [type |-> "added", queue |-> batch, seen |-> 0, step |-> "store"]
  <2>1. j \in Job
    BY DEF Job
  <2>2. job' \in [Requests -> Job \cup {None}]
    BY <1>0, <1>1, <2>1 DEF BeginAdd
  <2>. QED
    BY <1>1, <2>2 DEF BeginAdd, TypeOK
<1>2. ASSUME NEW r \in Requests, NEW a \in Attachments, BeginRemove(r, a)
      PROVE  TypeOK'
  <2>. DEFINE j == [type |-> "removed", queue |-> <<a>>, seen |-> 0, step |-> "mark"]
  <2>1. <<a>> \in Batches
    BY BatchOfOne
  <2>2. j \in Job
    BY <2>1 DEF Job
  <2>3. job' = [job EXCEPT ![r] = j]
    BY <1>2 DEF BeginRemove
  <2>. HIDE DEF j
  <2>4. job' \in [Requests -> Job \cup {None}]
    BY <1>0, <2>2, <2>3
  <2>. QED
    BY <1>2, <2>4 DEF BeginRemove, TypeOK
<1>3. ASSUME NEW r \in Requests, StoreRecords(r) PROVE TypeOK'
  <2>1. job' \in [Requests -> Job \cup {None}]
    BY <1>3, MoveGoesOn DEF StoreRecords, At, GoesOn, Steps
  <2>2. record' \in [Attachments -> {"none", "stored", "flagged", "gone"}]
    BY <1>0, <1>3 DEF StoreRecords
  <2>. QED
    BY <1>3, <2>1, <2>2 DEF StoreRecords, TypeOK
<1>4. ASSUME NEW r \in Requests, StoreSome(r) PROVE TypeOK'
  <2>1. job' \in [Requests -> Job \cup {None}]
    BY <1>4, JobEnds DEF StoreSome
  <2>2. record' \in [Attachments -> {"none", "stored", "flagged", "gone"}]
    BY <1>0, <1>4 DEF StoreSome
  <2>3. failures' \in 0..MaxFailures
    BY <1>0, <1>4 DEF StoreSome
  <2>. QED
    BY <1>4, <2>1, <2>2, <2>3 DEF StoreSome, TypeOK
<1>5. ASSUME NEW r \in Requests, Cleanup(r) PROVE TypeOK'
  <2>1. job' \in [Requests -> Job \cup {None}]
    BY <1>5, NextFileDone DEF Cleanup, At, FileDone
  <2>2. record' \in [Attachments -> {"none", "stored", "flagged", "gone"}]
    BY <1>0, <1>5 DEF Cleanup
  <2>3. failures' \in 0..MaxFailures
    BY <1>0, <1>5 DEF Cleanup
  <2>. QED
    BY <1>5, <2>1, <2>2, <2>3 DEF Cleanup, TypeOK
<1>6. ASSUME NEW r \in Requests, MarkRemoved(r) PROVE TypeOK'
  <2>1. job' \in [Requests -> Job \cup {None}]
    BY <1>6, MoveGoesOn DEF MarkRemoved, At, GoesOn, Steps
  <2>2. record' \in [Attachments -> {"none", "stored", "flagged", "gone"}]
    BY <1>0, <1>6 DEF MarkRemoved, Flag
  <2>. QED
    BY <1>6, <2>1, <2>2 DEF MarkRemoved, TypeOK
<1>7. ASSUME NEW r \in Requests, AppendRead(r) PROVE TypeOK'
  <2>1. job' \in [Requests -> Job \cup {None}]
    BY <1>7, ReadEffect, RefusedJob DEF AppendRead, At, GoesOn, FileDone
  <2>. QED
    BY <1>7, <2>1 DEF AppendRead, TypeOK
<1>8. ASSUME NEW r \in Requests, AppendCommit(r) PROVE TypeOK'
  <2>1. job' \in [Requests -> Job \cup {None}]
    BY <1>8, NextFileDone, RefusedJob DEF AppendCommit, At, GoesOn, FileDone
  <2>2. version' \in Nat /\ count' \in Int /\ log' \in Seq(Event)
    BY <1>8, ApplyEffect DEF AppendCommit, At, TypeOK
  <2>. QED
    BY <1>8, <2>1, <2>2 DEF AppendCommit, TypeOK
<1>9. ASSUME NEW r \in Requests, ReplyLost(r) PROVE TypeOK'
  <2>1. job' \in [Requests -> Job \cup {None}]
    BY <1>9, RefusedJob DEF ReplyLost, At, GoesOn, FileDone
  <2>2. version' \in Nat /\ count' \in Int /\ log' \in Seq(Event)
    BY <1>9, ApplyEffect DEF ReplyLost, At
  <2>3. failures' \in 0..MaxFailures
    BY <1>0, <1>9 DEF ReplyLost
  <2>. QED
    BY <1>9, <2>1, <2>2, <2>3 DEF ReplyLost, TypeOK
<1>10. ASSUME NEW r \in Requests, Crash(r) PROVE TypeOK'
  <2>1. job' \in [Requests -> Job \cup {None}]
    BY <1>10, JobEnds DEF Crash
  <2>2. failures' \in 0..MaxFailures
    BY <1>0, <1>10 DEF Crash
  <2>. QED
    BY <1>10, <2>1, <2>2 DEF Crash, TypeOK
<1>11. CASE OtherEvent
  <2>1. version' \in Nat /\ others' \in 0..MaxOthers
    BY <1>0, <1>11 DEF OtherEvent
  <2>. QED
    BY <1>11, <2>1 DEF OtherEvent, TypeOK
<1>12. CASE DeleteTask
  BY <1>12 DEF DeleteTask, TypeOK
<1>13. CASE UNCHANGED vars
  BY <1>13 DEF vars, TypeOK
<1>. QED
  BY <1>1, <1>2, <1>3, <1>4, <1>5, <1>6, <1>7, <1>8, <1>9, <1>10, <1>11, <1>12,
     <1>13 DEF Next

\* The variables keep their types, however requests interleave and fail.
THEOREM AttachmentsTyped == Spec => []TypeOK
BY InitType, NextType, PTL DEF Spec

------------------------------------------------------------------------------
(* Whose file it is *)

\* What a request has still to do shrinks, and what it does to the records
\* leaves those of the other requests' additions alone.
Proceeds(r) ==
  /\ \A s \in Requests \ {r} : job'[s] = job[s]
  /\ \A s \in Requests : Adding(s)' \subseteq Adding(s)
  /\ job'[r] # None =>
       /\ job'[r].type = job[r].type
       /\ Elements(job'[r].queue) \subseteq Elements(job[r].queue)
       /\ job'[r].step \notin {"store", "mark"}
  /\ \A a \in Attachments : record[a] # "none" => record'[a] # "none"
  /\ \A s \in Requests \ {r} : \A a \in Adding(s) :
       record'[a] = record[a] \/ {record[a], record'[a]} \subseteq Kept

\* A request that proceeds keeps the records the requests answer for.
LEMMA ProceedsOwn ==
  ASSUME TypeOK, OwnInv, NEW r \in Requests, job[r] # None, Proceeds(r),
         job'[r] # None /\ job'[r].type = "added" =>
           \A a \in Elements(job'[r].queue) : record'[a] \in Kept,
         job'[r] # None /\ job'[r].type = "removed" => job'[r].step # "cleanup",
         LoggedHadRecord'
  PROVE  OwnInv'
<1>1. AddedFiles'
  <2>. SUFFICES ASSUME NEW s \in Requests, job'[s] # None, job'[s].type = "added"
                PROVE  /\ job'[s].step # "mark"
                       /\ \A a \in Elements(job'[s].queue) :
                            IF job'[s].step = "store" THEN record'[a] = "none"
                                                      ELSE record'[a] \in Kept
    BY DEF AddedFiles
  <2>1. CASE s = r
    BY <2>1 DEF Proceeds
  <2>2. CASE s # r
    <3>1. job'[s] = job[s]
      BY <2>2 DEF Proceeds
    <3>2. Elements(job[s].queue) = Adding(s)
      BY <3>1 DEF Adding
    <3>3. /\ job[s].step # "mark"
          /\ \A a \in Adding(s) :
               IF job[s].step = "store" THEN record[a] = "none"
                                        ELSE record[a] \in Kept
      BY <3>1, <3>2 DEF OwnInv, AddedFiles
    <3>4. \A a \in Adding(s) :
            record'[a] = record[a] \/ {record[a], record'[a]} \subseteq Kept
      BY <2>2 DEF Proceeds
    <3>. QED
      BY <3>1, <3>2, <3>3, <3>4 DEF Kept
  <2>. QED
    BY <2>1, <2>2
<1>2. RemovedFiles'
  <2>. SUFFICES ASSUME NEW s \in Requests, job'[s] # None, job'[s].type = "removed"
                PROVE  /\ job'[s].step \notin {"store", "cleanup"}
                       /\ \A a \in Elements(job'[s].queue) : record'[a] # "none"
    BY DEF RemovedFiles
  <2>1. job[s] # None /\ job[s].type = "removed"
        /\ Elements(job'[s].queue) \subseteq Elements(job[s].queue)
    BY DEF Proceeds
  <2>2. Elements(job[s].queue) \subseteq Attachments
        /\ \A a \in Elements(job[s].queue) : record[a] # "none"
    BY <2>1, JobFields DEF OwnInv, RemovedFiles
  <2>3. \A a \in Elements(job'[s].queue) : record'[a] # "none"
    BY <2>1, <2>2 DEF Proceeds
  <2>4. job'[s].step \notin {"store", "cleanup"}
    BY DEF Proceeds, OwnInv, RemovedFiles
  <2>. QED
    BY <2>3, <2>4
<1>3. OneAdder'
  <2>. SUFFICES ASSUME NEW s \in Requests, NEW t \in Requests, s # t
                PROVE  Adding(s)' \cap Adding(t)' = {}
    BY DEF OneAdder
  <2>1. Adding(s)' \subseteq Adding(s) /\ Adding(t)' \subseteq Adding(t)
    BY DEF Proceeds
  <2>2. Adding(s) \cap Adding(t) = {}
    BY DEF OwnInv, OneAdder
  <2>. QED
    BY <2>1, <2>2
<1>. QED
  BY <1>1, <1>2, <1>3 DEF OwnInv

\* The files of different requests' additions are different.
LEMMA OthersFiles ==
  ASSUME OwnInv, NEW r \in Requests, job[r] # None, job[r].type = "added",
         NEW s \in Requests \ {r}, NEW a \in Adding(s)
  PROVE  a \notin Elements(job[r].queue)
<1>1. Adding(r) = Elements(job[r].queue)
  BY DEF Adding
<1>2. Adding(r) \cap Adding(s) = {}
  BY DEF OwnInv, OneAdder
<1>. QED
  BY <1>1, <1>2

\* Every step keeps files and requests apart.
LEMMA NextOwn == TypeOK /\ OwnInv /\ [Next]_vars => OwnInv'
<1>. SUFFICES ASSUME TypeOK, OwnInv, [Next]_vars PROVE OwnInv'
  OBVIOUS
<1>0. /\ AddedFiles /\ RemovedFiles /\ OneAdder /\ LoggedHadRecord
      /\ record \in [Attachments -> {"none", "stored", "flagged", "gone"}]
      /\ job \in [Requests -> Job \cup {None}]
  BY DEF OwnInv, TypeOK
<1>1. ASSUME NEW r \in Requests, NEW batch \in Batches, BeginAdd(r, batch)
      PROVE  OwnInv'
  <2>. DEFINE j == [type |-> "added", queue |-> batch, seen |-> 0, step |-> "store"]
  <2>1. j.type = "added" /\ j.queue = batch /\ j.step = "store" /\ j \in Job
    BY DEF Job
  <2>2. job' = [job EXCEPT ![r] = j] /\ record' = record /\ log' = log
    BY <1>1 DEF BeginAdd
  <2>. HIDE DEF j
  <2>3. job'[r] = j /\ j # None /\ \A s \in Requests \ {r} : job'[s] = job[s]
    BY <1>0, <2>1, <2>2, NoneAssumption
  <2>4. \A a \in Elements(batch) : record[a] = "none"
    BY <1>1 DEF BeginAdd, Elements
  <2>5. \A s \in Requests : Adding(s) \cap Elements(batch) = {}
    BY <1>1 DEF BeginAdd, Adding, Elements
  <2>6. Adding(r)' = Elements(batch)
        /\ \A s \in Requests \ {r} : Adding(s)' = Adding(s)
    BY <2>1, <2>3 DEF Adding
  <2>7. OneAdder'
    BY <1>0, <2>5, <2>6 DEF OneAdder
  <2>8. LoggedHadRecord'
    BY <1>0, <2>2 DEF LoggedHadRecord, Logged
  <2>9. AddedFiles'
    BY <1>0, <2>1, <2>2, <2>3, <2>4 DEF AddedFiles
  <2>10. RemovedFiles'
    BY <1>0, <2>1, <2>2, <2>3 DEF RemovedFiles
  <2>. QED
    BY <2>7, <2>8, <2>9, <2>10 DEF OwnInv
<1>2. ASSUME NEW r \in Requests, NEW a \in Attachments, BeginRemove(r, a)
      PROVE  OwnInv'
  <2>. DEFINE q == <<a>>
              j == [type |-> "removed", queue |-> q, seen |-> 0, step |-> "mark"]
  <2>1. q \in Batches /\ Elements(q) = {a}
    BY BatchOfOne
  <2>. HIDE DEF q
  <2>2. j.type = "removed" /\ j.queue = q /\ j.step = "mark" /\ j \in Job
    BY <2>1 DEF Job
  <2>3. job' = [job EXCEPT ![r] = j] /\ record' = record /\ log' = log
        /\ job[r] = None /\ record[a] = "stored"
    BY <1>2 DEF BeginRemove, q
  <2>. HIDE DEF j
  <2>4. job'[r] = j /\ j # None /\ \A s \in Requests \ {r} : job'[s] = job[s]
    BY <1>0, <2>2, <2>3, NoneAssumption
  <2>5. \A s \in Requests : Adding(s)' = Adding(s)
    BY <2>2, <2>3, <2>4 DEF Adding
  <2>6. OneAdder'
    BY <1>0, <2>5 DEF OneAdder
  <2>7. LoggedHadRecord'
    BY <1>0, <2>3 DEF LoggedHadRecord, Logged
  <2>8. AddedFiles'
    BY <1>0, <2>2, <2>3, <2>4 DEF AddedFiles
  <2>9. RemovedFiles'
    BY <1>0, <2>1, <2>2, <2>3, <2>4 DEF RemovedFiles
  <2>. QED
    BY <2>6, <2>7, <2>8, <2>9 DEF OwnInv
<1>3. ASSUME NEW r \in Requests, StoreRecords(r) PROVE OwnInv'
  <2>1. job[r] # None /\ job[r].step = "store" /\ log' = log
    BY <1>3 DEF StoreRecords, At
  <2>2. GoesOn(r) /\ job'[r].step = "append"
    BY <1>3, <2>1, MoveGoesOn DEF StoreRecords, Steps
  <2>3. job[r].type = "added"
    BY <1>0, <2>1, JobFields DEF RemovedFiles
  <2>4. record' = [a \in Attachments |->
                    IF a \in Elements(job[r].queue) THEN "stored" ELSE record[a]]
    BY <1>3, <2>1, JobFields DEF StoreRecords
  <2>5. \A s \in Requests : Adding(s) \subseteq Attachments
    BY JobFields DEF Adding
  <2>6. \A s \in Requests \ {r} : \A a \in Adding(s) : record'[a] = record[a]
    BY <2>1, <2>3, <2>4, <2>5, OthersFiles
  <2>7. \A a \in Attachments : record[a] # "none" => record'[a] # "none"
    BY <2>4
  <2>8. Proceeds(r)
    BY <2>2, <2>6, <2>7 DEF Proceeds, GoesOn
  <2>9. \A a \in Elements(job'[r].queue) : record'[a] \in Kept
    BY <2>1, <2>2, <2>4, JobFields DEF GoesOn, Kept
  <2>10. LoggedHadRecord'
    BY <1>0, <2>1, <2>7 DEF LoggedHadRecord, Logged
  <2>. QED
    BY <2>1, <2>2, <2>8, <2>9, <2>10, ProceedsOwn
<1>4. ASSUME NEW r \in Requests, StoreSome(r) PROVE OwnInv'
  <2>1. job[r] # None /\ job[r].step = "store" /\ log' = log
    BY <1>4 DEF StoreSome, At
  <2>2. /\ job'[r] = None
        /\ \A s \in Requests \ {r} : job'[s] = job[s]
        /\ \A s \in Requests : Adding(s)' \subseteq Adding(s)
    BY <1>4, JobEnds DEF StoreSome
  <2>3. job[r].type = "added"
    BY <1>0, <2>1, JobFields DEF RemovedFiles
  <2>4. PICK stored \in SUBSET Elements(job[r].queue) :
          record' = [a \in Attachments |->
                      IF a \in stored THEN "stored" ELSE record[a]]
    BY <1>4, <2>1, JobFields DEF StoreSome
  <2>5. \A s \in Requests : Adding(s) \subseteq Attachments
    BY JobFields DEF Adding
  <2>6. \A s \in Requests \ {r} : \A a \in Adding(s) : record'[a] = record[a]
    BY <2>1, <2>3, <2>4, <2>5, OthersFiles
  <2>7. \A a \in Attachments : record[a] # "none" => record'[a] # "none"
    BY <2>4
  <2>8. Proceeds(r)
    BY <2>2, <2>6, <2>7 DEF Proceeds
  <2>9. LoggedHadRecord'
    BY <1>0, <2>1, <2>7 DEF LoggedHadRecord, Logged
  <2>. QED
    BY <2>1, <2>2, <2>8, <2>9, ProceedsOwn
<1>5. ASSUME NEW r \in Requests, Cleanup(r) PROVE OwnInv'
  <2>1. job[r] # None /\ job[r].step = "cleanup" /\ log' = log
    BY <1>5 DEF Cleanup, At
  <2>2. FileDone(r)
    BY <1>5, <2>1, NextFileDone DEF Cleanup
  <2>3. job[r].type = "added"
    BY <1>0, <2>1, JobFields DEF RemovedFiles
  <2>4. Current(r) \in Elements(job[r].queue)
        /\ Elements(job[r].queue) \subseteq Attachments
        /\ \A a \in Elements(job[r].queue) : record[a] \in Kept
    BY <1>0, <2>1, <2>3, JobFields DEF AddedFiles
  <2>5. \A a \in Attachments :
          record'[a] = record[a] \/ (a = Current(r) /\ record'[a] = "gone")
    BY <1>5 DEF Cleanup, CleanedUp
  <2>6. \A s \in Requests : Adding(s) \subseteq Attachments
    BY JobFields DEF Adding
  <2>7. \A s \in Requests \ {r} : \A a \in Adding(s) : record'[a] = record[a]
    BY <2>1, <2>3, <2>4, <2>5, <2>6, OthersFiles
  <2>8. \A a \in Attachments : record[a] # "none" => record'[a] # "none"
    BY <2>5
  <2>9. Proceeds(r)
    BY <2>2, <2>7, <2>8 DEF Proceeds, FileDone
  <2>10. job'[r] # None => \A a \in Elements(job'[r].queue) : record'[a] \in Kept
    BY <2>2, <2>4, <2>5 DEF FileDone
  <2>11. job'[r] # None => job'[r].step # "cleanup"
    BY <2>2 DEF FileDone
  <2>12. LoggedHadRecord'
    BY <1>0, <2>1, <2>8 DEF LoggedHadRecord, Logged
  <2>. QED
    BY <2>1, <2>9, <2>10, <2>11, <2>12, ProceedsOwn
<1>6. ASSUME NEW r \in Requests, MarkRemoved(r) PROVE OwnInv'
  <2>1. job[r] # None /\ job[r].step = "mark" /\ log' = log
    BY <1>6 DEF MarkRemoved, At
  <2>2. GoesOn(r) /\ job'[r].step = "append"
    BY <1>6, <2>1, MoveGoesOn DEF MarkRemoved, Steps
  <2>3. job[r].type = "removed"
    BY <1>0, <2>1, JobFields DEF AddedFiles
  <2>4. \A a \in Attachments :
          record'[a] = record[a] \/ (record[a] = "stored" /\ record'[a] = "flagged")
    BY <1>0, <1>6 DEF MarkRemoved, Flag
  <2>5. \A s \in Requests : Adding(s) \subseteq Attachments
    BY JobFields DEF Adding
  <2>6. \A a \in Attachments : record[a] # "none" => record'[a] # "none"
    BY <2>4
  <2>7. \A a \in Attachments :
          record'[a] = record[a] \/ {record[a], record'[a]} \subseteq Kept
    BY <2>4 DEF Kept
  <2>8. Proceeds(r)
    BY <2>2, <2>5, <2>6, <2>7 DEF Proceeds, GoesOn
  <2>9. LoggedHadRecord'
    BY <1>0, <2>1, <2>6 DEF LoggedHadRecord, Logged
  <2>. QED
    BY <2>1, <2>2, <2>3, <2>8, <2>9, ProceedsOwn DEF GoesOn
<1>7. ASSUME NEW r \in Requests, job[r] # None,
             job[r].step \notin {"store", "mark"}, record' = record,
             LoggedHadRecord',
             \/ GoesOn(r) /\ job'[r].step = "commit"
             \/ job[r].type = "added" /\ GoesOn(r) /\ job'[r].step = "cleanup"
             \/ FileDone(r)
      PROVE  OwnInv'
  <2>1. Proceeds(r)
    BY <1>7 DEF Proceeds, GoesOn, FileDone
  <2>2. job'[r] # None /\ job'[r].type = "added" =>
          \A a \in Elements(job'[r].queue) : record'[a] \in Kept
    BY <1>0, <1>7 DEF GoesOn, FileDone, AddedFiles
  <2>3. job'[r] # None /\ job'[r].type = "removed" => job'[r].step # "cleanup"
    BY <1>7 DEF GoesOn, FileDone
  <2>. QED
    BY <1>7, <2>1, <2>2, <2>3, ProceedsOwn
<1>8. ASSUME NEW r \in Requests, job[r] # None, job[r].step = "commit", Apply(r),
             record' = record
      PROVE  LoggedHadRecord'
  <2>1. record[Current(r)] # "none"
    BY <1>0, <1>8, JobFields DEF AddedFiles, RemovedFiles, Kept
  <2>2. \A a : Logged("added", a)' => Logged("added", a) \/ a = Current(r)
    BY <1>8, ApplyEffect
  <2>. QED
    BY <1>0, <1>8, <2>1, <2>2 DEF LoggedHadRecord
<1>9. ASSUME NEW r \in Requests, AppendRead(r) PROVE OwnInv'
  <2>1. job[r] # None /\ job[r].step = "append" /\ log' = log /\ record' = record
    BY <1>9 DEF AppendRead, At
  <2>2. LoggedHadRecord'
    BY <1>0, <2>1 DEF LoggedHadRecord, Logged
  <2>. QED
    BY <1>7, <1>9, <2>1, <2>2, ReadEffect, RefusedJob DEF AppendRead
<1>10. ASSUME NEW r \in Requests, AppendCommit(r) PROVE OwnInv'
  <2>1. job[r] # None /\ job[r].step = "commit" /\ record' = record
    BY <1>10 DEF AppendCommit, At
  <2>2. CASE Apply(r) /\ NextInBatch(r)
    BY <1>7, <1>8, <2>1, <2>2, NextFileDone
  <2>3. CASE Refused(r) /\ log' = log
    <3>1. LoggedHadRecord'
      BY <1>0, <2>1, <2>3 DEF LoggedHadRecord, Logged
    <3>. QED
      BY <1>7, <2>1, <2>3, <3>1, RefusedJob
  <2>. QED
    BY <1>10, <2>2, <2>3 DEF AppendCommit
<1>11. ASSUME NEW r \in Requests, ReplyLost(r) PROVE OwnInv'
  <2>1. job[r] # None /\ job[r].step = "commit" /\ record' = record
        /\ Apply(r) /\ Refused(r)
    BY <1>11 DEF ReplyLost, At
  <2>. QED
    BY <1>7, <1>8, <2>1, RefusedJob
<1>12. ASSUME NEW r \in Requests, Crash(r) PROVE OwnInv'
  <2>1. job[r] # None /\ record' = record /\ log' = log
    BY <1>12 DEF Crash
  <2>2. /\ job'[r] = None
        /\ \A s \in Requests \ {r} : job'[s] = job[s]
        /\ \A s \in Requests : Adding(s)' \subseteq Adding(s)
    BY <1>12, JobEnds DEF Crash
  <2>3. Proceeds(r)
    BY <2>1, <2>2 DEF Proceeds
  <2>4. LoggedHadRecord'
    BY <1>0, <2>1 DEF LoggedHadRecord, Logged
  <2>. QED
    BY <2>1, <2>2, <2>3, <2>4, ProceedsOwn
<1>13. ASSUME job' = job, record' = record, log' = log PROVE OwnInv'
  BY <1>0, <1>13 DEF OwnInv, AddedFiles, RemovedFiles, OneAdder, LoggedHadRecord,
                     Adding, Logged
<1>. QED
  BY <1>1, <1>2, <1>3, <1>4, <1>5, <1>6, <1>9, <1>10, <1>11, <1>12, <1>13
  DEF Next, OtherEvent, DeleteTask, vars

------------------------------------------------------------------------------
(* Records and timeline *)

\* As long as nothing fails, every step keeps records and timeline together.
LEMMA NextTimeline ==
  ASSUME TypeOK, OwnInv, failures = 0 => TimelineInv, [Next]_vars, failures' = 0
  PROVE  TimelineInv'
<1>0. /\ failures \in Nat /\ log \in Seq(Event)
      /\ record \in [Attachments -> {"none", "stored", "flagged", "gone"}]
      /\ job \in [Requests -> Job \cup {None}]
      /\ AddedFiles /\ RemovedFiles /\ OneAdder /\ LoggedHadRecord
  BY BoundsAssumption DEF TypeOK, OwnInv
<1>1. failures' \in {failures, failures + 1}
  BY DEF Next, BeginAdd, BeginRemove, StoreRecords, StoreSome, Cleanup,
         MarkRemoved, AppendRead, AppendCommit, ReplyLost, Crash, OtherEvent,
         DeleteTask, vars
<1>2. failures = 0 /\ TimelineInv
  BY <1>0, <1>1
<1>3. NotYetLogged /\ LoggedKept /\ KeptExplained /\ AddedOnce
  BY <1>2 DEF TimelineInv
<1>4. ASSUME log' = log, \A s \in Requests : Adding(s)' = Adding(s),
             \A a \in Attachments : record'[a] \in Kept <=> record[a] \in Kept
      PROVE  TimelineInv'
  <2>1. \A a : Logged("added", a)' <=> Logged("added", a)
    BY <1>4 DEF Logged
  <2>2. NotYetLogged'
    BY <1>3, <1>4, <2>1 DEF NotYetLogged
  <2>3. LoggedKept'
    BY <1>3, <1>4, <2>1 DEF LoggedKept
  <2>4. KeptExplained'
    BY <1>3, <1>4, <2>1 DEF KeptExplained
  <2>5. AddedOnce'
    BY <1>3, <1>4 DEF AddedOnce
  <2>. QED
    BY <2>2, <2>3, <2>4, <2>5 DEF TimelineInv
<1>5. ASSUME NEW r \in Requests, job[r] # None, job[r].type = "removed", FileDone(r)
      PROVE  \A s \in Requests : Adding(s)' = Adding(s)
  BY <1>5 DEF FileDone, Adding
<1>6. ASSUME NEW r \in Requests, NEW batch \in Batches, BeginAdd(r, batch)
      PROVE  TimelineInv'
  <2>. DEFINE j == [type |-> "added", queue |-> batch, seen |-> 0, step |-> "store"]
  <2>1. j.type = "added" /\ j.queue = batch /\ j \in Job
    BY DEF Job
  <2>2. job' = [job EXCEPT ![r] = j] /\ record' = record /\ log' = log
        /\ job[r] = None
    BY <1>6 DEF BeginAdd
  <2>. HIDE DEF j
  <2>3. job'[r] = j /\ j # None /\ \A s \in Requests \ {r} : job'[s] = job[s]
    BY <1>0, <2>1, <2>2, NoneAssumption
  <2>4. Adding(r) = {} /\ Adding(r)' = Elements(batch)
        /\ \A s \in Requests \ {r} : Adding(s)' = Adding(s)
    BY <2>1, <2>2, <2>3 DEF Adding
  <2>5. \A a : Logged("added", a)' <=> Logged("added", a)
    BY <2>2 DEF Logged
  <2>6. \A a \in Elements(batch) : ~Logged("added", a)
    <3>1. \A a \in Elements(batch) : a \in Attachments /\ record[a] = "none"
      BY <1>6, BatchShape DEF BeginAdd, Elements
    <3>. QED
      BY <1>0, <3>1 DEF LoggedHadRecord
  <2>7. NotYetLogged'
    BY <1>3, <2>4, <2>5, <2>6 DEF NotYetLogged
  <2>8. LoggedKept'
    BY <1>3, <2>2, <2>5 DEF LoggedKept
  <2>9. KeptExplained'
    BY <1>3, <2>2, <2>4, <2>5 DEF KeptExplained
  <2>10. AddedOnce'
    BY <1>3, <2>2 DEF AddedOnce
  <2>. QED
    BY <2>7, <2>8, <2>9, <2>10 DEF TimelineInv
<1>7. ASSUME NEW r \in Requests, NEW a \in Attachments, BeginRemove(r, a)
      PROVE  TimelineInv'
  <2>. DEFINE j == [type |-> "removed", queue |-> <<a>>, seen |-> 0, step |-> "mark"]
  <2>1. job' = [job EXCEPT ![r] = j] /\ record' = record /\ log' = log
        /\ job[r] = None /\ j.type = "removed"
    BY <1>7 DEF BeginRemove
  <2>. HIDE DEF j
  <2>2. job'[r] = j /\ \A s \in Requests \ {r} : job'[s] = job[s]
    BY <1>0, <2>1
  <2>3. \A s \in Requests : Adding(s)' = Adding(s)
    BY <2>1, <2>2 DEF Adding
  <2>. QED
    BY <1>4, <2>1, <2>3
<1>8. ASSUME NEW r \in Requests, StoreRecords(r) PROVE TimelineInv'
  <2>1. job[r] # None /\ job[r].step = "store" /\ log' = log
    BY <1>8 DEF StoreRecords, At
  <2>2. GoesOn(r)
    BY <1>8, <2>1, MoveGoesOn DEF StoreRecords, Steps
  <2>3. job[r].type = "added"
    BY <1>0, <2>1, JobFields DEF RemovedFiles
  <2>4. Adding(r) = Elements(job[r].queue)
    BY <2>1, <2>3 DEF Adding
  <2>5. record' = [a \in Attachments |->
                    IF a \in Adding(r) THEN "stored" ELSE record[a]]
    BY <1>8, <2>1, <2>4, JobFields DEF StoreRecords
  <2>6. \A a : Logged("added", a)' <=> Logged("added", a)
    BY <2>1 DEF Logged
  <2>7. NotYetLogged'
    BY <1>3, <2>2, <2>6 DEF NotYetLogged, GoesOn
  <2>8. LoggedKept'
    BY <1>3, <2>5, <2>6 DEF LoggedKept, Kept
  <2>9. KeptExplained'
    BY <1>3, <2>2, <2>5, <2>6 DEF KeptExplained, GoesOn
  <2>10. AddedOnce'
    BY <1>3, <2>1 DEF AddedOnce
  <2>. QED
    BY <2>7, <2>8, <2>9, <2>10 DEF TimelineInv
<1>9. ASSUME NEW r \in Requests, Cleanup(r) PROVE TimelineInv'
  <2>1. job[r] # None /\ job[r].step = "cleanup" /\ log' = log
    BY <1>9 DEF Cleanup, At
  <2>2. FileDone(r)
    BY <1>9, <2>1, NextFileDone DEF Cleanup
  <2>3. job[r].type = "added"
    BY <1>0, <2>1, JobFields DEF RemovedFiles
  <2>4. Current(r) \in Adding(r)
    BY <2>1, <2>3, JobFields DEF Adding
  <2>5. record' = [a \in Attachments |->
                    IF a = Current(r) THEN "gone" ELSE record[a]]
    BY <1>0, <1>2, <1>9 DEF Cleanup, CleanedUp
  <2>6. \A a : Logged("added", a)' <=> Logged("added", a)
    BY <2>1 DEF Logged
  <2>7. ~Logged("added", Current(r))
    BY <1>3, <2>4 DEF NotYetLogged
  <2>8. NotYetLogged'
    BY <1>3, <2>2, <2>6 DEF NotYetLogged, FileDone
  <2>9. LoggedKept'
    BY <1>3, <2>5, <2>6, <2>7 DEF LoggedKept
  <2>10. KeptExplained'
    <3>1. ASSUME NEW a \in Attachments, record'[a] \in Kept
          PROVE  Logged("added", a)' \/ \E s \in Requests : a \in Adding(s)'
      <4>1. a # Current(r) /\ record[a] \in Kept
        BY <2>5, <3>1 DEF Kept
      <4>2. CASE Logged("added", a)
        BY <2>6, <4>2
      <4>3. CASE \E s \in Requests : a \in Adding(s)
        BY <2>2, <4>1, <4>3 DEF FileDone
      <4>. QED
        BY <1>3, <4>1, <4>2, <4>3 DEF KeptExplained
    <3>. QED
      BY <3>1 DEF KeptExplained
  <2>11. AddedOnce'
    BY <1>3, <2>1 DEF AddedOnce
  <2>. QED
    BY <2>8, <2>9, <2>10, <2>11 DEF TimelineInv
<1>10. ASSUME NEW r \in Requests, MarkRemoved(r) PROVE TimelineInv'
  <2>1. job[r] # None /\ log' = log
    BY <1>10 DEF MarkRemoved, At
  <2>2. GoesOn(r)
    BY <1>10, <2>1, MoveGoesOn DEF MarkRemoved, Steps
  <2>3. \A a \in Attachments : record'[a] \in Kept <=> record[a] \in Kept
    BY <1>0, <1>10 DEF MarkRemoved, Flag, Kept
  <2>. QED
    BY <1>4, <2>1, <2>2, <2>3 DEF GoesOn
<1>11. ASSUME NEW r \in Requests, job[r] # None, log' = log, record' = record,
              \/ GoesOn(r)
              \/ job[r].type = "removed" /\ FileDone(r)
       PROVE  TimelineInv'
  BY <1>4, <1>5, <1>11 DEF GoesOn
<1>12. ASSUME NEW r \in Requests, AppendRead(r) PROVE TimelineInv'
  BY <1>11, <1>12, ReadEffect, RefusedJob DEF AppendRead, At
<1>13. ASSUME NEW r \in Requests, AppendCommit(r) PROVE TimelineInv'
  <2>1. job[r] # None /\ job[r].step = "commit" /\ record' = record
    BY <1>13 DEF AppendCommit, At
  <2>2. CASE Refused(r) /\ log' = log
    BY <1>11, <2>1, <2>2, RefusedJob
  <2>3. CASE Apply(r) /\ NextInBatch(r)
    <3>. DEFINE m == Len(log)
                e == [type |-> job[r].type, attachment |-> Current(r)]
    <3>1. FileDone(r)
      BY <2>1, <2>3, NextFileDone
    <3>2. /\ m \in Nat /\ DOMAIN log = 1..m /\ DOMAIN log' = 1..(m + 1)
          /\ \A i \in 1..m : log'[i] = log[i]
          /\ log'[m + 1] = e
          /\ \A type, a : Logged(type, a)' <=>
               Logged(type, a) \/ (type = job[r].type /\ a = Current(r))
      BY <2>1, <2>3, ApplyEffect
    <3>3. e.type = job[r].type /\ e = [type |-> job[r].type, attachment |-> Current(r)]
      OBVIOUS
    <3>. HIDE DEF m, e
    <3>4. CASE job[r].type = "removed"
      <4>1. \A s \in Requests : Adding(s)' = Adding(s)
        BY <1>5, <2>1, <3>1, <3>4
      <4>2. \A a : Logged("added", a)' <=> Logged("added", a)
        BY <3>2, <3>4
      <4>3. NotYetLogged'
        BY <1>3, <4>1, <4>2 DEF NotYetLogged
      <4>4. LoggedKept'
        BY <1>3, <2>1, <4>2 DEF LoggedKept
      <4>5. KeptExplained'
        BY <1>3, <2>1, <4>1, <4>2 DEF KeptExplained
      <4>6. AddedOnce'
        BY <1>3, <3>2, <3>3, <3>4 DEF AddedOnce
      <4>. QED
        BY <4>3, <4>4, <4>5, <4>6 DEF TimelineInv
    <3>5. CASE job[r].type = "added"
      <4>1. Current(r) \in Adding(r) /\ record[Current(r)] \in Kept
        BY <1>0, <2>1, <3>5, JobFields DEF Adding, AddedFiles
      <4>2. ~Logged("added", Current(r))
        BY <1>3, <4>1 DEF NotYetLogged
      <4>3. \A a : Logged("added", a)' <=> Logged("added", a) \/ a = Current(r)
        BY <3>2, <3>5
      <4>4. \A s \in Requests : Current(r) \notin Adding(s)'
            /\ Adding(s)' \subseteq Adding(s)
        BY <1>0, <3>1, <4>1 DEF FileDone, OneAdder
      <4>5. NotYetLogged'
        BY <1>3, <4>3, <4>4 DEF NotYetLogged
      <4>6. LoggedKept'
        BY <1>3, <2>1, <4>1, <4>3 DEF LoggedKept
      <4>7. KeptExplained'
        BY <1>3, <2>1, <3>1, <4>3 DEF KeptExplained, FileDone
      <4>8. \A i \in 1..m : log[i] # e
        BY <3>2, <3>3, <3>5, <4>2 DEF Logged
      <4>9. AddedOnce'
        BY <1>3, <3>2, <4>8 DEF AddedOnce
      <4>. QED
        BY <4>5, <4>6, <4>7, <4>9 DEF TimelineInv
    <3>. QED
      BY <2>1, <3>4, <3>5, JobFields
  <2>. QED
    BY <1>13, <2>2, <2>3 DEF AppendCommit
<1>14. ASSUME job' = job, record' = record, log' = log PROVE TimelineInv'
  BY <1>4, <1>14 DEF Adding
<1>15. ~(\E r \in Requests : StoreSome(r) \/ ReplyLost(r) \/ Crash(r))
  BY <1>2 DEF StoreSome, ReplyLost, Crash
<1>. QED
  BY <1>6, <1>7, <1>8, <1>9, <1>10, <1>12, <1>13, <1>14, <1>15
  DEF Next, OtherEvent, DeleteTask, vars

------------------------------------------------------------------------------
(* The theorems *)

\* Nothing is attached, recorded or counted at first.
LEMMA InitInv == Init => Inv
<1>. SUFFICES ASSUME Init PROVE Inv
  OBVIOUS
<1>1. /\ log = <<>> /\ count = 0 /\ DOMAIN log = {}
      /\ \A r \in Requests : job[r] = None
      /\ \A a \in Attachments : record[a] = "none"
  BY DEF Init
<1>2. OwnInv
  BY <1>1 DEF OwnInv, AddedFiles, RemovedFiles, OneAdder, LoggedHadRecord,
              Adding, Logged
<1>3. TimelineInv
  BY <1>1 DEF TimelineInv, NotYetLogged, LoggedKept, KeptExplained, AddedOnce,
              Adding, Logged, Kept
<1>4. \A type : Tally(log, type) = 0
  <2>1. \A type : {i \in DOMAIN log : log[i].type = type} = {}
    BY <1>1
  <2>. QED
    BY <2>1, FS_EmptySet DEF Tally
<1>5. CountIsTally
  BY <1>1, <1>4 DEF CountIsTally
<1>. QED
  BY <1>2, <1>3, <1>5, InitType DEF Inv

\* The count moves with the events.
LEMMA NextCount == TypeOK /\ CountIsTally /\ [Next]_vars => CountIsTally'
<1>. SUFFICES ASSUME TypeOK, CountIsTally, [Next]_vars PROVE CountIsTally'
  OBVIOUS
<1>1. ASSUME NEW r \in Requests, job[r] # None, Apply(r) PROVE CountIsTally'
  BY <1>1, ApplyEffect
<1>2. ASSUME log' = log, count' = count PROVE CountIsTally'
  BY <1>2 DEF CountIsTally
<1>. QED
  BY <1>1, <1>2 DEF Next, BeginAdd, BeginRemove, StoreRecords, StoreSome, Cleanup,
     MarkRemoved, AppendRead, AppendCommit, ReplyLost, Crash, OtherEvent,
     DeleteTask, At, vars

\* Every step keeps the invariant.
LEMMA NextInv == Inv /\ [Next]_vars => Inv'
<1>. SUFFICES ASSUME Inv, [Next]_vars PROVE Inv'
  OBVIOUS
<1>1. TypeOK /\ OwnInv /\ CountIsTally /\ (failures = 0 => TimelineInv)
  BY DEF Inv
<1>2. TypeOK' /\ OwnInv' /\ CountIsTally'
  BY <1>1, NextType, NextOwn, NextCount
<1>3. failures' = 0 => TimelineInv'
  BY <1>1, NextTimeline
<1>. QED
  BY <1>2, <1>3 DEF Inv

\* Unless something failed, a file the timeline shows as added has its record,
\* and a listed file has its event once no request is under way: addAttachments
\* deletes a record only when its append was refused.
THEOREM RecordsFollowTimeline == Spec => []RecordsMatchTimeline
<1>1. Inv => RecordsMatchTimeline
  <2>. SUFFICES ASSUME Inv, failures = 0, NEW a \in Attachments
                PROVE  /\ Logged("added", a) => record[a] # "gone"
                       /\ Quiet /\ a \in Listed => Logged("added", a)
    BY DEF RecordsMatchTimeline
  <2>1. LoggedKept /\ KeptExplained
    BY DEF Inv, TimelineInv
  <2>2. Logged("added", a) => record[a] # "gone"
    BY <2>1 DEF LoggedKept, Kept
  <2>3. ASSUME Quiet, a \in Listed PROVE Logged("added", a)
    <3>1. record[a] \in Kept /\ \A r \in Requests : Adding(r) = {}
      BY <2>3 DEF Quiet, Listed, Adding, Kept
    <3>. QED
      BY <2>1, <3>1 DEF KeptExplained
  <2>. QED
    BY <2>2, <2>3
<1>. QED
  BY <1>1, InitInv, NextInv, PTL DEF Spec

\* Indices at which each attachment of a set occurs once, and no other, are as
\* many as the attachments.
LEMMA OneEventEach ==
  ASSUME TypeOK, NEW I \in SUBSET DOMAIN log, NEW S \in SUBSET Attachments,
         \A i \in I : log[i].attachment \in S,
         \A i, j \in I : log[i].attachment = log[j].attachment => i = j,
         \A a \in S : \E i \in I : log[i].attachment = a
  PROVE  IsFiniteSet(S) /\ Cardinality(S) = Cardinality(I)
<1>. DEFINE f == [i \in I |-> log[i].attachment]
<1>1. log \in Seq(Event)
  BY DEF TypeOK
<1>2. IsFiniteSet(DOMAIN log)
  <2>1. Len(log) \in Nat /\ DOMAIN log = 1..Len(log)
    BY <1>1
  <2>. QED
    BY <2>1, FS_Interval
<1>3. IsFiniteSet(I)
  BY <1>2, FS_Subset
<1>4. f \in [I -> S] /\ \A i \in I : f[i] = log[i].attachment
  OBVIOUS
<1>. HIDE DEF f
<1>5. f \in Bijection(I, S)
  BY <1>4, Fun_IsBij
<1>6. ExistsBijection(I, S)
  BY <1>5 DEF ExistsBijection
<1>. QED
  BY <1>3, <1>6, FS_Bijection

\* Unless something failed or removals overlap, the count kept on the task is
\* the length of the list once no request is under way: every kept record has
\* its one addition in the timeline, and every flagged one its one removal.
THEOREM CountIsExact == Spec => []CountMatchesList
<1>1. Inv => CountMatchesList
  <2>. SUFFICES ASSUME Inv, Quiet, failures = 0, RemovalsMatchRecords
                PROVE  count = Cardinality(Listed)
    BY DEF CountMatchesList
  <2>. DEFINE A == {i \in DOMAIN log : log[i].type = "added"}
              R == {i \in DOMAIN log : log[i].type = "removed"}
              K == {a \in Attachments : record[a] \in Kept}
              F == {a \in Attachments : record[a] = "flagged"}
  <2>1. /\ TypeOK /\ log \in Seq(Event)
        /\ LoggedKept /\ KeptExplained /\ AddedOnce /\ CountIsTally
    BY DEF Inv, TimelineInv, TypeOK
  <2>2. \A i \in DOMAIN log : log[i] \in Event
    BY <2>1
  <2>3. \A i \in DOMAIN log :
          /\ log[i].attachment \in Attachments
          /\ log[i] = [type |-> log[i].type, attachment |-> log[i].attachment]
    BY <2>2 DEF Event
  <2>4. \A a \in Attachments : record[a] \in Kept <=> Logged("added", a)
    <3>1. \A r \in Requests : Adding(r) = {}
      BY DEF Quiet, Adding
    <3>. QED
      BY <2>1, <3>1 DEF LoggedKept, KeptExplained
  <2>5. IsFiniteSet(K) /\ Cardinality(K) = Cardinality(A)
    <3>1. \A i \in A : log[i].attachment \in K
      BY <2>3, <2>4 DEF Logged
    <3>2. \A i, j \in A : log[i].attachment = log[j].attachment => i = j
      BY <2>1, <2>3 DEF AddedOnce
    <3>3. \A a \in K : \E i \in A : log[i].attachment = a
      BY <2>4 DEF Logged
    <3>. HIDE DEF Kept
    <3>. QED
      BY <2>1, <3>1, <3>2, <3>3, OneEventEach
  <2>6. Cardinality(F) = Cardinality(R)
    <3>. DEFINE RemovedAt(a) == {i \in DOMAIN log :
                              log[i] = [type |-> "removed", attachment |-> a]}
    <3>1. ASSUME NEW a \in Attachments
          PROVE  /\ IsFiniteSet(RemovedAt(a))
                 /\ Cardinality(RemovedAt(a)) = IF record[a] = "flagged" THEN 1 ELSE 0
      <4>1. IsFiniteSet(DOMAIN log)
        <5>1. Len(log) \in Nat /\ DOMAIN log = 1..Len(log)
          BY <2>1
        <5>. QED
          BY <5>1, FS_Interval
      <4>2. IsFiniteSet(RemovedAt(a))
        BY <4>1, FS_Subset
      <4>. QED
        BY <4>2 DEF RemovalsMatchRecords, Removals
    <3>2. \A i \in R : i \in RemovedAt(log[i].attachment)
      BY <2>3
    <3>3. \A i \in R : log[i].attachment \in F
      <4>. SUFFICES ASSUME NEW i \in R, log[i].attachment \notin F PROVE FALSE
        OBVIOUS
      <4>1. log[i].attachment \in Attachments
        BY <2>3
      <4>2. RemovedAt(log[i].attachment) = {}
        BY <3>1, <4>1, FS_EmptySet
      <4>. QED
        BY <3>2, <4>2
    <3>4. \A i, j \in R : log[i].attachment = log[j].attachment => i = j
      <4>. SUFFICES ASSUME NEW i \in R, NEW j \in R,
                           log[i].attachment = log[j].attachment
                    PROVE  i = j
        OBVIOUS
      <4>1. IsFiniteSet(RemovedAt(log[i].attachment))
            /\ Cardinality(RemovedAt(log[i].attachment)) = 1
        BY <2>3, <3>1, <3>3
      <4>2. PICK x : RemovedAt(log[i].attachment) = {x}
        BY <4>1, FS_Singleton
      <4>. QED
        BY <3>2, <4>2
    <3>5. \A a \in F : \E i \in R : log[i].attachment = a
      <4>. SUFFICES ASSUME NEW a \in F PROVE \E i \in R : log[i].attachment = a
        OBVIOUS
      <4>1. IsFiniteSet(RemovedAt(a)) /\ Cardinality(RemovedAt(a)) = 1
        BY <3>1
      <4>2. PICK x : RemovedAt(a) = {x}
        BY <4>1, FS_Singleton
      <4>3. x \in DOMAIN log /\ log[x] = [type |-> "removed", attachment |-> a]
        BY <4>2
      <4>. QED
        BY <4>3
    <3>. QED
      BY <2>1, <3>3, <3>4, <3>5, OneEventEach
  <2>7. F \subseteq K /\ Listed = K \ F
    BY DEF Listed, Kept
  <2>8. Cardinality(Listed) = Cardinality(K) - Cardinality(F)
    <3>1. K \cap F = F
      BY <2>7
    <3>2. Cardinality(K \ F) = Cardinality(K) - Cardinality(K \cap F)
      BY <2>5, FS_Difference
    <3>. QED
      BY <2>7, <3>1, <3>2
  <2>. QED
    BY <2>1, <2>5, <2>6, <2>8 DEF CountIsTally, Tally
<1>. QED
  BY <1>1, InitInv, NextInv, PTL DEF Spec

==============================================================================
