-------------------------- MODULE ComplaintsProofs --------------------------
(***************************************************************************)
(* Proofs about Complaints, for any number of complaints, people, calls in *)
(* flight and restarts: a complaint that has reached the collection is not *)
(* lost, not announced twice, and reaches everybody it was kept for.       *)
(***************************************************************************)
EXTENDS Complaints, SequenceTheorems, TLAPS

\* What the collection holds once the calls before the i-th have landed.
Before(i) ==
  IF i = 1 THEN row
  ELSE IF calls[i - 1].op = "upsert" THEN calls[i - 1].doc ELSE None

\* ... once all of them have.
Final == Before(Len(calls) + 1)

\* A batch that is kept somewhere: in memory, in the collection, on its way
\* there, or on its way to the people.
Copy(b) ==
  \/ b = pending /\ pending # None
  \/ b = row /\ row # None
  \/ b \in sending
  \/ \E i \in 1..Len(calls) : calls[i].op = "upsert" /\ b = calls[i].doc

\* Whatever copy of a batch is used, it is about complaints create() is done
\* with, and names everybody they are for.
CopiesWhole ==
  \A b : Copy(b) =>
    /\ b.users = {} => b.events = {}
    /\ \A r \in b.events : complaint[r] = "done" /\ audience[r] \subseteq b.users

\* The processes started so far.
lives == restarts + (IF up THEN 1 ELSE 0)

\* A process announces a complaint once: it is in the batch it collects or in
\* one it sends, in one only, and has been announced once by each process
\* before at most.
OncePerLife ==
  /\ ~up => pending = None /\ sending = {}
  /\ \A r \in Review :
       /\ told[r] <= lives
       /\ complaint[r] # "done" => told[r] = 0
  /\ pending # None => \A r \in pending.events : told[r] < lives
  /\ \A b \in sending : \A r \in b.events :
       /\ told[r] < lives
       /\ pending # None => r \notin pending.events
       /\ \A c \in sending : r \in c.events => c = b

\* A process has taken the complaint out of its memory to announce it.
Handled(r) ==
  \/ \E b \in sending : r \in b.events
  \/ told[r] > 0
  \/ r \in cut

\* As long as the calls land in order, the collection will hold the batch of
\* the process; what a call overwrites it contains, and what a call deletes is
\* being announced.
InOrder ==
  /\ up => Final = pending
  /\ \A i \in 1..Len(calls) : Before(i) # None =>
       \A r \in Before(i).events :
         IF calls[i].op = "upsert" THEN r \in calls[i].doc.events ELSE Handled(r)
  /\ \A r \in acked : Handled(r) \/ (row # None /\ r \in row.events)
  /\ Final # None => \A r \in Final.events :
       told[r] = 0 /\ \A b \in sending : r \notin b.events
  /\ \A b \in sending : \A r \in b.events : told[r] = 0
  /\ \A r \in Review : told[r] <= 1

\* The inductive invariant behind ComplaintsSurvive.
Inv ==
  /\ TypeOK
  /\ CopiesWhole
  /\ OncePerLife
  /\ AudienceHears
  /\ disorder \/ InOrder

------------------------------------------------------------------------------
(* The calls in flight *)

\* Taking a call out of the queue leaves the others; taking out the first one
\* moves them up.
LEMMA WithoutType ==
  ASSUME calls \in Seq(Call), NEW i \in 1..Len(calls)
  PROVE  /\ Without(i) \in Seq(Call)
         /\ \A k \in 1..Len(Without(i)) :
              \E n \in 1..Len(calls) : Without(i)[k] = calls[n]
         /\ i = 1 => /\ Len(Without(i)) = Len(calls) - 1
                     /\ \A k \in 1..Len(Without(i)) : Without(i)[k] = calls[k + 1]
<1>. DEFINE s == SubSeq(calls, 1, i - 1)
            t == SubSeq(calls, i + 1, Len(calls))
<1>1. /\ s \in Seq(Call) /\ Len(s) = i - 1
      /\ \A k \in 1..(i - 1) : s[k] = calls[k]
  BY SubSeqProperties
<1>2. /\ t \in Seq(Call) /\ Len(t) = Len(calls) - i
      /\ \A k \in 1..(Len(calls) - i) : t[k] = calls[i + k]
  BY SubSeqProperties
<1>. HIDE DEF s, t
<1>3. /\ s \o t \in Seq(Call)
      /\ Len(s \o t) = Len(calls) - 1
      /\ \A k \in 1..Len(s \o t) :
           (s \o t)[k] = IF k <= i - 1 THEN s[k] ELSE t[k - (i - 1)]
  <2>1. /\ s \o t \in Seq(Call) /\ Len(s \o t) = Len(s) + Len(t)
        /\ \A k \in 1..Len(s) + Len(t) :
             (s \o t)[k] = IF k <= Len(s) THEN s[k] ELSE t[k - Len(s)]
    BY ONLY <1>1, <1>2, ConcatProperties
  <2>2. Len(s) + Len(t) = Len(calls) - 1
    BY <1>1, <1>2
  <2>. QED
    BY <1>1, <2>1, <2>2
<1>4. \A k \in 1..Len(s \o t) :
        (s \o t)[k] = IF k <= i - 1 THEN calls[k] ELSE calls[k + 1]
  BY <1>1, <1>2, <1>3
<1>5. Without(i) = s \o t
  BY DEF Without, s, t
<1>. HIDE DEF s, t
<1>6. \A k \in 1..Len(s \o t) : \E n \in 1..Len(calls) : (s \o t)[k] = calls[n]
  <2>. TAKE k \in 1..Len(s \o t)
  <2>1. Len(calls) \in Nat /\ i \in 1..Len(calls)
    OBVIOUS
  <2>2. CASE k <= i - 1
    <3>1. k \in 1..Len(calls) /\ (s \o t)[k] = calls[k]
      BY <1>3, <1>4, <2>1, <2>2
    <3>. QED
      BY <3>1
  <2>3. CASE ~(k <= i - 1)
    <3>1. k + 1 \in 1..Len(calls) /\ (s \o t)[k] = calls[k + 1]
      BY <1>3, <1>4, <2>1, <2>3
    <3>. QED
      BY <3>1
  <2>. QED
    BY <2>2, <2>3
<1>7. i = 1 => \A k \in 1..Len(s \o t) : (s \o t)[k] = calls[k + 1]
  BY <1>3, <1>4
<1>. QED
  BY <1>3, <1>5, <1>6, <1>7

\* A call in flight carries a batch if it is an upsert.
LEMMA CallType ==
  ASSUME calls \in Seq(Call), NEW i \in 1..Len(calls)
  PROVE  /\ calls[i] \in Call
         /\ calls[i].op \in {"upsert", "delete"}
         /\ calls[i].op = "upsert" => calls[i].doc \in Batch
<1>1. calls[i] \in Call
  OBVIOUS
<1>. QED
  BY <1>1 DEF Call

\* A copy is a batch.
LEMMA CopyType ==
  ASSUME TypeOK, NEW b, Copy(b)
  PROVE  b \in Batch
<1>1. CASE \E i \in 1..Len(calls) : calls[i].op = "upsert" /\ b = calls[i].doc
  BY <1>1, CallType DEF TypeOK
<1>. QED
  BY <1>1 DEF TypeOK, Copy

\* The batch with one more complaint is a batch, about what it was about and
\* this complaint, for whom it was for and the people found for it.
LEMMA JoinedType ==
  ASSUME TypeOK, NEW r \in Review, NEW users \in SUBSET User
  PROVE  /\ Joined(r, users) \in Batch
         /\ Joined(r, users) # None
         /\ r \in Joined(r, users).events
         /\ users \subseteq Joined(r, users).users
         /\ pending = None => Joined(r, users).events = {r}
         /\ pending # None =>
              /\ Joined(r, users).events = pending.events \cup {r}
              /\ pending.users \subseteq Joined(r, users).users
<1>1. CASE pending = None
  <2>1. Joined(r, users) = [events |-> {r}, users |-> users]
    BY <1>1 DEF Joined
  <2>. QED
    BY <1>1, <2>1, NoneAssumption DEF Batch
<1>2. CASE pending # None
  <2>1. Joined(r, users) =
          [events |-> pending.events \cup {r}, users |-> pending.users \cup users]
    BY <1>2 DEF Joined
  <2>2. pending \in Batch
    BY <1>2 DEF TypeOK
  <2>. QED
    BY <1>2, <2>1, <2>2, NoneAssumption DEF Batch
<1>. QED
  BY <1>1, <1>2

------------------------------------------------------------------------------
(* The inductive invariant *)

\* A process that has not started yet holds nothing.
LEMMA InitInv == Init => Inv
<1>. SUFFICES ASSUME Init PROVE Inv
  OBVIOUS
<1>1. calls = <<>> /\ Len(calls) = 0 /\ pending = None /\ sending = {} /\ ~up
      /\ acked = {} /\ restarts = 0
      /\ \A r \in Review : told[r] = 0 /\ complaint[r] = "none"
  BY DEF Init
<1>2. TypeOK
  <2>1. row \in Batch \cup {None}
    BY DEF Init, Batch
  <2>2. calls \in Seq(Call)
    BY <1>1
  <2>3. told \in [Review -> 0..(MaxRestarts + 1)] /\ restarts \in 0..MaxRestarts
    <3>1. told = [r \in Review |-> 0] /\ restarts = 0
      BY DEF Init
    <3>. QED
      BY <3>1, BoundsAssumption
  <2>. QED
    BY <2>1, <2>2, <2>3 DEF Init, TypeOK
<1>3. row # None => row.events = {}
  BY DEF Init
<1>4. CopiesWhole
  <2>1. \A b : Copy(b) => b.events = {}
    BY <1>1, <1>3 DEF Copy
  <2>. QED
    BY <2>1 DEF CopiesWhole
<1>5. OncePerLife
  BY <1>1 DEF OncePerLife, lives
<1>6. AudienceHears
  BY <1>1 DEF AudienceHears
<1>7. InOrder
  <2>1. Final = row
    BY <1>1 DEF Final, Before
  <2>. QED
    BY <1>1, <1>3, <2>1 DEF InOrder
<1>. QED
  BY <1>2, <1>4, <1>5, <1>6, <1>7 DEF Inv

\* Every step keeps the types.
LEMMA NextType == TypeOK /\ OncePerLife /\ [Next]_vars => TypeOK'
<1>. SUFFICES ASSUME TypeOK, OncePerLife, [Next]_vars PROVE TypeOK'
  OBVIOUS
<1>1. ASSUME NEW r \in Review, Save(r) PROVE TypeOK'
  BY <1>1 DEF Save, TypeOK, history
<1>2. ASSUME NEW r \in Review, NobodyToTell(r) PROVE TypeOK'
  BY <1>2 DEF NobodyToTell, TypeOK, history
<1>3. ASSUME NEW r \in Review, NEW users \in SUBSET User, Schedule(r, users)
      PROVE  TypeOK'
  <2>1. pending' \in Batch
    BY <1>3, JoinedType DEF Schedule
  <2>2. calls' \in Seq(Call)
    <3>1. [op |-> "upsert", doc |-> pending'] \in Call
      BY <2>1 DEF Call
    <3>2. calls \in Seq(Call)
      BY DEF TypeOK
    <3>3. calls' = Append(calls, [op |-> "upsert", doc |-> pending'])
      BY <1>3 DEF Schedule
    <3>. QED
      BY <3>1, <3>2, <3>3
  <2>3. complaint' \in [Review -> {"none", "saved", "done"}]
        /\ audience' \in [Review -> SUBSET User]
    BY <1>3 DEF Schedule, TypeOK
  <2>. QED
    BY <1>3, <2>1, <2>2, <2>3 DEF Schedule, TypeOK
<1>4. ASSUME NEW i \in 1..Len(calls), Land(i) PROVE TypeOK'
  <2>1. calls' \in Seq(Call)
    BY <1>4, WithoutType DEF Land, TypeOK
  <2>2. row' \in Batch \cup {None} /\ acked' \subseteq Review
    <3>1. CASE calls[i].op = "upsert" /\ row' = calls[i].doc
               /\ acked' = acked \cup calls[i].doc.events
      BY <3>1, CallType DEF TypeOK, Batch
    <3>2. CASE row' = None /\ acked' = acked
      BY <3>2 DEF TypeOK
    <3>. QED
      BY <1>4, <3>1, <3>2 DEF Land, Stored
  <2>3. disorder' \in BOOLEAN
    BY <1>4 DEF Land, TypeOK
  <2>. QED
    BY <1>4, <2>1, <2>2, <2>3 DEF Land, TypeOK
<1>5. ASSUME NEW i \in 1..Len(calls), CallFails(i) PROVE TypeOK'
  <2>1. calls' \in Seq(Call)
    BY <1>5, WithoutType DEF CallFails, TypeOK
  <2>. QED
    BY <1>5, <2>1 DEF CallFails, TypeOK, history
<1>6. CASE TimerFires
  <2>1. pending \in Batch /\ sending' \subseteq Batch
    BY <1>6 DEF TimerFires, TypeOK
  <2>2. calls' \in Seq(Call)
    <3>1. calls \in Seq(Call) /\ [op |-> "delete"] \in Call
      BY DEF TypeOK, Call
    <3>2. calls' = Append(calls, [op |-> "delete"])
      BY <1>6 DEF TimerFires
    <3>. QED
      BY <3>1, <3>2
  <2>3. pending' = None
    BY <1>6 DEF TimerFires, AfterTimer
  <2>. QED
    BY <1>6, <2>1, <2>2, <2>3 DEF TimerFires, TypeOK, history
<1>7. ASSUME NEW b \in sending, Send(b) PROVE TypeOK'
  <2>1. told' \in [Review -> 0..(MaxRestarts + 1)]
    <3>1. \A r \in b.events : told[r] < lives
      BY DEF OncePerLife
    <3>2. lives \in Nat /\ lives <= MaxRestarts + 1
      BY BoundsAssumption DEF lives, TypeOK
    <3>3. \A r \in Review : told[r] \in 0..(MaxRestarts + 1)
      BY DEF TypeOK
    <3>4. \A r \in Review : r \in b.events => told[r] + 1 \in 0..(MaxRestarts + 1)
      BY <3>1, <3>2, <3>3, BoundsAssumption
    <3>5. told' = [r \in Review |-> IF r \in b.events THEN told[r] + 1 ELSE told[r]]
      BY <1>7 DEF Send
    <3>. QED
      BY <3>3, <3>4, <3>5
  <2>2. heard' \subseteq Review \X User
    <3>1. b.events \subseteq Review /\ b.users \subseteq User
      BY DEF TypeOK, Batch
    <3>2. heard' = heard \cup (b.events \X b.users)
      BY <1>7 DEF Send
    <3>3. heard \subseteq Review \X User
      BY DEF TypeOK
    <3>. QED
      BY <3>1, <3>2, <3>3
  <2>3. sending' \subseteq Batch
    BY <1>7 DEF Send, TypeOK
  <2>. QED
    BY <1>7, <2>1, <2>2, <2>3 DEF Send, TypeOK
<1>8. ASSUME NEW b \in sending, SendFails(b) PROVE TypeOK'
  <2>1. cut' \subseteq Review /\ sending' \subseteq Batch
    BY <1>8 DEF SendFails, TypeOK, Batch
  <2>. QED
    BY <1>8, <2>1 DEF SendFails, TypeOK
<1>9. CASE Crash
  <2>1. cut' \subseteq Review
    BY <1>9 DEF Crash, TypeOK, Batch
  <2>2. complaint' \in [Review -> {"none", "saved", "done"}]
    BY <1>9 DEF Crash, TypeOK
  <2>3. restarts' \in 0..MaxRestarts
    BY <1>9, BoundsAssumption DEF Crash, TypeOK
  <2>. QED
    BY <1>9, <2>1, <2>2, <2>3 DEF Crash, TypeOK
<1>10. CASE StartUp
  <2>1. pending' \in Batch \cup {None} /\ row' \in Batch \cup {None}
    BY <1>10 DEF StartUp, Recovered, TypeOK
  <2>2. disorder' \in BOOLEAN
    BY <1>10 DEF StartUp, TypeOK
  <2>. QED
    BY <1>10, <2>1, <2>2 DEF StartUp, TypeOK, history
<1>11. CASE UNCHANGED vars
  BY <1>11 DEF vars, TypeOK
<1>. QED
  BY <1>1, <1>2, <1>3, <1>4, <1>5, <1>6, <1>7, <1>8, <1>9, <1>10, <1>11 DEF Next

\* Every copy is made from a copy that was whole, or joins a complaint with the
\* people found for it.
LEMMA NextWhole ==
  ASSUME TypeOK, CopiesWhole, [Next]_vars
  PROVE  CopiesWhole'
<1>1. ASSUME \A b : Copy(b)' => Copy(b),
             audience' = audience,
             \A r \in Review : complaint[r] = "done" => complaint'[r] = "done"
      PROVE  CopiesWhole'
  <2>. SUFFICES ASSUME NEW b, Copy(b)'
       PROVE  /\ b.users = {} => b.events = {}
              /\ \A r \in b.events :
                   complaint'[r] = "done" /\ audience'[r] \subseteq b.users
    BY DEF CopiesWhole
  <2>1. Copy(b) /\ b.events \subseteq Review
    BY <1>1, CopyType DEF Batch
  <2>. QED
    BY <1>1, <2>1 DEF CopiesWhole
<1>2. ASSUME NEW r \in Review, Save(r) \/ NobodyToTell(r) PROVE CopiesWhole'
  <2>1. \A b : Copy(b)' => Copy(b)
    BY <1>2 DEF Save, NobodyToTell, Copy
  <2>. QED
    BY <1>1, <1>2, <2>1 DEF Save, NobodyToTell, history, TypeOK
<1>3. ASSUME NEW r \in Review, NEW users \in SUBSET User, Schedule(r, users)
      PROVE  CopiesWhole'
  <2>1. /\ complaint[r] = "saved" /\ users # {} /\ pending' = Joined(r, users)
        /\ calls' = Append(calls, [op |-> "upsert", doc |-> pending'])
        /\ complaint' = [complaint EXCEPT ![r] = "done"]
        /\ audience' = [audience EXCEPT ![r] = users]
        /\ row' = row /\ sending' = sending
    BY <1>3 DEF Schedule
  <2>2. ASSUME NEW b, Copy(b)' PROVE Copy(b) \/ b = pending'
    <3>1. CASE \E i \in 1..Len(calls') : calls'[i].op = "upsert" /\ b = calls'[i].doc
      <4>1. PICK i \in 1..Len(calls') : calls'[i].op = "upsert" /\ b = calls'[i].doc
        BY <3>1
      <4>2. calls \in Seq(Call)
        BY DEF TypeOK
      <4>3. CASE i \in 1..Len(calls) /\ calls'[i] = calls[i]
        BY <4>1, <4>3 DEF Copy
      <4>4. CASE calls'[i] = [op |-> "upsert", doc |-> pending']
        BY <4>1, <4>4
      <4>. QED
        BY <2>1, <4>2, <4>3, <4>4
    <3>. QED
      BY <2>1, <2>2, <3>1 DEF Copy
  <2>3. ASSUME NEW b, Copy(b)
        PROVE  /\ b.users = {} => b.events = {}
               /\ \A q \in b.events :
                    complaint'[q] = "done" /\ audience'[q] \subseteq b.users
    <3>1. b.events \subseteq Review
      BY <2>3, CopyType DEF Batch
    <3>2. /\ b.users = {} => b.events = {}
          /\ \A q \in b.events : complaint[q] = "done" /\ audience[q] \subseteq b.users
      BY <2>3 DEF CopiesWhole
    <3>. QED
      BY <2>1, <3>1, <3>2 DEF TypeOK
  <2>4. /\ pending'.users # {}
        /\ \A q \in pending'.events :
             complaint'[q] = "done" /\ audience'[q] \subseteq pending'.users
    <3>1. /\ users \subseteq pending'.users
          /\ pending = None => pending'.events = {r}
          /\ pending # None => /\ pending'.events = pending.events \cup {r}
                               /\ pending.users \subseteq pending'.users
      BY <2>1, JoinedType
    <3>2. complaint'[r] = "done" /\ audience'[r] = users
      BY <2>1 DEF TypeOK
    <3>3. pending # None => \A q \in pending.events :
            complaint'[q] = "done" /\ audience'[q] \subseteq pending.users
      BY <2>3 DEF Copy
    <3>. QED
      BY <2>1, <3>1, <3>2, <3>3
  <2>. QED
    BY <2>2, <2>3, <2>4 DEF CopiesWhole
<1>4. ASSUME NEW i \in 1..Len(calls), Land(i) \/ CallFails(i) PROVE CopiesWhole'
  <2>1. calls' = Without(i) /\ pending' = pending /\ sending' = sending
        /\ audience' = audience /\ complaint' = complaint
    BY <1>4 DEF Land, CallFails, history
  <2>2. row' = row \/ row' = None \/ (calls[i].op = "upsert" /\ row' = calls[i].doc)
    BY <1>4 DEF Land, CallFails, Stored
  <2>3. \A k \in 1..Len(calls') : \E n \in 1..Len(calls) : calls'[k] = calls[n]
    BY <2>1, WithoutType DEF TypeOK
  <2>4. ASSUME NEW b, Copy(b)' PROVE Copy(b)
    <3>1. CASE b = row' /\ row' # None
      BY <2>2, <3>1 DEF Copy
    <3>2. CASE \E k \in 1..Len(calls') : calls'[k].op = "upsert" /\ b = calls'[k].doc
      BY <2>3, <3>2 DEF Copy
    <3>. QED
      BY <2>1, <2>4, <3>1, <3>2 DEF Copy
  <2>. QED
    BY <1>1, <2>1, <2>4
<1>5. CASE TimerFires
  <2>1. /\ pending # None /\ pending' = None /\ row' = row
        /\ calls' = Append(calls, [op |-> "delete"])
        /\ sending' \subseteq sending \cup {pending}
        /\ audience' = audience /\ complaint' = complaint
    BY <1>5 DEF TimerFires, AfterTimer, history
  <2>2. ASSUME NEW b, Copy(b)' PROVE Copy(b)
    <3>1. CASE \E i \in 1..Len(calls') : calls'[i].op = "upsert" /\ b = calls'[i].doc
      <4>1. PICK i \in 1..Len(calls') : calls'[i].op = "upsert" /\ b = calls'[i].doc
        BY <3>1
      <4>2. calls \in Seq(Call)
        BY DEF TypeOK
      <4>3. i \in 1..Len(calls) /\ calls'[i] = calls[i]
        <5>1. Len(calls') = Len(calls) + 1 /\ calls'[Len(calls) + 1].op = "delete"
          BY <2>1, <4>2
        <5>2. i # Len(calls) + 1
          BY <4>1, <5>1
        <5>. QED
          BY <2>1, <4>1, <4>2, <5>1, <5>2
      <4>. QED
        BY <4>1, <4>3 DEF Copy
    <3>2. CASE b \in sending'
      BY <2>1, <3>2 DEF Copy
    <3>. QED
      BY <2>1, <2>2, <3>1, <3>2 DEF Copy
  <2>. QED
    BY <1>1, <2>1, <2>2
<1>6. ASSUME NEW b \in sending, Send(b) \/ SendFails(b) PROVE CopiesWhole'
  <2>1. /\ sending' \subseteq sending
        /\ UNCHANGED <<pending, row, calls, audience, complaint>>
    BY <1>6 DEF Send, SendFails
  <2>2. \A c : Copy(c)' => Copy(c)
    BY <2>1 DEF Copy
  <2>. QED
    BY <1>1, <2>1, <2>2
<1>7. CASE Crash
  <2>1. /\ sending' = {} /\ pending' = None
        /\ UNCHANGED <<row, calls, audience>>
        /\ \A r \in Review : complaint[r] = "done" => complaint'[r] = "done"
    BY <1>7 DEF Crash
  <2>2. \A c : Copy(c)' => Copy(c)
    BY <2>1 DEF Copy
  <2>. QED
    BY <1>1, <2>1, <2>2
<1>8. CASE StartUp
  <2>1. /\ UNCHANGED <<complaint, calls, sending, audience>>
        /\ row' = row \/ row' = None
        /\ pending' = pending \/ pending' = row
    BY <1>8 DEF StartUp, Recovered, history
  <2>2. \A c : Copy(c)' => Copy(c)
    BY <2>1 DEF Copy
  <2>. QED
    BY <1>1, <2>1, <2>2
<1>9. CASE UNCHANGED vars
  <2>1. \A c : Copy(c)' => Copy(c)
    BY <1>9 DEF Copy, vars
  <2>. QED
    BY <1>1, <1>9, <2>1 DEF vars
<1>. QED
  BY <1>2, <1>3, <1>4, <1>5, <1>6, <1>7, <1>8, <1>9 DEF Next

\* A complaint that create() is not done with is in no copy: it has not been
\* announced and is in nobody's memory.
LEMMA NextOnce ==
  ASSUME TypeOK, CopiesWhole, OncePerLife, [Next]_vars
  PROVE  OncePerLife'
<1>0. lives \in Nat /\ \A r \in Review : told[r] \in Nat
  BY DEF TypeOK, lives
<1>1. ASSUME UNCHANGED <<up, pending, sending, told, restarts>>,
             \A r \in Review : complaint[r] = "done" => complaint'[r] = "done"
      PROVE  OncePerLife'
  <2>1. lives' = lives
    BY <1>1 DEF lives
  <2>. QED
    BY <1>1, <2>1 DEF OncePerLife, TypeOK
<1>2. ASSUME NEW r \in Review, Save(r) \/ NobodyToTell(r) PROVE OncePerLife'
  BY <1>1, <1>2 DEF Save, NobodyToTell, history, TypeOK
<1>3. ASSUME NEW r \in Review, NEW users \in SUBSET User, Schedule(r, users)
      PROVE  OncePerLife'
  <2>1. /\ up /\ complaint[r] = "saved" /\ pending' = Joined(r, users)
        /\ complaint' = [complaint EXCEPT ![r] = "done"]
        /\ UNCHANGED <<up, sending, told, restarts>>
    BY <1>3 DEF Schedule
  <2>2. lives' = lives /\ lives >= 1
    BY <2>1 DEF lives, TypeOK
  <2>3. told[r] = 0
    BY <2>1 DEF OncePerLife
  <2>4. \A b \in sending : r \notin b.events
    BY <2>1 DEF CopiesWhole, Copy
  <2>5. \A q \in pending'.events : q = r \/ (pending # None /\ q \in pending.events)
    BY <2>1, JoinedType
  <2>6. \A q \in pending'.events : told[q] < lives
    BY <1>0, <2>2, <2>3, <2>5 DEF OncePerLife
  <2>7. \A b \in sending : \A q \in b.events : q \notin pending'.events
    BY <2>4, <2>5 DEF OncePerLife
  <2>8. \A q \in Review : complaint'[q] # "done" => complaint[q] # "done"
    BY <2>1 DEF TypeOK
  <2>. QED
    BY <2>1, <2>2, <2>6, <2>7, <2>8 DEF OncePerLife
<1>4. ASSUME NEW i \in 1..Len(calls), Land(i) \/ CallFails(i) PROVE OncePerLife'
  BY <1>1, <1>4 DEF Land, CallFails, history
<1>5. CASE TimerFires
  <2>1. /\ up /\ pending # None /\ pending' = None
        /\ sending' = sending \/ sending' = sending \cup {pending}
        /\ UNCHANGED <<up, complaint, told, restarts>>
    BY <1>5 DEF TimerFires, AfterTimer, history
  <2>2. lives' = lives
    BY <2>1 DEF lives
  <2>3. ASSUME NEW b \in sending', NEW r \in b.events
        PROVE  told[r] < lives /\ \A c \in sending' : r \in c.events => c = b
    BY <2>1, <2>3 DEF OncePerLife
  <2>. QED
    BY <2>1, <2>2, <2>3 DEF OncePerLife
<1>6. ASSUME NEW b \in sending, Send(b) PROVE OncePerLife'
  <2>1. /\ sending' = sending \ {b}
        /\ told' = [r \in Review |-> IF r \in b.events THEN told[r] + 1 ELSE told[r]]
        /\ UNCHANGED <<up, complaint, pending, restarts>>
    BY <1>6 DEF Send
  <2>2. lives' = lives
    BY <2>1 DEF lives
  <2>3. \A r \in b.events : told[r] < lives /\ complaint[r] = "done"
    BY DEF OncePerLife, CopiesWhole, Copy
  <2>4. ASSUME NEW r \in Review
        PROVE  told'[r] <= lives /\ (complaint[r] # "done" => told'[r] = 0)
    BY <1>0, <2>1, <2>3 DEF OncePerLife
  <2>5. pending # None => pending.events \subseteq Review
    BY DEF TypeOK, Batch
  <2>6. pending # None => \A r \in pending.events : told'[r] < lives
    <3>1. pending # None => \A r \in pending.events : r \notin b.events
      BY DEF OncePerLife
    <3>. QED
      BY <2>1, <2>5, <3>1 DEF OncePerLife
  <2>7. ASSUME NEW c \in sending', NEW r \in c.events
        PROVE  told'[r] < lives
    <3>1. r \notin b.events /\ r \in Review
      BY <2>1, <2>7 DEF OncePerLife, TypeOK, Batch
    <3>. QED
      BY <2>1, <2>7, <3>1 DEF OncePerLife
  <2>. QED
    BY <2>1, <2>2, <2>4, <2>6, <2>7 DEF OncePerLife
<1>7. ASSUME NEW b \in sending, SendFails(b) PROVE OncePerLife'
  <2>1. /\ sending' = sending \ {b}
        /\ UNCHANGED <<up, complaint, pending, told, restarts>>
    BY <1>7 DEF SendFails
  <2>2. lives' = lives
    BY <2>1 DEF lives
  <2>. QED
    BY <2>1, <2>2 DEF OncePerLife
<1>8. CASE Crash
  <2>1. /\ up /\ ~up' /\ pending' = None /\ sending' = {} /\ told' = told
        /\ restarts' = restarts + 1
    BY <1>8 DEF Crash, TypeOK
  <2>2. lives' = lives
    BY <2>1 DEF lives, TypeOK
  <2>3. \A r \in Review : complaint'[r] # "done" => complaint[r] # "done"
    BY <1>8 DEF Crash
  <2>. QED
    BY <2>1, <2>2, <2>3 DEF OncePerLife
<1>9. CASE StartUp
  <2>1. /\ ~up /\ up' /\ UNCHANGED <<complaint, sending, told, restarts>>
        /\ pending' = pending \/ pending' = row
    BY <1>9 DEF StartUp, Recovered, history, TypeOK
  <2>2. lives' = lives + 1 /\ pending = None /\ sending = {}
    BY <2>1 DEF lives, OncePerLife, TypeOK
  <2>3. pending' # None => pending'.events \subseteq Review
    BY <2>1, <2>2 DEF TypeOK, Batch
  <2>4. \A r \in Review : told[r] < lives'
    BY <1>0, <2>2 DEF OncePerLife
  <2>5. \A r \in Review : told[r] <= lives'
    BY <1>0, <2>2, <2>4
  <2>. QED
    BY <2>1, <2>2, <2>3, <2>4, <2>5 DEF OncePerLife
<1>10. CASE UNCHANGED vars
  BY <1>1, <1>10 DEF vars
<1>. QED
  BY <1>2, <1>3, <1>4, <1>5, <1>6, <1>7, <1>8, <1>9, <1>10 DEF Next

\* The people found for a complaint are found before it is in any batch, and a
\* push goes to everybody its batch is for.
LEMMA NextHeard ==
  ASSUME TypeOK, CopiesWhole, OncePerLife, AudienceHears, [Next]_vars
  PROVE  AudienceHears'
<1>1. ASSUME UNCHANGED <<told, heard, audience>> PROVE AudienceHears'
  BY <1>1 DEF AudienceHears
<1>2. ASSUME NEW r \in Review, NEW users \in SUBSET User, Schedule(r, users)
      PROVE  AudienceHears'
  <2>1. /\ complaint[r] = "saved" /\ told' = told /\ heard' = heard
        /\ audience' = [audience EXCEPT ![r] = users]
    BY <1>2 DEF Schedule
  <2>2. told[r] = 0
    BY <2>1 DEF OncePerLife
  <2>. QED
    BY <2>1, <2>2 DEF AudienceHears, TypeOK
<1>3. ASSUME NEW b \in sending, Send(b) PROVE AudienceHears'
  <2>1. /\ told' = [r \in Review |-> IF r \in b.events THEN told[r] + 1 ELSE told[r]]
        /\ heard' = heard \cup (b.events \X b.users)
        /\ audience' = audience
    BY <1>3 DEF Send
  <2>2. \A r \in b.events : audience[r] \subseteq b.users
    BY DEF CopiesWhole, Copy
  <2>3. ASSUME NEW r \in Review, told'[r] > 0
        PROVE  {r} \X audience[r] \subseteq heard'
    <3>1. CASE r \in b.events
      BY <2>1, <2>2, <3>1
    <3>2. CASE r \notin b.events
      BY <2>1, <2>3, <3>2 DEF AudienceHears
    <3>. QED
      BY <3>1, <3>2
  <2>. QED
    BY <2>1, <2>3 DEF AudienceHears
<1>4. CASE Crash \/ StartUp \/ TimerFires \/ UNCHANGED vars
  BY <1>1, <1>4 DEF Crash, StartUp, TimerFires, history, vars
<1>5. ASSUME NEW i \in 1..Len(calls), Land(i) \/ CallFails(i) PROVE AudienceHears'
  BY <1>1, <1>5 DEF Land, CallFails, history
<1>6. ASSUME NEW r \in Review, Save(r) \/ NobodyToTell(r) PROVE AudienceHears'
  BY <1>1, <1>6 DEF Save, NobodyToTell, history
<1>7. ASSUME NEW b \in sending, SendFails(b) PROVE AudienceHears'
  BY <1>1, <1>7 DEF SendFails
<1>. QED
  BY <1>2, <1>3, <1>4, <1>5, <1>6, <1>7 DEF Next

\* What the collection holds at any point is a copy.
LEMMA BeforeType ==
  ASSUME TypeOK, NEW i \in 1..(Len(calls) + 1), Before(i) # None
  PROVE  Copy(Before(i)) /\ Before(i).events \subseteq Review
<1>0. Len(calls) \in Nat
  BY DEF TypeOK
<1>1. CASE i = 1
  BY <1>1, CopyType DEF Before, Copy, Batch
<1>2. CASE i # 1
  <2>1. i - 1 \in 1..Len(calls)
    BY <1>0, <1>2
  <2>2. Copy(Before(i))
    BY <1>2, <2>1 DEF Before, Copy
  <2>. QED
    BY <2>2, CopyType DEF Batch
<1>. QED
  BY <1>1, <1>2

\* As long as calls land in order, the collection follows the memory of the
\* process: an upsert joins the batch it replaces, and a delete follows the
\* batch that the timer has taken out.
LEMMA NextInOrder ==
  ASSUME TypeOK, CopiesWhole, OncePerLife, InOrder, ~disorder, [Next]_vars, ~disorder'
  PROVE  InOrder'
<1>0. calls \in Seq(Call) /\ Len(calls) \in Nat
  BY DEF TypeOK
<1>1. ASSUME UNCHANGED <<row, calls>>
      PROVE  \A i \in 1..(Len(calls) + 1) : Before(i)' = Before(i)
  BY <1>1 DEF Before
<1>2. ASSUME UNCHANGED <<up, pending, row, calls, acked, sending, told, cut>>
      PROVE  InOrder'
  BY <1>2 DEF InOrder, Final, Before, Handled
<1>3. ASSUME NEW r \in Review, Save(r) \/ NobodyToTell(r) PROVE InOrder'
  BY <1>2, <1>3 DEF Save, NobodyToTell, history
<1>4. ASSUME NEW r \in Review, NEW users \in SUBSET User, Schedule(r, users)
      PROVE  InOrder'
  <2>. DEFINE c == [op |-> "upsert", doc |-> pending']
  <2>1. /\ up /\ complaint[r] = "saved" /\ pending' = Joined(r, users)
        /\ calls' = Append(calls, c)
        /\ UNCHANGED <<up, row, sending, told, cut, acked>>
    BY <1>4 DEF Schedule
  <2>2. c.op = "upsert" /\ c.doc = pending'
    OBVIOUS
  <2>. HIDE DEF c
  <2>3. /\ Len(calls') = Len(calls) + 1
        /\ \A i \in 1..Len(calls) : calls'[i] = calls[i]
        /\ calls'[Len(calls) + 1] = c
    BY <1>0, <2>1
  <2>4. \A i \in 1..(Len(calls) + 1) : Before(i)' = Before(i)
    BY <1>0, <2>1, <2>3 DEF Before
  <2>5. Final' = pending'
    BY <1>0, <2>2, <2>3 DEF Final, Before
  <2>6. Final = pending
    BY <2>1 DEF InOrder
  <2>7. /\ \A q \in pending'.events : q = r \/ (pending # None /\ q \in pending.events)
        /\ pending # None => \A q \in pending.events : q \in pending'.events
    BY <2>1, JoinedType
  <2>8. \A q : Handled(q)' <=> Handled(q)
    BY <2>1 DEF Handled
  <2>9. ASSUME NEW i \in 1..Len(calls'), Before(i)' # None, NEW q \in Before(i)'.events
        PROVE  IF calls'[i].op = "upsert" THEN q \in calls'[i].doc.events
               ELSE Handled(q)'
    <3>1. CASE i \in 1..Len(calls)
      BY <1>0, <2>3, <2>4, <2>8, <2>9, <3>1 DEF InOrder
    <3>2. CASE i = Len(calls) + 1
      <4>1. Before(i)' = pending
        BY <1>0, <2>4, <2>6, <3>2 DEF Final
      <4>. QED
        BY <2>2, <2>3, <2>7, <2>9, <3>2, <4>1
    <3>. QED
      BY <1>0, <2>3, <3>1, <3>2
  <2>10. told[r] = 0 /\ \A b \in sending : r \notin b.events
    BY <2>1 DEF OncePerLife, CopiesWhole, Copy
  <2>11. \A q \in pending'.events : told[q] = 0 /\ \A b \in sending : q \notin b.events
    BY <2>6, <2>7, <2>10 DEF InOrder
  <2>. QED
    BY <2>1, <2>5, <2>8, <2>9, <2>11 DEF InOrder
<1>5. ASSUME NEW i \in 1..Len(calls), Land(i) PROVE InOrder'
  <2>1. i = 1 /\ calls' = Without(1)
    <3>1. disorder' = (disorder \/ i > 1) /\ calls' = Without(i)
      BY <1>5 DEF Land
    <3>2. ~(i > 1)
      BY <3>1, Zenon
    <3>3. i = 1
      BY <1>0, <3>2
    <3>. QED
      BY <3>1, <3>3
  <2>2. UNCHANGED <<up, pending, sending, told, cut>>
    BY <1>5 DEF Land
  <2>3. /\ Len(calls') = Len(calls) - 1
        /\ \A k \in 1..Len(calls') : calls'[k] = calls[k + 1]
    BY <1>0, <2>1, WithoutType
  <2>4. /\ row' = Before(2)
        /\ IF calls[1].op = "upsert" THEN acked' = acked \cup calls[1].doc.events
           ELSE acked' = acked
    BY <1>5, <2>1 DEF Land, Stored, Before
  <2>5. \A k \in 1..(Len(calls') + 1) : Before(k)' = Before(k + 1)
    <3>1. TAKE k \in 1..(Len(calls') + 1)
    <3>2. CASE k = 1
      BY <2>4, <3>2 DEF Before
    <3>3. CASE k # 1
      <4>1. k - 1 \in 1..Len(calls') /\ calls'[k - 1] = calls[k]
        BY <1>0, <2>3, <3>3
      <4>. QED
        BY <1>0, <2>3, <3>3, <4>1 DEF Before
    <3>. QED
      BY <3>2, <3>3
  <2>6. Final' = Final
    BY <1>0, <2>3, <2>5 DEF Final
  <2>7. \A q : Handled(q)' <=> Handled(q)
    BY <2>2 DEF Handled
  <2>8. ASSUME NEW k \in 1..Len(calls'), Before(k)' # None, NEW q \in Before(k)'.events
        PROVE  IF calls'[k].op = "upsert" THEN q \in calls'[k].doc.events
               ELSE Handled(q)'
    <3>1. k + 1 \in 1..Len(calls) /\ Before(k)' = Before(k + 1) /\ calls'[k] = calls[k + 1]
      BY <1>0, <2>3, <2>5
    <3>. QED
      BY <2>7, <2>8, <3>1 DEF InOrder
  <2>9. ASSUME NEW q \in acked' PROVE Handled(q) \/ (row' # None /\ q \in row'.events)
    <3>1. CASE calls[1].op = "upsert"
      <4>1. row' = calls[1].doc /\ row' \in Batch /\ row' # None
        BY <1>0, <2>1, <2>4, <3>1, CallType, NoneAssumption DEF Before
      <4>2. row # None => \A p \in row.events : p \in calls[1].doc.events
        BY <2>1, <3>1 DEF InOrder, Before
      <4>. QED
        BY <2>4, <2>9, <3>1, <4>1, <4>2 DEF InOrder
    <3>2. CASE calls[1].op # "upsert"
      <4>1. row # None => \A p \in row.events : Handled(p)
        BY <2>1, <3>2 DEF InOrder, Before
      <4>. QED
        BY <2>4, <2>9, <3>2, <4>1 DEF InOrder
    <3>. QED
      BY <3>1, <3>2
  <2>. QED
    BY <2>2, <2>6, <2>7, <2>8, <2>9 DEF InOrder
<1>6. ASSUME NEW i \in 1..Len(calls), CallFails(i) PROVE InOrder'
  BY <1>6 DEF CallFails
<1>7. CASE TimerFires
  <2>. DEFINE c == [op |-> "delete"]
  <2>1. /\ up /\ pending # None /\ pending' = None
        /\ calls' = Append(calls, c)
        /\ sending' = IF pending.users = {} THEN sending ELSE sending \cup {pending}
        /\ UNCHANGED <<up, row, told, cut, acked>>
    BY <1>7 DEF TimerFires, AfterTimer, history
  <2>2. c.op = "delete"
    OBVIOUS
  <2>. HIDE DEF c
  <2>3. /\ Len(calls') = Len(calls) + 1
        /\ \A i \in 1..Len(calls) : calls'[i] = calls[i]
        /\ calls'[Len(calls) + 1] = c
    BY <1>0, <2>1
  <2>4. \A i \in 1..(Len(calls) + 1) : Before(i)' = Before(i)
    BY <1>0, <2>1, <2>3 DEF Before
  <2>5. Final' = None
    BY <1>0, <2>2, <2>3 DEF Final, Before
  <2>6. Final = pending
    BY <2>1 DEF InOrder
  <2>7. pending.users = {} => pending.events = {}
    BY <2>1 DEF CopiesWhole, Copy
  <2>8. \A q : Handled(q) => Handled(q)'
    BY <2>1 DEF Handled
  <2>9. \A q \in pending.events : Handled(q)'
    BY <2>1, <2>7 DEF Handled
  <2>10. ASSUME NEW i \in 1..Len(calls'), Before(i)' # None, NEW q \in Before(i)'.events
        PROVE  IF calls'[i].op = "upsert" THEN q \in calls'[i].doc.events
               ELSE Handled(q)'
    <3>1. CASE i \in 1..Len(calls)
      BY <1>0, <2>3, <2>4, <2>8, <2>10, <3>1 DEF InOrder
    <3>2. CASE i = Len(calls) + 1
      <4>1. Before(i)' = pending
        BY <1>0, <2>4, <2>6, <3>2 DEF Final
      <4>. QED
        BY <2>2, <2>3, <2>9, <2>10, <3>2, <4>1
    <3>. QED
      BY <1>0, <2>3, <3>1, <3>2
  <2>11. \A q \in pending.events : told[q] = 0
    BY <2>1, <2>6 DEF InOrder
  <2>12. \A b \in sending' : \A q \in b.events : told[q] = 0
    BY <2>1, <2>11 DEF InOrder
  <2>. QED
    BY <2>1, <2>5, <2>8, <2>10, <2>12 DEF InOrder
<1>8. ASSUME NEW b \in sending, Send(b) PROVE InOrder'
  <2>1. /\ sending' = sending \ {b}
        /\ told' = [r \in Review |-> IF r \in b.events THEN told[r] + 1 ELSE told[r]]
        /\ UNCHANGED <<up, pending, row, calls, acked, cut>>
    BY <1>8 DEF Send
  <2>2. b.events \subseteq Review
    BY DEF TypeOK, Batch
  <2>3. \A r \in Review : told[r] \in Nat
    BY DEF TypeOK
  <2>4. \A q \in Review : Handled(q) => Handled(q)'
    <3>1. \A q \in b.events : told'[q] > 0
      BY <2>1, <2>2, <2>3
    <3>2. \A q \in Review : told[q] > 0 => told'[q] > 0
      BY <2>1, <2>3
    <3>3. \A c \in sending \ {b} : c \in sending'
      BY <2>1
    <3>. QED
      BY <2>1, <3>1, <3>2, <3>3 DEF Handled
  <2>5. \A r \in b.events : told[r] = 0
    BY DEF InOrder
  <2>6. \A r \in Review : told'[r] <= 1
    BY <2>1, <2>5 DEF InOrder
  <2>7. ASSUME NEW c \in sending', NEW r \in c.events PROVE told'[r] = 0
    <3>1. r \notin b.events /\ r \in Review
      BY <2>1, <2>7 DEF OncePerLife, TypeOK, Batch
    <3>. QED
      BY <2>1, <2>7, <3>1 DEF InOrder
  <2>8. Final' = Final /\ \A i \in 1..Len(calls) : Before(i)' = Before(i)
    BY <2>1 DEF Final, Before
  <2>9. Final # None => \A q \in Final.events :
          told'[q] = 0 /\ \A c \in sending' : q \notin c.events
    <3>1. Final # None => Final.events \subseteq Review
      BY <1>0, BeforeType DEF Final
    <3>. QED
      BY <2>1, <3>1 DEF InOrder
  <2>10. ASSUME NEW i \in 1..Len(calls), Before(i) # None, NEW q \in Before(i).events
         PROVE  IF calls[i].op = "upsert" THEN q \in calls[i].doc.events
                ELSE Handled(q)'
    <3>1. q \in Review
      BY <1>0, <2>10, BeforeType
    <3>. QED
      BY <2>4, <2>10, <3>1 DEF InOrder
  <2>11. \A q \in acked : Handled(q)' \/ (row # None /\ q \in row.events)
    <3>1. acked \subseteq Review
      BY DEF TypeOK
    <3>. QED
      BY <2>4, <3>1 DEF InOrder
  <2>12. up => Final = pending
    BY DEF InOrder
  <2>. QED
    BY <2>1, <2>6, <2>7, <2>8, <2>9, <2>10, <2>11, <2>12 DEF InOrder
<1>9. ASSUME NEW b \in sending, SendFails(b) PROVE InOrder'
  <2>1. /\ sending' = sending \ {b} /\ cut' = cut \cup b.events
        /\ UNCHANGED <<up, pending, row, calls, told, acked>>
    BY <1>9 DEF SendFails
  <2>2. \A q : Handled(q) => Handled(q)'
    BY <2>1 DEF Handled
  <2>3. Final' = Final /\ \A i \in 1..Len(calls) : Before(i)' = Before(i)
    BY <2>1 DEF Final, Before
  <2>. QED
    BY <2>1, <2>2, <2>3 DEF InOrder
<1>10. CASE Crash
  <2>1. /\ ~up' /\ sending' = {} /\ cut' = cut \cup UNION {b.events : b \in sending}
        /\ UNCHANGED <<row, calls, told, acked>>
    BY <1>10 DEF Crash
  <2>2. \A q : Handled(q) => Handled(q)'
    BY <2>1 DEF Handled
  <2>3. Final' = Final /\ \A i \in 1..Len(calls) : Before(i)' = Before(i)
    BY <2>1 DEF Final, Before
  <2>. QED
    BY <2>1, <2>2, <2>3 DEF InOrder
<1>11. CASE StartUp
  <2>1. /\ ~up /\ calls = <<>>
        /\ UNCHANGED <<calls, sending, told, acked, cut>>
        /\ IF row # None /\ row.users = {}
           THEN row' = None /\ pending' = pending
           ELSE pending' = row /\ row' = row
    BY <1>11 DEF StartUp, Recovered, history, TypeOK
  <2>2. pending = None /\ Final = row /\ Final' = row' /\ Len(calls) = 0
    BY <2>1 DEF OncePerLife, Final, Before
  <2>3. row # None /\ row.users = {} => row.events = {}
    BY DEF CopiesWhole, Copy
  <2>4. \A q : Handled(q)' <=> Handled(q)
    BY <2>1 DEF Handled
  <2>. QED
    BY <2>1, <2>2, <2>3, <2>4 DEF InOrder
<1>12. CASE UNCHANGED vars
  BY <1>2, <1>12 DEF vars
<1>. QED
  BY <1>3, <1>4, <1>5, <1>6, <1>7, <1>8, <1>9, <1>10, <1>11, <1>12 DEF Next

\* Order is never restored once it is lost.
LEMMA DisorderStays == TypeOK /\ disorder /\ [Next]_vars => disorder'
<1>. SUFFICES ASSUME TypeOK, disorder, [Next]_vars PROVE disorder'
  OBVIOUS
<1>1. \A r \in Review : Save(r) \/ NobodyToTell(r) => disorder'
  BY DEF Save, NobodyToTell
<1>2. \A r \in Review, users \in SUBSET User : Schedule(r, users) => disorder'
  BY DEF Schedule
<1>3. \A i \in 1..Len(calls) : Land(i) \/ CallFails(i) => disorder'
  BY DEF Land, CallFails
<1>4. \A b \in sending : Send(b) \/ SendFails(b) => disorder'
  BY DEF Send, SendFails
<1>5. TimerFires \/ Crash \/ StartUp \/ UNCHANGED vars => disorder'
  BY DEF TimerFires, Crash, StartUp, vars
<1>. QED
  BY <1>1, <1>2, <1>3, <1>4, <1>5 DEF Next

\* Every action keeps the invariant.
LEMMA NextInv == Inv /\ [Next]_vars => Inv'
<1>. SUFFICES ASSUME Inv, [Next]_vars PROVE Inv'
  OBVIOUS
<1>1. TypeOK' /\ CopiesWhole' /\ OncePerLife' /\ AudienceHears'
  BY NextType, NextWhole, NextOnce, NextHeard DEF Inv
<1>2. disorder' \/ InOrder'
  BY NextInOrder, DisorderStays DEF Inv
<1>. QED
  BY <1>1, <1>2 DEF Inv

\* The records of the notification always have the types the code gives them;
\* in particular no complaint is announced more often than processes start.
THEOREM ComplaintsTyped == Spec => []TypeOK
<1>1. Inv => TypeOK
  BY DEF Inv
<1>. QED
  BY <1>1, InitInv, NextInv, PTL DEF Spec

\* A complaint that has reached the collection is never lost and never
\* announced twice, unless calls go astray, and whenever it is announced
\* everybody found for it hears of it; for any number of complaints, people,
\* calls in flight and restarts.
THEOREM ComplaintsAreKept == Spec => []ComplaintsSurvive
<1>1. Inv => ComplaintsSurvive
  <2>. SUFFICES ASSUME Inv PROVE ComplaintsSurvive
    OBVIOUS
  <2>1. Survives
    BY DEF Inv, InOrder, Handled, Survives, Held
  <2>2. NotAgain
    BY DEF Inv, InOrder, NotAgain, TypeOK
  <2>. QED
    BY <2>1, <2>2 DEF Inv, ComplaintsSurvive
<1>. QED
  BY <1>1, InitInv, NextInv, PTL DEF Spec
====
