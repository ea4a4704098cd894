-------------------------- MODULE PushTokensProofs --------------------------
(***************************************************************************)
(* A device has one owner (OneOwner), and every device a user keeps is     *)
(* listed and pushed to once (DevicesReached), for any users, tokens,      *)
(* devices and jobs and in every interleaving.                             *)
(*                                                                         *)
(* OneOwner is inductive: only Assign and MigrateOne add a token to a list,*)
(* and both pass the unique index.                                         *)
(***************************************************************************)
EXTENDS PushTokens, TLAPS

USE DEF bounds

\* The states of a job, by what it does.
UpsertJob == [op : {"upsert"}, step : {"pull", "mirror", "assign"}, user : User,
              token : Token, device : Device \cup {None}, left : SUBSET User]

RemoveJob == [op : {"removeValue"}, step : {"pull", "mirror"},
              token : Token, left : SUBSET User]

MigrateJob == [op : {"migrate"}, left : SUBSET (User \X Token)]

PushJob == [op : {"push"}, left : SUBSET User, targets : SUBSET (User \X Token)]

LEMMA JobKinds ==
  /\ Idle \in JobState
  /\ UpsertJob \subseteq JobState /\ RemoveJob \subseteq JobState
  /\ MigrateJob \subseteq JobState /\ PushJob \subseteq JobState
  /\ \A s \in JobState : /\ s.op = "upsert" => s \in UpsertJob
                         /\ s.op = "removeValue" => s \in RemoveJob
                         /\ s.op = "migrate" => s \in MigrateJob
                         /\ s.op = "push" => s \in PushJob
BY DEF JobState, Idle, UpsertJob, RemoveJob, MigrateJob, PushJob

\* What the actions write into a job is again a job.
LEMMA Visited ==
  ASSUME NEW s, NEW L
  PROVE  /\ s \in UpsertJob /\ L \subseteq User => [s EXCEPT !.left = L] \in UpsertJob
         /\ s \in RemoveJob /\ L \subseteq User => [s EXCEPT !.left = L] \in RemoveJob
         /\ s \in MigrateJob /\ L \subseteq User \X Token => [s EXCEPT !.left = L] \in MigrateJob
BY DEF UpsertJob, RemoveJob, MigrateJob

LEMMA Mirroring ==
  ASSUME NEW s
  PROVE  /\ s \in UpsertJob => [s EXCEPT !.step = "mirror", !.left = User] \in UpsertJob
         /\ s \in RemoveJob => [s EXCEPT !.step = "mirror", !.left = User] \in RemoveJob
BY DEF UpsertJob, RemoveJob

LEMMA Read ==
  ASSUME NEW s \in PushJob, NEW L, L \subseteq User, NEW S, S \subseteq User \X Token
  PROVE  [s EXCEPT !.left = L, !.targets = S] \in PushJob
BY DEF PushJob

\* The tokens of a list are tokens.
LEMMA TokensTyped ==
  ASSUME TypeOK, NEW u \in User
  PROVE  Tokens(u) \subseteq Token
BY DEF TypeOK, Tokens, Entry

LEMMA LastTyped ==
  ASSUME NEW entries \in SUBSET Entry
  PROVE  LastOf(entries) \subseteq Token \cup {None}
BY DEF LastOf, Entry

LEMMA KeptTyped ==
  ASSUME TypeOK, NEW u \in User, NEW t, NEW d
  PROVE  Kept(u, t, d) \subseteq pushTokens[u] /\ Kept(u, t, d) \in SUBSET Entry
BY DEF Kept, TypeOK

-----------------------------------------------------------------------------
\* Types hold at first.
LEMMA InitTypeOK == Init => TypeOK
<1> SUFFICES ASSUME Init PROVE TypeOK
  OBVIOUS
<1>1. job \in [Job -> JobState]
  BY JobKinds DEF Init
<1>2. started \in 0..MaxJobs /\ logouts \in 0..MaxLogouts
  BY BoundsAssumption DEF Init
<1>. QED
  BY <1>1, <1>2 DEF Init, TypeOK

\* A job begins.
LEMMA StartTyped ==
  ASSUME TypeOK, NEW j \in Job, NEW state \in JobState, Start(j, state)
  PROVE  job' \in [Job -> JobState] /\ started' \in 0..MaxJobs
<1>1. job' \in [Job -> JobState]
  BY DEF TypeOK, Start
<1>2. started' \in 0..MaxJobs
  BY BoundsAssumption DEF TypeOK, Start
<1>. QED
  BY <1>1, <1>2

\* Types are kept by the beginnings.
LEMMA BeginTypeOK ==
  ASSUME TypeOK, NEW j \in Job, Begin(j)
  PROVE  TypeOK'
<1>1. ASSUME NEW u \in User, NEW t \in Token, NEW d \in Device \cup {None}, BeginUpsert(j, u, t, d)
      PROVE  TypeOK'
  <2> DEFINE s == [op |-> "upsert", step |-> "pull", user |-> u, token |-> t,
                   device |-> d, left |-> {}]
  <2>1. s \in UpsertJob
    BY DEF UpsertJob
  <2>2. s \in JobState
    BY <2>1, JobKinds
  <2>3. Start(j, s)
    BY <1>1 DEF BeginUpsert
  <2>4. job' \in [Job -> JobState] /\ started' \in 0..MaxJobs
    BY <2>2, <2>3, StartTyped
  <2>. QED
    BY <1>1, <2>4 DEF BeginUpsert, TypeOK
<1>2. ASSUME NEW t \in Token, BeginRemoveValue(j, t)
      PROVE  TypeOK'
  <2> DEFINE s == [op |-> "removeValue", step |-> "pull", token |-> t, left |-> {}]
  <2>1. s \in RemoveJob
    BY DEF RemoveJob
  <2>2. s \in JobState
    BY <2>1, JobKinds
  <2>3. Start(j, s)
    BY <1>2 DEF BeginRemoveValue
  <2>4. job' \in [Job -> JobState] /\ started' \in 0..MaxJobs
    BY <2>2, <2>3, StartTyped
  <2>. QED
    BY <1>2, <2>4 DEF BeginRemoveValue, TypeOK
<1>3. ASSUME BeginMigrate(j)
      PROVE  TypeOK'
  <2> DEFINE C == {u \in User : pushToken[u] \notin Tokens(u) \cup {None}}
             s == [op |-> "migrate", left |-> {<<u, pushToken[u]>> : u \in C}]
  <2>1. \A u \in C : u \in User /\ pushToken[u] \in Token
    BY DEF TypeOK
  <2>2. {<<u, pushToken[u]>> : u \in C} \subseteq User \X Token
    BY <2>1
  <2>3. s \in MigrateJob
    BY <2>2 DEF MigrateJob
  <2>4. s \in JobState
    BY <2>3, JobKinds
  <2>5. Start(j, s)
    BY <1>3 DEF BeginMigrate
  <2>6. job' \in [Job -> JobState] /\ started' \in 0..MaxJobs
    BY <2>4, <2>5, StartTyped
  <2>. QED
    BY <1>3, <2>6 DEF BeginMigrate, TypeOK
<1>4. ASSUME NEW audience \in SUBSET User, BeginPush(j, audience)
      PROVE  TypeOK'
  <2> DEFINE s == [op |-> "push", left |-> audience, targets |-> {}]
  <2>1. s \in PushJob
    BY DEF PushJob
  <2>2. s \in JobState
    BY <2>1, JobKinds
  <2>3. Start(j, s)
    BY <1>4 DEF BeginPush
  <2>4. job' \in [Job -> JobState] /\ started' \in 0..MaxJobs
    BY <2>2, <2>3, StartTyped
  <2>. QED
    BY <1>4, <2>4 DEF BeginPush, TypeOK
<1>. QED
  BY <1>1, <1>2, <1>3, <1>4 DEF Begin

\* Types are kept by the database calls of a job.
LEMMA CallTypeOK ==
  ASSUME TypeOK, NEW j \in Job, Call(j)
  PROVE  TypeOK'
<1>1. job[j] \in JobState
  BY DEF TypeOK
<1>2. CASE Pull(j)
  <2>1. job[j] \in UpsertJob \cup RemoveJob
    BY <1>1, <1>2, JobKinds DEF Pull
  <2>2. [job[j] EXCEPT !.step = "mirror", !.left = User] \in JobState
    BY <2>1, Mirroring, JobKinds
  <2>3. job' = [job EXCEPT ![j] = [job[j] EXCEPT !.step = "mirror", !.left = User]]
    BY <1>2 DEF Pull, TypeOK
  <2>4. job' \in [Job -> JobState]
    BY <2>2, <2>3 DEF TypeOK
  <2>5. pushTokens' \in [User -> SUBSET Entry] /\ wanted' \subseteq Token
    BY <1>2 DEF Pull, TypeOK
  <2>. QED
    BY <1>2, <2>4, <2>5 DEF Pull, TypeOK
<1>3. CASE RemoveValueDone(j)
  BY <1>3, JobKinds DEF RemoveValueDone, TypeOK
<1>4. CASE Assign(j)
  <2>1. job' \in [Job -> JobState]
    BY <1>4, JobKinds DEF Assign, TypeOK
  <2> DEFINE u == job[j].user
             t == job[j].token
             d == job[j].device
  <2>2. u \in User /\ t \in Token /\ d \in Device \cup {None}
    BY <1>1, <1>4, JobKinds DEF Assign, UpsertJob
  <2>3. Kept(u, t, d) \cup {[token |-> t, device |-> d]} \in SUBSET Entry
    BY <2>2, KeptTyped DEF Entry
  <2>4. pushTokens' \in [User -> SUBSET Entry] /\ pushToken' \in [User -> Token \cup {None}]
        /\ wanted' \subseteq Token
    BY <1>4, <2>2, <2>3 DEF Assign, TypeOK
  <2>. QED
    BY <1>4, <2>1, <2>4 DEF Assign, TypeOK
<1>5. CASE MigrateDone(j)
  BY <1>5, JobKinds DEF MigrateDone, TypeOK
<1>6. CASE PushDone(j)
  BY <1>6, JobKinds DEF PushDone, TypeOK
<1>7. CASE Die(j)
  BY <1>7, JobKinds DEF Die, TypeOK
<1>8. ASSUME NEW u \in User, Mirror(j, u)
      PROVE  TypeOK'
  <2>1. job[j] \in UpsertJob \cup RemoveJob
    BY <1>1, <1>8, JobKinds DEF Mirror
  <2>2. job[j].left \ {u} \subseteq User
    BY <2>1 DEF UpsertJob, RemoveJob
  <2>3. [job[j] EXCEPT !.left = job[j].left \ {u}] \in JobState
    BY <2>1, <2>2, Visited, JobKinds
  <2>4. job' = [job EXCEPT ![j] = [job[j] EXCEPT !.left = job[j].left \ {u}]]
    BY <1>8 DEF Mirror, TypeOK
  <2>5. job' \in [Job -> JobState]
    BY <2>3, <2>4 DEF TypeOK
  <2>6. pushToken' \in [User -> Token \cup {None}]
    <3>1. LastOf(pushTokens[u]) \subseteq Token \cup {None}
      BY LastTyped DEF TypeOK
    <3>. QED
      BY <1>8, <3>1 DEF Mirror, TypeOK
  <2>. QED
    BY <1>8, <2>5, <2>6 DEF Mirror, TypeOK
<1>9. ASSUME NEW u \in User, ReadUser(j, u)
      PROVE  TypeOK'
  <2> DEFINE tokens == IF u \in isDeleted THEN {} ELSE Unseen(j, Tokens(u))
             L == job[j].left \ {u}
             S == job[j].targets \cup ({u} \X tokens)
  <2>1. job[j] \in PushJob
    BY <1>1, <1>9, JobKinds DEF ReadUser
  <2>2. tokens \subseteq Token
    BY TokensTyped DEF Unseen
  <2>3. L \subseteq User /\ S \subseteq User \X Token
    BY <2>1, <2>2 DEF PushJob
  <2>4. [job[j] EXCEPT !.left = L, !.targets = S] \in PushJob
    BY <2>1, <2>3, Read
  <2>5. [job[j] EXCEPT !.left = L, !.targets = S] \in JobState
    BY <2>4, JobKinds
  <2>6. job' = [job EXCEPT ![j] = [job[j] EXCEPT !.left = L, !.targets = S]]
    BY <1>9 DEF ReadUser, TypeOK
  <2>7. job' \in [Job -> JobState]
    BY <2>5, <2>6 DEF TypeOK
  <2>. QED
    BY <1>9, <2>7 DEF ReadUser, TypeOK
<1>10. ASSUME NEW u \in User, NEW t \in Token, MigrateOne(j, u, t)
       PROVE  TypeOK'
  <2>1. job[j] \in MigrateJob
    BY <1>1, <1>10, JobKinds DEF MigrateOne
  <2>2. job[j].left \ {<<u, t>>} \subseteq User \X Token
    BY <2>1 DEF MigrateJob
  <2>3. [job[j] EXCEPT !.left = job[j].left \ {<<u, t>>}] \in JobState
    BY <2>1, <2>2, Visited, JobKinds
  <2>4. job' = [job EXCEPT ![j] = [job[j] EXCEPT !.left = job[j].left \ {<<u, t>>}]]
    BY <1>10 DEF MigrateOne, TypeOK
  <2>5. job' \in [Job -> JobState]
    BY <2>3, <2>4 DEF TypeOK
  <2>6. [token |-> t, device |-> None] \in Entry
    BY DEF Entry
  <2>7. pushTokens' \in [User -> SUBSET Entry]
    BY <1>10, <2>6 DEF MigrateOne, TypeOK
  <2>. QED
    BY <1>10, <2>5, <2>7 DEF MigrateOne, TypeOK
<1>. QED
  BY <1>2, <1>3, <1>4, <1>5, <1>6, <1>7, <1>8, <1>9, <1>10 DEF Call

\* Types are kept by every step.
LEMMA NextTypeOK == TypeOK /\ [Next]_vars => TypeOK'
<1> SUFFICES ASSUME TypeOK, [Next]_vars PROVE TypeOK'
  OBVIOUS
<1>1. ASSUME NEW j \in Job, Begin(j) \/ Call(j) PROVE TypeOK'
  BY <1>1, BeginTypeOK, CallTypeOK
<1>2. ASSUME NEW u \in User, NEW t \in Token \cup {None}, NEW d \in Device \cup {None},
             Logout(u, t, d)
      PROVE  TypeOK'
  <2>1. Kept(u, t, d) \in SUBSET Entry
    BY KeptTyped
  <2>2. LastOf(Kept(u, t, d)) \subseteq Token \cup {None}
    BY <2>1, LastTyped
  <2>3. pushTokens' \in [User -> SUBSET Entry] /\ pushToken' \in [User -> Token \cup {None}]
    BY <1>2, <2>1, <2>2 DEF Logout, TypeOK
  <2>4. logouts' \in 0..MaxLogouts
    BY <1>2, BoundsAssumption DEF Logout, TypeOK
  <2>. QED
    BY <1>2, <2>3, <2>4 DEF Logout, TypeOK
<1>3. ASSUME NEW u \in User, RemoveUser(u) \/ ReviveUser(u) PROVE TypeOK'
  BY <1>3 DEF RemoveUser, ReviveUser, TypeOK
<1>4. CASE UNCHANGED vars
  BY <1>4 DEF vars, TypeOK
<1>. QED
  BY <1>1, <1>2, <1>3, <1>4 DEF Next

\* Every variable of the token protocol keeps its type (TypeOK).
THEOREM TypeCorrect == Spec => []TypeOK
BY InitTypeOK, NextTypeOK, PTL DEF Spec

-----------------------------------------------------------------------------
\* Taking entries away makes no second owner and lists nothing twice.
LEMMA Shrunk ==
  ASSUME OneOwner, ListedOnce, \A u \in User : pushTokens'[u] \subseteq pushTokens[u]
  PROVE  OneOwner' /\ ListedOnce'
BY DEF OneOwner, ListedOnce, Tokens

\* Neither does adding an entry that the index admits, to a list without its
\* token and its device.
LEMMA Grown ==
  ASSUME TypeOK, OneOwner, ListedOnce, NEW w \in User, NEW e \in Entry, NEW kept,
         kept \subseteq pushTokens[w],
         \A f \in kept : f.token # e.token /\ (e.device # None => f.device # e.device),
         IndexAdmits(w, e.token),
         pushTokens' = [pushTokens EXCEPT ![w] = kept \cup {e}]
  PROVE  OneOwner' /\ ListedOnce'
<1>1. pushTokens'[w] = kept \cup {e} /\ \A u \in User \ {w} : pushTokens'[u] = pushTokens[u]
  BY DEF TypeOK
<1>2. Tokens(w)' \subseteq Tokens(w) \cup {e.token} /\ \A u \in User \ {w} : Tokens(u)' = Tokens(u)
  BY <1>1 DEF Tokens
<1>3. \A u \in User \ {w} : e.token \notin Tokens(u)
  BY DEF IndexAdmits
<1>4. ASSUME NEW u \in User, NEW v \in User, NEW t, t \in Tokens(u)', t \in Tokens(v)'
      PROVE  u = v
  <2>1. CASE u = w /\ v # w
    BY <1>2, <1>3, <1>4, <2>1 DEF OneOwner
  <2>2. CASE u # w /\ v = w
    BY <1>2, <1>3, <1>4, <2>2 DEF OneOwner
  <2>3. CASE u # w /\ v # w
    BY <1>2, <1>4, <2>3 DEF OneOwner
  <2>. QED
    BY <2>1, <2>2, <2>3
<1>5. OneOwner'
  BY <1>4 DEF OneOwner
<1>6. ASSUME NEW u \in User, NEW f \in pushTokens'[u], NEW g \in pushTokens'[u],
             f.token = g.token \/ (f.device = g.device /\ f.device # None)
      PROVE  f = g
  <2>1. CASE u # w
    BY <1>1, <1>6, <2>1 DEF ListedOnce
  <2>2. CASE u = w /\ f # e /\ g # e
    BY <1>1, <1>6, <2>2 DEF ListedOnce
  <2>3. CASE u = w /\ (f = e \/ g = e)
    BY <1>1, <1>6, <2>3
  <2>. QED
    BY <2>1, <2>2, <2>3
<1>7. ListedOnce'
  BY <1>6 DEF ListedOnce
<1>. QED
  BY <1>5, <1>7

\* Every step keeps the lists apart and without repetition: only Assign and
\* MigrateOne add an entry.
LEMMA NextListed ==
  ASSUME TypeOK, OneOwner, ListedOnce, [Next]_vars
  PROVE  OneOwner' /\ ListedOnce'
<1>1. ASSUME NEW j \in Job, Assign(j) PROVE OneOwner' /\ ListedOnce'
  <2> DEFINE u == job[j].user
             t == job[j].token
             d == job[j].device
             e == [token |-> t, device |-> d]
  <2>1. job[j] \in UpsertJob
    BY <1>1, JobKinds DEF Assign, TypeOK
  <2>2. u \in User /\ t \in Token /\ d \in Device \cup {None}
    BY <2>1 DEF UpsertJob
  <2>3. e \in Entry /\ e.token = t /\ e.device = d
    BY <2>2 DEF Entry
  <2>4. CASE IndexAdmits(u, t)
    <3>1. pushTokens' = [pushTokens EXCEPT ![u] = Kept(u, t, d) \cup {e}]
      BY <1>1, <2>4 DEF Assign
    <3>2. \A f \in Kept(u, t, d) : f.token # e.token /\ (e.device # None => f.device # e.device)
      BY DEF Kept
    <3>3. Kept(u, t, d) \subseteq pushTokens[u]
      BY DEF Kept
    <3>4. IndexAdmits(u, e.token)
      BY <2>3, <2>4
    <3>. HIDE DEF u, t, d, e
    <3>. QED
      BY <2>2, <2>3, <3>1, <3>2, <3>3, <3>4, Grown
  <2>5. CASE ~IndexAdmits(u, t)
    BY <1>1, <2>5, Shrunk DEF Assign
  <2>. QED
    BY <2>4, <2>5
<1>2. ASSUME NEW j \in Job, NEW u \in User, NEW t \in Token, MigrateOne(j, u, t)
      PROVE  OneOwner' /\ ListedOnce'
  <2> DEFINE e == [token |-> t, device |-> None]
  <2>1. e \in Entry /\ e.token = t /\ e.device = None
    BY DEF Entry
  <2>2. CASE t \notin Tokens(u) /\ IndexAdmits(u, t)
    <3>1. pushTokens' = [pushTokens EXCEPT ![u] = pushTokens[u] \cup {e}]
      BY <1>2, <2>2 DEF MigrateOne
    <3>2. \A f \in pushTokens[u] : f.token # t
      BY <2>2 DEF Tokens
    <3>3. IndexAdmits(u, e.token)
      BY <2>1, <2>2
    <3>. HIDE DEF e
    <3>. QED
      BY <2>1, <3>1, <3>2, <3>3, Grown
  <2>3. CASE ~(t \notin Tokens(u) /\ IndexAdmits(u, t))
    BY <1>2, <2>3, Shrunk DEF MigrateOne
  <2>. QED
    BY <2>2, <2>3
<1>3. ASSUME NEW j \in Job, Pull(j) PROVE OneOwner' /\ ListedOnce'
  <2>1. \A u \in User : pushTokens'[u] \subseteq pushTokens[u]
    BY <1>3 DEF Pull
  <2>. QED
    BY <2>1, Shrunk
<1>4. ASSUME NEW u \in User, NEW t, NEW d, Logout(u, t, d) PROVE OneOwner' /\ ListedOnce'
  <2>1. \A v \in User : pushTokens'[v] \subseteq pushTokens[v]
    BY <1>4 DEF Logout, Kept, TypeOK
  <2>. QED
    BY <2>1, Shrunk
<1>5. ASSUME UNCHANGED pushTokens PROVE OneOwner' /\ ListedOnce'
  BY <1>5, Shrunk
<1>6. ASSUME NEW j \in Job, Call(j) PROVE OneOwner' /\ ListedOnce'
  BY <1>1, <1>2, <1>3, <1>5, <1>6
  DEF Call, RemoveValueDone, MigrateDone, PushDone, Die, Mirror, ReadUser
<1>7. ASSUME NEW j \in Job, Begin(j) PROVE OneOwner' /\ ListedOnce'
  BY <1>5, <1>7 DEF Begin, BeginUpsert, BeginRemoveValue, BeginMigrate, BeginPush
<1>. QED
  BY <1>4, <1>5, <1>6, <1>7 DEF Next, RemoveUser, ReviveUser, vars

\* However upserts, logouts, dead-token removals and migrations of any number
\* of users and processes interleave, no token is in two lists (OneOwner).
THEOREM OwnedOnce == Spec => []OneOwner
<1>1. Init => OneOwner /\ ListedOnce
  BY DEF Init, OneOwner, ListedOnce, Tokens
<1>2. TypeOK /\ OneOwner /\ ListedOnce /\ [Next]_vars => OneOwner' /\ ListedOnce'
  BY NextListed
<1>. QED
  BY <1>1, <1>2, TypeCorrect, PTL DEF Spec

-----------------------------------------------------------------------------
\* A push keeps its targets apart if no job's targets change but by ReadUser.
LEMMA NextPushed ==
  ASSUME TypeOK, PushedOnce, [Next]_vars
  PROVE  PushedOnce'
<1> DEFINE Once(s) == s.op = "push" => \A p, q \in s.targets : p[2] = q[2] => p = q
<1>1. \A k \in Job : Once(job[k])
  BY DEF PushedOnce
<1>2. ASSUME NEW j \in Job, NEW s, Once(s), job' = [job EXCEPT ![j] = s]
      PROVE  PushedOnce'
  BY <1>1, <1>2 DEF PushedOnce, TypeOK
<1>3. Once(Idle)
  BY DEF Idle
<1>4. ASSUME NEW j \in Job, Begin(j) PROVE PushedOnce'
  <2>1. ASSUME NEW s, s.op # "push", Start(j, s) PROVE PushedOnce'
    BY <1>2, <2>1 DEF Start
  <2>2. ASSUME NEW audience \in SUBSET User, BeginPush(j, audience) PROVE PushedOnce'
    <3> DEFINE s == [op |-> "push", left |-> audience, targets |-> {}]
    <3>1. Once(s) /\ Start(j, s)
      BY <2>2 DEF BeginPush
    <3>. QED
      BY <1>2, <3>1 DEF Start
  <2>. QED
    BY <1>4, <2>1, <2>2 DEF Begin, BeginUpsert, BeginRemoveValue, BeginMigrate
<1>5. ASSUME NEW j \in Job, NEW u \in User, ReadUser(j, u) PROVE PushedOnce'
  <2> DEFINE tokens == IF u \in isDeleted THEN {} ELSE Unseen(j, Tokens(u))
             T == job[j].targets
             S == T \cup ({u} \X tokens)
             s == [job[j] EXCEPT !.left = job[j].left \ {u}, !.targets = S]
  <2>1. job[j] \in PushJob
    BY <1>5, JobKinds DEF ReadUser, TypeOK
  <2>2. s.targets = S
    BY <2>1 DEF PushJob
  <2>3. \A t \in tokens, p \in T : p[2] # t
    BY DEF Unseen
  <2>4. \A p, q \in T : p[2] = q[2] => p = q
    BY <1>1, <2>1 DEF PushJob
  <2>5. \A p \in {u} \X tokens : p = <<u, p[2]>> /\ p[2] \in tokens
    OBVIOUS
  <2>6. \A p, q \in S : p[2] = q[2] => p = q
    <3>. HIDE DEF T, tokens
    <3>. QED
      BY <2>3, <2>4, <2>5
  <2>7. Once(s)
    BY <2>2, <2>6
  <2>8. job' = [job EXCEPT ![j] = s]
    BY <1>5 DEF ReadUser, TypeOK
  <2>. HIDE DEF s
  <2>. QED
    BY <1>2, <2>7, <2>8
<1>6. ASSUME NEW j \in Job, RemoveValueDone(j) \/ Assign(j) \/ MigrateDone(j) \/ PushDone(j) \/ Die(j)
      PROVE  PushedOnce'
  BY <1>2, <1>3, <1>6 DEF RemoveValueDone, Assign, MigrateDone, PushDone, Die
<1>7. ASSUME NEW j \in Job, job[j].op # "push", \A k \in Job \ {j} : job'[k] = job[k],
             job'[j].op = job[j].op
      PROVE  PushedOnce'
  BY <1>1, <1>7 DEF PushedOnce
<1>8. ASSUME NEW j \in Job,
             Pull(j) \/ (\E u \in User : Mirror(j, u)) \/ (\E u \in User, t \in Token : MigrateOne(j, u, t))
      PROVE  PushedOnce'
  <2>1. job[j].op # "push" /\ job[j] \in JobState
    BY <1>8 DEF Pull, Mirror, MigrateOne, TypeOK
  <2>2. job[j] \in UpsertJob \cup RemoveJob \cup MigrateJob
    BY <1>8, <2>1, JobKinds DEF Pull, Mirror, MigrateOne
  <2>3. \A k \in Job \ {j} : job'[k] = job[k]
    BY <1>8 DEF Pull, Mirror, MigrateOne, TypeOK
  <2>4. job'[j].op = job[j].op
    BY <1>8, <2>2 DEF Pull, Mirror, MigrateOne, TypeOK, UpsertJob, RemoveJob, MigrateJob
  <2>. QED
    BY <1>7, <2>1, <2>3, <2>4
<1>9. ASSUME UNCHANGED job PROVE PushedOnce'
  BY <1>9 DEF PushedOnce
<1>. QED
  BY <1>4, <1>5, <1>6, <1>8, <1>9 DEF Next, Call, Logout, RemoveUser, ReviveUser, vars

\* A registered token is not lost to another upsert of it.
LEMMA NextKept ==
  ASSUME TypeOK, NotLost, [Next]_vars
  PROVE  NotLost'
<1> DEFINE Handed(t, k) == job[k].op = "upsert" /\ job[k].token = t
<1>1. \A t \in wanted : Owned(t) \/ \E k \in Job : Handed(t, k)
  BY DEF NotLost
<1>2. ASSUME NEW j \in Job, UNCHANGED <<pushTokens, wanted>>, job[j].op # "upsert",
             \A k \in Job \ {j} : job'[k] = job[k]
      PROVE  NotLost'
  BY <1>1, <1>2 DEF NotLost, Owned, Tokens
<1>3. ASSUME NEW j \in Job, Begin(j) PROVE NotLost'
  <2>1. ASSUME NEW s, Start(j, s), UNCHANGED <<pushTokens, wanted>> PROVE NotLost'
    <3>1. job[j].op # "upsert" /\ \A k \in Job \ {j} : job'[k] = job[k]
      BY <2>1 DEF Start, Idle, TypeOK
    <3>. QED
      BY <1>2, <2>1, <3>1
  <2>. QED
    BY <1>3, <2>1 DEF Begin, BeginUpsert, BeginRemoveValue, BeginMigrate, BeginPush
<1>4. ASSUME NEW j \in Job,
             RemoveValueDone(j) \/ MigrateDone(j) \/ PushDone(j) \/ \E u \in User : ReadUser(j, u)
      PROVE  NotLost'
  <2>1. job[j].op # "upsert" /\ \A k \in Job \ {j} : job'[k] = job[k]
    BY <1>4 DEF RemoveValueDone, MigrateDone, PushDone, ReadUser, TypeOK
  <2>2. UNCHANGED <<pushTokens, wanted>>
    BY <1>4 DEF RemoveValueDone, MigrateDone, PushDone, ReadUser
  <2>. QED
    BY <1>2, <2>1, <2>2
<1>5. ASSUME NEW j \in Job, Pull(j) PROVE NotLost'
  <2>1. job[j] \in UpsertJob \cup RemoveJob
    BY <1>5, JobKinds DEF Pull, TypeOK
  <2>2. job'[j].op = job[j].op /\ job'[j].token = job[j].token /\ \A k \in Job \ {j} : job'[k] = job[k]
    BY <1>5, <2>1 DEF Pull, TypeOK, UpsertJob, RemoveJob
  <2>3. \A t : t # job[j].token /\ Owned(t) => Owned(t)'
    BY <1>5 DEF Pull, Owned, Tokens
  <2>4. wanted' \subseteq wanted /\ (job[j].op = "upsert" \/ job[j].token \notin wanted')
    BY <1>5 DEF Pull
  <2>. QED
    BY <1>1, <2>2, <2>3, <2>4 DEF NotLost
<1>6. ASSUME NEW j \in Job, NEW u \in User, Mirror(j, u) PROVE NotLost'
  <2>1. job[j] \in UpsertJob \cup RemoveJob
    BY <1>6, JobKinds DEF Mirror, TypeOK
  <2>2. job'[j].op = job[j].op /\ job'[j].token = job[j].token /\ \A k \in Job \ {j} : job'[k] = job[k]
    BY <1>6, <2>1 DEF Mirror, TypeOK, UpsertJob, RemoveJob
  <2>3. UNCHANGED <<pushTokens, wanted>>
    BY <1>6 DEF Mirror
  <2>. QED
    BY <1>1, <2>2, <2>3 DEF NotLost, Owned, Tokens
<1>7. ASSUME NEW j \in Job, NEW u \in User, NEW t \in Token, MigrateOne(j, u, t) PROVE NotLost'
  <2>1. job[j].op # "upsert" /\ \A k \in Job \ {j} : job'[k] = job[k]
    BY <1>7 DEF MigrateOne, TypeOK
  <2>2. \A v \in User : pushTokens[v] \subseteq pushTokens'[v]
    BY <1>7 DEF MigrateOne, TypeOK
  <2>3. \A s : Owned(s) => Owned(s)'
    BY <2>2 DEF Owned, Tokens
  <2>4. wanted' = wanted
    BY <1>7 DEF MigrateOne
  <2>. QED
    BY <1>1, <2>1, <2>3, <2>4 DEF NotLost
<1>8. ASSUME NEW j \in Job, Assign(j) PROVE NotLost'
  <2>1. job[j] \in UpsertJob
    BY <1>8, JobKinds DEF Assign, TypeOK
  <2>2. PICK u \in User, t \in Token, d \in Device \cup {None} :
          u = job[j].user /\ t = job[j].token /\ d = job[j].device
    BY <2>1 DEF UpsertJob
  <2>3. \A k \in Job \ {j} : job'[k] = job[k]
    BY <1>8 DEF Assign, TypeOK
  <2>4. CASE IndexAdmits(u, t)
    <3>1. pushTokens'[u] = Kept(u, t, d) \cup {[token |-> t, device |-> d]}
          /\ \A v \in User \ {u} : pushTokens'[v] = pushTokens[v]
      BY <1>8, <2>2, <2>4 DEF Assign, TypeOK
    <3>2. Owned(t)'
      <4> DEFINE e == [token |-> t, device |-> d]
      <4>1. e \in pushTokens'[u] /\ e.token = t
        BY <3>1
      <4>2. t \in Tokens(u)'
        BY <4>1 DEF Tokens
      <4>. QED
        BY <4>2 DEF Owned
    <3>3. ASSUME NEW s, s # t, s \notin OfDevice(u, d), Owned(s) PROVE Owned(s)'
      <4>1. PICK v \in User : s \in Tokens(v)
        BY <3>3 DEF Owned
      <4>2. CASE v # u
        BY <3>1, <4>1, <4>2 DEF Owned, Tokens
      <4>3. CASE v = u
        <5>1. PICK e \in pushTokens[u] : e.token = s
          BY <4>1, <4>3 DEF Tokens
        <5>2. e \in Kept(u, t, d)
          BY <3>3, <5>1 DEF Kept, OfDevice
        <5>. QED
          BY <2>2, <3>1, <5>1, <5>2 DEF Owned, Tokens
      <4>. QED
        BY <4>2, <4>3
    <3>4. wanted' = (wanted \ OfDevice(u, d)) \cup {t}
      BY <1>8, <2>2, <2>4 DEF Assign
    <3>5. ASSUME NEW s \in wanted'
          PROVE  Owned(s)' \/ \E k \in Job : Handed(s, k)'
      <4>1. CASE s = t
        BY <3>2, <4>1
      <4>2. CASE s # t
        <5>1. s \in wanted /\ s \notin OfDevice(u, d)
          BY <3>4, <3>5, <4>2
        <5>2. CASE Owned(s)
          BY <3>3, <4>2, <5>1, <5>2
        <5>3. CASE ~Owned(s)
          <6>1. PICK k \in Job : Handed(s, k)
            BY <5>1, <5>3 DEF NotLost
          <6>2. k # j
            BY <2>2, <4>2, <6>1
          <6>. QED
            BY <2>3, <6>1, <6>2
        <5>. QED
          BY <5>2, <5>3
      <4>. QED
        BY <4>1, <4>2
    <3>. QED
      BY <3>5 DEF NotLost
  <2>5. CASE ~IndexAdmits(u, t)
    <3>1. Owned(t)
      BY <2>5 DEF IndexAdmits, Owned
    <3>2. UNCHANGED <<pushTokens, wanted>>
      BY <1>8, <2>2, <2>5 DEF Assign
    <3>3. \A s : Owned(s) => Owned(s)'
      BY <3>2 DEF Owned, Tokens
    <3>4. ASSUME NEW s \in wanted
          PROVE  Owned(s)' \/ \E k \in Job : Handed(s, k)'
      <4>1. CASE Owned(s)
        BY <3>3, <4>1
      <4>2. CASE ~Owned(s)
        <5>1. PICK k \in Job : Handed(s, k)
          BY <4>2 DEF NotLost
        <5>2. k # j
          BY <2>2, <3>1, <4>2, <5>1
        <5>. QED
          BY <2>3, <5>1, <5>2
      <4>. QED
        BY <4>1, <4>2
    <3>. QED
      BY <3>2, <3>4 DEF NotLost
  <2>. QED
    BY <2>4, <2>5
<1>9. ASSUME NEW j \in Job, Die(j) PROVE NotLost'
  <2>1. \A k \in Job \ {j} : job'[k] = job[k]
    BY <1>9 DEF Die, TypeOK
  <2>2. wanted' \subseteq wanted /\ (job[j].op = "upsert" => job[j].token \notin wanted')
        /\ UNCHANGED pushTokens
    BY <1>9 DEF Die
  <2>. QED
    BY <1>1, <2>1, <2>2 DEF NotLost, Owned, Tokens
<1>10. ASSUME NEW u \in User, NEW t, NEW d, Logout(u, t, d) PROVE NotLost'
  <2>1. pushTokens'[u] = Kept(u, t, d) /\ \A v \in User \ {u} : pushTokens'[v] = pushTokens[v]
    BY <1>10 DEF Logout, TypeOK
  <2>2. wanted' = wanted \ (OfDevice(u, d) \cup ({t} \cap Tokens(u))) /\ UNCHANGED job
    BY <1>10 DEF Logout
  <2>3. ASSUME NEW s \in wanted', Owned(s) PROVE Owned(s)'
    <3>1. PICK v \in User : s \in Tokens(v)
      BY <2>3 DEF Owned
    <3>2. CASE v # u
      BY <2>1, <3>1, <3>2 DEF Owned, Tokens
    <3>3. CASE v = u
      <4>1. PICK e \in pushTokens[u] : e.token = s
        BY <3>1, <3>3 DEF Tokens
      <4>2. e \in Kept(u, t, d)
        BY <2>2, <2>3, <3>1, <3>3, <4>1 DEF Kept, OfDevice
      <4>. QED
        BY <2>1, <4>1, <4>2 DEF Owned, Tokens
    <3>. QED
      BY <3>2, <3>3
  <2>. QED
    BY <1>1, <2>2, <2>3 DEF NotLost
<1>11. ASSUME UNCHANGED <<pushTokens, wanted, job>> PROVE NotLost'
  BY <1>11 DEF NotLost, Owned, Tokens
<1>. QED
  BY <1>3, <1>4, <1>5, <1>6, <1>7, <1>8, <1>9, <1>10, <1>11 DEF Next, Call, RemoveUser, ReviveUser, vars

\* Every device a user keeps is listed once, kept through upserts of its token
\* and pushed to once (DevicesReached), for any number of users and processes.
THEOREM Reached == Spec => []DevicesReached
<1>1. Init => OneOwner /\ ListedOnce /\ NotLost /\ PushedOnce
  BY DEF Init, OneOwner, ListedOnce, NotLost, PushedOnce, Tokens, Idle
<1>2. TypeOK /\ OneOwner /\ ListedOnce /\ NotLost /\ PushedOnce /\ [Next]_vars
        => OneOwner' /\ ListedOnce' /\ NotLost' /\ PushedOnce'
  BY NextListed, NextKept, NextPushed
<1>3. ListedOnce /\ NotLost /\ PushedOnce => DevicesReached
  BY DEF DevicesReached
<1>. QED
  BY <1>1, <1>2, <1>3, TypeCorrect, PTL DEF Spec
=============================================================================
