----------------------------- MODULE PushTokens -----------------------------
(***************************************************************************)
(* The device tokens of PushTokenService: which user the pushes to a       *)
(* device go to.  A token is registered by an upsert, taken from a user by *)
(* a logout, by the upsert of another user, or because Expo reported its   *)
(* device gone; at start-up the tokens of the legacy field are migrated.   *)
(*                                                                         *)
(* An upsert is three database calls, a removal by value two, and the      *)
(* migration one per user; requests, start-ups and pushes interleave       *)
(* between any two of them, and a process may die.  Only valid Expo tokens *)
(* are modelled: the others are refused before anything is written.  The   *)
(* list of a user is a set: of its order the code uses only which entry is *)
(* the last, for the legacy field, and that is left open here.             *)
(***************************************************************************)
EXTENDS Naturals, FiniteSets

CONSTANTS
  User, Token, Device,
  Job,       \* slots for requests, start-ups and pushes in progress
  None,
  MaxJobs,   \* bound: jobs started
  MaxLogouts \* bound: logouts

ASSUME NoneAssumption == None \notin Token \cup Device \cup User
ASSUME BoundsAssumption == MaxJobs \in Nat /\ MaxLogouts \in Nat

VARIABLES
  pushTokens, \* user -> entries of users.pushTokens
  pushToken,  \* user -> the legacy field
  isDeleted,  \* the soft-deleted users
  job,        \* what each job does next
  wanted,     \* history: registered with success, and not removed since
  started, logouts

vars == <<pushTokens, pushToken, isDeleted, job, wanted, started, logouts>>

bounds == <<started, logouts>>

\* UserPushToken; a migrated entry has no device.
Entry == [token : Token, device : Device \cup {None}]

Tokens(u) == {e.token : e \in pushTokens[u]}

Owned(t) == \E u \in User : t \in Tokens(u)

Idle == [op |-> "idle"]

\* A job between two database calls: `step` is the next call, `left` the users
\* an updateMany, a migration or a cursor has still to visit.
JobState ==
  {Idle}
  \cup [op : {"upsert"}, step : {"pull", "mirror", "assign"}, user : User,
        token : Token, device : Device \cup {None}, left : SUBSET User]
  \cup [op : {"removeValue"}, step : {"pull", "mirror"},
        token : Token, left : SUBSET User]
  \cup [op : {"migrate"}, left : SUBSET (User \X Token)]
  \cup [op : {"push"}, left : SUBSET User, targets : SUBSET (User \X Token)]

TypeOK ==
  /\ pushTokens \in [User -> SUBSET Entry]
  /\ pushToken \in [User -> Token \cup {None}]
  /\ isDeleted \subseteq User
  /\ job \in [Job -> JobState]
  /\ wanted \subseteq Token
  /\ started \in 0..MaxJobs
  /\ logouts \in 0..MaxLogouts

\* No tokens yet, but some users still have one in the legacy field only, and
\* two of them may have the same.
Init ==
  /\ pushTokens = [u \in User |-> {}]
  /\ pushToken \in [User -> Token \cup {None}]
  /\ isDeleted = {}
  /\ job = [j \in Job |-> Idle]
  /\ wanted = {}
  /\ started = 0
  /\ logouts = 0

Start(j, state) ==
  /\ job[j] = Idle
  /\ started < MaxJobs
  /\ started' = started + 1
  /\ job' = [job EXCEPT ![j] = state]

------------------------------------------------------------------------------
(* Removing a token by its value: the first two calls of an upsert, and all *)
(* that is done about a dead token.                                         *)

BeginUpsert(j, u, t, d) ==
  /\ Start(j, [op |-> "upsert", step |-> "pull", user |-> u, token |-> t,
               device |-> d, left |-> {}])
  /\ UNCHANGED <<pushTokens, pushToken, isDeleted, wanted, logouts>>

\* Expo reported DeviceNotRegistered, on a ticket or a receipt of a push that
\* went to the token when somebody had it.
BeginRemoveValue(j, t) ==
  /\ Start(j, [op |-> "removeValue", step |-> "pull", token |-> t,
               left |-> {}])
  /\ UNCHANGED <<pushTokens, pushToken, isDeleted, wanted, logouts>>

\* The $pull from every user that has it.  The index leads to the one document
\* that does, so this is one step.
Pull(j) ==
  /\ job[j].op \in {"upsert", "removeValue"}
  /\ job[j].step = "pull"
  /\ LET t == job[j].token IN
     /\ pushTokens' = [u \in User |->
          {e \in pushTokens[u] : e.token # t}]
     /\ wanted' = IF job[j].op = "removeValue" THEN wanted \ {t} ELSE wanted
  /\ job' = [job EXCEPT ![j].step = "mirror", ![j].left = User]
  /\ UNCHANGED <<pushToken, isDeleted, bounds>>

\* Mutant: the last entry itself, not its token.
LastEntryOf(entries) == IF entries = {} THEN {None} ELSE entries

\* The last remaining token of a list, or null.
LastOf(entries) ==
  IF entries = {} THEN {None} ELSE {e.token : e \in entries}

\* The legacy field of one user who has the token there; the updateMany visits
\* the users one after the other.
Mirror(j, u) ==
  /\ job[j].op \in {"upsert", "removeValue"}
  /\ job[j].step = "mirror"
  /\ u \in job[j].left
  /\ job' = [job EXCEPT ![j].left = @ \ {u}]
  /\ IF pushToken[u] = job[j].token
       THEN \E t \in LastOf(pushTokens[u]) :
              pushToken' = [pushToken EXCEPT ![u] = t]
       ELSE UNCHANGED pushToken
  /\ UNCHANGED <<pushTokens, isDeleted, wanted, bounds>>

RemoveValueDone(j) ==
  /\ job[j].op = "removeValue"
  /\ job[j].step = "mirror"
  /\ job[j].left = {}
  /\ job' = [job EXCEPT ![j] = Idle]
  /\ UNCHANGED <<pushTokens, pushToken, isDeleted, wanted, bounds>>

------------------------------------------------------------------------------
(* Registering a token *)

\* Mutant: there is no index.
AlwaysAdmits(u, t) == TRUE

\* The unique index on pushTokens.token: no two users.  Within one document it
\* does not count.
IndexAdmits(u, t) == \A v \in User \ {u} : t \notin Tokens(v)

\* Mutant: the entries of the device stay.
KeptDevice(u, t, d) == {e \in pushTokens[u] : e.token # t}

\* What remains of a list without a token and a device.
Kept(u, t, d) ==
  {e \in pushTokens[u] : e.token # t /\ (d # None => e.device # d)}

\* The tokens the user has on a device.
OfDevice(u, d) ==
  {e.token : e \in {f \in pushTokens[u] : f.device = d /\ d # None}}

Assign(j) ==
  /\ job[j].op = "upsert"
  /\ job[j].step = "mirror"
  /\ job[j].left = {}
  /\ LET u == job[j].user
         t == job[j].token
         d == job[j].device IN
     IF IndexAdmits(u, t)
     THEN /\ pushTokens' = [pushTokens EXCEPT ![u] =
               Kept(u, t, d) \cup {[token |-> t, device |-> d]}]
          /\ pushToken' = [pushToken EXCEPT ![u] = t]
          /\ wanted' = (wanted \ OfDevice(u, d)) \cup {t}
     ELSE UNCHANGED <<pushTokens, pushToken, wanted>>
  /\ job' = [job EXCEPT ![j] = Idle]
  /\ UNCHANGED <<isDeleted, bounds>>

\* removeToken: the token, the device, or both were given; one update of one
\* document.  The request is a logout.
Logout(u, t, d) ==
  /\ t # None \/ d # None
  /\ logouts < MaxLogouts
  /\ logouts' = logouts + 1
  /\ pushTokens' = [pushTokens EXCEPT ![u] = Kept(u, t, d)]
  /\ \E last \in LastOf(Kept(u, t, d)) :
       pushToken' = [pushToken EXCEPT ![u] = last]
  /\ wanted' = wanted \ (OfDevice(u, d) \cup ({t} \cap Tokens(u)))
  /\ UNCHANGED <<isDeleted, job, started>>

------------------------------------------------------------------------------
(* Migration at start-up *)

\* The users whose legacy token is not in their list.
BeginMigrate(j) ==
  /\ LET candidates == {u \in User : pushToken[u] \notin Tokens(u) \cup {None}}
     IN Start(j, [op |-> "migrate",
                  left |-> {<<u, pushToken[u]>> : u \in candidates}])
  /\ UNCHANGED <<pushTokens, pushToken, isDeleted, wanted, logouts>>

\* One updateOne: nothing if the list has the token by now, and a token that
\* belongs to another user is left with them.
MigrateOne(j, u, t) ==
  /\ job[j].op = "migrate"
  /\ <<u, t>> \in job[j].left
  /\ job' = [job EXCEPT ![j].left = @ \ {<<u, t>>}]
  /\ IF t \notin Tokens(u) /\ IndexAdmits(u, t)
       THEN pushTokens' = [pushTokens EXCEPT ![u] =
              @ \cup {[token |-> t, device |-> None]}]
       ELSE UNCHANGED pushTokens
  /\ UNCHANGED <<pushToken, isDeleted, wanted, bounds>>

MigrateDone(j) ==
  /\ job[j].op = "migrate"
  /\ job[j].left = {}
  /\ job' = [job EXCEPT ![j] = Idle]
  /\ UNCHANGED <<pushTokens, pushToken, isDeleted, wanted, bounds>>

------------------------------------------------------------------------------
(* Looking up the devices of a push *)

BeginPush(j, audience) ==
  /\ Start(j, [op |-> "push", left |-> audience, targets |-> {}])
  /\ UNCHANGED <<pushTokens, pushToken, isDeleted, wanted, logouts>>

\* What a push has not met on an earlier user.
Unseen(j, tokens) == tokens \ {p[2] : p \in job[j].targets}

\* The cursor over the users: each is read at a time of its own.
ReadUser(j, u) ==
  /\ job[j].op = "push"
  /\ u \in job[j].left
  /\ LET tokens == IF u \in isDeleted THEN {} ELSE Unseen(j, Tokens(u)) IN
     job' = [job EXCEPT ![j].left = @ \ {u},
                        ![j].targets = @ \cup ({u} \X tokens)]
  /\ UNCHANGED <<pushTokens, pushToken, isDeleted, wanted, bounds>>

\* The push is sent to its targets.
PushDone(j) ==
  /\ job[j].op = "push"
  /\ job[j].left = {}
  /\ job' = [job EXCEPT ![j] = Idle]
  /\ UNCHANGED <<pushTokens, pushToken, isDeleted, wanted, bounds>>

------------------------------------------------------------------------------

\* UsersService.remove keeps the tokens; create revives the user with them.
RemoveUser(u) ==
  /\ isDeleted' = isDeleted \cup {u}
  /\ u \notin isDeleted
  /\ UNCHANGED <<pushTokens, pushToken, job, wanted, bounds>>

ReviveUser(u) ==
  /\ u \in isDeleted
  /\ isDeleted' = isDeleted \ {u}
  /\ UNCHANGED <<pushTokens, pushToken, job, wanted, bounds>>

\* The process dies, or a database call throws, and the job goes no further.
Die(j) ==
  /\ job[j] # Idle
  /\ wanted' = IF job[j].op = "upsert" THEN wanted \ {job[j].token} ELSE wanted
  /\ job' = [job EXCEPT ![j] = Idle]
  /\ UNCHANGED <<pushTokens, pushToken, isDeleted, bounds>>

Call(j) ==
  \/ Pull(j)
  \/ RemoveValueDone(j)
  \/ Assign(j)
  \/ MigrateDone(j)
  \/ PushDone(j)
  \/ Die(j)
  \/ \E u \in User : Mirror(j, u) \/ ReadUser(j, u)
  \/ \E u \in User, t \in Token : MigrateOne(j, u, t)

Begin(j) ==
  \/ \E u \in User, t \in Token, d \in Device \cup {None} :
       BeginUpsert(j, u, t, d)
  \/ \E t \in Token : BeginRemoveValue(j, t)
  \/ BeginMigrate(j)
  \/ \E audience \in SUBSET User : BeginPush(j, audience)

Next ==
  \/ \E j \in Job : Begin(j) \/ Call(j)
  \/ \E u \in User, t \in Token \cup {None}, d \in Device \cup {None} :
       Logout(u, t, d)
  \/ \E u \in User : RemoveUser(u) \/ ReviveUser(u)

Spec == Init /\ [][Next]_vars

------------------------------------------------------------------------------
(* Properties *)

\* A device belongs to one user: however upserts, logouts, dead-token removals
\* and migrations interleave, no token is in the lists of two users.
OneOwner ==
  \A u, v \in User : Tokens(u) \cap Tokens(v) # {} => u = v

\* A user's list names neither a token nor a device twice, so that no device
\* is pushed to twice and a re-installed app leaves no old token behind.
ListedOnce ==
  \A u \in User : \A e, f \in pushTokens[u] :
    e.token = f.token \/ (e.device = f.device /\ e.device # None) => e = f

\* Upserts of one token do not undo one another: if a registration succeeded and
\* nobody logged out, reported the device gone or died since, then the token is
\* somebody's, or is being handed over.
NotLost ==
  \A t \in wanted :
    \/ Owned(t)
    \/ \E j \in Job : job[j].op = "upsert" /\ job[j].token = t

\* One push reaches a device once, even when its token moves to another user of
\* the audience between the reads of the two users.
PushedOnce ==
  \A j \in Job : job[j].op = "push" =>
    \A p, q \in job[j].targets : p[2] = q[2] => p = q

\* A push reaches every device that is registered, and each once: a user's list
\* names neither a token nor a device twice, upserts of one token do not undo
\* one another, and a token that moves to another user of the audience while a
\* push reads them is not met twice.
DevicesReached == ListedOnce /\ NotLost /\ PushedOnce
==============================================================================
