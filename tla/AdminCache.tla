----------------------------- MODULE AdminCache -----------------------------
(***************************************************************************)
(* UsersService.getAdminIds: the ids of the admins, cached for a minute.   *)
(* Every task event, activity push and reminder asks for them, and several *)
(* calls may find the cache expired and query at the same time.            *)
(***************************************************************************)
EXTENDS Integers, Sequences

CONSTANTS
  Person,     \* users who may be admins
  Caller,     \* calls of getAdminIds in progress
  CacheTicks, \* ADMIN_IDS_CACHE_MS
  SlowTicks   \* bound: how long a query may take

VARIABLES
  admins,  \* the users stored as admins
  cache,   \* adminIdsCache: the ids, and the ticks until they expire
  query,   \* caller -> ticks since it read the clock, or -1
  recent,  \* history: the sets of admins of this and of the earlier ticks
  answer   \* history: the last answer

cvars == <<admins, cache, query, recent, answer>>

NotAsking == -1

Init ==
  /\ admins = Person
  /\ cache = [ids |-> {}, left |-> 0]
  /\ query = [c \in Caller |-> NotAsking]
  /\ recent = [i \in 0..CacheTicks |-> {Person}]
  /\ answer = Person

TypeOK ==
  /\ admins \subseteq Person
  /\ cache \in [ids : SUBSET Person, left : 0..CacheTicks]
  /\ query \in [Caller -> NotAsking..SlowTicks]
  /\ recent \in [0..CacheTicks -> SUBSET SUBSET Person]
  /\ answer \subseteq Person

\* A user is created as an admin, removed, revived, or changes the role.
SetAdmins(new) ==
  /\ admins' = new
  /\ recent' = [recent EXCEPT ![0] = @ \cup {new}]
  /\ UNCHANGED <<cache, query, answer>>

\* Mutant: a hit keeps the entry for another minute.
Renewed == [cache EXCEPT !.left = CacheTicks]

\* A hit leaves the entry as it is.
AfterHit == cache

\* A call finds the cache valid.
Hit(c) ==
  /\ query[c] = NotAsking
  /\ cache.left > 0
  /\ answer' = cache.ids
  /\ cache' = AfterHit
  /\ UNCHANGED <<admins, query, recent>>

\* A call finds no valid entry and starts a query.
Miss(c) ==
  /\ query[c] = NotAsking
  /\ cache.left = 0
  /\ query' = [query EXCEPT ![c] = 0]
  /\ UNCHANGED <<admins, cache, recent, answer>>

\* The query answers; the entry counts from the clock read before it.
Answered(c) ==
  /\ query[c] # NotAsking
  /\ answer' = admins
  /\ cache' = [ids |-> admins,
               left |-> IF query[c] < CacheTicks THEN CacheTicks - query[c] ELSE 0]
  /\ query' = [query EXCEPT ![c] = NotAsking]
  /\ UNCHANGED <<admins, recent>>

\* The query fails, and with it the call.
QueryFails(c) ==
  /\ query[c] # NotAsking
  /\ query' = [query EXCEPT ![c] = NotAsking]
  /\ UNCHANGED <<admins, cache, recent, answer>>

\* Time passes; an answer of an earlier tick is forgotten.
Tick ==
  /\ \A c \in Caller : query[c] < SlowTicks
  /\ cache' = [cache EXCEPT !.left = IF @ = 0 THEN 0 ELSE @ - 1]
  /\ query' = [c \in Caller |-> IF query[c] = NotAsking THEN NotAsking
                                ELSE query[c] + 1]
  /\ recent' = [i \in 0..CacheTicks |-> IF i = 0 THEN {admins} ELSE recent[i - 1]]
  /\ answer' = admins
  /\ UNCHANGED admins

Next ==
  \/ \E new \in SUBSET Person : SetAdmins(new)
  \/ \E c \in Caller : Hit(c) \/ Miss(c) \/ Answered(c) \/ QueryFails(c)
  \/ Tick

Spec == Init /\ [][Next]_cvars

------------------------------------------------------------------------------
(* Properties *)

\* An answer, be it cached or not and however calls overlap, is the set of
\* admins at some instant of the last minute.
AdminsRecent ==
  answer \in UNION {recent[i] : i \in 0..CacheTicks}
==============================================================================
