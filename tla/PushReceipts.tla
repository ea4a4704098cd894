---------------------------- MODULE PushReceipts ----------------------------
(***************************************************************************)
(* NotificationsService: a push goes out in one send per badge value, Expo *)
(* answers each message with a ticket, and a cron asks for the receipts of *)
(* the tickets a quarter of an hour later.  A device token that Expo       *)
(* reports as unregistered is removed from the users.                      *)
(*                                                                         *)
(* Expo and the devices are the environment: a device may drop out and     *)
(* come back at any time, a send or a request may fail.  Two instances of  *)
(* the program may run the cron at the same time.                          *)
(***************************************************************************)
EXTENDS Naturals, Sequences, FiniteSets

CONSTANTS
  Token,     \* what users have registered
  Junk,      \* the tokens that are not Expo push tokens
  Owner,     \* token -> the user who has registered it
  Ticket,    \* ids Expo gives to accepted messages
  Cron,      \* instances running processReceipts
  BatchLimit, \* RECEIPT_BATCH_LIMIT
  NoToken    \* "no record"

Badges == {0, 1}       \* bound: badge values of a push
NoBadge == 2           \* a push without a badge: a badge source has failed

VARIABLES
  registered, \* the tokens in the pushTokens of their owners
  gone,       \* the tokens whose device Expo does not know (any more)
  push,       \* the push being sent: groups to go, what was sent, the result
  expo,       \* ticket -> what Expo will say: its token and the outcome
  record,     \* ticket -> the token its pushreceipts document names
  stored,     \* tickets whose document is in the collection
  ripe,       \* tickets older than RECEIPT_MIN_AGE_MS
  cron,       \* instance -> batch read, its answers, and the checked tickets
  everGone,   \* history: tokens that Expo has not known at some time
  removed,    \* history: tokens a removal has taken from the users
  settled     \* history: tickets handled, or expired

docs == <<record, stored>>
hist == <<everGone, removed, settled>>
rvars == <<registered, gone, push, expo, docs, ripe, cron, everGone,
           removed, settled>>

\* What Expo says of a ticket: nothing yet, that the device is unregistered, or
\* anything else, which is at most logged.
Outcome == {"unused", "waiting", "dead", "other"}

IdlePush == [groups |-> {}, targets |-> {}, handed |-> {}, submitted |-> TRUE]
IdleCron == [batch |-> {}, answers |-> {}, checked |-> {}, asked |-> FALSE]

Init ==
  /\ registered = Token
  /\ gone = {}
  /\ push = IdlePush
  /\ expo = [k \in Ticket |-> [token |-> NoToken, outcome |-> "unused"]]
  /\ record = [k \in Ticket |-> NoToken]
  /\ stored = {}
  /\ ripe = {}
  /\ cron = [c \in Cron |-> IdleCron]
  /\ everGone = {}
  /\ removed = {}
  /\ settled = {}

TypeOK ==
  /\ registered \subseteq Token
  /\ gone \subseteq everGone /\ everGone \subseteq Token
  /\ push.groups \subseteq SUBSET Token
  /\ push.targets \subseteq Token /\ push.handed \subseteq push.targets
  /\ push.submitted \in BOOLEAN
  /\ expo \in [Ticket -> [token : Token \cup {NoToken}, outcome : Outcome]]
  /\ record \in [Ticket -> (Token \ Junk) \cup {NoToken}]
  /\ stored \subseteq Ticket /\ ripe \subseteq Ticket
  /\ cron \in [Cron -> [batch : SUBSET Ticket, answers : SUBSET Ticket,
                        checked : SUBSET Ticket, asked : BOOLEAN]]
  /\ removed \subseteq Token
  /\ settled \subseteq Ticket

------------------------------------------------------------------------------
(* The devices and Expo *)

\* The app is deleted from a device (bound: once).
Uninstall(t) ==
  /\ t \notin everGone
  /\ gone' = gone \cup {t}
  /\ everGone' = everGone \cup {t}
  /\ UNCHANGED <<registered, push, expo, docs, ripe, cron, removed, settled>>

\* It is installed again and registers the same token.
Reinstall(t) ==
  /\ t \in gone
  /\ gone' = gone \ {t}
  /\ registered' = registered \cup {t}
  /\ UNCHANGED <<push, expo, docs, ripe, cron, hist>>

\* Expo has tried to deliver the message of a ticket.
Delivered(k) ==
  /\ expo[k].outcome = "waiting"
  /\ \E o \in IF expo[k].token \in gone THEN {"dead"} ELSE {"other"} :
       expo' = [expo EXCEPT ![k].outcome = o]
  /\ UNCHANGED <<registered, gone, push, docs, ripe, cron, hist>>

------------------------------------------------------------------------------
(* sendPushToUsers and sendPush *)

\* The badge of each user, the sum of all sources, or none when one fails.
BadgeOf(sources, ok, u) == IF ok THEN sources[u] ELSE NoBadge

\* One group of tokens per distinct badge value.
GroupsByBadge(badge) ==
  {{t \in registered : badge[Owner[t]] = b} :
     b \in {badge[Owner[t]] : t \in registered}}

BeginPush ==
  /\ push = IdlePush
  /\ \E k \in Ticket : expo[k].outcome = "unused"
  /\ registered # {}
  /\ \E sources \in [{Owner[t] : t \in Token} -> Badges], ok \in BOOLEAN :
       push' = [IdlePush EXCEPT
         !.targets = registered,
         !.groups = GroupsByBadge([u \in DOMAIN sources |->
                                     BadgeOf(sources, ok, u)])]
  /\ UNCHANGED <<registered, gone, expo, docs, ripe, cron, hist>>

\* What sendPushToUsers answers once a group has been sent.
AllSubmitted(ok) == push.submitted /\ ok

\* The result is returned.
EndPush ==
  /\ push.groups = {}
  /\ push # IdlePush
  /\ push' = IdlePush
  /\ UNCHANGED <<registered, gone, expo, docs, ripe, cron, hist>>

\* The order in which Expo is asked for the tokens of a group.
Orders(group) ==
  {s \in [1..Cardinality(group) -> group] : \A t \in group : \E i \in DOMAIN s :
     s[i] = t}

\* The tokens that are Expo's, in their order: a message each.
Messages(tokens) ==
  LET sent[n \in 0..Len(tokens)] ==
        IF n = 0 THEN <<>>
        ELSE IF tokens[n] \in Junk THEN sent[n - 1]
        ELSE Append(sent[n - 1], tokens[n])
  IN sent[Len(tokens)]

\* The token a ticket belongs to: the i-th message of the chunk.
TokenOfTicket(tokens, i) == Messages(tokens)[i]

\* Expo accepts a chunk: known devices get a ticket, for the others it answers
\* DeviceNotRegistered and their tokens are removed, a removal that may fail.
\* The new records are stored, which may fail, too, without being told.
SendGroup(group, tokens) ==
  LET chunk    == Messages(tokens)
      accepted == {i \in DOMAIN chunk : chunk[i] \notin gone}
      dead     == {TokenOfTicket(tokens, i) : i \in DOMAIN chunk \ accepted}
  IN
  /\ group \in push.groups
  /\ \E id \in [accepted -> {k \in Ticket : expo[k].outcome = "unused"}],
        removals \in SUBSET dead, saved \in SUBSET Ticket :
       /\ \A i, j \in accepted : i # j => id[i] # id[j]
       /\ expo' = [k \in Ticket |->
            IF \E i \in accepted : id[i] = k
            THEN [token |-> chunk[CHOOSE i \in accepted : id[i] = k],
                  outcome |-> "waiting"]
            ELSE expo[k]]
       /\ saved \in {{}, {id[i] : i \in accepted}}
       /\ stored' = stored \cup saved
       /\ record' = [k \in Ticket |->
            IF \E i \in accepted : id[i] = k
            THEN TokenOfTicket(tokens, CHOOSE i \in accepted : id[i] = k)
            ELSE record[k]]
       /\ registered' = registered \ removals
       /\ removed' = removed \cup removals
  /\ push' = [push EXCEPT !.groups = @ \ {group},
                          !.handed = @ \cup group,
                          !.submitted = AllSubmitted(TRUE)]
  /\ UNCHANGED <<gone, ripe, cron, everGone, settled>>

\* A chunk could not be submitted.
SendFails(group) ==
  /\ group \in push.groups
  /\ group \ Junk # {}
  /\ push' = [push EXCEPT !.groups = @ \ {group},
                          !.submitted = AllSubmitted(FALSE)]
  /\ UNCHANGED <<registered, gone, expo, docs, ripe, cron, hist>>

------------------------------------------------------------------------------
(* The cron *)

\* A quarter of an hour has passed.
Ripen(k) ==
  /\ k \in stored \ ripe
  /\ ripe' = ripe \cup {k}
  /\ UNCHANGED <<registered, gone, push, expo, docs, cron, hist>>

\* The TTL index deletes a record after 24 hours.
Expire(k) ==
  /\ k \in ripe \cap stored
  /\ stored' = stored \ {k}
  /\ settled' = settled \cup {k}
  /\ UNCHANGED <<registered, gone, push, expo, record, ripe, cron, everGone,
                 removed>>

\* processReceipts reads up to BatchLimit old records, in no order.
ReadBatch(c) ==
  LET old == ripe \cap stored IN
  /\ cron[c] = IdleCron
  /\ old # {}
  /\ \E batch \in SUBSET old :
       /\ \/ batch = old /\ Cardinality(old) <= BatchLimit
          \/ Cardinality(batch) = BatchLimit
       /\ cron' = [cron EXCEPT ![c].batch = batch]
  /\ UNCHANGED <<registered, gone, push, expo, docs, ripe, hist>>

\* Expo answers with the receipts it has; without an answer the run has nothing.
Ask(c) ==
  /\ cron[c].batch # {}
  /\ ~cron[c].asked
  /\ \E got \in {{}, {k \in cron[c].batch : expo[k].outcome # "waiting"}} :
       cron' = [cron EXCEPT ![c].answers = got, ![c].asked = TRUE]
  /\ UNCHANGED <<registered, gone, push, expo, docs, ripe, hist>>

\* Mutant: a receipt counts as checked whether or not it could be handled.
CheckedAnyway(c, k, ok) == cron[c].checked \cup {k}

\* The tickets whose record may go.
Checked(c, k, ok) == IF ok THEN cron[c].checked \cup {k} ELSE cron[c].checked

\* One receipt: the token of a dead device is removed, which may fail.  The
\* token may have been registered again since.
Handle(c, k, ok) ==
  LET dead == expo[k].outcome = "dead" IN
  /\ k \in cron[c].answers
  /\ ~dead => ok
  /\ registered' = IF dead /\ ok THEN registered \ {record[k]} ELSE registered
  /\ removed' = IF dead /\ ok THEN removed \cup {record[k]} ELSE removed
  /\ settled' = IF ok THEN settled \cup {k} ELSE settled
  /\ cron' = [cron EXCEPT ![c].answers = @ \ {k},
                          ![c].checked = Checked(c, k, ok)]
  /\ UNCHANGED <<gone, push, expo, docs, ripe, everGone>>

\* The records of the checked tickets are deleted.
Delete(c) ==
  /\ cron[c].asked
  /\ cron[c].answers = {}
  /\ stored' = stored \ cron[c].checked
  /\ cron' = [cron EXCEPT ![c] = IdleCron]
  /\ UNCHANGED <<registered, gone, push, expo, record, ripe, hist>>

\* The process dies, or the delete fails.
CronDies(c) ==
  /\ cron[c] # IdleCron
  /\ cron' = [cron EXCEPT ![c] = IdleCron]
  /\ UNCHANGED <<registered, gone, push, expo, docs, ripe, hist>>

Next ==
  \/ \E t \in Token \ Junk : Uninstall(t) \/ Reinstall(t)
  \/ \E k \in Ticket : Delivered(k) \/ Ripen(k) \/ Expire(k)
  \/ BeginPush \/ EndPush
  \/ \E group \in push.groups :
       \/ \E tokens \in Orders(group) : SendGroup(group, tokens)
       \/ SendFails(group)
  \/ \E c \in Cron :
       \/ ReadBatch(c) \/ Ask(c) \/ Delete(c) \/ CronDies(c)
       \/ \E k \in Ticket, ok \in BOOLEAN : Handle(c, k, ok)

Spec == Init /\ [][Next]_rvars

------------------------------------------------------------------------------
(* Properties *)

\* A stored ticket is not lost: whatever two overlapping runs of the cron do,
\* and wherever they fail, the record of a message to a dead device stays until
\* its token has been removed, or a day has passed.
DeadNotForgotten ==
  \A k \in ripe : k \in stored \/ k \in settled

\* Only a token that Expo has reported is ever taken from its user: tickets are
\* matched with the messages sent, not with the tokens asked for.
OnlyDeadRemoved == removed \subseteq everGone

\* A push that sendPushToUsers reports as submitted has been handed to Expo for
\* every token, over all the groups by badge.
SubmittedToAll ==
  push.groups = {} /\ push.submitted => push.handed = push.targets
==============================================================================
