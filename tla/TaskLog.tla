------------------------------- MODULE TaskLog -------------------------------
(***************************************************************************)
(* What the event log of one task promises its callers, without saying how *)
(* it is stored: the log grows by one entry at a time, the entries are     *)
(* numbered 1, 2, 3, ... without a gap, an entry once in the log is never  *)
(* changed or dropped, and every entry belongs to the request that         *)
(* appended it.  The task may be removed, and then the log stands still.   *)
(* TaskEvents shows that the two separate writes of                        *)
(* TaskEventService.appendEvent implement this.                            *)
(***************************************************************************)
EXTENDS Naturals

CONSTANT Requests      \* the callers of appendEvent

VARIABLES head,        \* number of the newest entry, 0 for an empty log
          log,         \* the entries, a set of [version, by] records
          present      \* FALSE once the task document has been removed

logVars == <<head, log, present>>

Entry == [version : Nat, by : Requests]

LogInit ==
  /\ head = 0
  /\ log = {}
  /\ present = TRUE

\* One append: the next number, the caller's entry, nothing else moves.
Commit(r) ==
  /\ present
  /\ head' = head + 1
  /\ log' = log \cup {[version |-> head + 1, by |-> r]}
  /\ UNCHANGED present

\* The task document disappears (the rollback of a failed creation).
Discard ==
  /\ present
  /\ present' = FALSE
  /\ UNCHANGED <<head, log>>

LogNext == Discard \/ \E r \in Requests : Commit(r)

LogSpec == LogInit /\ [][LogNext]_logVars
==============================================================================
