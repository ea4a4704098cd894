--------------------------- MODULE MCTaskReminder ---------------------------
(* Small instances of TaskReminder for TLC: a reminder two minutes before    *)
(* the deadline and one at the deadline.                                      *)
EXTENDS TaskReminder, TLC

CONSTANTS early, exact

MCWindows == {early, exact}
MCLead == (early :> 2 @@ exact :> 0)

\* Cron runs are interchangeable.
Symmetry == Permutations(Runs)
==============================================================================
