---------------------------- MODULE MCTaskEvents ----------------------------
(* Small instances of TaskEvents for TLC. *)
EXTENDS TaskEvents, TLC

\* Requests other than the creating one are interchangeable.
Symmetry == Permutations(Requests \ {Creator})
==============================================================================
