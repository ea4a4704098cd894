-------------------------- MODULE MCTaskAttachments --------------------------
(* Small instances of TaskAttachments for TLC. *)
EXTENDS TaskAttachments, TLC

\* Files and requests are interchangeable.
Symmetry == Permutations(Attachments) \cup Permutations(Requests)
==============================================================================
