--------------------------- MODULE MCActivityPush ---------------------------
(* Small instances of ActivityPush for TLC. *)
EXTENDS ActivityPush, TLC

\* Server instances are interchangeable.
Symmetry == Permutations(Instances)
==============================================================================
