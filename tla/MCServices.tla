----------------------------- MODULE MCServices -----------------------------
(***************************************************************************)
(* A small instance of Services for TLC.                                   *)
(*                                                                         *)
(* p1 and p2, and q1 and q2, are values that a component treats alike; a   *)
(* component uses each pair for one set at most, so exchanging the two     *)
(* values of a pair is a symmetry of every component.                      *)
(***************************************************************************)
EXTENDS Services, TLC

CONSTANTS p1, p2, q1, q2

Symmetry == Permutations({p1, p2}) \cup Permutations({q1, q2})

\* One of the two built-in questions is also what an admin asks.
MCBuiltin == <<"overall", "staff">>
MCAsked == {<<>>, <<"staff", "x">>}

\* The owners of two devices and of a token that is none of Expo's.
MCOwner == [t \in Token |-> IF t = "b" THEN "w" ELSE "u"]
===============================================================================
