----------------------------- MODULE MCPushTokens -----------------------------
(* A small instance of PushTokens for TLC. *)
EXTENDS PushTokens, TLC

\* Users, tokens and job slots are interchangeable.
Symmetry == Permutations(User) \cup Permutations(Token) \cup Permutations(Job)
==============================================================================
