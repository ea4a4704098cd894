-------------------------- MODULE MCPagesAndFigures --------------------------
(***************************************************************************)
(* A small instance of PagesAndFigures for TLC.                            *)
(*                                                                         *)
(* p1 and p2, and q1 and q2, are values that a component treats alike; a   *)
(* component uses each pair for one set at most, so exchanging the two     *)
(* values of a pair is a symmetry of every component.                      *)
(***************************************************************************)
EXTENDS PagesAndFigures, TLC

CONSTANTS p1, p2, q1, q2

Symmetry == Permutations({p1, p2}) \cup Permutations({q1, q2})

MCMonths == <<31, 28, 30>>

\* `monday` makes the same tasks as `monthEnd`.
MCPlan ==
  [monthEnd |-> [type |-> "monthly", days |-> {31}, key |-> "A",
                 assignees |-> {"s"}, creator |-> "ad"],
   twice    |-> [type |-> "monthly", days |-> {15, 30}, key |-> "B",
                 assignees |-> {"s", "ad"}, creator |-> "s"],
   monday   |-> [type |-> "weekly", days |-> {1}, key |-> "A",
                 assignees |-> {"s"}, creator |-> "ad"]]

\* A comment with a file, a reassignment, one that delegates, and a comment.
Comment == [type |-> "COMMENTED", by |-> "u", to |-> "", from |-> "",
            delegatedTo |-> "", delegatedBy |-> "", file |-> TRUE]
MCShape ==
  <<Comment,
    [type |-> "REASSIGNED", by |-> "u", to |-> "w", from |-> "v",
     delegatedTo |-> "", delegatedBy |-> "", file |-> FALSE],
    [type |-> "REASSIGNED", by |-> "v", to |-> "w", from |-> "v",
     delegatedTo |-> "w", delegatedBy |-> "u", file |-> FALSE],
    Comment>>
==============================================================================
