---------------------------- MODULE MCTaskThread ----------------------------
(* Small instances of TaskThread for TLC: a creator cr, a manager mg, and an *)
(* admin ad who is only told about tasks and handed them.                    *)
EXTENDS TaskThread, TLC

CONSTANTS cr, mg, ad, r1, r2

MCUsers == {cr, mg, ad}
MCAdmins == {ad}
MCAssigneeSets == {{}, {mg}}

\* Two requests of different users, or one at a time.
TwoRequests == {r1, r2}
TwoSenders == (r1 :> cr @@ r2 :> mg)
OneRequest == {r1}
OneSender == (r1 :> mg)
==============================================================================
