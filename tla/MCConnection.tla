---------------------------- MODULE MCConnection ----------------------------
(* Connection with two application threads, interchangeable, of which the    *)
(* one that finds the table full (two pending, one of them the Ping) is      *)
(* refused.  One reply at a time is under way: a reply that the server has   *)
(* not sent yet and one that is queued behind another look the same to the   *)
(* receiver.                                                                 *)
EXTENDS Connection, TLC

AppSymmetry == Permutations(App)
=============================================================================
