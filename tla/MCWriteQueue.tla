---------------------------- MODULE MCWriteQueue ----------------------------
(* WriteQueue for TLC: one account, and the times nobody is signed in.       *)
EXTENDS WriteQueue, TLC
=============================================================================
