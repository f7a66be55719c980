---------------------------- MODULE MCHomeSearch ----------------------------
(* HomeSearch for TLC: "cafe" finds two places, "bar" one, and "xyz" none.  *)
EXTENDS HomeSearch, TLC

MCTerms == {"cafe", "bar", "xyz"}
MCFound == [cafe |-> 2, bar |-> 1, xyz |-> 0]
=============================================================================
