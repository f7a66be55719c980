----------------------------- MODULE MCPinEditor -----------------------------
(* PinEditor for TLC: two places, so that dot, manager and pin can agree or *)
(* differ in every combination.                                             *)
EXTENDS PinEditor

CONSTANTS p, q, food
=============================================================================
