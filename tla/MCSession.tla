------------------------------ MODULE MCSession ------------------------------
(* Session for TLC, with one account or two. No symmetry: the runs check    *)
(* temporal properties.                                                     *)
EXTENDS Session

CONSTANTS a, b
=============================================================================
