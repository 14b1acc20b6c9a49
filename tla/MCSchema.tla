------------------------------ MODULE MCSchema ------------------------------
(***************************************************************************)
(* Small instances of Schema for TLC.                                      *)
(***************************************************************************)
EXTENDS Schema, TLC

CONSTANTS b1, b2, p1, p2

=============================================================================
