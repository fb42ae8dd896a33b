------------------------- MODULE MCDelayedAdmission -------------------------
(***************************************************************************)
(* Two transactions, two deadlines, four values alive.                     *)
(***************************************************************************)
EXTENDS DelayedAdmission, TLC

CONSTANTS admitted, other, initial, replacement

Symmetric == Permutations({initial, replacement})
=============================================================================
