--------------------------- MODULE MCTwoBootstraps ---------------------------
(***************************************************************************)
(* Two bootstraps in the small world.                                      *)
(***************************************************************************)
EXTENDS MCWorld, TwoBootstraps
=============================================================================
