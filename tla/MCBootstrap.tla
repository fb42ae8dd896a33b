---------------------------- MODULE MCBootstrap ----------------------------
(***************************************************************************)
(* Bootstrap in the small world, alone with the operator.                  *)
(***************************************************************************)
EXTENDS MCWorld, ComponentBootstrap
=============================================================================
