----------------------------- MODULE MCDialogs -----------------------------
(***************************************************************************)
(* Dialogs for TLC, with both orders of the plugins in one state space.    *)
(***************************************************************************)
EXTENDS Dialogs
=============================================================================
