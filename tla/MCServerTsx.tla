---------------------------- MODULE MCServerTsx ----------------------------
(***************************************************************************)
(* ServerTsx for TLC: all four kinds of transaction (INVITE or not, over a *)
(* reliable transport or not) in one state space, with T1 as the unit of   *)
(* time.                                                                   *)
(***************************************************************************)
EXTENDS ServerTsx
=============================================================================
