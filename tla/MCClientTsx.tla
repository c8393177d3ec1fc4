---------------------------- MODULE MCClientTsx ----------------------------
(***************************************************************************)
(* ClientTsx for TLC: all four kinds of transaction (INVITE or not, over a *)
(* reliable transport or not) in one state space, with T1 as the unit of   *)
(* time.                                                                   *)
(***************************************************************************)
EXTENDS ClientTsx

CONSTANT T2     \* timers.rs, which client.rs does not use

\* timers.rs:6 says of T2: "Maximum retransmission interval for non-INVITE
\* requests and INVITE responses."  The client doubles without this cap.
IntervalCapped == ~invite => interval <= T2
=============================================================================
