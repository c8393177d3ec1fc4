------------------------------ MODULE Exchange ------------------------------
(***************************************************************************)
(* What a SIP transaction promises, whichever side it is on: it only moves *)
(* forward, it is concluded at most once, the conclusion is never revised, *)
(* and once it is over nothing happens to it any more.  ClientTsx and      *)
(* ServerTsx are each shown to implement this module.                      *)
(*                                                                         *)
(* The phases group the six states of transaction/fsm.rs:                  *)
(*   waiting      Calling or Trying                                        *)
(*   progressing  Proceeding                                               *)
(*   lingering    Completed or Confirmed: concluded, and kept to absorb    *)
(*                retransmissions of the other side                        *)
(*   over         Terminated, or the transaction value was dropped         *)
(***************************************************************************)
CONSTANTS
    Outcome,        \* the ways a transaction can be concluded
    NoOutcome       \* it is not concluded (yet)

VARIABLES
    phase,
    outcome

vars == <<phase, outcome>>

Open == {"waiting", "progressing"}

TypeOK ==
    /\ phase \in Open \cup {"lingering", "over"}
    /\ outcome \in Outcome \cup {NoOutcome}

Init ==
    /\ phase \in Open
    /\ outcome = NoOutcome

\* Something provisional happened.
Progress ==
    /\ phase = "waiting"
    /\ phase' = "progressing"
    /\ UNCHANGED outcome

\* The one moment at which the outcome is decided.
Conclude ==
    /\ phase \in Open
    /\ outcome = NoOutcome
    /\ outcome' \in Outcome
    /\ phase' \in {"lingering", "over"}

\* The end: the linger time is over, or the transaction was given up.
Finish ==
    /\ phase # "over"
    /\ phase' = "over"
    /\ UNCHANGED outcome

Next == Progress \/ Conclude \/ Finish

Spec == Init /\ [][Next]_vars
=============================================================================
