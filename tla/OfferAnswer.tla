----------------------------- MODULE OfferAnswer -----------------------------
(***************************************************************************)
(* What the two ends of an INVITE promise each other about their media:    *)
(* one of them offers, the other answers, nobody speaks twice, and a       *)
(* session is established only when both have spoken (RFC 3264, and the    *)
(* table at ua/session/mod.rs:19).                                         *)
(***************************************************************************)
EXTENDS Naturals, Sequences

VARIABLES
    spoken,         \* who sent a session description, in order
    phase           \* "open", "established" or "failed"

vars == <<spoken, phase>>

Dialogue == {<<>>, <<"us">>, <<"peer">>, <<"us", "peer">>, <<"peer", "us">>}

Init ==
    /\ spoken = <<>>
    /\ phase = "open"

\* Something is said, or nothing.
Speak == \E more \in Dialogue : spoken' = spoken \o more /\ spoken' \in Dialogue

\* Whatever happens, happens before the session is established or has failed.
Next ==
    /\ phase = "open"
    /\ Speak
    /\ phase' \in {"open", "established", "failed"}
    /\ phase' = "established" => Len(spoken') = 2

Spec == Init /\ [][Next]_vars
=============================================================================
