------------------------------ MODULE Streams ------------------------------
(***************************************************************************)
(* What an offer and an answer say of the streams: the rules by which      *)
(* create_offer and create_answer choose them (sdp/negotiator.rs).  A      *)
(* description is the sequence of its streams.  A stream has its kind      *)
(* (media type and protocol), whether its port is not 0, its direction     *)
(* attribute, "none" if there is no such attribute, and its formats in     *)
(* order of preference.                                                    *)
(***************************************************************************)
EXTENDS Selection, FiniteSets, SequencesExt

Direction == {"none", "sendrecv", "sendonly", "recvonly", "inactive"}

Description == Seq([kind : STRING, open : BOOLEAN, direction : Direction,
                    formats : Seq(Nat)])

\* Negotiator::create_offer: the direction becomes an attribute of the last
\* stream.
CreateOffer(params) ==
    [i \in DOMAIN params.streams |->
        [kind |-> params.streams[i].kind,
         open |-> params.streams[i].open,
         direction |-> IF i = Len(params.streams)
                       THEN params.direction ELSE "none",
         formats |-> params.streams[i].formats]]

\* Fault: the direction of the offer is repeated instead of mirrored.
AnswerDirectionRepeats(local, remote) ==
    IF remote.direction = "none" THEN local.direction ELSE remote.direction

AnswerDirection(local, remote) ==
    CASE remote.direction = "sendonly" ->
            IF local.direction \in {"sendrecv", "recvonly"}
            THEN "recvonly" ELSE "inactive"
      [] remote.direction = "recvonly" ->
            IF local.direction \in {"sendrecv", "sendonly"}
            THEN "sendonly" ELSE "inactive"
      [] remote.direction = "none" -> local.direction
      [] OTHER -> remote.direction

AnswerStream(local, remote) ==
    [local EXCEPT
        !.direction = AnswerDirection(local, remote),
        !.formats = Filter(@, ToSet(remote.formats))]

\* The streams are matched by their position.
Matched(local, remote) == DOMAIN local \cap DOMAIN remote

OpenAt(local, remote) ==
    {i \in Matched(local, remote) : local[i].open /\ remote[i].open}

\* todo!() for streams of different kinds.
Mismatch(local, remote) ==
    \E i \in Matched(local, remote) : local[i].kind # remote[i].kind

\* unimplemented!() for a format that is not statically assigned.
Dynamic(local, remote) ==
    \E i \in OpenAt(local, remote) :
        \E j \in DOMAIN local[i].formats : local[i].formats[j] >= 96

\* The places of the streams that are answered, in order.
Answered(local, remote) ==
    Filter([i \in 1 .. Len(local) |-> i], OpenAt(local, remote))

Answer(local, remote) ==
    LET at == Answered(local, remote)
    IN  [j \in 1 .. Len(at) |-> AnswerStream(local[at[j]], remote[at[j]])]
=============================================================================
