--------------------------- MODULE MCNegotiation ---------------------------
(***************************************************************************)
(* Negotiation for TLC: up to two streams on either side, audio or video,  *)
(* every direction, one or two formats in either order, a dynamic format,  *)
(* and a stream whose port is 0.                                           *)
(***************************************************************************)
EXTENDS Negotiation

Stream(kind, open, formats) == [kind |-> kind, open |-> open, formats |-> formats]

With(stream, direction) ==
    [kind |-> stream.kind, open |-> stream.open, direction |-> direction,
     formats |-> stream.formats]

UpTo2(S) == {<<>>} \cup {<<a>> : a \in S} \cup {<<a, b>> : a \in S, b \in S}

MCParams ==
    [streams : UpTo2({Stream("audio", TRUE, <<0, 8>>),
                      Stream("audio", FALSE, <<8>>),
                      Stream("video", TRUE, <<96>>)}),
     direction : Direction]

MCRemote ==
    UpTo2({With(Stream("audio", TRUE, <<8, 0>>), d) : d \in Direction}
          \cup {With(Stream("audio", TRUE, <<8>>), "sendonly"),
                With(Stream("audio", FALSE, <<8>>), "none"),
                With(Stream("video", TRUE, <<96>>), "recvonly")})
=============================================================================
