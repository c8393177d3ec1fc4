-------------------------------- MODULE Rtcp --------------------------------
(***************************************************************************)
(* The RTCP parser of rtcp/packet.rs and rtcp/header.rs, on datagrams that *)
(* are sequences of bytes.  A parser starts at a position and returns      *)
(* where it stopped; the packet it found is the bytes between.  `panic' is *)
(* a todo!() or a read of the bytes crate past the end.                    *)
(***************************************************************************)
EXTENDS Naturals, Sequences

SR == 200
RR == 201
SDES == 202
BYE == 203
APP == 204
End == 0        \* SDES_ITEM_TYPE_END
Priv == 8       \* SDES_ITEM_TYPE_PRIV, the last item type
ReceptionReportLength == 24

Has(d, at, n) == at + n <= Len(d) + 1

Found(at) == [out |-> "ok", at |-> at]
Failed(why, at) == [out |-> why, at |-> at]

Count(d, at) == d[at] % 32
Kind(d, at) == d[at + 1]

\* The words the length field announces: read, and used by no parser.
LengthField(d, at) == 256 * d[at + 2] + d[at + 3]

\* n reception reports.
Reports(d, at, n) ==
    IF Has(d, at, n * ReceptionReportLength)
    THEN Found(at + n * ReceptionReportLength)
    ELSE Failed("panic", at)

\* The reports, and whatever is left of the datagram as extensions.
ReportsAndRest(d, at, n) ==
    LET r == Reports(d, at, n) IN IF r.out = "ok" THEN Found(Len(d) + 1) ELSE r

SenderReport(d, at, n) ==
    IF Has(d, at, 24) THEN ReportsAndRest(d, at + 24, n) ELSE Failed("error", at)

ReceiverReport(d, at, n) ==
    IF Has(d, at, 4) THEN ReportsAndRest(d, at + 4, n) ELSE Failed("error", at)

\* One encoded character, as String::from_utf8 accepts it: neither too long a
\* form, nor a surrogate, nor more than U+10FFFF.
Character(c) ==
    /\ \A k \in 2..Len(c) : c[k] \in 128..191
    /\ \/ Len(c) = 1 /\ c[1] \in 0..127
       \/ Len(c) = 2 /\ c[1] \in 194..223
       \/ Len(c) = 3 /\ c[1] \in 224..239 /\ (c[1] = 224 => c[2] >= 160)
                                         /\ (c[1] = 237 => c[2] < 160)
       \/ Len(c) = 4 /\ c[1] \in 240..244 /\ (c[1] = 240 => c[2] >= 144)
                                         /\ (c[1] = 244 => c[2] < 144)

\* read_string: n bytes are a text if they divide into characters.
Utf8(d, at, n) ==
    LET text[k \in at..(at + n)] ==
            \/ k = at + n
            \/ \E w \in 1..4 : /\ k + w <= at + n
                              /\ Character(SubSeq(d, k, k + w - 1))
                              /\ text[k + w]
    IN text[at]

\* The items of a chunk up to END; the text is read before its type is known.
\* The padding after END is not skipped.
Items(d, from) ==
    LET item[at \in Nat \ {0}] ==
            IF ~Has(d, at, 1) THEN Failed("error", at)
            ELSE IF d[at] = End THEN Found(at + 1)
            ELSE IF /\ Has(d, at, 2) /\ Has(d, at, 2 + d[at + 1])
                    /\ Utf8(d, at + 2, d[at + 1]) /\ d[at] <= Priv
                 THEN item[at + 2 + d[at + 1]]
                 ELSE Failed("error", at)
    IN item[from]

Chunk(d, at) == IF Has(d, at, 4) THEN Items(d, at + 4) ELSE Failed("error", at)

SourceDescription(d, from, n) ==
    LET chunks[k \in 0..n] ==
            IF k = 0 THEN Found(from)
            ELSE LET r == chunks[k - 1]
                 IN IF r.out = "ok" THEN Chunk(d, r.at) ELSE r
    IN chunks[n]

\* Fault: the byte of the length is not counted.
GoodByeShort(d, at, n) ==
    LET reason == at + 4 * n
    IN IF ~Has(d, at, 4 * n) THEN Failed("panic", at)
       ELSE IF ~Has(d, reason, 1) THEN Found(reason)
       ELSE IF Has(d, reason, d[reason]) /\ Utf8(d, reason + 1, d[reason] - 1)
            THEN Found(reason + d[reason]) ELSE Failed("error", at)

\* A byte after the sources, whatever it is, is the length of a reason, which
\* must be a text.
GoodBye(d, at, n) ==
    LET reason == at + 4 * n
    IN IF ~Has(d, at, 4 * n) THEN Failed("panic", at)
       ELSE IF ~Has(d, reason, 1) THEN Found(reason)
       ELSE IF Has(d, reason, 1 + d[reason]) /\ Utf8(d, reason + 1, d[reason])
            THEN Found(reason + 1 + d[reason]) ELSE Failed("error", at)

ApplicationDefined(d, at) ==
    IF Has(d, at, 8) THEN Found(Len(d) + 1) ELSE Failed("error", at)

RtcpPacket(d, at) ==
    IF ~Has(d, at, 4) THEN Failed("error", at)
    ELSE LET n == Count(d, at) IN
         CASE Kind(d, at) = SR -> SenderReport(d, at + 4, n)
           [] Kind(d, at) = RR -> ReceiverReport(d, at + 4, n)
           [] Kind(d, at) = SDES -> SourceDescription(d, at + 4, n)
           [] Kind(d, at) = BYE -> GoodBye(d, at + 4, n)
           [] Kind(d, at) = APP -> ApplicationDefined(d, at + 4)
           [] OTHER -> Failed("error", at)

\* RtcpCompoundPacket: the positions at which packets are found.
RtcpCompoundPacket(d) ==
    LET packets[at \in Nat \ {0}] ==
            IF ~Has(d, at, 1) THEN <<at>>
            ELSE LET r == RtcpPacket(d, at)
                 IN IF r.out = "ok" THEN <<at>> \o packets[r.at] ELSE <<at>>
    IN packets[1]

-----------------------------------------------------------------------------
(* What the length fields say, against which the parsers are checked.      *)

\* The positions of the packets, and the end.
Boundaries(d) ==
    LET next[at \in Nat \ {0}] ==
            IF Has(d, at, 4) THEN <<at>> \o next[at + 4 + 4 * LengthField(d, at)]
            ELSE <<at>>
    IN next[1]

\* The length fields divide the datagram.
WellFormed(d) ==
    /\ d # <<>>
    /\ Boundaries(d)[Len(Boundaries(d))] = Len(d) + 1

\* A packet that another may follow: one without extensions by its kind, an
\* SDES packet of texts that needs no padding, a BYE with a text for a reason
\* and no padding.
Delimits(d, at) ==
    LET end == at + 4 + 4 * LengthField(d, at)
    IN CASE Kind(d, at) \in {SR, RR, APP} -> FALSE
         [] Kind(d, at) = SDES -> SourceDescription(d, at + 4, Count(d, at)) = Found(end)
         [] Kind(d, at) = BYE ->
                LET reason == at + 4 + 4 * Count(d, at)
                IN /\ reason < end /\ reason + 1 + d[reason] = end
                   /\ Utf8(d, reason + 1, d[reason])
         [] OTHER -> FALSE
=============================================================================
