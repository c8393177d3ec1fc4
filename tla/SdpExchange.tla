---------------------------- MODULE SdpExchange ----------------------------
(***************************************************************************)
(* An offer and its answer with the texts between: one end creates or      *)
(* composes an offer and prints it, the other reads it, creates the answer *)
(* and prints that, and the first end reads it (sdp/negotiator.rs with     *)
(* sdp/mod.rs and sdp/parser.rs).  Either end, but not both, may be        *)
(* another implementation.  Streams has the same rules without the texts.  *)
(***************************************************************************)
EXTENDS SdpText, Streams

CONSTANTS
    OfferParams,    \* SdpOfferParams of the applications
    Foreign,        \* what another implementation may describe
    PayloadType     \* the numbers of the formats

\* The codecs whose rtpmap is written in full.
Named == {"PCMU", "PCMA", "GSM", "opus", "telephone-event"}

\* What an application may ask for.
CodecType ==
    [pt : Numbers \cap DOMAIN PayloadType, name : Free(Delimiters),
     rate : Fitting(32), channels : Fitting(16)]
StreamType == [type : Word, proto : Transports, port : Fitting(16), codecs : Seq(CodecType)]
ParamsType ==
    [streams : Seq(StreamType), direction : (Direction \ {"none"}) \cup {"Unspecified"},
     ip : Ip4 \cup Ip6]

\* The words of our descriptions.
OurWords ==
    Named \cup (Direction \ {"none"})
    \cup {"Unspecified", "-", "IN", "rtpmap", "fmtp", "ptime", "maxptime", "-16", "150", "20", "101", "96", "8", "3", "2"}

\* Nobody is said to describe what cannot be written down: a value ends
\* where its delimiter is.
ASSUME TalkAssumption ==
    /\ OurWords \subseteq Word
    /\ {"0", "7"} \subseteq Fitting(64) /\ {"8000", "48000"} \subseteq Fitting(32)
    /\ Numbers \cap Named = {}
    /\ \A pt1, pt2 \in DOMAIN PayloadType : PayloadType[pt1] = PayloadType[pt2] => pt1 = pt2
    /\ OfferParams \subseteq ParamsType /\ Foreign \subseteq SdpType

VARIABLES
    turn,          \* how far the exchange has come
    offer, local, answer,   \* described by the offerer, the answerer, either
    ours,           \* which of offer and answer this code printed
    remote, heard   \* the offer and the answer as they were read

talkVars == <<turn, offer, local, answer, ours, remote, heard>>

Nothing == [nothing |-> TRUE]

-----------------------------------------------------------------------------
(* The negotiator.                                                         *)

RtpMap(name) ==
    CASE name = "PCMU" -> <<"0", SP, "PCMU", "/", "8000">>
      [] name = "PCMA" -> <<"8", SP, "PCMA", "/", "8000">>
      [] name = "GSM" -> <<"3", SP, "GSM", "/", "8000">>
      [] name = "opus" -> <<"96", SP, "opus", "/", "48000", "/", "2">>
      [] OTHER -> <<"101", SP, "telephone-event", "/", "8000">>

Attribute(name, value) == [name |-> <<name>>, value |-> value]

CodecAttributes(codec) ==
    LET rtpmap == IF OneOf(codec.name, Named) THEN RtpMap(codec.name[1])
                  ELSE <<codec.pt, "/">> \o codec.name
                       \o <<"/", codec.rate, "/", codec.channels, "/">>
        fmtp == Attribute("fmtp", << <<"101", SP, "0", "-16">> >>)
    IN <<Attribute("rtpmap", <<rtpmap>>)>>
       \o (IF codec.name = <<"telephone-event">> THEN <<fmtp>> ELSE <<>>)

\* create_offer
SdpOffer(params) ==
    LET n == Len(params.streams)
        attributes(s) == Lines(s.codecs, CodecAttributes)
        more == <<Attribute("ptime", << <<"20">> >>), Attribute("maxptime", << <<"150">> >>),
                  Attribute(params.direction, <<>>)>>
        media(i) ==
            LET s == params.streams[i]
            IN [type |-> s.type, port |-> <<s.port>>, ports |-> <<>>, proto |-> s.proto,
                formats |-> [k \in DOMAIN s.codecs |-> <<s.codecs[k].pt>>],
                title |-> <<>>, conn |-> <<>>, bandwidth |-> <<>>,
                attributes |-> attributes(s) \o (IF i = n THEN more ELSE <<>>)]
        addr == IF params.ip \in Ip4 THEN "IP4" ELSE "IP6"
    IN [Empty EXCEPT
            !.origin = [user |-> <<"-">>, id |-> <<"7">>, version |-> <<"7">>,
                        net |-> <<"IN">>, addr |-> addr, ip |-> params.ip],
            !.name = <<"-">>,
            !.conn = <<[net |-> <<"IN">>, addr |-> addr, ip |-> params.ip]>>,
            !.time = <<[start |-> <<"0">>, stop |-> <<"0">>, repeats |-> <<>>]>>,
            !.media = [i \in 1..n |-> media(i)]]

IsDirection(attribute) == OneOf(attribute.name, Direction \ {"none"})
DirectionOf(m) ==
    LET directions == Filter(m.attributes, {a \in ToSet(m.attributes) : IsDirection(a)})
    IN IF directions = <<>> THEN "none" ELSE directions[1].name[1]

\* What Streams sees of a description.
StreamsOf(d) ==
    [i \in DOMAIN d.media |->
        [kind |-> <<d.media[i].type, d.media[i].proto>>, open |-> d.media[i].port # <<"0">>,
         direction |-> DirectionOf(d.media[i]),
         formats |-> [k \in DOMAIN d.media[i].formats |-> PayloadType[d.media[i].formats[k][1]]]]]

\* Fault: the direction of our offer stays in front of the answer's.
AnswerMediaTwice(l, r) ==
    LET to == DirectionOf(r)
        direction == Attribute(AnswerDirection([direction |-> DirectionOf(l)],
                                               [direction |-> to]), <<>>)
    IN [l EXCEPT !.formats = Filter(@, ToSet(r.formats)),
                 !.attributes = IF to = "none" THEN @ ELSE Append(@, direction)]

\* create_answer
AnswerMedia(l, r) ==
    LET to == DirectionOf(r)
        direction == Attribute(AnswerDirection([direction |-> DirectionOf(l)],
                                               [direction |-> to]), <<>>)
    IN [l EXCEPT
            !.formats = Filter(@, ToSet(r.formats)),
            !.attributes = IF to = "none" THEN @
                           ELSE Append(Filter(@, {a \in ToSet(@) : ~IsDirection(a)}), direction)]

SdpAnswer(l, r) ==
    LET at == Answered(StreamsOf(l), StreamsOf(r))
    IN [l EXCEPT !.media = [j \in DOMAIN at |-> AnswerMedia(l.media[at[j]], r.media[at[j]])],
                 !.time = r.time]

-----------------------------------------------------------------------------

Text(d, by) == SdpTextOf(d, IF by \in ours THEN "t" ELSE "i")

TalkInit ==
    /\ turn = "offered"
    /\ \/ ours = {"offer", "answer"} /\ offer \in {SdpOffer(p) : p \in OfferParams}
       \/ ours = {"answer"} /\ offer \in Foreign
       \/ ours = {"offer"} /\ offer \in {SdpOffer(p) : p \in OfferParams}
    /\ local = Nothing /\ answer = Nothing /\ remote = Nothing /\ heard = Nothing

HeardOffer == ReadSdp(Text(offer, "offer"))
HeardAnswer == ReadSdp(Text(answer, "answer"))

\* Negotiator::with_remote and set_local_offer, or the session gives up.
HearOffer(params) ==
    /\ turn = "offered" /\ "answer" \in ours
    /\ HeardOffer.ok
    /\ remote' = HeardOffer.val /\ local' = SdpOffer(params)
    /\ turn' = "ready"
    /\ UNCHANGED <<offer, answer, ours, heard>>

OfferUnread ==
    /\ turn = "offered" /\ "answer" \in ours
    /\ ~HeardOffer.ok
    /\ turn' = "refused"
    /\ UNCHANGED <<offer, local, answer, ours, remote, heard>>

\* create_answer
AnswerOffer ==
    /\ turn = "ready"
    /\ IF \/ Mismatch(StreamsOf(local), StreamsOf(remote))
          \/ Dynamic(StreamsOf(local), StreamsOf(remote))
       THEN turn' = "panicked" /\ UNCHANGED answer
       ELSE turn' = "answered" /\ answer' = SdpAnswer(local, remote)
    /\ UNCHANGED <<offer, local, ours, remote, heard>>

ForeignAnswer(d) ==
    /\ turn = "offered" /\ "answer" \notin ours
    /\ answer' = d
    /\ turn' = "answered"
    /\ UNCHANGED <<offer, local, ours, remote, heard>>

\* process_answer, if the text can be read.
HearAnswer ==
    /\ turn = "answered" /\ "offer" \in ours
    /\ IF ~HeardAnswer.ok THEN turn' = "unheard" /\ UNCHANGED heard
       ELSE IF Mismatch(StreamsOf(offer), StreamsOf(HeardAnswer.val))
       THEN turn' = "panicked" /\ UNCHANGED heard
       ELSE turn' = "agreed" /\ heard' = HeardAnswer.val
    /\ UNCHANGED <<offer, local, answer, ours, remote>>

TalkNext ==
    \/ \E params \in OfferParams : HearOffer(params)
    \/ \E d \in Foreign : ForeignAnswer(d)
    \/ OfferUnread \/ AnswerOffer \/ HearAnswer

Talk == TalkInit /\ [][TalkNext]_talkVars

-----------------------------------------------------------------------------
(* Properties.                                                             *)

\* What the printer and the parser agree on.
AddressBack(a) == a.addr \in AddrTypes /\ a.ip \in Ip4 \cup Ip6
ConnectionBack(c) == AddressBack(c) /\ (c.net[1] = "IN" => c.net = <<"IN">>)
MediaBack(m, by) ==
    /\ m.type \in MediaTypes /\ m.proto \in Transports /\ OneOf(m.port, Fitting(16))
    /\ m.formats # <<>> /\ m.ports = <<>> /\ m.bandwidth = <<>>
    /\ by \in ours => m.title = <<>>
    /\ \A k \in DOMAIN m.conn : ConnectionBack(m.conn[k])
RepeatBack(r) ==
    \A value \in {r.interval, r.duration} \cup ToSet(r.offsets) : OneOf(value, Fitting(63))
TimeBack(t) ==
    /\ OneOf(t.start, Fitting(64)) /\ OneOf(t.stop, Fitting(64))
    /\ \A k \in DOMAIN t.repeats : RepeatBack(t.repeats[k])
HeadBack(d) ==
    /\ OneOf(d.origin.id, Fitting(64)) /\ OneOf(d.origin.version, Fitting(64))
    /\ AddressBack(d.origin)
    /\ d.bandwidth = <<>> /\ d.zone = <<>>
    /\ \A k \in DOMAIN d.conn : ConnectionBack(d.conn[k])
    /\ \A k \in DOMAIN d.time : TimeBack(d.time[k])
Back(d, by) == HeadBack(d) /\ \A k \in DOMAIN d.media : MediaBack(d.media[k], by)

\* A description that is sent, by this code or another, is read as it was
\* meant exactly if it has no bandwidth, no time zones, no number of ports, no
\* number that is negative or too wide, an address wherever there could be a
\* host name, no connection of a net type that begins with IN and is another,
\* no media of another kind or protocol or without formats and, from this
\* code, no media title.
TextsReadBack ==
    LET reads(d, by) == (ReadSdp(Text(d, by)) = Read(Len(Text(d, by)) + 1, d)) <=> Back(d, by)
    IN /\ turn = "offered" => reads(offer, "offer")
       /\ turn = "answered" => reads(answer, "answer")

\* Our rtpmap attributes tell the codec that was meant for the five that have a
\* text of their own.  Any other is refused, or its name is lost and the
\* digits it begins with are taken for the clock rate.
RtpMapsBack(d) ==
    \A m \in ToSet(d.media) : \A a \in ToSet(m.attributes) :
        LET text == a.value[1]
            r == ReadRtpMap(text)
        IN a.name = <<"rtpmap">> =>
            \/ \E name \in Named : text = RtpMap(name) /\ r.ok /\ r.val.name = <<name>>
            \/ /\ r.ok <=> text[3] \in Fitting(32)
               /\ r.ok => r.val.name = <<>> /\ r.val.rate = <<text[3]>>

\* Between two ends of this code, with two printers and two parsers between,
\* the offerer ends with the streams that the rules of Streams give for what
\* was offered; it hears nothing exactly if one of them has no common format.
EndsAgree ==
    ours = {"offer", "answer"} /\ answer # Nothing =>
        LET streams == Answer(StreamsOf(local), StreamsOf(offer))
        IN /\ StreamsOf(answer) = streams
           /\ turn = "agreed" => StreamsOf(heard) = streams /\ heard = answer
           /\ turn \in {"agreed", "unheard"} =>
                  (turn = "unheard" <=> \E k \in DOMAIN streams : streams[k].formats = <<>>)

\* What the two ends understand of each other.
Understanding ==
    /\ EndsAgree
    /\ "offer" \in ours => RtpMapsBack(offer)
=============================================================================
