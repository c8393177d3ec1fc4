------------------------------ MODULE SdpText ------------------------------
(***************************************************************************)
(* Session descriptions as text: Display of sdp/mod.rs and sdp/parser.rs.  *)
(***************************************************************************)
EXTENDS Scanner

CONSTANTS
    Words,          \* the words and delimiters texts are made of
    Chars           \* those of one character

Delimiters == {SP, ":", "/", "=", NL}
Letters == {"v", "o", "s", "i", "u", "e", "p", "c", "b", "t", "r", "z", "a", "m"}
MediaTypes == {"audio", "video", "text", "message"}
Profiles == {"AVP", "AVPF", "SAVP", "SAVPF"}
Transports == {<<"udp">>} \cup {<<"RTP", "/", profile>> : profile \in Profiles}
AddrTypes == {"IP4", "IP6"}

(* What a text can say: values without the delimiters that end them.       *)

Free(stops) == Seq(Words \ stops)
Word == Words \ Delimiters
Value == Free({NL})
Optionally(S) == {value \in Seq(S) : Len(value) <= 1}

ASSUME TextAssumption ==
    /\ Delimiters \cup Letters \cup MediaTypes \cup Profiles \cup AddrTypes \subseteq Words
    /\ {"udp", "RTP", "IN", "0"} \subseteq Words /\ "end" \notin Words
    /\ Numbers \subseteq Word /\ Bits \in [Numbers -> Nat]
    /\ Ip4 \cup Ip6 \subseteq Free({SP, NL}) \ {<<>>}
    /\ Letters \subseteq Chars /\ Chars \subseteq Words \ {NL}

ConnectionType == [net : Free({SP, NL}) \ {<<>>}, addr : Word, ip : Value]
OriginType ==
    [user : Free({SP, NL}), id : Value, version : Value,
     net : Free({SP, NL}) \ {<<>>}, addr : Word, ip : Value]
BandwidthType == [type : Value, n : Value]
RepeatType == [interval : Value, duration : Value, offsets : Seq(Value)]
TimeType == [start : Value, stop : Value, repeats : Seq(RepeatType)]
AttributeType == [name : Free(Delimiters), value : Optionally(Value)]
MediaType ==
    [type : Word, port : Value, ports : Optionally(Value),
     proto : Free({SP, NL}) \ {<<>>}, formats : Seq(Free(Delimiters)), title : Optionally(Value),
     conn : Optionally(ConnectionType), bandwidth : Seq(BandwidthType),
     attributes : Seq(AttributeType)]
SdpType ==
    [origin : OriginType, name : Value, info : Optionally(Value), uri : Optionally(Value),
     email : Optionally(Value), phone : Optionally(Value), conn : Optionally(ConnectionType),
     bandwidth : Seq(BandwidthType), time : Seq(TimeType), zone : Optionally(Value),
     attributes : Seq(AttributeType), media : Seq(MediaType)]

-----------------------------------------------------------------------------
(* Printing.  The lines in their order; `title' is the letter of the line  *)
(* for the title of a media: "t" in this code, "i" in RFC 8866.            *)

Line(letter, value) == <<letter, "=">> \o value \o <<NL>>
Optional(letter, value) == IF value = <<>> THEN <<>> ELSE Line(letter, value[1])
Lines(values, LineOf(_)) == FlattenSeq([k \in DOMAIN values |-> LineOf(values[k])])
Spaced(values) == FlattenSeq([k \in DOMAIN values |-> <<SP>> \o values[k]])

ConnectionText(c) == c.net \o <<SP, c.addr, SP>> \o c.ip
OriginText(o) == o.user \o <<SP>> \o o.id \o <<SP>> \o o.version \o <<SP>> \o ConnectionText(o)
ConnectionLine(conn) == IF conn = <<>> THEN <<>> ELSE Line("c", ConnectionText(conn[1]))

BandwidthLine(b) == Line("b", b.type \o <<":">> \o b.n)
BandwidthLines(bandwidth) == Lines(bandwidth, BandwidthLine)

\* Fault: a flag has its colon too.
AttributeLinesColon(attributes) ==
    Lines(attributes, LAMBDA a : Line("a", a.name \o <<":">> \o Opt(<<>>, a.value)))

AttributeLine(a) == Line("a", a.name \o Opt(<<":">>, a.value))
AttributeLines(attributes) == Lines(attributes, AttributeLine)

RepeatText(r) == r.interval \o <<SP>> \o r.duration \o Spaced(r.offsets)
RepeatLine(r) == Line("r", RepeatText(r))
TimeLines(t) == Line("t", t.start \o <<SP>> \o t.stop) \o Lines(t.repeats, RepeatLine)

MediaText(m) ==
    <<m.type, SP>> \o m.port \o Opt(<<"/">>, m.ports) \o <<SP>> \o m.proto
    \o Spaced(m.formats)
MediaLines(m, title) ==
    Line("m", MediaText(m)) \o Optional(title, m.title) \o ConnectionLine(m.conn)
    \o BandwidthLines(m.bandwidth) \o AttributeLines(m.attributes)

\* A peer may have a line for time zones; this code has none.
SdpTextOf(d, title) ==
    Line("v", <<"0">>) \o Line("o", OriginText(d.origin)) \o Line("s", d.name)
    \o Optional("i", d.info) \o Optional("u", d.uri) \o Optional("e", d.email)
    \o Optional("p", d.phone) \o ConnectionLine(d.conn) \o BandwidthLines(d.bandwidth)
    \o Lines(d.time, TimeLines) \o Optional("z", d.zone) \o AttributeLines(d.attributes)
    \o Lines(d.media, LAMBDA m : MediaLines(m, title))

-----------------------------------------------------------------------------
(* Reading the value of a line.                                            *)

ReadLine(t, at) == ScanUntil(t, at, {NL})
ReadToken(t, at) == ScanUntil(t, at, Delimiters)

IpOf(r, val) == IF r.val \in Ip4 \cup Ip6 THEN Read(r.at, val) ELSE Error

ReadOrigin(t, at) ==
    LET user == ScanUntil(t, at, {SP, NL})
    IN Then(ScanNumber(t, SkipWs(t, user.at), 64), LAMBDA id :
       Then(ScanNumber(t, SkipWs(t, id.at), 64), LAMBDA version :
       LET net == ScanUntil(t, SkipWs(t, version.at), {SP})
           addr == ScanUntil(t, SkipWs(t, net.at), {SP})
           ip == ScanUntil(t, SkipWs(t, addr.at), {SP, NL})
       IN IF ~OneOf(addr.val, AddrTypes) THEN Error
          ELSE IpOf(ip, [user |-> user.val, id |-> id.val, version |-> version.val,
                         net |-> net.val, addr |-> addr.val[1], ip |-> ip.val])))

\* A net type that begins with IN is taken for IN.
ReadConnection(t, at) ==
    LET net == IF At(t, at) = "IN" THEN Read(at + 1, <<"IN">>) ELSE ScanUntil(t, at, {SP})
        addr == SkipWs(t, net.at)
        ip == ReadLine(t, SkipWs(t, addr + 1))
    IN IF At(t, addr) \notin AddrTypes THEN Error
       ELSE IpOf(ip, [net |-> net.val, addr |-> t[addr], ip |-> ip.val])

\* scan_until leaves the ":", which is no number.
ReadBandwidth(t, at) ==
    LET type == ScanUntil(t, at, {":"})
    IN Then(ScanNumber(t, type.at, 64), LAMBDA n : Read(n.at, [type |-> type.val, n |-> n.val]))

ReadTime(t, at) ==
    Then(ScanNumber(t, at, 64), LAMBDA start :
    Then(MustRead(t, start.at, SP), LAMBDA ws :
    Then(ScanNumber(t, ws.at, 64), LAMBDA stop :
         Read(stop.at, [start |-> start.val, stop |-> stop.val, repeats |-> <<>>]))))

\* Values, each behind a space; read has what can be read at each place.
ReadList(t, from, read) ==
    LET list[at \in Nat] ==
            IF At(t, at) # SP THEN Read(at, <<>>)
            ELSE IF ~read[at + 1].ok THEN Error
            ELSE Then(list[read[at + 1].at], LAMBDA rest :
                      Read(rest.at, <<read[at + 1].val>> \o rest.val))
    IN list[from]

ReadRepeat(t, at) ==
    Then(ScanNumber(t, at, 63), LAMBDA interval :
    Then(ScanNumber(t, SkipWs(t, interval.at), 63), LAMBDA duration :
    Then(ReadList(t, duration.at, [k \in Nat |-> ScanNumber(t, k, 63)]), LAMBDA offsets :
         Read(offsets.at, [interval |-> interval.val, duration |-> duration.val,
                           offsets |-> offsets.val]))))

ReadAttribute(t, at) ==
    LET name == ReadToken(t, at)
        value == ReadLine(t, name.at + 1)
    IN IF At(t, name.at) = ":"
       THEN Read(value.at, [name |-> name.val, value |-> <<value.val>>])
       ELSE Read(name.at, [name |-> name.val, value |-> <<>>])

\* The protocol ends with a space, wherever the next one is.
ReadMedia(t, at) ==
    LET type == ReadToken(t, at)
    IN IF ~OneOf(type.val, MediaTypes) THEN Error
       ELSE Then(ScanNumber(t, SkipWs(t, type.at), 16), LAMBDA port :
            LET proto == ScanUntil(t, SkipWs(t, port.at), {SP})
            IN IF proto.val \notin Transports \cup {<<"UDP">>} THEN Error
               ELSE Then(ReadList(t, proto.at, [k \in Nat |-> ReadToken(t, k)]), LAMBDA formats :
                    Read(formats.at,
                         [type |-> type.val[1], port |-> port.val, ports |-> <<>>,
                          proto |-> IF proto.val = <<"UDP">> THEN <<"udp">> ELSE proto.val,
                          formats |-> formats.val, title |-> <<>>, conn |-> <<>>,
                          bandwidth |-> <<>>, attributes |-> <<>>])))

ReadRtpMap(t) ==
    LET pt == ReadToken(t, 1)
        name == ReadToken(t, SkipWs(t, pt.at))
    IN Then(MustRead(t, name.at, "/"), LAMBDA slash :
       Then(ScanNumber(t, slash.at, 32), LAMBDA rate :
       LET param == ReadToken(t, rate.at + 1)
       IN IF At(t, rate.at) = "/"
          THEN Read(SkipNewline(t, param.at), [pt |-> pt.val, name |-> name.val,
                                               rate |-> rate.val, param |-> <<param.val>>])
          ELSE Read(SkipNewline(t, rate.at), [pt |-> pt.val, name |-> name.val,
                                              rate |-> rate.val, param |-> <<>>])))

-----------------------------------------------------------------------------
(* Reading a description: what was read so far, and the next line.         *)

ReadValue(letter, t, at) ==
    CASE letter = "v" -> MustRead(t, at, "0")
      [] letter = "o" -> ReadOrigin(t, at)
      [] letter \in {"s", "i", "u", "e", "p"} -> ReadLine(t, at)
      [] letter = "c" -> ReadConnection(t, at)
      [] letter = "b" -> ReadBandwidth(t, at)
      [] letter = "t" -> ReadTime(t, at)
      [] letter = "r" -> ReadRepeat(t, at)
      [] letter = "a" -> ReadAttribute(t, at)
      [] letter = "m" -> ReadMedia(t, at)
      [] OTHER -> Read(at, <<>>)

\* A line behind an "m=" line is of that media; a bandwidth is not.
Set(d, letter, val) ==
    LET last == Len(d.media)
        inMedia == last > 0
    IN CASE letter = "o" -> [d EXCEPT !.origin = val]
         [] letter = "s" -> [d EXCEPT !.name = val]
         [] letter = "i" -> IF inMedia THEN [d EXCEPT !.media[last].title = <<val>>]
                            ELSE [d EXCEPT !.info = <<val>>]
         [] letter = "u" -> [d EXCEPT !.uri = <<val>>]
         [] letter = "e" -> [d EXCEPT !.email = <<val>>]
         [] letter = "p" -> [d EXCEPT !.phone = <<val>>]
         [] letter = "c" -> IF inMedia THEN [d EXCEPT !.media[last].conn = <<val>>]
                            ELSE [d EXCEPT !.conn = <<val>>]
         [] letter = "b" -> [d EXCEPT !.bandwidth = Append(@, val)]
         [] letter = "t" -> [d EXCEPT !.time = Append(@, val)]
         [] letter = "r" -> [d EXCEPT !.time[Len(d.time)].repeats = Append(@, val)]
         [] letter = "a" -> IF inMedia
                            THEN [d EXCEPT !.media[last].attributes = Append(@, val)]
                            ELSE [d EXCEPT !.attributes = Append(@, val)]
         [] letter = "m" -> [d EXCEPT !.media = Append(@, val)]
         [] OTHER -> d

LocalOrigin == [user |-> <<>>, id |-> <<"0">>, version |-> <<"0">>, net |-> <<"IN">>,
                addr |-> "IP4", ip |-> <<>>]
Empty == [origin |-> LocalOrigin, name |-> <<>>, info |-> <<>>, uri |-> <<>>, email |-> <<>>,
          phone |-> <<>>, conn |-> <<>>, bandwidth |-> <<>>, time |-> <<>>, zone |-> <<>>,
          attributes |-> <<>>, media |-> <<>>]

\* A letter is one byte, any.  A line with a letter this code does not know,
\* or for time zones, is not skipped: what follows its "=" is taken for the
\* letter of the next.
ReadField(t, at, d) ==
    IF At(t, at) \notin Chars THEN Error
    ELSE Then(MustRead(t, at + 1, "="), LAMBDA equals :
         Then(ReadValue(t[at], t, equals.at), LAMBDA value :
              IF t[at] = "r" /\ d.time = <<>> THEN Error
              ELSE Read(SkipNewline(t, value.at), Set(d, t[at], value.val))))

\* A field has at least two tokens.
NextField(t, so) ==
    IF ~so.ok \/ At(t, so.at) = "end" THEN so ELSE ReadField(t, so.at, so.val)
ReadSdp(t) ==
    LET fields == 1 + Len(t) \div 2
        sdp[n \in 0 .. fields] ==
            IF n = 0 THEN Read(1, Empty) ELSE NextField(t, sdp[n - 1])
    IN sdp[fields]
=============================================================================
