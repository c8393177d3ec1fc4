------------------------------- MODULE MCSdp -------------------------------
(* SdpExchange with offers of up to two streams, and foreign descriptions   *)
(* that differ from a plain one in one respect each.                        *)
EXTENDS SdpExchange

MCIp4 == {<<"10", ".0.0.1">>, <<"10", ".0.0.2">>}
MCIp6 == {<<"2001", ":", ":", "1">>}

Rtp(profile) == <<"RTP", "/", profile>>
Codec(pt, name) == [pt |-> pt, name |-> name, rate |-> "8000", channels |-> "1"]
ULaw == Codec("0", <<"PCMU">>)
ALaw == Codec("8", <<"PCMA">>)
Stream(type, port, codecs) ==
    [type |-> type, proto |-> Rtp("AVP"), port |-> port, codecs |-> codecs]

MCStreams ==
    {Stream("audio", "4000", <<ULaw, ALaw>>), Stream("audio", "4000", <<ALaw>>),
     Stream("audio", "4000", <<Codec("3", <<"GSM">>), Codec("101", <<"telephone-event">>)>>),
     Stream("audio", "0", <<ULaw>>), Stream("audio", "4000", <<>>),
     Stream("text", "4000", <<Codec("101", <<"3", "gpp-tt">>)>>),
     Stream("text", "4000", <<Codec("101", <<"5000000000", "x">>)>>),
     Stream("video", "4000", <<Codec("96", <<"VP8">>)>>),
     Stream("application", "4000", <<Codec("34", <<"H263">>)>>)}

MCParams ==
    [streams : {<<a>> : a \in MCStreams} \cup {<<a, b>> : a \in MCStreams,
                     b \in {Stream("audio", "4000", <<ALaw, ULaw>>),
                            Stream("video", "4000", <<Codec("34", <<"H263">>)>>)}},
     direction : {"sendrecv", "sendonly"}, ip : {<<"10", ".0.0.1">>}]
    \cup [streams : {<<Stream("audio", "4000", <<ULaw>>)>>},
          direction : {"inactive", "recvonly", "Unspecified"}, ip : MCIp6]

-----------------------------------------------------------------------------

At4(ip) == [net |-> <<"IN">>, addr |-> "IP4", ip |-> ip]
Media ==
    [type |-> "audio", port |-> <<"4000">>, ports |-> <<>>, proto |-> Rtp("AVP"),
     formats |-> << <<"8">>, <<"0">> >>, title |-> <<>>, conn |-> <<>>, bandwidth |-> <<>>,
     attributes |-> <<Attribute("rtpmap", << <<"8", SP, "PCMA", "/", "8000">> >>),
                      Attribute("sendonly", <<>>)>>]
Plain ==
    [Empty EXCEPT
        !.origin = [user |-> <<"alice">>, id |-> <<"7">>, version |-> <<"7">>,
                    net |-> <<"IN">>, addr |-> "IP4", ip |-> <<"10", ".0.0.2">>],
        !.name = <<"a", SP, "call">>, !.conn = <<At4(<<"10", ".0.0.2">>)>>,
        !.time = <<[start |-> <<"0">>, stop |-> <<"0">>, repeats |-> <<>>]>>,
        !.media = <<Media>>]
Repeat(offset) ==
    [start |-> <<"0">>, stop |-> <<"7">>, repeats |->
        <<[interval |-> <<"7">>, duration |-> <<"7">>, offsets |-> << <<"0">>, offset>>]>>]
Bandwidth == [type |-> <<"AS">>, n |-> <<"20">>]

MCForeign ==
    {Plain,
     [Plain EXCEPT !.info = << <<"i">> >>, !.uri = << <<"u", ":", "/">> >>,
                   !.email = << <<"e", "=", "m">> >>, !.phone = << <<"p">> >>],
     [Plain EXCEPT !.origin.ip = <<"host.net">>], [Plain EXCEPT !.origin.id = <<"-7">>],
     [Plain EXCEPT !.origin.net = <<"IN", "ET">>], [Plain EXCEPT !.conn[1].net = <<"IN", "ET">>],
     [Plain EXCEPT !.conn[1].net = <<"ATM">>], [Plain EXCEPT !.origin.version = <<"9223372036854775808">>],
     [Plain EXCEPT !.media[1].port = <<"70000">>], [Plain EXCEPT !.media[1].port = <<"2", "B">>],
     [Plain EXCEPT !.conn[1].addr = "IP7"], [Plain EXCEPT !.media[1].proto = <<"TCP", "/", "BFCP">>],
     [Plain EXCEPT !.media[1].proto = <<"UDP">>],
     [Plain EXCEPT !.conn = <<>>, !.media[1].conn = <<At4(<<"10", ".0.0.1">>)>>],
     [Plain EXCEPT !.media[1].conn = <<At4(<<"host.net">>)>>],
     [Plain EXCEPT !.conn[1].ip = <<"10", ".0.0.1", "/", "20">>],
     [Plain EXCEPT !.bandwidth = <<Bandwidth>>],
     [Plain EXCEPT !.media[1].bandwidth = <<Bandwidth>>],
     [Plain EXCEPT !.time = <<Repeat(<<"20">>), Repeat(<<"7">>)>>],
     [Plain EXCEPT !.time = <<Repeat(<<"-20">>)>>],
     [Plain EXCEPT !.time = <<Repeat(<<"9223372036854775808">>)>>],
     [Plain EXCEPT !.zone = << <<"0", SP, "7">> >>],
     [Plain EXCEPT !.zone = << <<"x", "=">> >>],
     [Plain EXCEPT !.attributes = <<Attribute("x", << <<"y", ":", "z">> >>)>>,
                   !.media[1].attributes = <<>>],
     [Plain EXCEPT !.media = <<>>],
     [Plain EXCEPT !.media[1].ports = << <<"2">> >>],
     [Plain EXCEPT !.media[1].title = << <<"title">> >>],
     [Plain EXCEPT !.media[1].formats = <<>>],
     [Plain EXCEPT !.media[1].formats = << <<"3">> >>, !.media[1].proto = Rtp("SAVP")],
     [Plain EXCEPT !.media = <<Media, [Media EXCEPT !.type = "video", !.port = <<"0">>]>>],
     [Plain EXCEPT !.media[1].type = "application"]}

MCWords == STRING \ {"end"}
MCChars == Letters \cup {SP, ":", "/", "=", "0", "1", "2", "3", "7", "8", "-", "x", "y"}
MCBits ==
    ("0" :> 0) @@ ("1" :> 1) @@ ("2" :> 2) @@ ("3" :> 2) @@ ("7" :> 3) @@ ("8" :> 4) @@ ("10" :> 4)
    @@ ("20" :> 5) @@ ("34" :> 6) @@ ("96" :> 7) @@ ("101" :> 7) @@ ("150" :> 8) @@ ("2001" :> 11)
    @@ ("4000" :> 12) @@ ("8000" :> 13) @@ ("48000" :> 16) @@ ("70000" :> 17)
    @@ ("5000000000" :> 33) @@ ("9223372036854775808" :> 64)

MCPayloadType == ("0" :> 0) @@ ("3" :> 3) @@ ("8" :> 8) @@ ("34" :> 34) @@ ("96" :> 96)
                 @@ ("101" :> 101)
=============================================================================
