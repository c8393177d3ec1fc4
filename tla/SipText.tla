------------------------------ MODULE SipText ------------------------------
(***************************************************************************)
(* SIP messages as text: how message/ prints them and how parser.rs and    *)
(* the headers read them.                                                  *)
(***************************************************************************)
EXTENDS Scanner

Version == "SIP/2.0"
Delimiters == {"<", ">", "@", ":", ";", "=", "?", "&", ",", "[", "]", "\"", "/",
               SP, NL, Version}

\* The tables of bytes, as what else than a word a value may contain.
TokenClass == {}
UserClass == {"&", "=", ",", ";", "?", "/"}
PassClass == {"&", "=", ","}
ParamClass == {"[", "]", "/", ":", "&"}
HdrClass == {"[", "]", "/", "?", ":"}
ViaParamClass == {"[", ":", "]"}
Quotable == Delimiters \ {"\""}
LineClass == Delimiters \ {NL}

Methods == {"INVITE", "ACK", "BYE", "CANCEL", "REGISTER", "OPTIONS", "INFO", "NOTIFY",
            "SUBSCRIBE", "UPDATE", "REFER", "PRACK", "MESSAGE", "PUBLISH"}
Unknown == "UNKNOWN-SipMethod"

MethodOf(value) == IF OneOf(value, Methods) THEN value[1] ELSE Unknown

UpperCase == [udp |-> "UDP", tcp |-> "TCP", ws |-> "WS", wss |-> "WSS",
              tls |-> "TLS", sctp |-> "SCTP"]
Protocols(value) == {p \in DOMAIN UpperCase : OneOf(value, {p, UpperCase[p]})}

StatusCodes ==
    {"100", "180", "181", "182", "183", "199", "200", "202", "204", "300", "301", "302", "305",
     "380", "400", "401", "402", "403", "404", "405", "406", "407", "408", "409", "410", "411",
     "412", "413", "414", "415", "416", "417", "420", "421", "422", "423", "424", "428", "429",
     "430", "433", "436", "437", "438", "439", "440", "469", "470", "480", "481", "482", "483",
     "484", "485", "486", "487", "488", "489", "490", "491", "493", "494", "500", "501", "502",
     "503", "504", "505", "513", "555", "580", "600", "603", "604", "606", "607", "608"}

-----------------------------------------------------------------------------
(* Printing.                                                               *)

ParamsText(params) ==
    FlattenSeq([k \in DOMAIN params |->
                    <<";">> \o params[k][1] \o Opt(<<"=">>, params[k][2])])

\* A header of a URI has its "=" even without a value.
UriHeadersText(headers) ==
    FlattenSeq([k \in DOMAIN headers |->
        (IF k = 1 THEN <<"?">> ELSE <<"&">>) \o headers[k][1] \o <<"=">>
            \o Opt(<<>>, headers[k][2])])

\* No brackets around an IPv6 address.
HostPortText(host, port) == host \o Opt(<<":">>, port)

KnownParams == <<"user", "method", "maddr", "transport", "ttl">>

UriText(u) ==
    <<u.scheme, ":">>
    \o (IF u.user = <<>> THEN <<>>
        ELSE u.user[1] \o Opt(<<":">>, u.pass) \o <<"@">>)
    \o HostPortText(u.host, u.port)
    \o FlattenSeq([k \in DOMAIN KnownParams |->
           Opt(<<";", KnownParams[k], "=">>, u.known[KnownParams[k]])])
    \o (IF u.lr THEN <<";", "lr">> ELSE <<>>)
    \o ParamsText(u.params) \o UriHeadersText(u.headers)

\* Fault: no brackets where there is no name.
AddressTextPlain(a) ==
    IF a.bare \/ a.display = <<>> THEN UriText(a.uri)
    ELSE <<"\"">> \o a.display[1] \o <<"\"", SP, "<">> \o UriText(a.uri) \o <<">">>

\* An address is a bare URI or one in brackets behind a quoted name.
AddressText(a) ==
    IF a.bare THEN UriText(a.uri)
    ELSE Opt(<<"\"">>, a.display) \o (IF a.display = <<>> THEN <<>> ELSE <<"\"", SP>>)
         \o <<"<">> \o UriText(a.uri) \o <<">">>

\* expires is printed as a bare number.
ContactText(c) == AddressText(c.address) \o Opt(<<>>, c.expires) \o ParamsText(c.params)

FromToText(f) == AddressText(f.address) \o Opt(<<";", "tag", "=">>, f.tag) \o ParamsText(f.params)

ViaText(v) ==
    <<Version, "/", UpperCase[v.proto], SP>> \o HostPortText(v.host, v.port)
    \o (IF v.rport = <<>> THEN <<>> ELSE <<";", "rport">> \o Opt(<<"=">>, v.rport[1]))
    \o Opt(<<";", "received", "=">>, v.received)
    \o Opt(<<";", "ttl", "=">>, v.ttl)
    \o Opt(<<";", "maddr", "=">>, v.maddr)
    \o Opt(<<";", "branch", "=">>, v.branch) \o ParamsText(v.params)

\* How the value of a header is written, by its name.
Grammar(name) ==
    CASE name = "Via" -> "via"
      [] name \in {"From", "To"} -> "fromto"
      [] name = "Contact" -> "contact"
      [] name \in {"Route", "Record-Route"} -> "route"
      [] name = "CSeq" -> "cseq"
      [] name \in {"Max-Forwards", "Content-Length", "Expires"} -> "number"
      [] OTHER -> "line"

ValueText(name, val) ==
    CASE Grammar(name) = "via" -> ViaText(val)
      [] Grammar(name) = "fromto" -> FromToText(val)
      [] Grammar(name) = "contact" -> ContactText(val)
      [] Grammar(name) = "route" -> AddressText(val.address) \o ParamsText(val.params)
      [] Grammar(name) = "cseq" -> val.number \o <<SP, val.method>>
      [] OTHER -> val

HeaderText(h) == <<h.name, ":", SP>> \o ValueText(h.name, h.val) \o <<NL>>

StartText(start) ==
    IF start.kind = "request"
    THEN <<start.method, SP>> \o UriText(start.uri) \o <<SP, Version, NL>>
    ELSE <<Version, SP, start.code, SP, "reason", NL>>

\* write_body adds a Content-Length, whatever the headers have.
ContentLength(m) ==
    [name |-> "Content-Length", val |-> IF m.body = <<>> THEN <<"0">> ELSE <<"length">>]

MessageText(m) ==
    StartText(m.start)
    \o FlattenSeq([k \in DOMAIN m.headers |-> HeaderText(m.headers[k])])
    \o HeaderText(ContentLength(m)) \o <<NL>> \o Opt(<<>>, m.body)

-----------------------------------------------------------------------------
(* Reading.                                                                *)

\* The longest value from `at': words and the other tokens of the class.
Span(t, at, class) == ScanUntil(t, at, Delimiters \ class)

\* must_scan_slice compares as much as there is.
ReadVersion(t, at) == IF at > Len(t) THEN Read(at, <<>>) ELSE MustRead(t, at, Version)

\* name, name=value or name="value"; the quotes are not kept.
ReadParam(t, from, class) ==
    LET name == Span(t, SkipWs(t, from), class)
        value == name.at + 1
    IN IF At(t, name.at) # "=" THEN Read(name.at, <<name.val, <<>>>>)
       ELSE IF At(t, value) = "\""
       THEN LET quoted == Span(t, value + 1, Quotable)
            IN Then(MustRead(t, quoted.at, "\""), LAMBDA r :
                   Read(r.at, <<name.val, <<quoted.val>>>>))
       ELSE LET plain == Span(t, value, class)
            IN Read(plain.at, <<name.val, <<plain.val>>>>)

\* Parameters, each behind the separator.
ReadParams(t, from, separator, class) ==
    LET params[at \in Nat] ==
            IF At(t, at) # separator THEN Read(at, <<>>)
            ELSE Then(ReadParam(t, at + 1, class), LAMBDA p :
                 Then(params[SkipWs(t, p.at)], LAMBDA rest :
                      Read(rest.at, <<p.val>> \o rest.val)))
    IN params[SkipWs(t, from)]

\* The value of the last parameter of that name, and the ones of no such name.
ValueOf(params, name) ==
    LET of == SelectSeq(params, LAMBDA p : p[1] = <<name>>)
    IN IF of = <<>> THEN <<>> ELSE Last(of)[2]
Present(params, name) == \E k \in DOMAIN params : params[k][1] = <<name>>
Others(params, names) == SelectSeq(params, LAMBDA p : p[1] \notin {<<n>> : n \in names})

\* An optional parameter that is parsed as a number of so many bits.
IsNumber(value, bits) == value = <<>> \/ OneOf(value[1], Fitting(bits))

ReadHost(t, at) ==
    IF At(t, at) = "["
    THEN LET ip == ScanUntil(t, at + 1, {"]"})
         IN IF At(t, ip.at) = "]" /\ ip.val \in Ip4 \cup Ip6
            THEN Read(ip.at + 1, ip.val) ELSE Error
    ELSE LET r == Span(t, at, TokenClass) IN IF r.val = <<>> THEN Error ELSE r

ReadPort(t, at) ==
    IF At(t, at) # ":" THEN Read(at, <<>>)
    ELSE Then(ScanNumber(t, at + 1, 16), LAMBDA r : Read(r.at, <<r.val>>))

\* Whether there is an "@" before the end of what may be the URI.
ExistsUser(t, at) ==
    \E k \in at..Len(t) : t[k] = "@" /\ \A j \in at..k : t[j] \notin {SP, NL, ">"}

ReadUserInfo(t, at) ==
    IF ~ExistsUser(t, at) THEN Read(at, [user |-> <<>>, pass |-> <<>>])
    ELSE LET user == Span(t, at, UserClass)
             pass == Span(t, user.at + 1, PassClass)
         IN IF At(t, user.at) = ":"
            THEN Then(MustRead(t, pass.at, "@"), LAMBDA r :
                     Read(r.at, [user |-> <<user.val>>, pass |-> <<pass.val>>]))
            ELSE Then(MustRead(t, user.at, "@"), LAMBDA r :
                     Read(r.at, [user |-> <<user.val>>, pass |-> <<>>]))

ReadUriParams(t, at) ==
    Then(ReadParams(t, at, ";", ParamClass), LAMBDA r :
        LET transport == ValueOf(r.val, "transport")
            method == ValueOf(r.val, "method")
            ttl == ValueOf(r.val, "ttl")
        IN IF (transport # <<>> => Protocols(transport[1]) # {}) /\ IsNumber(ttl, 8)
           THEN Read(r.at,
                [known |-> [user |-> ValueOf(r.val, "user"),
                            maddr |-> ValueOf(r.val, "maddr"), ttl |-> ttl,
                            method |-> IF method = <<>> THEN <<>>
                                       ELSE << <<MethodOf(method[1])>> >>,
                            transport |-> IF transport = <<>> THEN <<>>
                                ELSE << <<CHOOSE p \in Protocols(transport[1]) : TRUE>> >>],
                 lr |-> Present(r.val, "lr"),
                 params |-> Others(r.val, ToSet(KnownParams) \cup {"lr"})])
           ELSE Error)

ReadUriHeaders(t, at) ==
    IF At(t, at) # "?" THEN Read(at, <<>>)
    ELSE Then(ReadParam(t, at + 1, HdrClass), LAMBDA first :
         Then(ReadParams(t, first.at, "&", HdrClass), LAMBDA rest :
              Read(rest.at, <<first.val>> \o rest.val)))

NoParams == [known |-> [p \in ToSet(KnownParams) |-> <<>>], lr |-> FALSE, params |-> <<>>]

\* parse_uri: whether ";" and "?" belong to the URI depends on the caller.
ReadUri(t, at, withParams) ==
    IF ~(At(t, at) \in {"sip", "sips"} /\ At(t, at + 1) = ":") THEN Error
    ELSE Then(ReadUserInfo(t, at + 2), LAMBDA info :
         Then(ReadHost(t, info.at), LAMBDA host :
         Then(ReadPort(t, host.at), LAMBDA port :
         Then(IF withParams THEN ReadUriParams(t, port.at) ELSE Read(port.at, NoParams),
         LAMBDA params :
         Then(IF withParams THEN ReadUriHeaders(t, params.at) ELSE Read(params.at, <<>>),
         LAMBDA headers :
              Read(headers.at,
                   [scheme |-> t[at], user |-> info.val.user, pass |-> info.val.pass,
                    host |-> host.val, port |-> port.val, known |-> params.val.known,
                    lr |-> params.val.lr, params |-> params.val.params,
                    headers |-> headers.val]))))))

\* A quoted name, no name, or one token.
ReadDisplay(t, at) ==
    IF At(t, at) = "<" THEN Read(at, <<>>)
    ELSE IF At(t, at) = "\""
    THEN LET name == Span(t, at + 1, Quotable)
         IN Then(MustRead(t, name.at, "\""), LAMBDA r : Read(r.at, <<name.val>>))
    ELSE LET name == Span(t, at, TokenClass) IN Read(name.at, <<name.val>>)

ReadNameAddr(t, from) ==
    Then(ReadDisplay(t, SkipWs(t, from)), LAMBDA display :
    Then(MustRead(t, SkipWs(t, display.at), "<"), LAMBDA open :
    Then(ReadUri(t, open.at, TRUE), LAMBDA uri :
    Then(MustRead(t, uri.at, ">"), LAMBDA close :
         Read(close.at, [bare |-> FALSE, display |-> display.val, uri |-> uri.val])))))

ReadAddress(t, from) ==
    LET at == SkipWs(t, from)
    IN IF At(t, at) \in {"sip", "sips"} /\ At(t, at + 1) = ":"
       THEN Then(ReadUri(t, at, FALSE), LAMBDA uri :
                Read(uri.at, [bare |-> TRUE, display |-> <<>>, uri |-> uri.val]))
       ELSE ReadNameAddr(t, at)

ReadFromTo(t, at) ==
    Then(ReadAddress(t, at), LAMBDA address :
    Then(ReadParams(t, address.at, ";", TokenClass), LAMBDA r :
         Read(r.at, [address |-> address.val, tag |-> ValueOf(r.val, "tag"),
                     params |-> Others(r.val, {"tag"})])))

ReadContact(t, at) ==
    Then(ReadAddress(t, at), LAMBDA address :
    Then(ReadParams(t, address.at, ";", TokenClass), LAMBDA r :
         IF IsNumber(ValueOf(r.val, "expires"), 32)
         THEN Read(r.at, [address |-> address.val, expires |-> ValueOf(r.val, "expires"),
                          params |-> Others(r.val, {"expires"})])
         ELSE Error))

ReadRoute(t, at) ==
    Then(ReadNameAddr(t, at), LAMBDA address :
    Then(ReadParams(t, address.at, ";", TokenClass), LAMBDA r :
         Read(r.at, [address |-> address.val, params |-> r.val])))

ReadViaParams(t, at) ==
    Then(ReadParams(t, at, ";", ViaParamClass), LAMBDA r :
        LET received == ValueOf(r.val, "received")
            rport == ValueOf(r.val, "rport")
            port == IF rport = << <<>> >> THEN <<>> ELSE rport
        IN IF /\ received # <<>> => received[1] \in Ip4 \cup Ip6
              /\ IsNumber(port, 16) /\ IsNumber(ValueOf(r.val, "ttl"), 8)
           THEN Read(r.at,
                [rport |-> IF Present(r.val, "rport") THEN <<port>> ELSE <<>>,
                 received |-> received, ttl |-> ValueOf(r.val, "ttl"),
                 maddr |-> ValueOf(r.val, "maddr"), branch |-> ValueOf(r.val, "branch"),
                 params |-> Others(r.val, {"rport", "received", "ttl", "maddr", "branch"})])
           ELSE Error)

\* The version must follow at once: a Via behind ", " is not read.
ReadVia(t, at) ==
    Then(ReadVersion(t, at), LAMBDA version :
    Then(MustRead(t, version.at, "/"), LAMBDA slash :
    LET proto == Span(t, slash.at, TokenClass)
    IN IF Protocols(proto.val) = {} THEN Error
       ELSE Then(ReadHost(t, SkipWs(t, proto.at)), LAMBDA host :
            Then(ReadPort(t, host.at), LAMBDA port :
            Then(ReadViaParams(t, port.at), LAMBDA r :
                 Read(r.at, [proto |-> CHOOSE p \in Protocols(proto.val) : TRUE,
                             host |-> host.val, port |-> port.val, rport |-> r.val.rport,
                             received |-> r.val.received, ttl |-> r.val.ttl,
                             maddr |-> r.val.maddr, branch |-> r.val.branch,
                             params |-> r.val.params]))))))

\* take_alphabetic stops inside of "UNKNOWN-SipMethod".
ReadCSeq(t, at) ==
    Then(ScanNumber(t, at, 32), LAMBDA number :
        LET method == Span(t, SkipWs(t, number.at), TokenClass)
        IN IF method.val = <<Unknown>> THEN Error
           ELSE Read(method.at, [number |-> number.val, method |-> MethodOf(method.val)]))

ReadValue(name, t, at) ==
    CASE Grammar(name) = "via" -> ReadVia(t, at)
      [] Grammar(name) = "fromto" -> ReadFromTo(t, at)
      [] Grammar(name) = "contact" -> ReadContact(t, at)
      [] Grammar(name) = "route" -> ReadRoute(t, at)
      [] Grammar(name) = "cseq" -> ReadCSeq(t, at)
      [] Grammar(name) = "number" -> ScanNumber(t, at, 32)
      [] OTHER -> Span(t, at, LineClass)

ShortNames == [v |-> "Via", f |-> "From", t |-> "To", i |-> "Call-ID", m |-> "Contact",
               l |-> "Content-Length", c |-> "Content-Type"]
FullName(word) == IF word \in DOMAIN ShortNames THEN ShortNames[word] ELSE word
MayRepeat(name) == Grammar(name) \in {"via", "route", "contact"}

\* One line: a header, or several values of one that may repeat.
ReadHeader(t, at) ==
    LET word == Span(t, at, TokenClass)
        name == FullName(word.val[1])
        values[from \in Nat] ==
            Then(ReadValue(name, t, from), LAMBDA value :
                LET header == <<[name |-> name, val |-> value.val]>>
                IN IF MayRepeat(name) /\ At(t, value.at) = ","
                   THEN Then(values[value.at + 1], LAMBDA rest :
                            Read(rest.at, header \o rest.val))
                   ELSE Read(value.at, header))
    IN IF Len(word.val) # 1 THEN Error
       ELSE Then(MustRead(t, SkipWs(t, word.at), ":"), LAMBDA colon :
                values[SkipWs(t, colon.at)])

\* Lines until an empty one or the end.
ReadHeaders(t, from) ==
    LET lines[at \in Nat] ==
            Then(ReadHeader(t, at), LAMBDA line :
            Then(MustRead(t, line.at, NL), LAMBDA newline :
                IF At(t, newline.at) \in {NL, "end"} THEN Read(newline.at, line.val)
                ELSE Then(lines[newline.at], LAMBDA rest :
                         Read(rest.at, line.val \o rest.val))))
    IN lines[from]

ReadStart(t) ==
    IF At(t, 1) = Version
    THEN LET code == SkipWs(t, 2)
             reason == Span(t, SkipWs(t, code + 1), LineClass)
         IN IF At(t, code) \in StatusCodes
            THEN Read(SkipNewline(t, reason.at), [kind |-> "response", code |-> t[code]])
            ELSE Error
    ELSE LET method == Span(t, 1, TokenClass)
         IN Then(ReadUri(t, SkipWs(t, method.at), TRUE), LAMBDA uri :
            Then(ReadVersion(t, SkipWs(t, uri.at)), LAMBDA version :
                 Read(SkipNewline(t, version.at),
                      [kind |-> "request", method |-> MethodOf(method.val),
                       uri |-> uri.val])))

\* The body is what is left, without leading newlines, if the headers had a
\* Content-Type; Content-Length is not consulted.
ReadMessage(t) ==
    Then(ReadStart(t), LAMBDA start :
    Then(ReadHeaders(t, start.at), LAMBDA headers :
        LET typed == \E k \in DOMAIN headers.val : headers.val[k].name = "Content-Type"
            body == SubSeq(t, SkipNewline(t, headers.at), Len(t))
        IN Read(Len(t) + 1, [start |-> start.val, headers |-> headers.val,
                             body |-> IF typed THEN <<body>> ELSE <<>>])))
=============================================================================
