------------------------------- MODULE MCHops -------------------------------
(* Hops on requests that differ from a plain one in one respect each. *)
EXTENDS Hops

MCIp4 == {<<"10", ".0.0.1">>, <<"10", ".0.0.2">>, <<"10", ".0.0.9">>}
MCIp6 == {<<"2001", ":", ":", "1">>}
MCBits ==
    ("0" :> 0) @@ ("1" :> 1) @@ ("10" :> 4) @@ ("60" :> 6) @@ ("70" :> 7) @@ ("length" :> 8)
    @@ ("100" :> 7) @@ ("180" :> 8) @@ ("200" :> 8) @@ ("302" :> 9) @@ ("486" :> 9) @@ ("299" :> 9)
    @@ ("2001" :> 11) @@ ("4242" :> 13) @@ ("5060" :> 13) @@ ("5080" :> 13)

Uri(user, host) ==
    [scheme |-> "sip", user |-> << <<user>> >>, pass |-> <<>>, host |-> <<host>>,
     port |-> <<>>, known |-> [p \in ToSet(KnownParams) |-> <<>>], lr |-> FALSE,
     params |-> <<>>, headers |-> <<>>]
Hop(host) == [Uri("proxy", host) EXCEPT !.user = <<>>, !.lr = TRUE]
Opaque == <<<<"x">>, << <<"y">> >>>>

Alice == Uri("alice", "a.net")
Bob == Uri("bob", "b.net")
Bare(uri) == [bare |-> TRUE, display |-> <<>>, uri |-> uri]
Named4(uri) == [bare |-> FALSE, display |-> << <<"A", ",", SP, "B">> >>, uri |-> uri]
Angle(uri) == [bare |-> FALSE, display |-> <<>>, uri |-> uri]

H(name, val) == [name |-> name, val |-> val]
From(address) == H("From", [address |-> address, tag |-> << <<"tag-a">> >>, params |-> <<>>])
To(address) == H("To", [address |-> address, tag |-> <<>>, params |-> <<>>])
Contact(address, expires) ==
    H("Contact", [address |-> address, expires |-> expires, params |-> <<>>])
Route(name, uri) == H(name, [address |-> Angle(uri), params |-> <<>>])
Via(branch, port) ==
    H("Via", [proto |-> "udp", host |-> <<"a.net">>, port |-> port, rport |-> <<>>,
              received |-> <<>>, ttl |-> <<>>, maddr |-> <<>>, branch |-> branch,
              params |-> <<>>])
CallId == H("Call-ID", <<"id", "@", "a.net">>)
CSeq(method) == H("CSeq", [number |-> <<"1">>, method |-> method])
MaxForwards == H("Max-Forwards", <<"70">>)
Type == H("Content-Type", <<"application", "/", "sdp">>)

Request(method, uri, headers, body) ==
    [start |-> [kind |-> "request", method |-> method, uri |-> uri],
     headers |-> headers, body |-> body]
Core(method, from) == <<From(from), To(Angle(Bob)), CallId, CSeq(method), MaxForwards>>
Plain4(uri) == Request("INVITE", uri, Core("INVITE", Angle(Alice)), <<>>)
With(headers) == Request("INVITE", Bob, Core("INVITE", Angle(Alice)) \o headers, <<>>)
Above(headers) == Request("INVITE", Bob, headers \o Core("INVITE", Angle(Alice)), <<>>)
Ask(method) == Request(method, Bob, Core(method, Bare(Alice)), <<>>)
Speaker(address) == Request("OPTIONS", Bob, Core("OPTIONS", address), <<>>)
Body(headers, body) ==
    Request("INVITE", Bob, Core("INVITE", Angle(Alice)) \o headers, << body >>)

Strict(host) == [Hop(host) EXCEPT !.lr = FALSE]
R(uri) == Route("Route", uri)

\* What an application may compose, with its effect on reading or routing.
MCRequests ==
    {Ask("INVITE"), Ask("OPTIONS"), Ask("BYE"), Ask(Unknown),
     Speaker(Named4(Alice)),
     Speaker(Bare([Alice EXCEPT !.known.transport = << <<"tcp">> >>])),
     Speaker(Angle([Alice EXCEPT !.params = <<Opaque>>, !.pass = << <<"s">> >>])),
     Plain4([Bob EXCEPT !.params = <<Opaque>>,
                        !.headers = << <<<<"h">>, << <<"v">> >>>> >>]),
     Plain4([Bob EXCEPT !.headers = << <<<<"h">>, <<>>>> >>]),
     Plain4([Bob EXCEPT !.host = <<"2001", ":", ":", "1">>]),
     Plain4([Bob EXCEPT !.known.transport = << <<"tcp">> >>]),
     Plain4([Bob EXCEPT !.scheme = "sips"]),
     With(<<Contact(Bare(Alice), <<>>)>>),
     With(<<Contact(Angle(Alice), << <<"60">> >>)>>),
     With(<<Contact(Angle(Alice), <<>>), Contact(Bare(Bob), <<>>)>>),
     With(<<Route("Record-Route", Hop("p.net")), Route("Record-Route", Hop("q.net"))>>),
     With(<<R(Hop("p.net")), R(Hop("q.net"))>>),
     With(<<R(Strict("p.net"))>>),
     With(<<R(Strict("p.net")), R(Hop("q.net"))>>),
     With(<<R(Hop("p.net")), R(Strict("q.net")), R(Strict("r.net"))>>),
     Body(<<Type>>, <<"v">>), Body(<<Type>>, <<NL, "v">>), Body(<<>>, <<"v">>),
     With(<<Type>>),
     Above(<<Via(<<>>, << <<"5080">> >>)>>),
     Above(<<Via(<< <<"z9hG4bKown">> >>, <<>>)>>),
     Above(<<Via(<< <<"old">> >>, <<>>)>>),
     Above(<<[Via(<<>>, <<>>) EXCEPT !.val.maddr = << <<"10", ".0.0.9">> >>],
             Via(<< <<"z9hG4bKup">> >>, <<>>)>>),
     Above(<<[Via(<<>>, <<>>) EXCEPT !.val.maddr = << <<"10", ".0.0.1">> >>]>>)}

HostPort(host, port) == [host |-> host, port |-> <<port>>]
MCLinks ==
    {[proto |-> "udp", local |-> HostPort(<<"10", ".0.0.1">>, "5060"),
      source |-> HostPort(<<"10", ".0.0.1">>, "5060")],
     [proto |-> "udp", local |-> HostPort(<<"10", ".0.0.1">>, "5060"),
      source |-> HostPort(<<"10", ".0.0.2">>, "4242")],
     [proto |-> "udp", local |-> HostPort(<<"2001", ":", ":", "1">>, "5060"),
      source |-> HostPort(<<"2001", ":", ":", "1">>, "5060")],
     [proto |-> "tcp", local |-> HostPort(<<"10", ".0.0.1">>, "5060"),
      source |-> HostPort(<<"10", ".0.0.1">>, "4242")]}

MCServerHost == <<"10", ".0.0.9">>
MCOurContact == [address |-> Bare(Uri("us", "b.net")), expires |-> <<>>, params |-> <<>>]
=============================================================================
