-------------------------------- MODULE Hops --------------------------------
(***************************************************************************)
(* The journey of a request through the code, with the texts between: a    *)
(* client transaction chooses the next hop, adds its Via and prints        *)
(* (endpoint/mod.rs, transaction/client.rs); the other side reads, notes   *)
(* the source, and answers (transport/mod.rs, endpoint/mod.rs, dialog.rs); *)
(* the client reads the response and acknowledges a failed INVITE.  Either *)
(* side may be another implementation that uses another layout of the same *)
(* message or another status code.                                         *)
(***************************************************************************)
EXTENDS SipText, Selection

CONSTANTS
    Requests,       \* what an application passes to the client transaction
    Links,          \* transports: [proto, local, source], with the address
                    \* it sends from and the one the other side sees
    Cookies,        \* words that begin with z9hG4bK
    Branch,         \* the branch generate_branch returns, one of them
    Codes,          \* status codes of responses
    ServerHost,     \* the address the client hears responses from
    OurContact,     \* the contact of the answering dialog
    Layouts         \* subset of {"own", "short", "list", "spaced"}

Address == [host : Seq(STRING), port : Seq(STRING)]

\* A message whose headers are a list, each with its name and value.
IsRequest(m) ==
    /\ DOMAIN m = {"start", "headers", "body"}
    /\ m.headers \in Seq(ToSet(m.headers))
    /\ \A h \in ToSet(m.headers) : DOMAIN h = {"name", "val"}

ASSUME HopsAssumption ==
    /\ Branch \in Cookies
    /\ Layouts \subseteq {"own", "short", "list", "spaced"}
    /\ Links \subseteq [proto : DOMAIN UpperCase, local : Address, source : Address]
    /\ \A m \in Requests : IsRequest(m)

VARIABLES
    stage,
    composed,       \* the request of the application
    given,          \* it came with its target
    link,           \* the transport in use
    next,           \* the URI the next hop was resolved from
    said, layout,   \* the message on the wire, and how it is written
    heard,          \* what the reader made of it
    request,        \* the request as the server read it
    response,       \* the response as the client read it
    answer,         \* the response as the server sent it
    dest,           \* where the response goes
    clientKey, serverKey

journeyVars == <<stage, composed, given, link, next, said, layout, heard, request, response,
                 answer, dest, clientKey, serverKey>>

Nothing == [stage |-> "nothing"]

-----------------------------------------------------------------------------
(* The same message in the layouts a peer may choose.                      *)

ShortName(name) ==
    LET short == {s \in DOMAIN ShortNames : ShortNames[s] = name}
    IN IF short = {} THEN name ELSE CHOOSE s \in short : TRUE

Text(m, how) ==
    LET n == Len(m.headers)
        joined(k) == /\ how \in {"list", "spaced"} /\ k > 1
                     /\ MayRepeat(m.headers[k].name)
                     /\ m.headers[k - 1].name = m.headers[k].name
        name(k) == IF how = "short" THEN ShortName(m.headers[k].name) ELSE m.headers[k].name
        line(k) == (IF joined(k) THEN IF how = "spaced" THEN <<",", SP>> ELSE <<",">>
                    ELSE <<name(k), ":", SP>>)
                   \o ValueText(m.headers[k].name, m.headers[k].val)
                   \o (IF k < n /\ joined(k + 1) THEN <<>> ELSE <<NL>>)
    IN IF how = "own" THEN MessageText(m)
       ELSE StartText(m.start) \o FlattenSeq([k \in 1..n |-> line(k)])
            \o HeaderText(ContentLength(m)) \o <<NL>> \o Opt(<<>>, m.body)

-----------------------------------------------------------------------------

Named(headers, name) == {k \in DOMAIN headers : headers[k].name = name}
Lowest(S) == CHOOSE k \in S : \A j \in S : k <= j
Highest(S) == CHOOSE k \in S : \A j \in S : k >= j

Default(value, default) == IF value = <<>> THEN default ELSE value[1]
DefaultPort(proto) ==
    CASE proto \in {"udp", "tcp", "sctp"} -> <<"5060">>
      [] proto = "tls" -> <<"5061">>
      [] OTHER -> <<"80">>
Reliable(proto) == proto # "udp"

\* Fault: the strict route stays where it was.
ProcessRouteSetKeeps(m) ==
    LET routes == Named(m.headers, "Route")
        strict == {k \in routes : ~m.headers[k].val.address.uri.lr}
        target == [name |-> "Route", val |-> [params |-> <<>>, address |->
                       [bare |-> FALSE, display |-> <<>>, uri |-> m.start.uri]]]
    IN IF strict = {} THEN [next |-> m.start.uri, headers |-> m.headers]
       ELSE [next |-> m.headers[Lowest(strict)].val.address.uri,
             headers |-> InsertAt(m.headers, Highest(routes), target)]

\* The first Route without lr, wherever it is, becomes the next hop, and the
\* Request-URI becomes a Route before the last one.
ProcessRouteSet(m) ==
    LET routes == Named(m.headers, "Route")
        strict == {k \in routes : ~m.headers[k].val.address.uri.lr}
        left == RemoveAt(m.headers, Lowest(strict))
        target == [name |-> "Route", val |-> [params |-> <<>>, address |->
                       [bare |-> FALSE, display |-> <<>>, uri |-> m.start.uri]]]
    IN IF strict = {} THEN [next |-> m.start.uri, headers |-> m.headers]
       ELSE [next |-> m.headers[Lowest(strict)].val.address.uri,
             headers |-> IF Named(left, "Route") = {} THEN Append(left, target)
                         ELSE InsertAt(left, Highest(Named(left, "Route")), target)]

\* resolve_uri and the default resolver.
Target(uri) ==
    LET proto == Default(uri.known.transport, IF uri.scheme = "sip" THEN <<"udp">> ELSE <<"tcp">>)[1]
    IN [proto |-> proto, host |-> Default(uri.known.maddr, uri.host),
        port |-> Default(uri.port, DefaultPort(proto))]

NewVia(l) ==
    [proto |-> l.proto, host |-> l.local.host, port |-> <<l.local.port>>,
     rport |-> << <<>> >>, received |-> <<>>, ttl |-> <<>>, maddr |-> <<>>,
     branch |-> << <<Branch>> >>, params |-> <<>>]

\* A Via of the application is kept, and given a branch if it has none.
WithVia(headers, l) ==
    LET own == Named(headers, "Via")
        top == Lowest(own)
    IN IF own = {} THEN <<[name |-> "Via", val |-> NewVia(l)]>> \o headers
       ELSE IF headers[top].val.branch = <<>>
       THEN [headers EXCEPT ![top].val.branch = << <<Branch>> >>]
       ELSE headers

\* Fault: the key of an ACK is its own.
KeyOfAck(branch, method) ==
    [branch |-> branch, method |-> IF method = "INVITE" THEN "none" ELSE method]

\* INVITE and ACK share a key.
TransactionKey(branch, method) ==
    [branch |-> branch, method |-> IF method \in {"INVITE", "ACK"} THEN "none" ELSE method]

MandatoryNames == {"Via", "From", "To", "Call-ID", "CSeq"}
HasMandatory(headers) == \A name \in MandatoryNames : Named(headers, name) # {}

\* The source of a message becomes the received parameter.
Noted(via, source) ==
    [field \in DOMAIN via \cup {"received"} |->
        IF field = "received" THEN <<source>> ELSE via[field]]

\* The first Via, with the source noted, and the last of the others.
Mandatory(headers, source) ==
    [name \in MandatoryNames |->
        IF name = "Via"
        THEN Noted(headers[Lowest(Named(headers, name))].val, source)
        ELSE headers[Highest(Named(headers, name))].val]

-----------------------------------------------------------------------------

JourneyInit ==
    /\ stage = "start"
    /\ composed \in Requests /\ given \in BOOLEAN /\ link \in Links
    /\ said = composed /\ layout = "own"
    /\ next = Nothing /\ heard = Nothing /\ request = Nothing /\ response = Nothing /\ answer = Nothing
    /\ dest = Nothing /\ clientKey = Nothing /\ serverKey = Nothing

\* ClientTransaction::send.  The transport is given, or is one for the
\* protocol of the next hop.
Send(how) ==
    LET r == IF given THEN [next |-> composed.start.uri, headers |-> composed.headers]
             ELSE ProcessRouteSet(composed)
        headers == WithVia(r.headers, link)
        via == headers[Lowest(Named(headers, "Via"))].val
    IN /\ stage = "start"
       /\ given \/ Target(r.next).proto = link.proto
       /\ next' = r.next
       /\ said' = [composed EXCEPT !.headers = headers] /\ layout' = how
       /\ clientKey' = TransactionKey(via.branch[1], composed.start.method)
       /\ stage' = "requested"
       /\ UNCHANGED <<composed, given, link, heard, request, response, answer, dest, serverKey>>

\* select_transport has no transport for the next hop.
NoTransport ==
    /\ stage = "start" /\ ~given
    /\ Target(ProcessRouteSet(composed).next).proto # link.proto
    /\ stage' = "refused"
    /\ UNCHANGED <<composed, given, link, next, said, layout, heard, request, response,
                   answer, dest, clientKey, serverKey>>

OnTheWire == stage \in {"requested", "answered", "acknowledged"}

\* The parser, on what the transport received.
Parse ==
    /\ OnTheWire /\ heard = Nothing
    /\ heard' = ReadMessage(Text(said, layout))
    /\ UNCHANGED <<stage, composed, given, link, next, said, layout, request, response,
                   answer, dest, clientKey, serverKey>>

Understood == heard # Nothing /\ heard.ok /\ HasMandatory(heard.val.headers)

\* process_message on what cannot be read: nobody is told.
Ignored ==
    /\ OnTheWire /\ heard # Nothing /\ ~Understood
    /\ stage' = "ignored"
    /\ UNCHANGED <<composed, given, link, next, said, layout, heard, request, response, answer,
                   dest, clientKey, serverKey>>

\* on_request, with the key of TransactionKey::from_request: a todo!() for a
\* branch of RFC 2543.
HearRequest ==
    LET hdrs == Mandatory(heard.val.headers, link.source.host)
    IN /\ stage = "requested" /\ Understood
       /\ request' = [message |-> heard.val, hdrs |-> hdrs]
       /\ IF hdrs["Via"].branch # <<>> /\ OneOf(hdrs["Via"].branch[1], Cookies)
          THEN /\ serverKey' = TransactionKey(hdrs["Via"].branch[1], hdrs["CSeq"].method)
               /\ stage' = "heard"
          ELSE stage' = "panicked" /\ UNCHANGED serverKey
       /\ heard' = Nothing
       /\ UNCHANGED <<composed, given, link, next, said, layout, response, answer, dest,
                      clientKey>>

\* create_response, by the endpoint or by a dialog, which has a tag and a
\* contact of its own.
Response(code, byDialog) ==
    LET h == request.message.headers
        hdrs == request.hdrs
        vias == Named(h, "Via")
        branchTag == IF hdrs["To"].tag = <<>> /\ code # "100" THEN hdrs["Via"].branch
                     ELSE hdrs["To"].tag
        to == [hdrs["To"] EXCEPT !.tag =
                  IF byDialog /\ code # "100" THEN << <<"tag-of-dialog">> >> ELSE branchTag]
        header(name, val) == [name |-> name, val |-> val]
        numbered == [k \in DOMAIN h |-> [k |-> k, header |-> h[k]]]
        others == SelectSeq(numbered, LAMBDA x : x.header.name = "Via" /\ x.k # Lowest(vias))
        rrs == SelectSeq(h, LAMBDA x : x.name = "Record-Route")
    IN [start |-> [kind |-> "response", code |-> code],
        headers |-> <<header("Via", hdrs["Via"])>>
            \o [k \in DOMAIN others |-> others[k].header] \o rrs
            \o <<header("Call-ID", hdrs["Call-ID"]), header("From", hdrs["From"]),
                 header("To", to), header("CSeq", hdrs["CSeq"])>>
            \o (IF byDialog /\ code \in {"180", "200", "302"}
                THEN <<header("Contact", OurContact)>> ELSE <<>>),
        body |-> <<>>]

\* get_response_destination: by the connection, or to the source address and
\* the port of sent-by; rport is not consulted.
Destination(via) ==
    IF Reliable(via.proto) THEN [by |-> "connection", to |-> link.source]
    ELSE [by |-> "address",
          to |-> [host |-> Default(via.maddr, via.received[1]),
                  port |-> Default(via.port, <<"5060">>)]]

Respond(code, byDialog, how) ==
    /\ stage = "heard" /\ request.message.start.method # "ACK"
    /\ byDialog => code \in StatusCodes
    /\ answer' = Response(code, byDialog)
    /\ said' = answer' /\ layout' = how
    /\ dest' = Destination(request.hdrs["Via"])
    /\ stage' = "answered"
    /\ UNCHANGED <<composed, given, link, next, heard, request, response, clientKey,
                   serverKey>>

\* on_response: the response finds the transaction, or nobody takes it.
HearResponse ==
    LET hdrs == Mandatory(heard.val.headers, ServerHost)
    IN /\ stage = "answered" /\ Understood
       /\ response' = [message |-> heard.val, hdrs |-> hdrs]
       /\ stage' = IF TransactionKey(hdrs["Via"].branch[1], hdrs["CSeq"].method) = clientKey
                   THEN "matched" ELSE "strayed"
       /\ heard' = Nothing
       /\ UNCHANGED <<composed, given, link, next, said, layout, request, answer, dest,
                      clientKey, serverKey>>

Failure(code) ==
    code \notin {"100", "180", "181", "182", "183", "199", "200", "202", "204"}

\* create_ack_request: the headers of the response, and no others.
Acknowledge(how) ==
    LET hdrs == response.hdrs
        header(name) == [name |-> name, val |->
            IF name = "CSeq" THEN [hdrs[name] EXCEPT !.method = "ACK"] ELSE hdrs[name]]
    IN /\ stage = "matched" /\ composed.start.method = "INVITE"
       /\ ~Reliable(link.proto) /\ Failure(response.message.start.code)
       /\ said' = [start |-> [kind |-> "request", method |-> "ACK", uri |-> composed.start.uri],
                   headers |-> <<header("Via"), header("From"), header("To"),
                                 header("Call-ID"), header("CSeq")>>,
                   body |-> <<>>]
       /\ layout' = how
       /\ stage' = "acknowledged"
       /\ UNCHANGED <<composed, given, link, next, heard, request, response, answer,
                      dest, clientKey, serverKey>>

HearAck ==
    LET hdrs == Mandatory(heard.val.headers, link.source.host)
    IN /\ stage = "acknowledged" /\ Understood
       /\ stage' = IF TransactionKey(hdrs["Via"].branch[1], hdrs["CSeq"].method) = serverKey
                   THEN "confirmed" ELSE "strayed"
       /\ heard' = Nothing
       /\ UNCHANGED <<composed, given, link, next, said, layout, request, response, answer,
                      dest, clientKey, serverKey>>

JourneyNext ==
    \/ \E how \in Layouts : Send(how) \/ Acknowledge(how)
    \/ \E code \in Codes, byDialog \in BOOLEAN, how \in Layouts : Respond(code, byDialog, how)
    \/ NoTransport \/ Parse \/ Ignored \/ HearRequest \/ HearResponse \/ HearAck

Journey == JourneyInit /\ [][JourneyNext]_journeyVars

-----------------------------------------------------------------------------
(* Properties.                                                             *)

\* What the printer writes so that the reader finds it again, value by value.
HostBack(host) == host \notin Ip6
Plain(u) ==
    /\ \A p \in ToSet(KnownParams) : u.known[p] = <<>>
    /\ ~u.lr /\ u.params = <<>> /\ u.headers = <<>>
AddressBack(a) ==
    /\ HostBack(a.uri.host)
    /\ a.bare => Plain(a.uri)
    /\ \A k \in DOMAIN a.uri.headers : a.uri.headers[k][2] # <<>>
HeaderBack(h) ==
    CASE Grammar(h.name) = "via" -> HostBack(h.val.host)
      [] Grammar(h.name) \in {"fromto", "route"} -> AddressBack(h.val.address)
      [] Grammar(h.name) = "contact" -> AddressBack(h.val.address) /\ h.val.expires = <<>>
      [] Grammar(h.name) = "cseq" -> h.val.method # Unknown
      [] OTHER -> TRUE
StartBack(start) ==
    IF start.kind = "request"
    THEN AddressBack([bare |-> FALSE, uri |-> start.uri]) ELSE start.code \in StatusCodes
BodyBack(m) ==
    IF Named(m.headers, "Content-Type") = {} THEN m.body = <<>>
    ELSE m.body # <<>> /\ (m.body[1] # <<>> => m.body[1][1] # NL)
LayoutBack(m, how) ==
    how = "spaced" =>
        \A k \in 2..Len(m.headers) : ~(m.headers[k].name = "Via" /\ m.headers[k - 1].name = "Via")
Back(m, how) ==
    /\ StartBack(m.start) /\ BodyBack(m) /\ LayoutBack(m, how)
    /\ \A k \in DOMAIN m.headers : HeaderBack(m.headers[k])

SameHeaders(h1, h2) ==
    /\ [k \in DOMAIN h1 |-> h1[k].name] = [k \in DOMAIN h2 |-> h2[k].name]
    /\ \A k \in DOMAIN h1 : h1[k].val = h2[k].val

\* Every message that goes out, in any layout of a peer, is read back as it
\* was meant, with the Content-Length that was added - exactly if no IPv6
\* address stands for a host, no bare URI has parameters or headers, no
\* Contact has an expiry, the method of CSeq and the status code are known,
\* a body comes with its Content-Type and does not begin with a newline, and
\* no list of Vias has a space behind the comma.
ReadBack ==
    OnTheWire /\ heard # Nothing =>
        ((/\ heard.ok
          /\ heard.val.start = said.start
          /\ SameHeaders(heard.val.headers, Append(said.headers, ContentLength(said)))
          /\ heard.val.body = said.body) <=> Back(said, layout))

\* A response that is understood at all finds the transaction of its request,
\* and an ACK the transaction that answered, across two printers, two readers
\* and the headers that are copied between; the tags of the dialog survive.
KeysMeet ==
    /\ stage # "strayed"
    /\ stage \in {"matched", "acknowledged", "confirmed"} =>
           /\ response.hdrs["From"].tag = composed.headers[Lowest(Named(composed.headers, "From"))].val.tag
           /\ response.hdrs["To"].tag = answer.headers[Lowest(Named(answer.headers, "To"))].val.tag
           /\ response.message.start.code # "100" => response.hdrs["To"].tag # <<>>

\* The response goes back to where the request came from, exactly if it came
\* over a connection or from the port its Via names, and the Via names no
\* other address as the one to answer to.
AnswerReachesSender ==
    dest # Nothing =>
        LET via == request.hdrs["Via"]
        IN (dest.to = link.source) <=>
               \/ Reliable(via.proto)
               \/ /\ Default(via.maddr, link.source.host) = link.source.host
                  /\ Default(via.port, <<"5060">>) = link.source.port

RouteUris(headers) ==
    LET routes == Filter(headers, {h \in ToSet(headers) : h.name = "Route"})
    IN [k \in DOMAIN routes |-> routes[k].val.address.uri]

Occurrences(s, x) == Cardinality({k \in DOMAIN s : s[k] = x})

\* process_route_set neither loses nor repeats a hop: the next hop and the
\* routes that are left are the routes there were, and the Request-URI if one
\* of them was strict.
HopsKept ==
    next # Nothing /\ ~given =>
        LET before == RouteUris(composed.headers)
            after == RouteUris(said.headers)
            all == Append(before, composed.start.uri)
            left == Append(after, next)
        IN stage = "requested" =>
               IF \E k \in DOMAIN before : ~before[k].lr
               THEN \A uri \in ToSet(all) \cup ToSet(left) :
                        Occurrences(left, uri) = Occurrences(all, uri)
               ELSE after = before /\ next = composed.start.uri

\* Where a message goes: its next hop, and its way back.
RightPlaces == AnswerReachesSender /\ HopsKept
=============================================================================
