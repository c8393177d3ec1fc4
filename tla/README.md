# rssip in TLA+

Specifications of the SIP stack in `src/rssip` and of the parts of
`src/rssip-media` that work with it, the TLC runs that check them on small
instances and the proofs, checked by TLAPS, of what holds for every value of
the constants. All paths are relative to the repository's `src/` directory.

    tlc -workers 2 -config MCClientTsx.cfg MCClientTsx      # a run
    tlapm ClientTsxProofs.tla                               # the proofs of a module

`PROJECT.json` lists the components, the runs, the hazards each property is
aimed at, a faulty version of the code for every property (the operators
marked "Fault:" in the modules), and the source lines behind every definition.

## 1. Inventory

rssip is an asynchronous SIP user-agent library on tokio. A *transaction user*
(TU: a dialog, a session or an application plugin) creates transactions through
an `Endpoint`; each transport runs read tasks; every received message is
processed by a task of its own that offers it to the plugins in order.

    transport read task --> process_message task --> Endpoint --> TsxPlugin --> DialogPlugin --> application
                                                                   |  channel(10)    |  unbounded channel
                                                                   v                 v
                                        ClientTransaction / ServerTransaction     Dialog / Session

| Component (source) | State | Operations | Hard behaviour | What makes it correct |
|---|---|---|---|---|
| Client transaction (`transaction/client.rs`, `fsm.rs`, `timers.rs`, `peekable_receiver.rs`) | state, channel, peeked response, deadline, interval of the pending future | `send`, `receive_provisional_response`, `receive_final_response`, drop, linger task | futures abandoned and restarted, timers against late answers, copies of final responses | no response lost or overtaken; bounded late retransmission; silence once answered; failures acknowledged; one outcome; calls return |
| Server transaction (`transaction/server.rs`, `fsm.rs`) | state, receiver, two tasks, broadcast of state changes | `from_request`, `send_provisional_response`, `send_final_response`, drop | hand-over of the receiver between two tasks while the TU waits; copies and ACKs in one channel | the tasks end; no outdated response for long; the ACK silences; one final response |
| Transaction table (`transaction/mod.rs`) | map from key to sender | add, remove, lookup, dispatch | lookup and send are two steps; copies of one request race | no dangling entry; a message reaches only its transaction; dispatch ends |
| Endpoint, plugins (`endpoint/`) | plugin list, transports | requests and responses to plugins; response destination; route set | plugin order | each message is taken by one plugin; ACK and 2xx reach who waits |
| Dialog (`ua/dialog.rs`) | dialog table, CSeq numbers, route set, state | `create_uas`, `create_uac`, `receive`, `wait_for_ack` | in-dialog requests race with creation and drop | CSeq grows; requests reach the dialog they name |
| Session (`ua/session/`) | dialog, INVITE transaction, negotiator | `progress`, `accept`, `receive_answer`, `handle_in_dialog_request` | offer/answer over INVITE, 2xx and ACK | an established session has a negotiated media description |
| Negotiator (`rssip-media sdp/negotiator.rs`) | its state, local and remote description | create and process offers and answers | legal sequences of calls | an answer answers the offer it was made for |
| Transport layer (`transport/mod.rs`, `udp.rs`, `tcp.rs`, `ws.rs`) | registry of transports | select, connect, accept, read tasks | look-up and connect in two steps; connections come and go | the registry leads to live connections; writers do not mix; every send ends |
| Framing (`transport/decode.rs`) | read buffer | decode | any split of the byte stream | framing does not depend on the split |
| SIP parser and message model (`parser.rs`, `message/`) | none | print, parse | texts of other implementations, optional parts, values that contain delimiters | what is printed is read back |
| Routing and keys (`endpoint/mod.rs`, `transaction/mod.rs`, `client.rs`, `dialog.rs`) | the headers of a message | next hop, Via, response headers, ACK | a value copied between four texts | response and ACK find their transaction; messages go where they must |
| SDP codec (`rssip-media sdp/mod.rs`, `sdp/parser.rs`) | none | print, parse | the order of lines, what one side prints and no side reads | two ends of this code agree on the streams |
| Scanner (`rssip-utils scanner/`) | position in a text | read, peek, take | where a reader stops | part of the two codecs |
| RTP session (`rssip-media rtp/mod.rs`) | sequence number, timestamp, queue of 64, two reader tasks | `create`, `write_rtp`, `send_rtp_packet`, `receive`, drop | wrap-around, full queue, shutdown, panicking parsers, abandoned calls | order; gaps count losses; the tasks end |
| RTP and RTCP packets (`rtp/packet.rs`, `rtcp/`) | none | encode, parse | fields that do not fit, compounds, reads past the end | what is written is read, and exactly when |
| DNS resolver (`resolver.rs`) | none | a library call | may fail, several addresses | every address is tried |
| Examples | none | programs that use the library | plugin order | - |

Interactions. `ClientTransaction::send` sends the request through the endpoint
and then registers its sender in the table; `from_request` registers at once;
both remove their entry in `Drop`. The dispatch task looks the key up, clones
the sender under the lock and sends later. The linger task of the client and
the two tasks of the server own the transaction, or its receiver, after the TU
has let go of it. State changes are published on a broadcast channel, which is
how the provisional task of the server learns that it has to give the receiver
back.

## 2. Modules

| Module | What it is |
|---|---|
| `Exchange` | the abstract promise of any SIP transaction: phases that only move forward, an outcome decided at most once |
| `ClientTsx` | one client transaction, the TU's calls, its linger task, the peer |
| `ServerTsx` | one server transaction, its two tasks, the peer, a table entry that can be lost |
| `TsxTable` | the table, transactions that come and go, the dispatch task of every packet |
| `Dialogs` | the plugin chain, the dialog table, sessions that call and are called |
| `OfferAnswer` | the abstract promise of offer and answer: each side speaks once, and an established session has heard both |
| `Negotiation` | the negotiator, and the two kinds of session and an application that drive it |
| `Framing` | the decoder of byte streams, as operators |
| `Transports` | the registry of transports, connections with their read tasks, the tasks that send |
| `Streams` | the rules by which an offer and an answer choose streams, as operators; used by `Negotiation` and `SdpExchange` |
| `Scanner`, `SipText`, `SdpText` | texts as sequences of tokens, the printers and the parsers of both grammars |
| `Hops` | a request, its response and its ACK as texts between two stacks: routing, headers, keys, destinations |
| `SdpExchange` | an offer and its answer as texts between two ends |
| `Rtcp` | the RTCP parser, on bytes |
| `RtpSession` | a session that writes, the network, a session that reads |
| `Selection` | the members of a sequence that are in a set, in order: the loops over a `Vec` that skip, the messages of a stream, what a full queue lets through; used by `Streams`, `Framing`, `RtpSession` and `Hops` |
| `MC...` | the modules TLC checks: the constants of the runs |
| `SelectionProofs` | lemmas about `Selection`, and about functions defined by recursion over numbers; used by the last four of the next |
| `ClientTsxProofs`, `ServerTsxProofs`, `DialogsProofs`, `TransportsProofs`, `RtpSessionProofs` | theorems and proofs of the module each is named for |
| `RoutingProofs` | theorems and proofs about `TsxTable` and `Hops` |
| `NegotiationProofs` | theorems and proofs about `Negotiation` and `SdpExchange` |

`ClientTsx` and `ServerTsx` each INSTANCE `Exchange` (`Promise`) with a
refinement mapping: `phase` is computed from the state and from who owns the
value; `outcome` is what the TU was told (client), or the final response once
the state says so (server).

### ClientTsx

The model starts when `send` returns. `owner` is who holds the value, `call`
the future the TU is awaiting. A receive call (`ReceiveProvisional`,
`ReceiveFinal`) only creates the future; `receive_response_if` is the actions
of `Poll`: a message that is ready comes first (`GotProvisional`, `FoundFinal`,
`FoundProvisional`, `GotFinalAndEnds`, `GotFinalAndLingers`), then the elapsed
interval (`Resend`), then the deadline (`TimeOut`), else the task sleeps
(`Park`). `Cancel` drops the future at an await: a receive of provisional
responses has borrowed the value, a receive of the final one owns it. `chan`
and `peeked` are `PeekableReceiver`; `Take` and `Keep` are `recv` and `recv_if`.
`Absorb` and `LingerEnds` are the spawned linger task.

### ServerTsx

The model starts when `from_request` returns. `send_final_response` is in
several steps, because others run while it awaits: `SendFinal` (on the wire),
`ConcludeAndEnd` or `ConcludeAndLinger` (the state is set, the broadcast
queued), `Join` (the provisional task has given the receiver back; the final
task starts). `ptask` is the provisional task: `TaskLeaves`, `TaskRenews`,
`TaskTakes` are the branches of its biased select in their order and
`TaskSends` the end of the await in the last branch. `GotAck`, `GotCopy`,
`Resend`, `GiveUp`, `ChannelClosed` and `Wake` are the final task. `LoseEntry`
is what `TsxTable` shows to be possible: a twin with the same key replaces or
removes the entry.

### TsxTable

A transaction is `sent` (a client whose request is out and whose entry is not
there yet), `live`, and is removed from the table and closed in the order its
fields are dropped. A packet goes through `Found` (sender cloned) or `NotFound`
(left to the next plugin, whose TU may `Create` a transaction), then `Deliver`,
which waits while the channel is full, or `DeliverFails`. Client keys are drawn
by `generate_branch` and are not reused; a server key is chosen by the peer and
is shared by all copies of a request.

### Dialogs

An incoming request is a packet with a task (`pos`): `NotInDialog`,
`DialogFound`, `DialogUnknown` are `DialogPlugin::incoming_request`, `Absorbed`
and `NoTransaction` the transaction plugin, `FromInvite` and `Ignored` the
application. `Deliver` comes after the lookup, when the dialog may be gone. A
session is at one await (`life`): `Accepted` is the end of the send in
`accept`; `WaitIgnores`, `GotAck`, `GotBadAck`, `NoAck` are `wait_for_ack`;
`GotReinvite`, `TaskIgnores`, `GotBye`, `ByeAnswered`, `ByeAnswerFails` are
`handle_in_dialog_request`. `Take`, `Stale` and `Refusal` are
`Dialog::receive` with the check of the sequence number, part of every one of
them; `End` is the drop of the dialog on every way out, panics included.
A session that calls goes from `SendInvite` to `Answered` or to one of its
failures. The order of the two plugins is a variable that never changes.

### Negotiation

`nego` is the value of a `Negotiator`; its functions (`SetLocal`, `SetRemote`,
`CreateAnswer`, `ProcessAnswer`) return the next value, and `Answer` is the loop
of `create_answer`. The caller's `receive_answer` is `AnswerWithoutBody`,
`OfferUnanswered`, `DelayedOffer`, `AnswerInResponse`, then `SendAck`; the
callee's `accept` is `AcceptOffer` or `AcceptAndOffer`, then `AnswerInAck`,
`AnswerMissing` or `GotAck`. `Tell` is the call of the handler with its three
`expect`s. The actions named `Call...` are an application that uses a
negotiator by itself. `Negotiation` INSTANCEs `OfferAnswer`: `spoken` is the
record of who sent a description, `phase` is computed from the stage.

### Framing and Transports

`Decode` is `StreamingDecoder::decode` on the bytes read so far. A turn of
`tcp_read` (`Turn`) asks it first and then reads (`Read`, any number of the
bytes under way), passes a message on (`Hear`), notes a keep-alive
(`HearKeepalive`), or ends (`ReadFails`, `EndOfStream`). A keep-alive request is
answered under the lock of the writers, by two parts of its own (`StartAnswer`,
`FinishAnswer`, or `AnswerFails`). `Closed`
removes the entry of the connection, `Broken` is the return of an error, which
leaves it. `Accept`, `Connected` and, for a WebSocket, `Register` are the ways
into the registry. A sender is `SendRequest` or `SendResponse`, then `Resolve`,
`Select` for each address, `Connected` or `Refused`, and for TCP `StartWrite`,
`FinishWrite`, `WriteFails`: two parts, because `write_all` may suspend in
between. `SendWhole` is a WebSocket or a datagram. `HangUp` and `Reset` are the
peer and the network. A peer may also stop reading for good (`Stall`): nothing
more of a write gets out, and whoever is in the middle of one keeps the lock
until the connection is reset (`HeldUp`, `ReaderHeldUp`).

### Scanner, SipText and Hops

A text is a sequence of tokens: the delimiters of its grammar (`SP` is a space,
`NL` the end of a line), and words for runs of characters that delimit nothing.
A run in which the code may stop is several words: digits are a word of their
own, and so are the prefixes IN, IP4 and IP6 that `parse_connection_info` takes
(3gpp-tt is "3", "gpp-tt", and INET is "IN", "ET"). A value in a message is such
a sequence, so that words printed next to each other are read as one value, as
in the code. `Bits` gives how wide a number is: one that does not fit the `u8`,
`u16`, `u32`, `u64` or `i64` it is read into is refused. A reader starts at a
position and returns where it stopped. `SipText` has the printers (`Display` of `message/`)
and the readers (`parser.rs` and the headers' own). `Hops` starts with a request
as an application composes it. `Send` is `ClientTransaction::send` with
`ProcessRouteSet`, `WithVia` and the key; `Parse` is the parser at the other
side; `HearRequest` notes the source in the Via (`Noted`) and makes the server's
key; `Respond` is `create_response`, by the endpoint or by a dialog, and
`get_response_destination`; `HearResponse` and `Acknowledge` are the client
again. The message may be written in a layout of another implementation (short
names, lists of values, spaces behind commas), which this code has to read. The
specification is `Journey`, from `JourneyInit` and `JourneyNext`.

### SdpText and SdpExchange

`SdpText` has every line that is printed and every line that is read, and the
types of the values a text can carry: the constant `Words` is what texts are
made of, and a value has no delimiter that would end it. The loop of the parser
is a function of the number of fields read (`ReadSdp`), a line of it `NextField`.
`SdpExchange` is an exchange with the texts between: `SdpOffer` and `SdpAnswer`
are `create_offer` and `create_answer` with their attributes, `HearOffer` and
`HearAnswer` what is read. `StreamsOf` maps a description to what `Streams`
sees of it: `Understanding` says that two ends of this code, with two printers
and two parsers between, end with the streams that the rules of `Streams`, the
ones `Negotiation` uses, give for what was offered. The specification is `Talk`,
from `TalkInit` and `TalkNext`; `turn` is how far the exchange has come.

### Rtcp and RtpSession

`Rtcp` returns where each kind of packet ends, or that the parser fails (too
short, an unknown kind, or a text that is not UTF-8: `Utf8` is Unicode's table of
well-formed byte sequences) or panics (a `todo!()`, or a read of the `bytes`
crate past the end).
A `Header` is `RtpHeader` with its version, padding, extension and marker;
`Byte0` and `Byte1` are the first two bytes as `send_rtp_packet` makes them, with
a fixed version and neither padding nor extension, and `Encodable` says for which
headers that loses nothing.
`RtpSession` is one direction: `WriteRtp`, `WriteFails`, `SendRtpPacket` write;
a reader takes any datagram in flight (`Recv`), so the network loses, delays
and reorders; it then offers the message to the queue (`Offer`: `try_send`) or
meets an error of its socket (`RecvFails`) or the end of the session
(`Shutdown`). `CallReceive`, `Receive`, `ReceiveNone`, `Cancel` are a call of
`receive`, which may be abandoned.

### Abstractions

* In `Framing` the header lines are one byte that says which length they name,
  if any; a length that does not fit the machine is left out. A peer writes
  messages, keep-alive requests and keep-alive responses (`IsStream`), and no two
  responses without a message or a broken one between them: it has nothing to
  respond to, and CR LF CR LF is a request, whoever meant it as two responses.
* In `Transports` there is one listening address, shared by the TCP and the
  WebSocket listener and the UDP socket. A connection opened from here has an
  address of its own. A WebSocket carries whole messages and its payload, its
  queue of 1000 and the datagrams received are not followed. A sender is never
  cancelled in the middle of a write.

* In the text modules a word stands for any run of characters without
  delimiters and without a place where the code may stop. Sequences of words that
  break this rule (two numbers in a row, a word that begins with a digit) stand
  for no text; what is said of them says nothing of the code. A sign is part of
  its word; the `+` that Rust's `parse` would take in front of a `ttl`, an `rport`
  or an `expires` is left out. Headers the stack does not read
  itself are lines; the q of Contact, comments in Via, media types and
  authentication are left out. White space is there only where a reader could
  stop at it.
* In `RtpSession` payloads are lengths, the errors of a socket are the one that
  is ignored and the others, and a reader task that panics has ended.
* In `Negotiation` a stream is its kind, whether its port is 0, its direction
  and its formats; a panic ends the session.

* In `Dialogs` the peer numbers INVITE and ACK 1, re-INVITE 2 and BYE 3; a copy
  is the same request in another packet. SDP is left out: an answer can be used
  or not. Transactions are their table entries. The timer of `wait_for_ack` may
  fire whenever the channel is empty, since each request starts it again.

* A response is its class (1xx, 2xx, 3xx to 6xx), a request is a copy or an
  ACK, a key is a model value that knows its role.
* Sending does not fail in `ClientTsx`: encoding writes to a growing buffer
  and `send_outgoing_request` logs socket errors and goes on. In `ServerTsx` a
  failed send of the final response is the same as `DropTsx` before it.
* In `ClientTsx` sends are atomic with the poll that makes them, and no time
  passes between the creation of a future and its first poll (`fresh`).
* Time is a counter. A timer fires at its instant or up to `Slack` later. The
  clock is followed until `Slack` after the last armed timer.
* The range `200..299` of `server.rs` and `client.rs` leaves out 299; none of
  the named status codes has that value, and it is not modelled.

## 3. Runs

| Run | Checks | Bounds |
|---|---|---|
| `client` | `TypeOK`, `ResponsesInOrder`, `ProceedingIsEarned`, `EachFailureAcked`, `RequestsInTime`, `KeepsPromise`, `NothingHangs` | T1 = 1, T4 = 2, TimeoutFactor = 4, ChanCap = 2, 3 responses, Slack = 2 |
| `server` | `TypeOK`, `MailboxOpen`, `SentInPlace`, `KeepsPromise`, `NothingHangs` | T1 = 1, T2 = 3, T4 = 5, TimeoutFactor = 4, ChanCap = 2, 3 requests, 2 provisional responses, Slack = 2 |
| `table` | `TableSound`, `RightTransaction`, `EveryPacketEnds` | 3 transactions, 3 packets, one key of each role, ChanCap = 1 |
| `dialogs` | `TablesSound`, `EventsInOrder`, `AckNeverAnswered`, `OneGoodbye`, `NumberFallsOnlyByAck`, `NothingHangs` | 1 session, 4 packets, both plugin orders |
| `negotiation` | `AnswerSound`, `OffersPresent`, `AnswerIsFinal`, `KeepsPromise` | up to 2 streams on each side, 5 directions, 61 local and 73 remote descriptions, every pair of them |
| `transports` | `TypeOK`, `RegistryTracksConnections`, `MessagesIntact`, `WholeWrites`, `Progress` | 2 connections and 1 sender, 1 connection and 2 senders, or 1 connection with one of three streams of up to 3 items and 1 sender; the read tasks as further writers, 1 reset, 1 peer that stops reading, two routes of 2 addresses |
| `hops` | `ReadBack`, `KeysMeet`, `RightPlaces` | 29 requests, 4 transports, 6 status codes, 4 layouts |
| `sdp` | `TextsReadBack`, `Understanding` | 57 offers of up to 2 streams out of 9, 5 directions, 31 descriptions of another implementation |
| `rtp` | `TypeOK`, `InOrder`, `GapsCountLoss`, `ReadAsWritten`, `EndsAreNoticed` | a queue of 2, counters of width 2, 3 RTP and 1 RTCP datagrams, 1 failure, 2 calls; 12 headers and 12 RTCP datagrams of the peer, of which 11 and 10 are sent alone |
| `client_unreachable`, `dialog_caller`, `negotiation_missing` | one statement of the repository each, which the code does not keep (section 5) | the code's timer values with T1 as the unit (T2 = 8, T4 = 10, 64, channel of 10); 1 session, 3 packets; the descriptions as above |

What they show. `RequestsInTime` joins two statements about retransmissions:
at most one goes out at or after the deadline, none once an answer has been
seen; `SentInPlace` is their counterpart of the server: at most one outdated
provisional response after a newer one, an interval that stops at T2, silence
once confirmed. `TableSound` and `TablesSound` say that tables and their owners
agree in every state. `NothingHangs` is the liveness of each. `KeepsPromise` is
the refinement of `Exchange` or `OfferAnswer`. `ReadBack`, `TextsReadBack` and
`ReadAsWritten` are equivalences: a text or a packet is read as it was meant
exactly if it is of the kind the property lists, so a parser that reads less,
or one that reads more, breaks them. `KeysMeet` follows the branch, the method
and the tags through the four texts of a transaction. `RightPlaces` says when a
response goes back to where its request came from, and that the route set loses
and repeats no hop. `InOrder` follows every message from its socket to the
application. `GapsCountLoss` says that the peer can count its losses.

Why the bounds are enough. All four kinds of transaction (INVITE or not,
reliable or not) are in one state space. With a deadline of 4 the interval
doubles twice before it and calls can be abandoned and restarted before, at and
after it; `Slack` 2 lets a retransmission and the deadline be due in one poll.
Three responses are one that is peeked, one that waits behind it and one that
comes while the transaction lingers. Two slots fill up with three messages. On
the server T1, T2, T4 are such that the interval reaches its cap before the
task gives up; two provisional responses and three requests are an outdated
response on its way and two further copies. In the table, two transactions with
one key and a third with another, and three packets, give every order of two
copies of a request with a third message. Four packets are an INVITE, its ACK
and two more (two copies of a BYE, a re-INVITE overtaken by a BYE, a late copy
of the ACK), in every order; two sessions made of copies of one INVITE are the
subject of `table`, since what they share is the entry of their transaction.

In `transports` two connections are two accepted by one listener, or one
accepted and one opened. The streams hold both keep-alives in a row, a message
whose content looks like the end of headers or a keep-alive, an empty one and one
without a length, and every cut of them into reads is explored. Two senders, or
a sender and the read task with the answer to a keep-alive, meet on one
connection, so each waits for the lock behind the other, and each may hold it
when the connection is reset or the peer stops reading. `MaxBusy` and `MaxBeside`
bound what exists together: two writers on one connection or one on two, and
nothing but one sender beside a connection that carries a stream, which loses
little, as connections share only the registry; the proofs are for every value of
these bounds. The routes lead to every branch of `select_transport`.

In `hops` and `sdp` each request and each foreign description differs from a
plain one in one respect, and one in every respect the grammars have: every
part that is printed conditionally, every delimiter a value may hold, every
branch of the route set. What is independent in the code is not combined. `sdp`
has net types that begin with IN, in a connection and in an origin, names that
begin with digits, and numbers too wide for their field. In `rtp` counters of width 2 wrap with the second packet; of three packets
one is lost between two that arrive; a queue of 2 holds messages of both readers
in an order, and is full while a third waits; the proofs are for every width,
size and number of packets. There are headers whose payload type, number of sources, version, padding or
extension is not written as it is, and compounds with texts, with bytes that are
no text, and with lengths that lie; `LoneHeaders` and `LoneDatagrams` keep all
but the plainest from being under way with anything else, since the codecs keep
nothing from one datagram to the next.

Fairness. tokio polls a woken task again: weak fairness of the pending call
(`Poll`), the linger task, `Conclude` (a `send_final_response` that can go on),
the provisional and the final task; and of `Tick`, time passes. The TU, the
peer and the loss of an entry have none. `table` also assumes that dispatch
tasks run, that `send` gets to register what it has sent, and that every
transaction ends (`RemoveTransaction` or `Close`), without which a full channel that
nobody reads blocks its dispatch task for good. That assumption is on the TU,
not on the library. `dialogs` assumes that the runtime polls the future of
`accept` and the task of a session; `NoAck` is among its steps because tokio's
timer fires. The caller and the network owe nothing, so a session that no BYE
reaches stays. `transports` assumes that read tasks and senders are polled and
that a connection that is asked for is made or refused. Peers need not write,
close or *read*: `write_all` (`tcp.rs:72`) has no timeout, so the steps of a
write to a peer that has stopped reading are disabled and no fairness makes them
happen. `Progress` says what is left: a send ends unless it is `HeldUp`, that
is, its own write is to such a peer or the lock it waits for belongs to one
whose is, and a read task goes on unless it owes such a peer the answer to a
keep-alive. A send held up like this is one the code never ends. `rtp` assumes that a reader that holds a message goes on, that a call of
`receive` that can return does, and, strongly, that a reader leaves when it can:
`shutdown` is one of two branches of a `select!` that picks a ready one at
random, so a busy socket does not keep it off for ever.

## 4. Proofs

The proofs hold for all values of the timers, sizes and bounds that satisfy the
`ConstantsAssumption` of each module. `ClientTsxProofs` and `ServerTsxProofs`
prove the type invariant, the safety invariants and action properties of the
runs (`RequestsInTime` and `SentInPlace` as conjunctions of their parts), and
the refinement of `Exchange`; `DialogsProofs` every safety property of its run,
for any number of sessions and packets; `RoutingProofs` those of `table`, for
any number of transactions and packets, and `RightPlaces` of `hops`, for all
requests and transports; `NegotiationProofs` every property of `negotiation`,
for all descriptions, and of `sdp`, for all offers, answers and descriptions of
another implementation, of any length;
`TransportsProofs` the safety properties of its run for any number of
connections and senders and all that peers may write; `RtpSessionProofs` those
of its run for every width of the counters, size of the queue and datagram.

`TransportsProofs` assumes `IsStream` of what a peer writes (section 2,
Abstractions), which TLC evaluates on the streams of the run. Without the part
about responses in a row the second half of `MessagesIntact` is false: the code
answers the two as one request.

The proofs about texts assume what makes a text mean something.
`HopsAssumption`: a message has a list of headers, each with a name and a value,
and a transport one protocol and two addresses. `TextAssumption` and
`TalkAssumption`: the delimiters, letters and names of the grammar are words, a
number or an address has no delimiter in it; what an application asks for and
what another implementation describes are values that can be written down
(`ParamsType`, `SdpType`: nothing contains the delimiter that ends it); two
formats have two numbers; and the numbers of an application and of the code fit
the integers that hold them. The types of the code give all of this, except for
the strings an application chooses itself. TLC evaluates the assumptions on the
constants of the runs.

Several proofs are about functions defined by recursion, over the places of a
sequence (`Filter`, the items of an SDES packet) or over places that only grow
(`Boundaries`, `RtcpCompoundPacket`). No induction theorem of the library can be
used, since it takes a predicate as an operator. `SelectionProofs` therefore
states induction for the *set* of the numbers for which something holds
(`Induction`, from the least element of a set), and derives from it that the
functions exist (`Recursion`, `RecursionUp`) and obey their equations. From
`FilterAppend`, the equation of `Filter`, follow what it keeps (`FilterKeeps`),
that it distributes over concatenation (`FilterConcat`) and that the selected
places are as many as the set has and increase (`FilterPlaces`).

* Client. `IInv` is `TypeOK` with *Ownership* (a future is pending only while
  the TU holds the value and only in the first three states; Completed belongs
  to the linger task), *Unanswered* (while the request may be retransmitted
  nothing of the peer has been seen), *Lateness* (after a retransmission past
  the deadline, a future that could retransmit again is about to be polled
  before its interval elapses) and *Undecided* (no outcome while the TU is still
  to be told one). `OneLateResend` alone is not inductive: it needs to know
  where the pending interval ends, which is *Lateness*. `ResponsesInOrder` is
  inductive with the types alone; `ProceedingIsEarned` needs that what was taken
  is not taken back; `EachFailureAcked` rests on lemmas that count the positions
  of a class in a sequence.
* Server. `IInv` is `TypeOK` with *Ownership* (each station of the value has its
  state and its answer), *Broadcast* (once the state has moved on a running task
  has the change queued, and it leaves only then), *OneReader* (the channel
  belongs to the TU, the provisional task or the final task) and *Staleness* (a
  task about to repeat an outdated response has not repeated one since it is
  outdated), which makes `AtMostOneStale` inductive.
* Negotiation. `IInv` says what has been spoken at each stage of each role, and
  which offers are there in each state of the negotiator. From it follow
  `OffersPresent`, `AnswerIsFinal` and the refinement of `OfferAnswer`, for all
  descriptions. `AnswerSound` needs *Held*: an answer of our own is the one
  `create_answer` makes of the two offers the negotiator still holds, and these
  did not clash. That such an answer fits is then a fact about `Answer`: its
  streams are those at the places `FilterPlaces` gives, and for a stream the
  directions are gone through.
* Transports. `DecodeStable`: what the decoder takes off the buffer stays the
  same when more bytes follow, because the first end of headers and the length
  lines before it do; a keep-alive response is the exception, since CR LF may be
  half of a keep-alive request. `RegistryTracksConnections` needs *Known* (a
  connection in use has a side and a protocol) and the argument that only
  accepted connections share a key. `WholeWrites` needs that a task in the middle
  of a write holds the lock (*Owned*) and that an open message at the end of
  what was written belongs to the holder (*Ending*).
* What is heard. `MessagesIntact` needs *StreamInv*: the bytes in the buffer
  and on the wire, with those that a broken connection lost, are the bytes from
  some place of the stream on; the messages passed on are those of the items
  before that place. The place is not always between two items: a request that
  arrives in two reads is taken for two responses, so it may be in the middle of
  one. The answers are therefore counted in halves: a request that was answered
  needs two half requests before the place, of which a request in the stream
  gives two and a response, if it is alone, one more (`Due`). `NextItem` is what
  the decoder makes of each kind of item, `TakeHalf` and `TakeMessage` what a
  frame taken off does to the place, and `DecodeStable` carries both from all
  bytes to those read so far.
* Table. A packet that has found its sender carries the key of the transaction
  it found, and what is in a channel came from such a packet; a transaction in
  the table is live and has the key of its entry. An entry is lost only to a
  transaction of the same key, which the action property inside `TableSound`
  needs the key of every removed entry for.
* Dialogs. `IInv` is the four invariants with *Routed* (a packet on its way to a
  dialog names it and is not answered), *Queued* (what waits in a channel was
  sent to that dialog, waits there once, and is not the BYE being answered),
  *Told* (what the handler has heard at each stage), *Leaving* (the BYE that a
  session has taken was not answered by a plugin, and only a session that is gone
  has answered 200) and *Fresh*. `OneGoodbye` is not inductive by itself: that
  the second BYE is not answered needs *Leaving*, and that a BYE is not in the
  channel and answered at once needs that it waits there only once.
* RTP. *Numbering* relates every packet to the counters of the session and any
  two packets to each other, modulo the width; it is kept because wrapping at
  each step is wrapping once at the end (`WrapOnce`, from the uniqueness of
  quotient and remainder). *Passed* says that what is on its way was sent and
  was parsed, *Encoded* that a datagram is the wire form of its header, and
  `CodecFaithful` what the parser makes of that, for every header: it is the
  header again exactly if it is `Encodable`. `InOrder`
  needs *Ordered*: a reader that holds a message holds the last one it has
  taken, which is neither queued nor discarded yet, and what was queued, handed
  out or not, is what it took before without what was discarded; without the
  first part a step of the other reader could come between. The RTCP half of
  `ReadAsWritten` needs *KeptParsable* (a report that was passed on was parsed)
  and `CompoundTold`, for every sequence of bytes: the parser of compounds and
  the function that follows the length fields agree from a place on exactly if
  every packet from there tells its end (`FoundAsTold`, by induction from the end
  of the datagram).
* Routes and ways back. `RightPlaces` needs *Travelling*: what the server heard
  came over the transport the request was sent on, and its Via has the source as
  `received`, so the destination can be compared with the source. That no hop is
  lost or repeated is a fact about counting: `Occurrences` of a URI among the
  routes of a list of headers is a sum over the parts the list is cut into
  (`FilterConcat`), and removing, inserting and appending a header cut it in two
  or three.
* Texts. `TextsReadBack` and `Understanding` need *TalkInv*: what was sent was
  created from what had been read, and what is held is what can be read of it.
  Everything else is about the two functions. One direction is `TextRead`: lines
  *carry* the parser from what it has read to what it has read with them
  (`Carries`), wherever they stand in the text, and so do lines behind each
  other; each line of the grammar carries its own value, and the text as a whole
  the whole description. A media that cannot be read makes its text an `Error`
  wherever it stands (`Fails`). The other direction needs what the parser *can*
  have read of any text (`SdpsRead`, closed under every field the loop can come
  to): that has numbers where numbers are, addresses where addresses are, and
  the empty parts the parser never fills, so a description outside it is never
  what was read. Together they are the equivalence (`ReadAsMeant`). Descriptions
  of this code have no titles (`Titleless`), so the letter of the title line
  does not matter for them, and an answer to anything that was read is of this
  kind again (`AnswerParts`). That the answer has the streams the rules give
  (`AnswerStreams`) is exchanging the look-up of a format with the filter
  (`FilterLooked`), and the formats left decide whether it can be heard:
  its media are of the kinds of the offer, which was read.
* Refinement. `StepImplements` shows action by action that a step is
  `Progress`, `Conclude`, `Finish` or a stutter of `Exchange`.

Only model-checked: `ReadBack`, which is for the SIP grammar what
`TextsReadBack` is for the SDP grammar, with many more readers, values
nested in values and four layouts, and `KeysMeet`, which is about what was read
of such texts; and all liveness (`NothingHangs`, `EveryPacketEnds`,
`EndsAreNoticed`, `Progress`), since fairness and ENABLED are outside what the
prover handles.

## 5. Where the code and its texts disagree

| Run | Text | Code |
|---|---|---|
| `client_unreachable` | `client.rs:273` `unreachable!()` | `receive_final_response` after a timed-out `receive_provisional_response` reaches it |
| `dialog_caller` | `dialog.rs:172`, the remote tag must be set to the To tag of the response | nothing sets it: no request of the peer finds the dialog of a caller |
| `negotiation_missing` | `session/mod.rs:157` and `:281`, `expect("a offer")` | `process_answer` keeps no remote offer: a session whose own offer is answered panics |

Without a run of their own, since one step shows them: `timers.rs:6` calls T2
the maximum interval of non-INVITE requests and `client.rs:238` doubles without
a maximum; `client.rs:606` says a client INVITE must generate an ACK on a
failure and over a reliable transport `client.rs:170` returns before it;
`server.rs:282` expects the entry of a transaction that is not dropped, and of
two copies of a request processed at once the end of one removes the entry of
the other (`TableSound` states exactly that); the unit test at
`negotiator.rs:495` offers a host name in `o=`, which `parse_origin` refuses.
The tests that ask for the ACK of a failure run over UDP, and `EachFailureAcked`
takes the early return over a reliable transport as the code has it: it would not
object to it.

What `ReadBack` and `TextsReadBack` say in one formula, in words. SIP: IPv6
hosts are printed without brackets and not read; a bare URI loses its
parameters; the expiry of a Contact is printed as a number alone; a status code
or a method of CSeq outside the lists is not read; a list of Vias with a space
behind the comma is not read; a body is read only with a Content-Type, whatever
the Content-Length. SDP: a `b=` line is always an error; the title of a media is
printed with the letter `t`; several ports, media of type application and
negative repeat times are refused; a `z=` line or one with an unknown letter is
not skipped, the parser goes on behind its `=` and fails at what comes there
unless that looks like a line; a connection whose net type begins with IN (INET)
is printed and cannot be read, although an origin of that net type can; an answer
whose streams have no common format is printed and cannot be read; the rtpmap of
a codec outside the list of five is refused, or, if the name of the codec begins
with digits (3gpp-tt), read with these as its clock rate and without a name.
RTP: the version, padding and extension of a caller's header are not written,
and a payload type or a number of sources that does not fit reaches other fields;
one text that is not UTF-8 fails its whole RTCP datagram.

Behaviour the models have as the code has it, worth knowing: a client in
Proceeding is not retransmitted even for a non-INVITE request;
`receive_final_response` that meets a 1xx reports a closed channel and drops the
transaction; the final task of an INVITE gives up after T4 and, when its channel
closes, leaves without setting Terminated; over a reliable transport the server
passes through Completed to Terminated at once; a response that overtakes the
registration of its client transaction is discarded; a request with an old
sequence number is refused with 500 and then handled all the same; every request
that comes instead of the ACK starts the timer of `wait_for_ack` again, so a peer
that goes on sending keeps the session waiting (`NothingHangs` shows only that it
ends once the requests do, which are bounded; no property bounds the wait); a BYE that
comes before the ACK is swallowed without an answer; an old ACK takes the
sequence number of the peer back; an offered `sendrecv` is answered `sendrecv`
even by a side that only sends or only receives; an answer leaves out a stream
whose port is 0 instead of refusing it, so later streams move up; a transport is
registered under its local address and looked up by the remote one, so a
connection is never used for a second request; the connections of one listener
replace each other in the registry, and one whose reading fails stays in it; a
keep-alive request that arrives in two reads is taken for two responses, and two
responses that arrive in one for a request; a response goes to the next address
when its write fails, a request does not; the next hop of a request is its first
strict route wherever that stands, loose routes do not count, and the
Request-URI is put before the last route; `rport` is never used, so a response
to a client behind another port goes to the port of its Via; the `maddr` of a
Via is answered to before `received`, so a response to a request whose Via has
one comes back to its sender only if that is the sender's own address; a request
within a dialog is addressed to the caller's own contact; an RTCP report takes
the rest of its datagram with it; an RTP packet with padding, or with fewer
sources than it announces, panics its reader task, and the session goes on
without it.

## 6. Not modelled, and why

* `from_request` and the part of `send` before the request is out, up to their
  return: `TsxTable` has the order in which they register, the rest is data.
* Requests within a dialog (`create_request`, a BYE of ours) and CANCEL: no code
  in the repository sends them through a session.
* The receive loops of UDP and WebSocket and the queue of a WebSocket: each
  hands on one whole message and keeps no state; TLS has no code.
* Headers the stack does not read itself, authentication, the text of names and
  reasons: sequential tables without a consumer in the code modelled here.
* What a name resolves to: a library.
* The builder of the endpoint and the examples: they call the library once, in
  one order, and are read for the order of the plugins.

## 7. Plan

Done, in this order: `Exchange`, `ClientTsx`, `ServerTsx`, `TsxTable`;
`Dialogs`; `OfferAnswer` and `Negotiation`; `Framing` and `Transports`;
`Streams`, `Scanner`, `SipText`, `Hops`; `SdpText`, `SdpExchange`; `Rtcp`,
`RtpSession`; the proofs of the transactions, dialogs, negotiations, transports
and RTP sessions, and `Selection` with the induction they rest on; the proofs
about routes and destinations, and about the texts of offers and answers.

Left:

1. `Call`: a client and a server transaction over a network that loses,
   duplicates and reorders, as one system over two copies of `Exchange`.
2. Requests within a dialog and CANCEL, when the code sends them.
3. Proofs: what a printed SIP message is read as (`ReadBack`), along the lines of
   `ReadAsMeant`, and from it `KeysMeet`.
