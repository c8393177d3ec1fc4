----------------------------- MODULE Transports -----------------------------
(***************************************************************************)
(* The transport layer: the registry of TransportLayer (transport/mod.rs), *)
(* the connections of tcp.rs and ws.rs with the task that reads each of    *)
(* them, and the tasks that send through them (Endpoint in                 *)
(* endpoint/mod.rs).                                                       *)
(*                                                                         *)
(* A connection is registered under its own local address.  Connections    *)
(* accepted by one listener therefore share a key; the local address of a  *)
(* connection that was opened from here is its own.                        *)
(*                                                                         *)
(* TCP is a stream: every read returns some bytes, a write may go out in   *)
(* two parts, and the decoder of Framing finds the messages.  A WebSocket  *)
(* carries whole messages; of it only the life of the connection is        *)
(* followed, and of UDP only that its one socket is registered and sends.  *)
(***************************************************************************)
EXTENDS Framing, FiniteSets

CONSTANTS
    Conn,           \* connections that may come to exist, numbered in order
    Peer,           \* remote addresses
    Here,           \* local address of the listeners and the UDP socket
    Native,         \* the peers of the address family of the UDP socket
    Udp,            \* the UDP transport
    Sender,         \* tasks that send a request or a response
    ReadTask,       \* the task that reads a connection, where it writes
    Nobody,
    Streams,        \* what a peer may write on a TCP connection
    MaxResets,      \* bound: connections that are reset
    MaxStalls,      \* bound: connections whose peer stops reading
    MaxBeside,      \* bound: connections beside one that carries a stream or
                    \* whose peer has stopped reading
    MaxBusy,        \* bound: connections, of which one with a stream counts
                    \* twice, and senders
    Routes          \* resolved addresses, a sequence of [addr, proto]

Proto == {"udp", "tcp", "ws", "wss"}
Key == [addr : Conn \cup Peer \cup {Here}, proto : Proto]
Link == Conn \cup {Udp}

ASSUME ConstantsAssumption ==
    /\ Conn \subseteq Nat /\ Conn \cap Peer = {} /\ Here \notin Conn \cup Peer
    /\ Udp \notin Conn
    /\ Nobody \notin Link \cup Sender \cup Peer
    /\ ReadTask \notin Sender \cup {Nobody}
    /\ Native \subseteq Peer
    /\ MaxResets \in Nat /\ MaxStalls \in Nat /\ MaxBusy \in Nat /\ MaxBeside \in Nat
    /\ Streams \subseteq Seq(Seq(Nat))
    /\ \A items \in Streams : IsStream(items)
    /\ Routes \subseteq Seq([addr : Peer, proto : Proto])

VARIABLES
    registry,       \* TransportLayer.transports
    status, side, proto,    \* each connection
    said,           \* the items the peer writes on it
    wire,           \* bytes written by the peer and not read
    buffer,         \* bytes read and not decoded
    heard,          \* messages passed to receive_message
    answering,      \* the reader is in send_msg with a keep-alive response
    shut,           \* the peer has ended its stream
    dead,           \* the connection was reset
    stalled,        \* the peer has stopped reading, and no more can be queued
    lock,           \* the holder of write_half: a sender or the read task
    out,            \* what was written, in parts
    task,           \* how far each sender is
    kind,           \* a request, a response, or a response on the transport
                    \* of its request
    todo,           \* addresses it has not tried
    via             \* the transport it has selected

linkVars == <<registry, status, side, proto>>
readVars == <<said, wire, buffer, heard, answering>>
writeVars == <<lock, out>>
faultVars == <<shut, dead, stalled>>
senderVars == <<task, kind, todo, via>>
vars == <<linkVars, readVars, writeVars, faultVars, senderVars>>

-----------------------------------------------------------------------------

\* "fresh": a WebSocket whose task has not registered it.  "broken": the
\* reader has returned on an error and left the registry as it was.
Status == {"unused", "fresh", "running", "closed", "broken"}

Byte == Nat
Writer == Sender \cup {ReadTask}
Part == [by : Writer, part : {"first", "rest"}]

Task == {"idle", "resolving", "choosing", "connecting", "holding",
         "writing", "ended"}

TypeOK ==
    /\ registry \in [Key -> Link \cup {Nobody}]
    /\ status \in [Conn -> Status]
    /\ side \in [Conn -> {"in", "out", "none"}]
    /\ proto \in [Conn -> Proto \cup {"none"}]
    /\ said \in [Conn -> Seq(Seq(Byte))]
    /\ wire \in [Conn -> Seq(Byte)]
    /\ buffer \in [Conn -> Seq(Byte)]
    /\ heard \in [Conn -> Seq(Seq(Byte))]
    /\ answering \in [Conn -> BOOLEAN]
    /\ shut \in [Conn -> BOOLEAN]
    /\ dead \in [Conn -> BOOLEAN]
    /\ stalled \in [Conn -> BOOLEAN]
    /\ lock \in [Conn -> Writer \cup {Nobody}]
    /\ out \in [Conn -> Seq(Part)]
    /\ task \in [Sender -> Task]
    /\ kind \in [Sender -> {"none", "request", "reply", "response"}]
    /\ todo \in [Sender -> Seq([addr : Peer, proto : Proto])]
    /\ via \in [Sender -> Link \cup {Nobody}]
    /\ \A u \in Sender : task[u] \in {"holding", "writing"} => via[u] \in Link
    /\ \A u \in Sender : task[u] = "connecting" => todo[u] # <<>>
    /\ \A c \in Conn : lock[c] \in Sender =>
        task[lock[c]] = "writing" /\ via[lock[c]] = c

KeyOf(addr, protocol) == [addr |-> addr, proto |-> protocol]

\* TransportKey::from: the local address and the protocol.
Local(c, s) == IF s = "out" THEN c ELSE Here
OwnKey(c) == KeyOf(Local(c, side[c]), proto[c])

\* The endpoint is built: the UDP socket is registered, the listeners are
\* not.
Init ==
    /\ registry = [k \in Key |-> IF k = KeyOf(Here, "udp") THEN Udp ELSE Nobody]
    /\ status = [c \in Conn |-> "unused"]
    /\ side = [c \in Conn |-> "none"]
    /\ proto = [c \in Conn |-> "none"]
    /\ said = [c \in Conn |-> <<>>]
    /\ wire = [c \in Conn |-> <<>>]
    /\ buffer = [c \in Conn |-> <<>>]
    /\ heard = [c \in Conn |-> <<>>]
    /\ answering = [c \in Conn |-> FALSE]
    /\ shut = [c \in Conn |-> FALSE]
    /\ dead = [c \in Conn |-> FALSE]
    /\ stalled = [c \in Conn |-> FALSE]
    /\ lock = [c \in Conn |-> Nobody]
    /\ out = [c \in Conn |-> <<>>]
    /\ task = [u \in Sender |-> "idle"]
    /\ kind = [u \in Sender |-> "none"]
    /\ todo = [u \in Sender |-> <<>>]
    /\ via = [u \in Sender |-> Nobody]

-----------------------------------------------------------------------------
(* Connections. *)

\* register_transport: HashMap::insert, which replaces what was there.
Registered(k, c) == registry' = [registry EXCEPT ![k] = c]

\* Whether the bounds leave room for connection c to carry a stream or stall,
\* or for it to exist beside one that does, and for so much more.
Alone(c, special) ==
    special \/ (\E d \in Conn : said[d] # <<>> \/ stalled[d]) =>
        Cardinality({d \in Conn \ {c} : status[d] # "unused"}) <= MaxBeside
Room(n) ==
    Cardinality({c \in Conn : status[c] # "unused"})
    + Cardinality({c \in Conn : said[c] # <<>>})
    + Cardinality({u \in Sender : task[u] # "idle"}) + n <= MaxBusy

\* What the peer writes on a new connection: nothing whose bytes matter or,
\* on a TCP connection, one of the streams.
Speaks(c, protocol) ==
    \E items \in {<<>>} \cup Streams :
        /\ items # <<>> => protocol = "tcp"
        /\ Alone(c, items # <<>>)
        /\ Room(IF items = <<>> THEN 1 ELSE 2)
        /\ said' = [said EXCEPT ![c] = items]
        /\ wire' = [wire EXCEPT ![c] = Bytes(items)]

\* A connection exists.  The handler of a TCP connection registers
\* it at once, the task of a WebSocket when it is polled.
Established(c, s, protocol) ==
    /\ status[c] = "unused"
    /\ \A d \in Conn : d < c => status[d] # "unused"
    /\ side' = [side EXCEPT ![c] = s]
    /\ proto' = [proto EXCEPT ![c] = protocol]
    /\ status' = [status EXCEPT ![c] =
                    IF protocol = "tcp" THEN "running" ELSE "fresh"]
    /\ IF protocol = "tcp"
         THEN Registered(KeyOf(Local(c, s), protocol), c)
         ELSE UNCHANGED registry
    /\ Speaks(c, protocol)
    /\ UNCHANGED <<buffer, heard, answering, writeVars, faultVars>>

\* TcpListener::accept_clients, WebSocketListener::accept_clients with a
\* handshake that succeeds; one that fails leaves nothing behind.
Accept(c, protocol) ==
    /\ Established(c, "in", protocol)
    /\ UNCHANGED senderVars

\* handle_ws_connection starts.
Register(c) ==
    /\ status[c] = "fresh"
    /\ status' = [status EXCEPT ![c] = "running"]
    /\ Registered(OwnKey(c), c)
    /\ UNCHANGED <<side, proto, readVars, writeVars, faultVars, senderVars>>

\* The peer ends its stream, with all it had to say or with no more than has
\* been read.
HangUp(c) ==
    /\ status[c] \in {"fresh", "running"} /\ ~shut[c]
    /\ shut' = [shut EXCEPT ![c] = TRUE]
    /\ \E rest \in {wire[c], <<>>} : wire' = [wire EXCEPT ![c] = rest]
    /\ UNCHANGED <<linkVars, said, buffer, heard, answering, writeVars, dead, stalled, senderVars>>

\* The connection is reset, or the peer is gone.
Reset(c) ==
    /\ status[c] # "unused" /\ ~dead[c]
    /\ Cardinality({d \in Conn : dead[d]}) < MaxResets
    /\ dead' = [dead EXCEPT ![c] = TRUE]
    /\ UNCHANGED <<linkVars, readVars, writeVars, shut, stalled, senderVars>>

\* The peer reads no more.  What the socket, and the channel in front of a
\* WebSocket, can hold is used up; nothing bounds how long a writer waits.
Stall(c) ==
    /\ status[c] # "unused" /\ ~stalled[c]
    /\ Cardinality({d \in Conn : stalled[d]}) < MaxStalls /\ Alone(c, TRUE)
    /\ stalled' = [stalled EXCEPT ![c] = TRUE]
    /\ UNCHANGED <<linkVars, readVars, writeVars, shut, dead, senderVars>>

\* The read task ends: what was not passed on is lost.
ReaderGone(c) ==
    /\ wire' = [wire EXCEPT ![c] = <<>>]
    /\ buffer' = [buffer EXCEPT ![c] = <<>>]
    /\ answering' = [answering EXCEPT ![c] = FALSE]
    /\ UNCHANGED <<said, heard>>

\* Fault: the transport stays in the registry.
ClosedForgets(c) ==
    /\ status' = [status EXCEPT ![c] = "closed"]
    /\ ReaderGone(c)
    /\ UNCHANGED <<registry, side, proto>>

\* The read task has seen the end of the stream: remove_transport removes
\* whatever is registered under the key.
Closed(c) ==
    /\ status' = [status EXCEPT ![c] = "closed"]
    /\ Registered(OwnKey(c), Nobody)
    /\ ReaderGone(c)
    /\ UNCHANGED <<side, proto>>

\* The read task returns an error: the transport stays registered.
Broken(c) ==
    /\ status' = [status EXCEPT ![c] = "broken"]
    /\ ReaderGone(c)
    /\ UNCHANGED <<registry, side, proto>>

\* handle_ws_connection: the stream has ended, or it is an error.
WsEnds(c) ==
    /\ status[c] = "running" /\ proto[c] = "ws"
    /\ \/ shut[c] /\ Closed(c)
       \/ dead[c] /\ Broken(c)
    /\ UNCHANGED <<writeVars, faultVars, senderVars>>

-----------------------------------------------------------------------------
(* tcp_read. *)

Consume(c, frame) == buffer' = [buffer EXCEPT ![c] = From(@, frame.size)]

\* No frame is complete: FramedRead reads what has arrived.
Read(c, frame) ==
    /\ frame = Incomplete
    /\ \E n \in 1 .. Len(wire[c]) :
        /\ buffer' = [buffer EXCEPT ![c] = @ \o SubSeq(wire[c], 1, n)]
        /\ wire' = [wire EXCEPT ![c] = From(@, n)]
    /\ UNCHANGED <<linkVars, said, heard, answering>>

\* FramedMessage::Complete: receive_message.
Hear(c, frame) ==
    /\ frame.kind = "message"
    /\ heard' = [heard EXCEPT ![c] = Append(@, SubSeq(buffer[c], 1, frame.size))]
    /\ Consume(c, frame)
    /\ UNCHANGED <<linkVars, said, wire, answering>>

\* FramedMessage::KeepaliveRequest, KeepaliveResponse.
HearKeepalive(c, frame) ==
    /\ frame.kind \in {"ping", "pong"}
    /\ answering' = [answering EXCEPT ![c] = frame.kind = "ping"]
    /\ Consume(c, frame)
    /\ UNCHANGED <<linkVars, said, wire, heard>>

\* Some(Err): a message without a length, or a reset that is read before the
\* bytes that are still under way.
ReadFails(c, frame) ==
    /\ \/ frame.kind = "error"
       \/ frame = Incomplete /\ dead[c]
    /\ Broken(c)

\* The end of the stream: None, or an error if a part of a message is left in
\* the buffer.
EndOfStream(c, frame) ==
    /\ frame = Incomplete /\ ~dead[c]
    /\ shut[c] /\ wire[c] = <<>>
    /\ IF buffer[c] = <<>> THEN Closed(c) ELSE Broken(c)

\* A turn of the loop: FramedRead asks the decoder first.
Turn(c) ==
    /\ status[c] = "running" /\ proto[c] = "tcp" /\ ~answering[c]
    /\ LET frame == Decode(buffer[c])
       IN  \/ Read(c, frame) \/ Hear(c, frame) \/ HearKeepalive(c, frame)
           \/ ReadFails(c, frame) \/ EndOfStream(c, frame)
    /\ UNCHANGED <<writeVars, faultVars, senderVars>>

\* The bytes of a writer that reach the connection.
Put(c, w, part) ==
    out' = [out EXCEPT ![c] = Append(@, [by |-> w, part |-> part])]

\* Fault: the read task does not wait for the lock.
StartAnswerAtOnce(c) ==
    /\ answering[c] /\ lock[c] # ReadTask /\ ~dead[c]
    /\ lock' = [lock EXCEPT ![c] = ReadTask]
    /\ Put(c, ReadTask, "first")
    /\ UNCHANGED <<linkVars, readVars, faultVars, senderVars>>

\* The keep-alive response is written like any message: write_half is locked
\* and a part, which may be empty, goes out.
StartAnswer(c) ==
    /\ answering[c] /\ lock[c] = Nobody /\ ~dead[c]
    /\ lock' = [lock EXCEPT ![c] = ReadTask]
    /\ Put(c, ReadTask, "first")
    /\ UNCHANGED <<linkVars, readVars, faultVars, senderVars>>

\* The rest goes out, if the peer still reads, and the loop goes on.
FinishAnswer(c) ==
    /\ answering[c] /\ lock[c] = ReadTask /\ ~dead[c] /\ ~stalled[c]
    /\ lock' = [lock EXCEPT ![c] = Nobody]
    /\ Put(c, ReadTask, "rest")
    /\ answering' = [answering EXCEPT ![c] = FALSE]
    /\ UNCHANGED <<linkVars, said, wire, buffer, heard, faultVars, senderVars>>

\* The response cannot be written: the read task ends.
AnswerFails(c) ==
    /\ answering[c] /\ lock[c] \in {Nobody, ReadTask} /\ dead[c]
    /\ lock' = [lock EXCEPT ![c] = Nobody]
    /\ Broken(c)
    /\ UNCHANGED <<out, faultVars, senderVars>>

-----------------------------------------------------------------------------
(* Senders. *)

\* Whether the transport of sender u is a connection of that protocol.
On(u, protocol) == via[u] \in Conn /\ proto[via[u]] = protocol

\* get_transport: the transport registered under the address or, for UDP, the
\* socket of the family of the address.
Lookup(a) ==
    IF registry[a] # Nobody THEN registry[a]
    ELSE IF a.proto = "udp" /\ a.addr \in Native THEN Udp
    ELSE Nobody

\* create_outgoing_request without a transport.
SendRequest(u) ==
    /\ task[u] = "idle" /\ Room(1)
    /\ task' = [task EXCEPT ![u] = "resolving"]
    /\ kind' = [kind EXCEPT ![u] = "request"]
    /\ UNCHANGED <<linkVars, readVars, writeVars, faultVars, todo, via>>

\* send_response: the transport the request came through is tried first.
SendResponse(u, l) ==
    /\ task[u] = "idle" /\ Room(1)
    /\ l \in Conn => status[l] \in {"running", "closed", "broken"}
    /\ task' = [task EXCEPT ![u] = "holding"]
    /\ kind' = [kind EXCEPT ![u] = "reply"]
    /\ via' = [via EXCEPT ![u] = l]
    /\ UNCHANGED <<linkVars, readVars, writeVars, faultVars, todo>>

\* The addresses of the URI, or of the topmost Via, are tried in order; a
\* resolver that fails has none.
Resolve(u, route) ==
    /\ task[u] = "resolving"
    /\ task' = [task EXCEPT ![u] = "choosing"]
    /\ todo' = [todo EXCEPT ![u] = route]
    /\ UNCHANGED <<linkVars, readVars, writeVars, faultVars, kind, via>>

\* select_transport finds a transport, or knows that it has to connect, or
\* that it cannot.
Select(u) ==
    /\ task[u] = "choosing" /\ todo[u] # <<>>
    /\ LET a == Head(todo[u])
           l == Lookup(a)
           connects == l = Nobody /\ a.proto # "udp"
       IN  /\ via' = [via EXCEPT ![u] = l]
           /\ task' = [task EXCEPT ![u] =
                CASE l # Nobody -> "holding"
                  [] connects -> "connecting"
                  [] OTHER -> "choosing"]
           /\ todo' = [todo EXCEPT ![u] = IF connects THEN @ ELSE Tail(@)]
    /\ UNCHANGED <<linkVars, readVars, writeVars, faultVars, kind>>

\* TcpTransport::connect, WebSocketTransport::connect.  A connection over TLS
\* is a WebSocket like any other to the registry.
Connected(u, c) ==
    /\ task[u] = "connecting"
    /\ LET a == Head(todo[u])
       IN  Established(c, "out", IF a.proto = "tcp" THEN "tcp" ELSE "ws")
    /\ via' = [via EXCEPT ![u] = c]
    /\ task' = [task EXCEPT ![u] = "holding"]
    /\ todo' = [todo EXCEPT ![u] = Tail(@)]
    /\ UNCHANGED kind

\* Fault: the address that refused is tried again.
RefusedRetries(u) ==
    /\ task[u] = "connecting"
    /\ task' = [task EXCEPT ![u] = "choosing"]
    /\ UNCHANGED <<linkVars, readVars, writeVars, faultVars, kind, todo, via>>

\* The connection is refused, or the handshake takes longer than a second.
Refused(u) ==
    /\ task[u] = "connecting"
    /\ task' = [task EXCEPT ![u] = "choosing"]
    /\ todo' = [todo EXCEPT ![u] = Tail(@)]
    /\ UNCHANGED <<linkVars, readVars, writeVars, faultVars, kind, via>>

\* The call returns and forgets what it held.
Ends(u) ==
    /\ task' = [task EXCEPT ![u] = "ended"]
    /\ kind' = [kind EXCEPT ![u] = "none"]
    /\ todo' = [todo EXCEPT ![u] = <<>>]
    /\ via' = [via EXCEPT ![u] = Nobody]

\* No address is left.
NoTransport(u) ==
    /\ task[u] = "choosing" /\ todo[u] = <<>>
    /\ Ends(u)
    /\ UNCHANGED <<linkVars, readVars, writeVars, faultVars>>

\* send_msg has returned.  A request whose send fails is not sent again; a
\* response is sent to the next address.
Returned(u, ok) ==
    IF ok \/ kind[u] = "request" THEN Ends(u)
    ELSE /\ task' = [task EXCEPT ![u] =
                IF kind[u] = "reply" THEN "resolving" ELSE "choosing"]
         /\ kind' = [kind EXCEPT ![u] = "response"]
         /\ via' = [via EXCEPT ![u] = Nobody]
         /\ UNCHANGED todo

\* TcpTransport::send_msg: write_half is locked and a first part, which may be
\* empty, goes out.
StartWrite(u) ==
    /\ task[u] = "holding" /\ On(u, "tcp")
    /\ lock[via[u]] = Nobody /\ ~dead[via[u]]
    /\ lock' = [lock EXCEPT ![via[u]] = u]
    /\ Put(via[u], u, "first")
    /\ task' = [task EXCEPT ![u] = "writing"]
    /\ UNCHANGED <<linkVars, readVars, faultVars, kind, todo, via>>

\* Fault: the lock is kept.
FinishWriteLocked(u) ==
    /\ task[u] = "writing" /\ ~dead[via[u]] /\ ~stalled[via[u]]
    /\ Put(via[u], u, "rest")
    /\ Returned(u, TRUE)
    /\ UNCHANGED <<linkVars, readVars, lock, faultVars>>

\* The rest goes out, if the peer still reads, and the lock is given back.
FinishWrite(u) ==
    /\ task[u] = "writing" /\ ~dead[via[u]] /\ ~stalled[via[u]]
    /\ Put(via[u], u, "rest")
    /\ lock' = [lock EXCEPT ![via[u]] = Nobody]
    /\ Returned(u, TRUE)
    /\ UNCHANGED <<linkVars, readVars, faultVars>>

\* The connection is dead before or during the write.
WriteFails(u) ==
    /\ \/ task[u] = "holding" /\ On(u, "tcp") /\ lock[via[u]] = Nobody
       \/ task[u] = "writing"
    /\ dead[via[u]]
    /\ lock' = [lock EXCEPT ![via[u]] = Nobody]
    /\ Returned(u, FALSE)
    /\ UNCHANGED <<linkVars, readVars, out, faultVars>>

\* WebSocketTransport::send_msg queues the message for a task that is stopped
\* some time after the connection is closed, or ends when it cannot send; it
\* waits while the channel to that task is full.  A datagram is sent or
\* refused.
SendWhole(u, ok) ==
    /\ task[u] = "holding" /\ (via[u] = Udp \/ On(u, "ws"))
    /\ ok /\ via[u] # Udp => ~stalled[via[u]]
    /\ ~ok /\ via[u] # Udp =>
        \/ status[via[u]] = "closed"
        \/ status[via[u]] # "fresh" /\ dead[via[u]]
    /\ Returned(u, ok)
    /\ UNCHANGED <<linkVars, readVars, writeVars, faultVars>>

-----------------------------------------------------------------------------

Network(c) ==
    \/ \E protocol \in {"tcp", "ws"} : Accept(c, protocol)
    \/ HangUp(c) \/ Reset(c) \/ Stall(c)

Reader(c) ==
    \/ Register(c) \/ WsEnds(c) \/ Turn(c)
    \/ StartAnswer(c) \/ FinishAnswer(c) \/ AnswerFails(c)

Start(u) == SendRequest(u) \/ \E l \in Link : SendResponse(u, l)

Send(u) ==
    \/ \E route \in Routes \cup {<<>>} : Resolve(u, route)
    \/ Select(u) \/ Refused(u) \/ NoTransport(u)
    \/ \E c \in Conn : Connected(u, c)
    \/ StartWrite(u) \/ FinishWrite(u) \/ WriteFails(u)
    \/ \E ok \in BOOLEAN : SendWhole(u, ok)

Ended(u) == task[u] = "ended"

\* A sender waits for a peer that does not read, or behind a writer that does.
\* On a WebSocket that is closed it gets an error instead.
HeldUp(u) ==
    /\ task[u] \in {"holding", "writing"} /\ via[u] \in Conn
    /\ stalled[via[u]] /\ ~dead[via[u]]
    /\ On(u, "tcp") \/ status[via[u]] # "closed"

\* The read task waits to give an answer to a peer that does not read.
ReaderHeldUp(c) ==
    status[c] = "running" /\ answering[c] /\ stalled[c] /\ ~dead[c]

\* Nothing more happens on any connection.
Quiet ==
    /\ \A u \in Sender : Ended(u) \/ HeldUp(u) \/ (task[u] = "idle" /\ ~Room(1))
    /\ \A c \in Conn :
        status[c] \in {"unused", "closed", "broken"} \/ ReaderHeldUp(c)
    /\ UNCHANGED vars

Next ==
    \/ \E c \in Conn : Network(c) \/ Reader(c)
    \/ \E u \in Sender : Start(u) \/ Send(u)
    \/ Quiet

Spec == Init /\ [][Next]_vars

\* The runtime polls the tasks that can run, a connection that was asked for is
\* made or refused, and the mutex is handed on.  A write into a socket whose
\* peer has stopped reading is not among the steps that must happen: send_msg
\* has no timeout.
FairSpec ==
    /\ Spec
    /\ \A c \in Conn : WF_vars(Reader(c))
    /\ \A u \in Sender : WF_vars(Send(u))

-----------------------------------------------------------------------------
(* Properties. *)

\* The registry (mod.rs:189-200) points to connections under their own key,
\* and never to one whose read task has seen its end, although register
\* replaces and remove does not look what it removes.  A connection that is
\* read has its entry, unless another one was accepted by the same listener.
RegistryTracksConnections ==
    /\ \A k \in Key : registry[k] \in Conn =>
        /\ OwnKey(registry[k]) = k
        /\ status[registry[k]] \in {"running", "broken"}
    /\ \A c \in Conn : status[c] = "running" /\ registry[OwnKey(c)] # c =>
        \E d \in Conn \ {c} : side[d] = "in" /\ OwnKey(d) = OwnKey(c)

Answers(c) == {i \in DOMAIN out[c] : out[c][i] = [by |-> ReadTask, part |-> "rest"]}

\* However the stream is cut into reads (decode.rs:29-93, tcp.rs:172-194),
\* what is passed on is what the peer sent, whole and in order, up to the
\* first message without a length, and keep-alives are answered at most once.
MessagesIntact ==
    \A c \in Conn :
        /\ IsPrefix(heard[c], Messages(said[c]))
        /\ Cardinality(Answers(c)) <= Cardinality(Pings(said[c]))

\* Writers of one TCP connection (tcp.rs:71-80) do not mix: the first part of
\* a message is followed by its rest, unless the connection died or the
\* writer is not finished.
WholeWrites ==
    \A c \in Conn : \A i \in DOMAIN out[c] :
        /\ out[c][i].part = "first" =>
            IF i = Len(out[c]) THEN dead[c] \/ lock[c] = out[c][i].by
            ELSE out[c][i + 1] = [by |-> out[c][i].by, part |-> "rest"]
        /\ out[c][i].part = "rest" => i > 1 /\ out[c][i - 1].part = "first"

\* Every send ends (mod.rs:161-186, endpoint/mod.rs:167-265), unless it writes
\* to a peer that has stopped reading, or waits behind such a write
\* (tcp.rs:71-80), which nothing bounds: addresses run out, and no sender waits
\* for ever for the write half of a connection whose peer reads.
EverySendEnds ==
    \A u \in Sender : task[u] # "idle" ~> Ended(u) \/ HeldUp(u)

\* A peer that stays, and writes only messages with a length, is heard to the
\* end (tcp.rs:172-194), even while its keep-alives wait for other writers;
\* only a peer that asks for a keep-alive it does not read stops the reader.
PeerIsHeard ==
    \A c \in Conn :
        status[c] = "running" ~>
            \/ dead[c] \/ shut[c] \/ Unframed \in ToSet(said[c])
            \/ Len(heard[c]) = Len(Messages(said[c]))
            \/ ReaderHeldUp(c)

Progress == EverySendEnds /\ PeerIsHeard
=============================================================================
