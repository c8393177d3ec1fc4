------------------------------ MODULE Framing ------------------------------
(***************************************************************************)
(* The StreamingDecoder of transport/decode.rs: where a frame ends in the  *)
(* bytes read so far.                                                      *)
(*                                                                         *)
(* Of a message only what the decoder looks at is kept.  CR and LF are     *)
(* themselves; a byte from Length(0) on stands for the header lines, down  *)
(* to the last one that names a length, and says which length; NoLength    *)
(* stands for header lines none of which has a length that can be parsed;  *)
(* any other byte is content.                                              *)
(***************************************************************************)
EXTENDS Naturals, Sequences, SequencesExt, Selection

CR == 13
LF == 10
NoLength == 99
Length(n) == 100 + n

KeepaliveRequest == <<CR, LF, CR, LF>>
KeepaliveResponse == <<CR, LF>>
HeadersEnd == KeepaliveRequest

From(bytes, n) == SubSeq(bytes, n + 1, Len(bytes))
StartsWith(bytes, start) == IsPrefix(start, bytes)

Frame(kind, size) == [kind |-> kind, size |-> size]
Incomplete == Frame("incomplete", 0)

\* How many bytes come before the first end of headers.
HeaderSizes(buffer) ==
    {n \in 0 .. Len(buffer) : StartsWith(From(buffer, n), HeadersEnd)}
HeaderSize(buffer) ==
    CHOOSE n \in HeaderSizes(buffer) : \A m \in HeaderSizes(buffer) : n <= m

\* The header lines that name a length; the last one counts.
LengthLines(buffer) ==
    {i \in 1 .. HeaderSize(buffer) : buffer[i] >= Length(0)}
ContentLength(buffer) ==
    LET last == CHOOSE i \in LengthLines(buffer) :
                    \A j \in LengthLines(buffer) : j <= i
    IN  buffer[last] - Length(0)

\* Fault: the end of the headers is not counted.
ExpectedSizeShort(buffer) == HeaderSize(buffer) + ContentLength(buffer)

ExpectedSize(buffer) ==
    HeaderSize(buffer) + Len(HeadersEnd) + ContentLength(buffer)

\* StreamingDecoder::decode: the kind of the frame at the start of the buffer
\* and how many bytes it takes.
Decode(buffer) ==
    CASE StartsWith(buffer, KeepaliveRequest) -> Frame("ping", 4)
      [] /\ StartsWith(buffer, KeepaliveResponse)
         /\ ~StartsWith(buffer, KeepaliveRequest) -> Frame("pong", 2)
      [] OTHER ->
            IF HeaderSizes(buffer) = {} THEN Incomplete
            ELSE IF LengthLines(buffer) = {} THEN Frame("error", 0)
            ELSE IF Len(buffer) < ExpectedSize(buffer) THEN Incomplete
            ELSE Frame("message", ExpectedSize(buffer))

-----------------------------------------------------------------------------
(* What a peer writes: a sequence of items. *)

\* A message with this content, a message without a usable length, and the
\* two keep-alives.
Message(content) == <<Length(Len(content))>> \o HeadersEnd \o content
Unframed == <<NoLength>> \o HeadersEnd

Framed == {item \in Seq(Nat) : item[1] >= Length(0)}

\* Nothing else is written, and a peer that waits for a keep-alive to be
\* answered has no second answer to give before its next message: two of them
\* in a row would be one request.
Keepalive == {KeepaliveRequest, KeepaliveResponse}

IsItem(item) ==
    \/ item \in Keepalive \cup {Unframed}
    \/ item = Message(From(item, Len(Message(<<>>))))

IsStream(items) ==
    /\ \A i \in DOMAIN items : IsItem(items[i])
    /\ \A i, j \in DOMAIN items :
        i < j /\ items[i] = KeepaliveResponse /\ items[j] = KeepaliveResponse =>
            \E k \in i .. j : items[k] \notin Keepalive

\* The bytes of a stream of items.
Bytes(items) == FlattenSeq(items)

\* What a receiver should make of it.
Messages(items) == Filter(items, Framed)
Pings(items) == {i \in DOMAIN items : items[i] = KeepaliveRequest}
=============================================================================
