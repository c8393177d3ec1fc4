----------------------------- MODULE RtpSession -----------------------------
(***************************************************************************)
(* Two RtpSessions of rtp/mod.rs, in one direction: the half of one that   *)
(* writes, the network, and the half of the other that reads: its RTP and  *)
(* its RTCP reader task, the bounded queue they share and the calls of     *)
(* receive().  UDP loses, delays and reorders: a reader takes any datagram *)
(* that is in flight, or never does.                                       *)
(***************************************************************************)
EXTENDS Rtcp, Selection, SequencesExt

CONSTANTS
    QueueSize,      \* the bound of the channel (64 in create)
    SeqSpan,         \* 2^16, the width of the sequence number
    StampSpan,       \* 2^32, the width of the timestamp
    Starts,         \* bound: the random <<sequence number, timestamp>> of create
    Samples,        \* what a call of write_rtp may add to the timestamp
    Ssrc,           \* the source of the session that writes
    Other,          \* another source, for packets with a header of their own
    OwnHeaders,     \* headers the application passes to send_rtp_packet
    Lengths,        \* payload lengths
    PayloadTypes,   \* what the application passes to create
    RtcpDatagrams,  \* what the peer may send to the RTCP socket
    LoneHeaders,    \* bound: those of the headers and of the reports that are
    LoneDatagrams,  \* sent only if nothing else is
    MaxSent,        \* bound: RTP datagrams
    MaxRtcp,        \* bound: RTCP datagrams
    MaxFaults,      \* bound: calls of write_rtp that fail, errors of sockets
    MaxCalls        \* bound: calls of receive

MaxPacketSize == 1500
HeaderSize == 12
Reader == {"RTP", "RTCP"}
None == "none"

Header == [version : Nat, padding : BOOLEAN, extension : BOOLEAN, marker : BOOLEAN,
           payload_type : Nat, csrcs : Nat, seq : Nat, stamp : Nat,
           ssrc : {Ssrc, Other}]

ASSUME ConstantsAssumption ==
    /\ QueueSize \in Nat \ {0} /\ SeqSpan \in Nat \ {0} /\ StampSpan \in Nat \ {0}
    /\ Starts \subseteq (0..(SeqSpan - 1)) \X (0..(StampSpan - 1))
    /\ Samples \subseteq Nat /\ Lengths \subseteq Nat
    /\ OwnHeaders \subseteq Header /\ PayloadTypes \subseteq Nat
    /\ RtcpDatagrams \subseteq Seq(0..255)
    /\ {MaxSent, MaxRtcp, MaxFaults, MaxCalls} \subseteq Nat
    /\ Ssrc # Other /\ None \notin {Ssrc, Other}

VARIABLES
    payload_type, sequence_number, timestamp,   \* the session that writes
    sent,           \* the RTP datagrams written, with the header meant
    writes,         \* calls of write_rtp that succeeded
    reports,        \* the RTCP datagrams sent
    flight,         \* per socket, the numbers of the datagrams on their way
    trouble,        \* per socket, the error it will report
    reader,         \* per reader task, where it is
    holding,        \* the message it has parsed and not offered
    queue,          \* the channel
    open,           \* the session that reads is not dropped
    calling,        \* a call of receive is waiting
    peer_ssrc,
    received,       \* messages returned by receive
    taken,          \* per reader, the datagrams it parsed, in order
    discarded,      \* per reader, those it could not queue
    calls, faults   \* counted for the bounds

writerVars == <<payload_type, sequence_number, timestamp, sent, writes>>
netVars == <<reports, flight, trouble, faults>>
readerVars == <<reader, holding, queue, taken, discarded>>
callerVars == <<open, calling, peer_ssrc, received, calls>>
vars == <<writerVars, netVars, readerVars, callerVars>>

-----------------------------------------------------------------------------
(* The wire form of an RTP packet.  put_u8 writes one byte, and the bits   *)
(* of what does not fit in its field fall on the neighbouring ones.        *)
(* send_rtp_packet reads neither version, padding nor extension.           *)

RtpVersion == 2

\* RTP_VERSION in the upper two bits, or-ed with the count of sources.
Byte0(csrcs) ==
    LET low == csrcs % 256
    IN IF low >= 128 THEN low ELSE 128 + low

\* The marker in the upper bit, or-ed with the payload type.
Byte1(marker, pt) ==
    LET low == pt % 256
    IN IF marker /\ low < 128 THEN 128 + low ELSE low

Wire(h, length) ==
    [b0 |-> Byte0(h.csrcs), b1 |-> Byte1(h.marker, h.payload_type),
     seq |-> h.seq, stamp |-> h.stamp, ssrc |-> h.ssrc,
     rest |-> 4 * h.csrcs + length]

Padded(w) == (w.b0 \div 32) % 2 = 1

\* RtpPacket::parse: a todo!() for padding, and a panic of the bytes crate
\* when the sources it announces are not there.
RtpPacket(w) ==
    LET csrcs == w.b0 % 16
    IN IF Padded(w) \/ 4 * csrcs > w.rest THEN [out |-> "panic"]
       ELSE [out |-> "ok",
             packet |-> [version |-> w.b0 \div 64, padding |-> FALSE,
                         extension |-> (w.b0 \div 16) % 2 = 1,
                         marker |-> w.b1 >= 128, payload_type |-> w.b1 % 128,
                         csrcs |-> csrcs, seq |-> w.seq, stamp |-> w.stamp,
                         ssrc |-> w.ssrc, length |-> w.rest - 4 * csrcs]]

\* What a reader makes of datagram n of its socket.  A message is known by
\* its socket and its datagram; Packet is what it holds.
Parse(r, n) ==
    IF r = "RTP" THEN RtpPacket(sent[n].wire)
    ELSE LET p == RtcpPacket(reports[n], 1)
         IN IF p.out = "ok"
            THEN [out |-> "ok", packet |-> SubSeq(reports[n], 1, p.at - 1)]
            ELSE [out |-> p.out]

Packet(m) == Parse(m.from, m.n).packet

-----------------------------------------------------------------------------

\* create refuses a payload type of more than 7 bits; the first sequence
\* number and timestamp are random.
Init ==
    /\ payload_type \in {pt \in PayloadTypes : pt <= 127}
    /\ \E start \in Starts : sequence_number = start[1] /\ timestamp = start[2]
    /\ sent = <<>> /\ writes = 0 /\ reports = <<>>
    /\ flight = [r \in Reader |-> {}] /\ trouble = [r \in Reader |-> None]
    /\ reader = [r \in Reader |-> "reading"] /\ holding = [r \in Reader |-> <<>>]
    /\ queue = <<>> /\ open = TRUE /\ calling = FALSE
    /\ peer_ssrc = None /\ received = <<>>
    /\ taken = [r \in Reader |-> <<>>] /\ discarded = [r \in Reader |-> {}]
    /\ calls = 0 /\ faults = 0

-----------------------------------------------------------------------------
(* The session that writes.                                                *)

\* Whether the bound on what is sent alone lets one more out.
Room(lone) ==
    IF lone THEN sent = <<>> /\ reports = <<>>
    ELSE /\ \A k \in DOMAIN sent : sent[k].header \notin LoneHeaders
         /\ \A k \in DOMAIN reports : reports[k] \notin LoneDatagrams

Fits(h, length) == HeaderSize + 4 * h.csrcs + length <= MaxPacketSize

\* The datagram leaves the socket.  Those of write_rtp are numbered from 0.
Put(h, length, number, samples) ==
    /\ sent' = Append(sent, [header |-> h, length |-> length, number |-> number,
                             samples |-> samples, wire |-> Wire(h, length)])
    /\ flight' = [flight EXCEPT !["RTP"] = @ \cup {Len(sent) + 1}]

WriteRtp(samples, length) ==
    LET h == [version |-> RtpVersion, padding |-> FALSE, extension |-> FALSE,
              marker |-> FALSE, payload_type |-> payload_type, csrcs |-> 0,
              ssrc |-> Ssrc, seq |-> sequence_number, stamp |-> timestamp]
    IN /\ Len(sent) < MaxSent /\ Room(FALSE)
       /\ Fits(h, length)
       /\ Put(h, length, writes, samples)
       /\ timestamp' = (timestamp + samples) % StampSpan
       /\ sequence_number' = (sequence_number + 1) % SeqSpan
       /\ writes' = writes + 1
       /\ UNCHANGED <<payload_type, reports, trouble, faults, readerVars, callerVars>>

\* Fault: the counter moves before the packet is sent.
WriteFailsLate ==
    /\ faults < MaxFaults
    /\ faults' = faults + 1
    /\ sequence_number' = (sequence_number + 1) % SeqSpan
    /\ UNCHANGED <<payload_type, timestamp, sent, writes, reports, flight, trouble,
                   readerVars, callerVars>>

\* Too long a payload, or an error of the socket: write_rtp returns before
\* the counters move.
WriteFails ==
    /\ faults < MaxFaults
    /\ faults' = faults + 1
    /\ UNCHANGED <<writerVars, reports, flight, trouble, readerVars, callerVars>>

\* send_rtp_packet with a header of the application's own.
SendRtpPacket(h, length) ==
    /\ Len(sent) < MaxSent /\ Room(h \in LoneHeaders)
    /\ Fits(h, length)
    /\ Put(h, length, -1, 0)
    /\ UNCHANGED <<payload_type, sequence_number, timestamp, writes, reports,
                   trouble, faults, readerVars, callerVars>>

-----------------------------------------------------------------------------
(* Outside: the RTCP of the peer, and the errors a connected UDP socket    *)
(* reports, "refused" for an ICMP answer to what was sent through it.      *)

SendReport(d) ==
    /\ Len(reports) < MaxRtcp /\ Room(d \in LoneDatagrams)
    /\ reports' = Append(reports, d)
    /\ flight' = [flight EXCEPT !["RTCP"] = @ \cup {Len(reports) + 1}]
    /\ UNCHANGED <<writerVars, trouble, faults, readerVars, callerVars>>

Trouble(r, error) ==
    /\ faults < MaxFaults /\ trouble[r] = None
    /\ trouble' = [trouble EXCEPT ![r] = error]
    /\ faults' = faults + 1
    /\ UNCHANGED <<writerVars, reports, flight, readerVars, callerVars>>

-----------------------------------------------------------------------------
(* The reader tasks.                                                       *)

Leave(r) == reader' = [reader EXCEPT ![r] = "ended"]

\* recv returns a datagram: it is parsed, or the task goes on to the next
\* one, or it ends in a panic that nobody sees.
Recv(r, n) ==
    LET p == Parse(r, n)
    IN /\ reader[r] = "reading" /\ trouble[r] = None /\ n \in flight[r]
       /\ flight' = [flight EXCEPT ![r] = @ \ {n}]
       /\ CASE p.out = "ok" ->
                  /\ reader' = [reader EXCEPT ![r] = "holding"]
                  /\ holding' = [holding EXCEPT ![r] =
                                    <<[from |-> r, n |-> n]>>]
                  /\ taken' = [taken EXCEPT ![r] = Append(@, n)]
            [] p.out = "error" -> UNCHANGED <<reader, holding, taken>>
            [] OTHER -> Leave(r) /\ UNCHANGED <<holding, taken>>
       /\ UNCHANGED <<writerVars, reports, trouble, faults, queue, discarded,
                      callerVars>>

\* recv returns an error.
RecvFails(r) ==
    /\ reader[r] = "reading" /\ trouble[r] # None
    /\ trouble' = [trouble EXCEPT ![r] = None]
    /\ IF trouble[r] = "refused" THEN UNCHANGED reader ELSE Leave(r)
    /\ UNCHANGED <<writerVars, reports, flight, faults, holding, queue, taken,
                   discarded, callerVars>>

\* Fault: the channel has no bound.
OfferUnbounded(r) ==
    /\ reader[r] = "holding"
    /\ holding' = [holding EXCEPT ![r] = <<>>]
    /\ reader' = [reader EXCEPT ![r] = IF open THEN "reading" ELSE "ended"]
    /\ queue' = IF open THEN queue \o holding[r] ELSE queue
    /\ UNCHANGED <<writerVars, netVars, taken, discarded, callerVars>>

\* Fault: a full queue makes room by dropping the oldest message.
OfferOverwrites(r) ==
    /\ reader[r] = "holding"
    /\ holding' = [holding EXCEPT ![r] = <<>>]
    /\ reader' = [reader EXCEPT ![r] = IF open THEN "reading" ELSE "ended"]
    /\ queue' = IF ~open THEN queue
                ELSE IF Len(queue) < QueueSize THEN queue \o holding[r]
                ELSE Tail(queue) \o holding[r]
    /\ UNCHANGED <<writerVars, netVars, taken, discarded, callerVars>>

\* try_send: the receiver is dropped with the session.
Offer(r) ==
    /\ reader[r] = "holding"
    /\ holding' = [holding EXCEPT ![r] = <<>>]
    /\ IF ~open
       THEN Leave(r) /\ UNCHANGED <<queue, discarded>>
       ELSE /\ reader' = [reader EXCEPT ![r] = "reading"]
            /\ IF Len(queue) < QueueSize
               THEN queue' = queue \o holding[r] /\ UNCHANGED discarded
               ELSE /\ discarded' = [discarded EXCEPT ![r] = @ \cup {holding[r][1].n}]
                    /\ UNCHANGED queue
    /\ UNCHANGED <<writerVars, netVars, taken, callerVars>>

\* Fault: only a failed try_send tells that the session is gone.
ShutdownMissing(r) ==
    /\ reader[r] = "holding" /\ ~open
    /\ Leave(r)
    /\ UNCHANGED <<writerVars, netVars, holding, queue, taken, discarded, callerVars>>

\* The other branch of the select: the sender of `shutdown' is gone.
Shutdown(r) ==
    /\ reader[r] = "reading" /\ ~open
    /\ Leave(r)
    /\ UNCHANGED <<writerVars, netVars, holding, queue, taken, discarded, callerVars>>

-----------------------------------------------------------------------------
(* The application that reads.                                             *)

CallReceive ==
    /\ open /\ ~calling /\ calls < MaxCalls
    /\ calling' = TRUE /\ calls' = calls + 1
    /\ UNCHANGED <<writerVars, netVars, readerVars, open, peer_ssrc, received>>

Receive ==
    /\ calling /\ queue # <<>>
    /\ calling' = FALSE
    /\ received' = Append(received, Head(queue))
    /\ queue' = Tail(queue)
    /\ peer_ssrc' = IF Head(queue).from = "RTP" /\ peer_ssrc = None
                    THEN Packet(Head(queue)).ssrc ELSE peer_ssrc
    /\ UNCHANGED <<writerVars, netVars, reader, holding, taken, discarded, open, calls>>

\* The channel is closed when both senders are gone.
ReceiveNone ==
    /\ calling /\ queue = <<>> /\ \A r \in Reader : reader[r] = "ended"
    /\ calling' = FALSE
    /\ UNCHANGED <<writerVars, netVars, readerVars, open, peer_ssrc, received, calls>>

\* The future of receive is dropped; a message it has not returned stays.
Cancel ==
    /\ calling
    /\ calling' = FALSE
    /\ UNCHANGED <<writerVars, netVars, readerVars, open, peer_ssrc, received, calls>>

DropSession ==
    /\ open /\ ~calling
    /\ open' = FALSE
    /\ queue' = <<>>
    /\ UNCHANGED <<writerVars, netVars, reader, holding, taken, discarded, calling,
                   peer_ssrc, received, calls>>

-----------------------------------------------------------------------------

Next ==
    \/ \E samples \in Samples, length \in Lengths : WriteRtp(samples, length)
    \/ WriteFails
    \/ \E h \in OwnHeaders, length \in Lengths : SendRtpPacket(h, length)
    \/ \E d \in RtcpDatagrams : SendReport(d)
    \/ \E r \in Reader :
           \/ \E error \in {"refused", "fatal"} : Trouble(r, error)
           \/ \E n \in flight[r] : Recv(r, n)
           \/ RecvFails(r)
           \/ Offer(r)
           \/ Shutdown(r)
    \/ CallReceive \/ Receive \/ ReceiveNone \/ Cancel \/ DropSession

\* A reader that holds a message offers it at once.  `shutdown' is one of two
\* branches of a select that takes any that is ready, at random, so datagrams
\* do not keep it off forever.  The runtime polls a future that is ready.
Fairness ==
    /\ \A r \in Reader : WF_vars(Offer(r)) /\ SF_vars(Shutdown(r))
    /\ WF_vars(Receive) /\ WF_vars(ReceiveNone)

Spec == Init /\ [][Next]_vars /\ Fairness

-----------------------------------------------------------------------------
(* Properties.                                                             *)

Message == [from : Reader, n : Nat \ {0}]

Datagram == [header : Header, length : Nat, number : Nat \cup {-1}, samples : Nat,
             wire : [b0 : Nat, b1 : Nat, seq : Nat, stamp : Nat,
                     ssrc : {Ssrc, Other}, rest : Nat]]

\* The type of every variable.
TypeOK ==
    /\ payload_type \in 0..127
    /\ sequence_number \in 0..(SeqSpan - 1) /\ timestamp \in 0..(StampSpan - 1)
    /\ sent \in Seq(Datagram) /\ reports \in Seq(Seq(0..255))
    /\ writes \in 0..Len(sent)
    /\ flight \in [Reader -> SUBSET Nat]
    /\ trouble \in [Reader -> {None, "refused", "fatal"}]
    /\ reader \in [Reader -> {"reading", "holding", "ended"}]
    /\ holding \in [Reader -> Seq(Message)]
    /\ queue \in Seq(Message) /\ Len(queue) <= QueueSize
    /\ open \in BOOLEAN /\ calling \in BOOLEAN
    /\ peer_ssrc \in {None, Ssrc, Other}
    /\ received \in Seq(Message)
    /\ taken \in [Reader -> Seq(Nat)] /\ discarded \in [Reader -> SUBSET Nat]
    /\ calls \in 0..MaxCalls /\ faults \in 0..MaxFaults

\* The numbers of the datagrams of socket r among messages.
Numbers(r, messages) ==
    LET of == Filter(messages, [from : {r}, n : Nat \ {0}])
    IN [k \in DOMAIN of |-> of[k].n]

\* However the two readers, a full queue, abandoned calls of receive and the
\* failures of a socket interleave, a session hands out what each socket
\* delivered, in the order it did, without the messages that found the queue
\* full: none is lost or repeated between socket and application.
InOrder ==
    open => \A r \in Reader :
        Numbers(r, received \o queue \o holding[r]) =
            Filter(taken[r], Nat \ discarded[r])

Kept == ToSet(received) \cup ToSet(queue) \cup UNION {ToSet(holding[r]) : r \in Reader}

\* A header as the reader returns it, and the length of the payload.
Packed(h, length) ==
    [version |-> h.version, padding |-> h.padding, extension |-> h.extension,
     marker |-> h.marker, payload_type |-> h.payload_type, csrcs |-> h.csrcs,
     seq |-> h.seq, stamp |-> h.stamp, ssrc |-> h.ssrc, length |-> length]

\* The sources and the payload type fit their fields, and the rest of the first
\* byte is what the session writes there.
Encodable(h) ==
    /\ h.csrcs < 16 /\ h.payload_type < 128
    /\ h.version = RtpVersion /\ ~h.padding /\ ~h.extension

\* The header and payload come out as they went in exactly if the header can be
\* encoded, which send_rtp_packet does not check.
RtpAsWritten(m) ==
    LET p == sent[m.n]
    IN (Packet(m) = Packed(p.header, p.length)) <=> Encodable(p.header)

\* A message is the first packet of its datagram.  Behind a report or an APP
\* packet the rest of a compound becomes part of it; an SDES or BYE packet
\* ends where its length says if nothing pads it.
RtcpAsSent(m) ==
    LET d == reports[m.n]
        end == Len(Packet(m)) + 1
    IN WellFormed(d) =>
        /\ Kind(d, 1) \in {SR, RR, APP} => end = Len(d) + 1
        /\ Delimits(d, 1) => end = Boundaries(d)[2]

\* RtcpCompoundPacket finds the packets of a datagram exactly if each but the
\* last can be told from what follows it, and the last ends the datagram.
CompoundFound(d) ==
    LET starts == Boundaries(d)
        last == Len(starts) - 1
    IN WellFormed(d) =>
        ((RtcpCompoundPacket(d) = starts) <=>
            /\ \A k \in 1..(last - 1) : Delimits(d, starts[k])
            /\ RtcpPacket(d, starts[last]) = Found(Len(d) + 1))

\* What an application receives is what the peer wrote, within the limits of
\* the codecs that the three parts state.
ReadAsWritten ==
    /\ \A m \in Kept : IF m.from = "RTP" THEN RtpAsWritten(m) ELSE RtcpAsSent(m)
    /\ \A k \in DOMAIN reports : CompoundFound(reports[k])

\* Between any two packets of write_rtp that reach the peer, the difference
\* of the sequence numbers is the number of packets written between them,
\* modulo the width, across failed writes, wrap-around and packets with a
\* header of their own; and the timestamps of consecutive ones differ by the
\* samples of the first.
GapsCountLoss ==
    \A m1, m2 \in {m \in Kept : m.from = "RTP"} :
        LET p1 == sent[m1.n]
            p2 == sent[m2.n]
        IN 0 <= p1.number /\ p1.number <= p2.number =>
            /\ Packet(m2).seq = (Packet(m1).seq + (p2.number - p1.number)) % SeqSpan
            /\ p2.number = p1.number + 1 =>
                   Packet(m2).stamp = (Packet(m1).stamp + p1.samples) % StampSpan

\* When a session is dropped both readers end, whatever still arrives.
ReadersEnd == \A r \in Reader : ~open ~> reader[r] = "ended"

\* A call of receive does not wait for readers that have both ended.
ReceiveEnds == (calling /\ \A r \in Reader : reader[r] = "ended") ~> ~calling

\* Nobody waits on what is gone.
EndsAreNoticed == ReadersEnd /\ ReceiveEnds
=============================================================================
