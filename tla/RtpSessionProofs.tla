--------------------------- MODULE RtpSessionProofs ---------------------------
(***************************************************************************)
(* Proofs about RtpSession, for every width of the counters and every      *)
(* bound: types, what an RTP packet is after the network, the sequence     *)
(* numbers and timestamps by which the peer counts what was lost, the      *)
(* order in which the application is told, and that the RTCP parsers read  *)
(* what the builders wrote.                                                *)
(***************************************************************************)
EXTENDS RtpSession, SelectionProofs, TLAPS

-----------------------------------------------------------------------------
(* Arithmetic modulo the width of a counter.                               *)

\* The remainder and the quotient of a division.
LEMMA Divided ==
    ASSUME NEW x \in Nat, NEW S \in Nat \ {0}
    PROVE  x % S \in 0 .. (S - 1) /\ x \div S \in Nat /\ x = S * (x \div S) + (x % S)
BY Z3

\* A number below the divisor is its own remainder.
LEMMA Small == ASSUME NEW S \in Nat \ {0}, NEW x \in 0 .. (S - 1) PROVE x % S = x
BY Z3

\* A multiple is not smaller.
LEMMA Multiple == ASSUME NEW a \in Nat \ {0}, NEW S \in Nat \ {0} PROVE S * a >= S
BY Z3

\* A common factor of a difference.
LEMMA Factored ==
    ASSUME NEW a \in Nat, NEW b \in Nat, NEW S \in Nat \ {0}
    PROVE  S * a - S * b = S * (a - b)
BY Z3

\* Quotient and remainder are unique.
LEMMA Remainder ==
    ASSUME NEW q \in Nat, NEW S \in Nat \ {0}, NEW r \in 0 .. (S - 1)
    PROVE  (S * q + r) % S = r
<1> DEFINE y == S * q + r
           p == y \div S
           t == y % S
<1>0. y \in Nat
    BY Z3
<1>1. t \in 0 .. (S - 1) /\ p \in Nat /\ y = S * p + t
    BY <1>0, Divided
<1> HIDE DEF p, t
<1>2. /\ S * q - S * p = t - r /\ S * p - S * q = r - t
      /\ S * q \in Nat /\ S * p \in Nat
    BY <1>1, Z3
<1>3. CASE q > p
    <2>1. S * q - S * p = S * (q - p)
        BY <1>1, Factored
    <2>2. S * (q - p) >= S
        BY <1>1, <1>3, Multiple
    <2> QED
        BY <1>1, <1>2, <2>1, <2>2
<1>4. CASE p > q
    <2>1. S * p - S * q = S * (p - q)
        BY <1>1, Factored
    <2>2. S * (p - q) >= S
        BY <1>1, <1>4, Multiple
    <2> QED
        BY <1>1, <1>2, <2>1, <2>2
<1>5. CASE p = q
    BY <1>1, <1>2, <1>5
<1>6. t = r
    BY <1>1, <1>3, <1>4, <1>5
<1> QED
    BY <1>6 DEF t

\* A counter that wraps at every step has wrapped as often as it must.
LEMMA WrapOnce ==
    ASSUME NEW x \in Nat, NEW S \in Nat \ {0}
    PROVE  ((x % S) + 1) % S = (x + 1) % S
<1> DEFINE q == x \div S
           r == x % S
<1>1. r \in 0 .. (S - 1) /\ q \in Nat /\ x = S * q + r
    BY Divided
<1> HIDE DEF q, r
<1>2. CASE r + 1 < S
    <2>1. x + 1 = S * q + (r + 1)
        BY <1>1
    <2>2. (x + 1) % S = r + 1
        BY <1>1, <1>2, <2>1, Remainder
    <2>3. (r + 1) % S = r + 1
        <3>1. r + 1 \in 0 .. (S - 1)
            BY <1>1, <1>2
        <3> QED
            BY <3>1, Small
    <2> QED
        BY <2>2, <2>3 DEF r
<1>3. CASE r + 1 = S
    <2>1. x + 1 = S * (q + 1) + 0
        BY <1>1, <1>3, Z3
    <2>2. (x + 1) % S = 0
        BY <1>1, <2>1, Remainder
    <2>3. (S * 1 + 0) % S = 0
        BY Remainder
    <2>4. S * 1 + 0 = r + 1
        BY <1>1, <1>3
    <2> QED
        BY <2>2, <2>3, <2>4 DEF r
<1> QED
    BY <1>1, <1>2, <1>3

-----------------------------------------------------------------------------
(* The inductive invariant.                                                *)

\* What a message stands for has been sent, and was parsed.
Good(m) ==
    m.from = "RTP" => m.n \in DOMAIN sent /\ RtpPacket(sent[m.n].wire).out = "ok"

\* So is every message on its way to the application, and a reader holds at
\* most one.
Passed ==
    /\ flight["RTP"] \subseteq DOMAIN sent
    /\ \A r \in Reader : 0 \notin flight[r]
    /\ \A r \in Reader : reader[r] = "holding" => Len(holding[r]) = 1
    /\ \A r \in Reader : \A i \in DOMAIN holding[r] : Good(holding[r][i])
    /\ \A i \in DOMAIN queue : Good(queue[i])
    /\ \A i \in DOMAIN received : Good(received[i])

\* Every datagram is the wire form of its header.
Encoded ==
    \A k \in DOMAIN sent : sent[k].wire = Wire(sent[k].header, sent[k].length)

\* Datagram k is the one that write_rtp numbered.
Written(k) == sent[k].number # -1

\* The counters of the session and of what it has written are as far apart
\* as the calls between them.
Numbering ==
    /\ \A k \in DOMAIN sent : Written(k) =>
        /\ sent[k].number < writes
        /\ sequence_number =
               (sent[k].header.seq + (writes - sent[k].number)) % SeqSpan
        /\ sent[k].header.seq \in 0 .. (SeqSpan - 1)
        /\ sent[k].number = writes - 1 =>
               timestamp = (sent[k].header.stamp + sent[k].samples) % StampSpan
    /\ \A j, k \in DOMAIN sent :
        Written(j) /\ Written(k) /\ sent[j].number <= sent[k].number =>
            /\ sent[k].header.seq =
                   (sent[j].header.seq + (sent[k].number - sent[j].number)) % SeqSpan
            /\ sent[k].number = sent[j].number + 1 =>
                   sent[k].header.stamp =
                       (sent[j].header.stamp + sent[j].samples) % StampSpan

IInv == TypeOK /\ Passed /\ Encoded /\ Numbering

-----------------------------------------------------------------------------
(* The codec.                                                              *)

\* An encoded header has its fields.
LEMMA WireType ==
    ASSUME NEW h \in Header, NEW length \in Nat
    PROVE  Wire(h, length) \in
               [b0 : Nat, b1 : Nat, seq : Nat, stamp : Nat, ssrc : {Ssrc, Other}, rest : Nat]
<1>1. h.csrcs \in Nat /\ h.payload_type \in Nat
    BY DEF Header
<1>2. h.csrcs % 256 \in Nat /\ h.payload_type % 256 \in Nat
    BY <1>1
<1> QED
    BY <1>1, <1>2 DEF Wire, Byte0, Byte1, Header

\* What a parsed packet takes from its datagram.
LEMMA Parsed ==
    ASSUME NEW w, RtpPacket(w).out = "ok"
    PROVE  /\ RtpPacket(w).packet.seq = w.seq /\ RtpPacket(w).packet.stamp = w.stamp
           /\ RtpPacket(w).packet.ssrc = w.ssrc
           /\ RtpPacket(w).packet =
                [version |-> w.b0 \div 64, padding |-> FALSE,
                 extension |-> (w.b0 \div 16) % 2 = 1, marker |-> w.b1 >= 128,
                 payload_type |-> w.b1 % 128, csrcs |-> w.b0 % 16,
                 seq |-> w.seq, stamp |-> w.stamp, ssrc |-> w.ssrc,
                 length |-> w.rest - 4 * (w.b0 % 16)]
<1> DEFINE b0 == w.b0
           q == [version |-> b0 \div 64, padding |-> FALSE,
                 extension |-> (b0 \div 16) % 2 = 1, marker |-> w.b1 >= 128,
                 payload_type |-> w.b1 % 128, csrcs |-> b0 % 16,
                 seq |-> w.seq, stamp |-> w.stamp, ssrc |-> w.ssrc,
                 length |-> w.rest - 4 * (b0 % 16)]
           refused == Padded(w) \/ 4 * (b0 % 16) > w.rest
<1>1. RtpPacket(w) = IF refused THEN [out |-> "panic"] ELSE [out |-> "ok", packet |-> q]
    BY DEF RtpPacket
<1>2. q.seq = w.seq /\ q.stamp = w.stamp /\ q.ssrc = w.ssrc
    OBVIOUS
<1> HIDE DEF q, refused
<1>3. RtpPacket(w) = [out |-> "ok", packet |-> q]
    BY <1>1
<1>4. RtpPacket(w).packet = q
    BY <1>3
<1> QED
    BY <1>2, <1>4 DEF q

\* A count of sources of four bits leaves the first byte's other fields alone.
LEMMA SourcesFit ==
    ASSUME NEW c \in Nat, c < 16
    PROVE  /\ Byte0(c) % 16 = c
           /\ Byte0(c) \div 64 = RtpVersion /\ (Byte0(c) \div 16) % 2 = 0
<1>1. c \in 0 .. (16 - 1) /\ c \in 0 .. (256 - 1)
    OBVIOUS
<1>2. c % 256 = c
    BY <1>1, Small
<1>3. Byte0(c) = 16 * 8 + c
    BY <1>1, <1>2 DEF Byte0
<1>4. Byte0(c) % 16 = c
    BY <1>1, <1>3, Remainder
<1>5. (128 + c) \div 64 = 2 /\ ((128 + c) \div 16) % 2 = 0
    BY <1>1, Z3
<1> QED
    BY <1>3, <1>4, <1>5 DEF RtpVersion

\* Seven bits are enough for a payload type, and leave the marker alone.
LEMMA PayloadTypeFits ==
    ASSUME NEW marker \in BOOLEAN, NEW t \in Nat, t < 128
    PROVE  Byte1(marker, t) % 128 = t /\ (Byte1(marker, t) >= 128 <=> marker)
<1>1. t \in 0 .. (128 - 1) /\ t \in 0 .. (256 - 1)
    OBVIOUS
<1>2. t % 256 = t /\ t % 128 = t
    BY <1>1, Small
<1>3. (128 * 1 + t) % 128 = t
    BY <1>1, Remainder
<1>4. Byte1(marker, t) = IF marker THEN 128 + t ELSE t
    BY <1>1, <1>2 DEF Byte1
<1> QED
    BY <1>1, <1>2, <1>3, <1>4

\* A packet comes out as it went in exactly if its header can be encoded.
LEMMA CodecFaithful ==
    ASSUME NEW h \in Header, NEW length \in Nat, RtpPacket(Wire(h, length)).out = "ok"
    PROVE  (RtpPacket(Wire(h, length)).packet = Packed(h, length)) <=> Encodable(h)
<1> DEFINE w == Wire(h, length)
           p == RtpPacket(w).packet
<1>1. /\ h.csrcs \in Nat /\ h.payload_type \in Nat /\ h.version \in Nat
      /\ h.padding \in BOOLEAN /\ h.extension \in BOOLEAN /\ h.marker \in BOOLEAN
    BY DEF Header
<1>2. /\ w.b0 = Byte0(h.csrcs) /\ w.b1 = Byte1(h.marker, h.payload_type)
      /\ w.seq = h.seq /\ w.stamp = h.stamp /\ w.ssrc = h.ssrc
      /\ w.rest = 4 * h.csrcs + length
    BY DEF Wire
<1>3. p = [version |-> w.b0 \div 64, padding |-> FALSE,
           extension |-> (w.b0 \div 16) % 2 = 1, marker |-> w.b1 >= 128,
           payload_type |-> w.b1 % 128, csrcs |-> w.b0 % 16,
           seq |-> w.seq, stamp |-> w.stamp, ssrc |-> w.ssrc,
           length |-> w.rest - 4 * (w.b0 % 16)]
    BY Parsed
<1> HIDE DEF w, p
<1>4. w.b0 \in Nat /\ w.b1 \in Nat
    <2>1. h.csrcs % 256 \in Nat /\ h.payload_type % 256 \in Nat
        BY <1>1, Z3
    <2> QED
        BY <1>2, <2>1 DEF Byte0, Byte1
<1>5. w.b0 % 16 \in 0 .. 15 /\ w.b1 % 128 \in 0 .. 127
    <2>1. \A x \in Nat : x % 16 \in 0 .. 15 /\ x % 128 \in 0 .. 127
        BY Z3
    <2> QED
        BY <1>4, <2>1
<1>6. h.csrcs < 16 => /\ w.b0 % 16 = h.csrcs
                      /\ w.b0 \div 64 = RtpVersion /\ (w.b0 \div 16) % 2 = 0
    BY <1>1, <1>2, SourcesFit
<1>7. h.payload_type < 128 => w.b1 % 128 = h.payload_type /\ (w.b1 >= 128 <=> h.marker)
    BY <1>1, <1>2, PayloadTypeFits
<1>8. ASSUME Encodable(h) PROVE p = Packed(h, length)
    <2>1. /\ h.csrcs < 16 /\ h.payload_type < 128
          /\ h.version = RtpVersion /\ h.padding = FALSE /\ h.extension = FALSE
        BY <1>1, <1>8 DEF Encodable
    <2>2. w.rest - 4 * (w.b0 % 16) = length
        BY <1>1, <1>2, <1>6, <2>1
    <2>3. /\ w.b0 \div 64 = h.version /\ w.b0 % 16 = h.csrcs
          /\ w.b1 % 128 = h.payload_type
        BY <1>6, <1>7, <2>1
    <2>5. ((w.b0 \div 16) % 2 = 1) = h.extension
        <3>1. (w.b0 \div 16) % 2 = 0
            BY <1>6, <2>1
        <3>2. ~((w.b0 \div 16) % 2 = 1)
            BY <3>1
        <3> QED
            BY <2>1, <3>2
    <2>4. (w.b1 >= 128) = h.marker
        BY <1>1, <1>7, <2>1
    <2> QED
        BY <1>2, <1>3, <2>1, <2>2, <2>3, <2>4, <2>5 DEF Packed
<1>9. ASSUME p = Packed(h, length) PROVE Encodable(h)
    <2>1. /\ p.csrcs = h.csrcs /\ p.payload_type = h.payload_type /\ p.version = h.version
          /\ p.padding = h.padding /\ p.extension = h.extension
        BY <1>9 DEF Packed
    <2>2. /\ p.csrcs = w.b0 % 16 /\ p.payload_type = w.b1 % 128 /\ p.version = w.b0 \div 64
          /\ p.padding = FALSE /\ p.extension = ((w.b0 \div 16) % 2 = 1)
        BY <1>3
    <2>3. h.csrcs < 16 /\ h.payload_type < 128
        BY <1>1, <1>5, <2>1, <2>2
    <2>4. h.version = RtpVersion /\ h.padding = FALSE /\ h.extension = FALSE
        <3>1. w.b0 \div 64 = RtpVersion /\ (w.b0 \div 16) % 2 = 0
            BY <1>6, <2>3
        <3>2. ~((w.b0 \div 16) % 2 = 1)
            BY <3>1
        <3>3. ~h.extension
            BY <2>1, <2>2, <3>2
        <3> QED
            BY <1>1, <2>1, <2>2, <3>1, <3>3
    <2> QED
        BY <2>3, <2>4 DEF Encodable
<1> QED
    BY <1>8, <1>9 DEF w, p

-----------------------------------------------------------------------------

\* The assumptions on the constants, one by one.
LEMMA Widths == SeqSpan \in Nat \ {0} /\ StampSpan \in Nat \ {0} /\ QueueSize \in Nat \ {0}
BY ConstantsAssumption DEF ConstantsAssumption

\* The assumptions, apart: the solver is slow with all of them.
LEMMA Bounds == MaxCalls \in Nat /\ MaxFaults \in Nat
BY ConstantsAssumption DEF ConstantsAssumption

\* What the applications and the network may put in.
LEMMA Inputs == /\ Samples \subseteq Nat /\ Lengths \subseteq Nat /\ OwnHeaders \subseteq Header
                /\ RtcpDatagrams \subseteq Seq(0 .. 255)
                /\ Starts \subseteq (0 .. (SeqSpan - 1)) \X (0 .. (StampSpan - 1))
BY ConstantsAssumption DEF ConstantsAssumption

\* A payload type is a number.
LEMMA PayloadTypeInput == PayloadTypes \subseteq Nat
BY ConstantsAssumption DEF ConstantsAssumption

\* The two sources differ, and are sources.
LEMMA Sources == Ssrc # Other /\ None # Ssrc /\ None # Other
BY ConstantsAssumption DEF ConstantsAssumption

-----------------------------------------------------------------------------

\* The invariant holds when the session starts.
LEMMA Start == Init => IInv
<1> SUFFICES ASSUME Init PROVE IInv
    OBVIOUS
<1>1. /\ payload_type \in 0 .. 127
      /\ sequence_number \in 0 .. (SeqSpan - 1) /\ timestamp \in 0 .. (StampSpan - 1)
    <2>1. PICK start \in Starts : sequence_number = start[1] /\ timestamp = start[2]
        BY DEF Init
    <2> QED
        BY <2>1, Inputs, PayloadTypeInput DEF Init
<1>2. TypeOK
    <2>1. sent = <<>> /\ writes = 0 /\ Len(sent) = 0 /\ queue = <<>> /\ Len(queue) = 0
        BY DEF Init
    <2>2. /\ flight \in [Reader -> SUBSET Nat]
          /\ trouble \in [Reader -> {None, "refused", "fatal"}]
          /\ reader \in [Reader -> {"reading", "holding", "ended"}]
          /\ holding \in [Reader -> Seq(Message)]
          /\ taken \in [Reader -> Seq(Nat)] /\ discarded \in [Reader -> SUBSET Nat]
        BY DEF Init
    <2>3. calls = 0 /\ faults = 0 /\ MaxCalls \in Nat /\ MaxFaults \in Nat
        BY Bounds DEF Init
    <2>4. /\ reports = <<>> /\ open = TRUE /\ calling = FALSE
          /\ peer_ssrc = None /\ received = <<>>
        BY DEF Init
    <2>5. /\ sent \in Seq(Datagram) /\ writes \in 0 .. Len(sent)
          /\ reports \in Seq(Seq(0..255)) /\ received \in Seq(Message)
          /\ queue \in Seq(Message)
        BY <2>1, <2>4
    <2>6. Len(queue) <= QueueSize /\ calls \in 0 .. MaxCalls /\ faults \in 0 .. MaxFaults
        BY <2>1, <2>3, Widths
    <2>7. open \in BOOLEAN /\ calling \in BOOLEAN /\ peer_ssrc \in {None, Ssrc, Other}
        BY <2>4
    <2> QED
        BY <1>1, <2>2, <2>5, <2>6, <2>7 DEF TypeOK
<1>3. Passed /\ Encoded /\ Numbering
    BY DEF Init, Passed, Encoded, Numbering, Reader
<1> QED
    BY <1>2, <1>3 DEF IInv

\* A datagram joins those that were sent.
LEMMA PutFacts ==
    ASSUME IInv, NEW h \in Header, NEW length \in Nat, NEW number \in Nat \cup {-1},
           NEW samples \in Nat, Put(h, length, number, samples)
    PROVE  LET n == Len(sent) + 1 IN
           /\ Len(sent) \in Nat /\ Len(sent') = n
           /\ DOMAIN sent = 1 .. Len(sent) /\ DOMAIN sent' = 1 .. n
           /\ \A k \in DOMAIN sent : sent'[k] = sent[k]
           /\ sent'[n].header = h /\ sent'[n].number = number
           /\ sent'[n].samples = samples /\ sent'[n].length = length
           /\ sent'[n].wire = Wire(h, length)
           /\ sent' \in Seq(Datagram)
           /\ flight' \in [Reader -> SUBSET Nat]
           /\ flight'["RTP"] = flight["RTP"] \cup {n}
<1> DEFINE d == [header |-> h, length |-> length, number |-> number,
                 samples |-> samples, wire |-> Wire(h, length)]
<1>1. sent \in Seq(Datagram) /\ flight \in [Reader -> SUBSET Nat]
    BY DEF IInv, TypeOK
<1>2. d \in Datagram
    BY WireType DEF Datagram
<1>3. sent' = Append(sent, d)
    BY DEF Put
<1>4. /\ Len(sent) \in Nat /\ Len(sent') = Len(sent) + 1
      /\ DOMAIN sent = 1 .. Len(sent) /\ DOMAIN sent' = 1 .. Len(sent) + 1
      /\ \A k \in DOMAIN sent : sent'[k] = sent[k]
      /\ sent'[Len(sent) + 1] = d /\ sent' \in Seq(Datagram)
    <2> HIDE DEF d
    <2> QED
        BY <1>1, <1>2, <1>3
<1>5. /\ flight' \in [Reader -> SUBSET Nat]
      /\ flight'["RTP"] = flight["RTP"] \cup {Len(sent) + 1}
    BY <1>1, <1>4 DEF Put, Reader
<1> QED
    BY <1>4, <1>5

\* What each step leaves alone, and what it does to the variables of the
\* invariant: the writer's side.
Sends == \/ \E samples \in Samples, length \in Lengths : WriteRtp(samples, length)
         \/ \E h \in OwnHeaders, length \in Lengths : SendRtpPacket(h, length)

\* The network, the failures and the calls that touch no message.
Rests ==
    \/ WriteFails \/ CallReceive \/ ReceiveNone \/ Cancel \/ DropSession
    \/ \E d \in RtcpDatagrams : SendReport(d)
    \/ \E r \in Reader : \/ \E error \in {"refused", "fatal"} : Trouble(r, error)
                         \/ RecvFails(r) \/ Shutdown(r)

\* Every step is that of the sender, of the network or of a reader.
LEMMA Steps ==
    ASSUME [Next]_vars
    PROVE  \/ Sends \/ Rests \/ Receive
           \/ \E r \in Reader : Offer(r) \/ \E n \in flight[r] : Recv(r, n)
           \/ UNCHANGED vars
BY DEF Next, Sends, Rests

\* Whoever sends, the datagram has a header.
LEMMA SendsPut ==
    ASSUME IInv, Sends
    PROVE  \E h \in Header, length \in Nat, number \in Nat \cup {-1}, samples \in Nat :
               Put(h, length, number, samples)
<1>0. /\ payload_type \in Nat /\ writes \in Nat
      /\ sequence_number \in Nat /\ timestamp \in Nat
    <2>1. /\ payload_type \in 0 .. 127 /\ sent \in Seq(Datagram) /\ writes \in 0 .. Len(sent)
          /\ sequence_number \in 0 .. (SeqSpan - 1) /\ timestamp \in 0 .. (StampSpan - 1)
        BY DEF IInv, TypeOK
    <2> QED
        BY <2>1, Widths
<1>1. ASSUME NEW samples \in Samples, NEW length \in Lengths, WriteRtp(samples, length)
      PROVE  \E h \in Header : Put(h, length, writes, samples)
    <2> DEFINE h == [version |-> RtpVersion, padding |-> FALSE, extension |-> FALSE,
                     marker |-> FALSE, payload_type |-> payload_type, csrcs |-> 0,
                     ssrc |-> Ssrc, seq |-> sequence_number, stamp |-> timestamp]
    <2>1. h \in Header
        BY <1>0 DEF Header, RtpVersion
    <2>2. Put(h, length, writes, samples)
        BY <1>1 DEF WriteRtp
    <2> QED
        BY <2>1, <2>2
<1>2. ASSUME NEW h \in OwnHeaders, NEW length \in Lengths, SendRtpPacket(h, length)
      PROVE  h \in Header /\ Put(h, length, -1, 0)
    BY <1>2, Inputs DEF SendRtpPacket
<1>3. 0 \in Nat /\ -1 \in Nat \cup {-1}
    OBVIOUS
<1> QED
    BY <1>0, <1>1, <1>2, <1>3, Inputs DEF Sends

\* Nothing else touches the session that writes.
LEMMA OthersLeaveWriter ==
    /\ Rests => UNCHANGED writerVars
    /\ Receive => UNCHANGED writerVars
    /\ \A r \in Reader : Offer(r) => UNCHANGED writerVars
    /\ \A r \in Reader : \A n \in flight[r] : Recv(r, n) => UNCHANGED writerVars
    /\ UNCHANGED vars => UNCHANGED writerVars
BY DEF Rests, WriteFails, CallReceive, ReceiveNone, Cancel, DropSession, SendReport,
    Trouble, RecvFails, Shutdown, Receive, Offer, Recv, vars

\* What a reader makes of a datagram.
LEMMA RecvCases ==
    ASSUME NEW r \in Reader, NEW n, Recv(r, n)
    PROVE  \/ /\ Parse(r, n).out = "ok"
              /\ reader' = [reader EXCEPT ![r] = "holding"]
              /\ holding' = [holding EXCEPT ![r] = <<[from |-> r, n |-> n]>>]
              /\ taken' = [taken EXCEPT ![r] = Append(taken[r], n)]
           \/ UNCHANGED <<reader, holding, taken>>
           \/ reader' = [reader EXCEPT ![r] = "ended"] /\ UNCHANGED <<holding, taken>>
BY DEF Recv, Leave

\* Every step keeps the types.
LEMMA TypeStep == ASSUME IInv, [Next]_vars PROVE TypeOK'
<1>0. TypeOK
    BY DEF IInv
<1>w. /\ payload_type \in 0 .. 127
      /\ sequence_number \in 0 .. (SeqSpan - 1) /\ timestamp \in 0 .. (StampSpan - 1)
      /\ sent \in Seq(Datagram) /\ writes \in 0 .. Len(sent)
    BY <1>0 DEF TypeOK
<1>n. /\ reports \in Seq(Seq(0..255)) /\ flight \in [Reader -> SUBSET Nat]
      /\ trouble \in [Reader -> {None, "refused", "fatal"}] /\ faults \in 0 .. MaxFaults
    BY <1>0 DEF TypeOK
<1>r. /\ reader \in [Reader -> {"reading", "holding", "ended"}]
      /\ holding \in [Reader -> Seq(Message)]
      /\ queue \in Seq(Message) /\ Len(queue) <= QueueSize
      /\ taken \in [Reader -> Seq(Nat)] /\ discarded \in [Reader -> SUBSET Nat]
    BY <1>0 DEF TypeOK
<1>c. /\ open \in BOOLEAN /\ calling \in BOOLEAN /\ peer_ssrc \in {None, Ssrc, Other}
      /\ received \in Seq(Message) /\ calls \in 0 .. MaxCalls
    BY <1>0 DEF TypeOK
<1>1. ASSUME NEW samples \in Samples, NEW length \in Lengths, WriteRtp(samples, length)
      PROVE  TypeOK'
    <2> DEFINE h == [version |-> RtpVersion, padding |-> FALSE, extension |-> FALSE,
                     marker |-> FALSE, payload_type |-> payload_type, csrcs |-> 0,
                     ssrc |-> Ssrc, seq |-> sequence_number, stamp |-> timestamp]
    <2>1. h \in Header /\ samples \in Nat /\ length \in Nat /\ writes \in Nat
        BY <1>w, Inputs DEF Header, RtpVersion
    <2>2. /\ Put(h, length, writes, samples)
          /\ timestamp' = (timestamp + samples) % StampSpan
          /\ sequence_number' = (sequence_number + 1) % SeqSpan
          /\ writes' = writes + 1
          /\ UNCHANGED <<payload_type, reports, trouble, faults, readerVars, callerVars>>
        BY <1>1 DEF WriteRtp
    <2> HIDE DEF h
    <2>3. /\ sent' \in Seq(Datagram) /\ flight' \in [Reader -> SUBSET Nat]
          /\ Len(sent') = Len(sent) + 1 /\ Len(sent) \in Nat
        BY <2>1, <2>2, PutFacts
    <2>4. writes' \in 0 .. Len(sent')
        BY <1>w, <2>2, <2>3
    <2>5. timestamp' \in 0 .. (StampSpan - 1)
        <3>1. timestamp + samples \in Nat /\ StampSpan \in Nat \ {0}
            BY <1>w, <2>1, Widths
        <3> QED
            BY <2>2, <3>1, Divided
    <2>6. sequence_number' \in 0 .. (SeqSpan - 1)
        <3>1. sequence_number + 1 \in Nat /\ SeqSpan \in Nat \ {0}
            BY <1>w, Widths
        <3> QED
            BY <2>2, <3>1, Divided
    <2> QED
        BY <1>w, <1>n, <1>r, <1>c, <2>2, <2>3, <2>4, <2>5, <2>6
        DEF TypeOK, readerVars, callerVars
<1>2. ASSUME NEW h \in OwnHeaders, NEW length \in Lengths, SendRtpPacket(h, length)
      PROVE  TypeOK'
    <2>1. h \in Header /\ length \in Nat /\ 0 \in Nat
        BY Inputs
    <2>2. /\ Put(h, length, -1, 0)
          /\ UNCHANGED <<payload_type, sequence_number, timestamp, writes, reports,
                         trouble, faults, readerVars, callerVars>>
        BY <1>2 DEF SendRtpPacket
    <2>3. /\ sent' \in Seq(Datagram) /\ flight' \in [Reader -> SUBSET Nat]
          /\ Len(sent') = Len(sent) + 1 /\ Len(sent) \in Nat
        BY <2>1, <2>2, PutFacts
    <2>4. writes' \in 0 .. Len(sent')
        BY <1>w, <2>2, <2>3
    <2> QED
        BY <1>w, <1>n, <1>r, <1>c, <2>2, <2>3, <2>4 DEF TypeOK, readerVars, callerVars
<1>3. ASSUME NEW d \in RtcpDatagrams, SendReport(d) PROVE TypeOK'
    <2>1. reports' \in Seq(Seq(0..255)) /\ Len(reports) \in Nat
        BY <1>n, <1>3, Inputs DEF SendReport
    <2>2. flight' \in [Reader -> SUBSET Nat]
        <3>1. flight' = [flight EXCEPT !["RTCP"] = flight["RTCP"] \cup {Len(reports) + 1}]
            BY <1>3 DEF SendReport
        <3>2. Len(reports) + 1 \in Nat
            BY <2>1
        <3> HIDE <2>1
        <3> QED
            BY <1>n, <3>1, <3>2
    <2> QED
        BY <1>w, <1>n, <1>r, <1>c, <1>3, <2>1, <2>2
        DEF TypeOK, SendReport, writerVars, readerVars, callerVars
<1>4. ASSUME NEW r \in Reader,
             \/ \E error \in {"refused", "fatal"} : Trouble(r, error)
             \/ RecvFails(r) \/ Shutdown(r)
      PROVE  TypeOK'
    <2>1. /\ trouble' \in [Reader -> {None, "refused", "fatal"}]
          /\ faults' \in 0 .. MaxFaults
          /\ reader' \in [Reader -> {"reading", "holding", "ended"}]
        <3>1. CASE \E error \in {"refused", "fatal"} : Trouble(r, error)
            BY <1>n, <1>r, <3>1, Bounds DEF Trouble, readerVars
        <3>2. CASE RecvFails(r) \/ Shutdown(r)
            BY <1>n, <1>r, <3>2 DEF RecvFails, Shutdown, Leave, netVars
        <3> QED
            BY <1>4, <3>1, <3>2
    <2>2. UNCHANGED <<writerVars, reports, flight, holding, queue, taken, discarded, callerVars>>
        BY <1>4 DEF Trouble, RecvFails, Shutdown, netVars, readerVars
    <2> QED
        BY <1>w, <1>n, <1>r, <1>c, <2>1, <2>2 DEF TypeOK, writerVars, callerVars
<1>5. CASE WriteFails \/ CallReceive \/ ReceiveNone \/ Cancel \/ DropSession
    <2>1. /\ faults' \in 0 .. MaxFaults /\ calls' \in 0 .. MaxCalls
          /\ calling' \in BOOLEAN /\ open' \in BOOLEAN
          /\ queue' \in Seq(Message) /\ Len(queue') <= QueueSize
        <3>1. CASE WriteFails
            BY <1>n, <1>r, <1>c, <3>1, Bounds DEF WriteFails, readerVars, callerVars
        <3>2. CASE CallReceive
            BY <1>n, <1>r, <1>c, <3>2, Bounds DEF CallReceive, netVars, readerVars
        <3>3. CASE ReceiveNone \/ Cancel
            BY <1>n, <1>r, <1>c, <3>3 DEF ReceiveNone, Cancel, netVars, readerVars
        <3>4. CASE DropSession
            <4>1. queue' = <<>> /\ queue' \in Seq(Message)
                BY <3>4 DEF DropSession
            <4>2. Len(queue') <= QueueSize
                BY <4>1, Widths
            <4>3. open' \in BOOLEAN /\ UNCHANGED <<faults, calls, calling>>
                BY <3>4 DEF DropSession, netVars
            <4> QED
                BY <1>n, <1>c, <4>1, <4>2, <4>3
        <3> QED
            BY <1>5, <3>1, <3>2, <3>3, <3>4
    <2>2. UNCHANGED <<writerVars, reports, flight, trouble, reader, holding, taken,
                      discarded, peer_ssrc, received>>
        BY <1>5
        DEF WriteFails, CallReceive, ReceiveNone, Cancel, DropSession, netVars,
            readerVars, callerVars
    <2> QED
        BY <1>w, <1>n, <1>r, <1>c, <2>1, <2>2 DEF TypeOK, writerVars
<1>6. ASSUME NEW r \in Reader, NEW n \in flight[r], Recv(r, n) PROVE TypeOK'
    <2>1. n \in Nat /\ n # 0 /\ [from |-> r, n |-> n] \in Message
        BY <1>n DEF Message, IInv, Passed
    <2>2. /\ flight' = [flight EXCEPT ![r] = flight[r] \ {n}]
          /\ UNCHANGED <<writerVars, reports, trouble, faults, queue, discarded, callerVars>>
        BY <1>6 DEF Recv
    <2>3. flight' \in [Reader -> SUBSET Nat]
        BY <1>n, <2>2
    <2>4. \/ /\ reader' = [reader EXCEPT ![r] = "holding"]
             /\ holding' = [holding EXCEPT ![r] = <<[from |-> r, n |-> n]>>]
             /\ taken' = [taken EXCEPT ![r] = Append(taken[r], n)]
          \/ UNCHANGED <<reader, holding, taken>>
          \/ reader' = [reader EXCEPT ![r] = "ended"] /\ UNCHANGED <<holding, taken>>
        BY <1>6, RecvCases
    <2>5. /\ reader' \in [Reader -> {"reading", "holding", "ended"}]
          /\ holding' \in [Reader -> Seq(Message)] /\ taken' \in [Reader -> Seq(Nat)]
        <3>1. Append(taken[r], n) \in Seq(Nat) /\ <<[from |-> r, n |-> n]>> \in Seq(Message)
            BY <1>r, <2>1
        <3> QED
            BY <1>r, <2>4, <3>1
    <2> QED
        BY <1>w, <1>n, <1>r, <1>c, <2>2, <2>3, <2>5 DEF TypeOK, writerVars, callerVars
<1>7. ASSUME NEW r \in Reader, Offer(r) PROVE TypeOK'
    <2>1. /\ UNCHANGED <<writerVars, netVars, taken, callerVars>>
          /\ holding' = [holding EXCEPT ![r] = <<>>]
          /\ reader' \in [Reader -> {"reading", "holding", "ended"}]
        BY <1>r, <1>7 DEF Offer, Leave
    <2>2. Len(holding[r]) = 1 /\ holding[r] \in Seq(Message)
        BY <1>r, <1>7 DEF Offer, IInv, Passed
    <2>3. holding[r][1].n \in Nat
        <3>1. holding[r][1] \in Message
            BY <2>2
        <3> QED
            BY <3>1 DEF Message
    <2>4. discarded' \in [Reader -> SUBSET Nat]
        <3>1. \/ discarded' = discarded
              \/ discarded' = [discarded EXCEPT ![r] = discarded[r] \cup {holding[r][1].n}]
            BY <1>7 DEF Offer
        <3> QED
            BY ZenonT(40), <1>r, <2>3, <3>1
    <2>5. queue' \in Seq(Message) /\ Len(queue') <= QueueSize
        <3>1. \/ queue' = queue
              \/ Len(queue) < QueueSize /\ queue' = queue \o holding[r]
            BY <1>7 DEF Offer
        <3>2. queue \o holding[r] \in Seq(Message)
            BY <1>r, <2>2, ConcatProperties
        <3>3. Len(queue \o holding[r]) = Len(queue) + 1
            <4>1. Len(queue \o holding[r]) = Len(queue) + Len(holding[r])
                BY <1>r, <2>2, ConcatProperties
            <4> QED
                BY <2>2, <4>1
        <3>4. Len(queue) \in Nat /\ QueueSize \in Nat
            BY <1>r, Widths
        <3>5. CASE queue' = queue
            BY <1>r, <3>5
        <3>6. CASE Len(queue) < QueueSize /\ queue' = queue \o holding[r]
            <4>1. queue' \in Seq(Message)
                BY <3>2, <3>6
            <4>2. Len(queue') = Len(queue) + 1
                BY <3>3, <3>6
            <4> QED
                BY <3>4, <3>6, <4>1, <4>2
        <3> QED
            BY <3>1, <3>5, <3>6
    <2>6. holding' \in [Reader -> Seq(Message)]
        BY <1>r, <2>1
    <2> QED
        BY <1>w, <1>n, <1>r, <1>c, <2>1, <2>4, <2>5, <2>6
        DEF TypeOK, writerVars, netVars, callerVars
<1>8. CASE Receive
    <2> DEFINE m == Head(queue)
    <2>1. /\ queue # <<>> /\ calling' = FALSE
          /\ received' = Append(received, m) /\ queue' = Tail(queue)
          /\ peer_ssrc' = IF m.from = "RTP" /\ peer_ssrc = None
                          THEN Packet(m).ssrc ELSE peer_ssrc
          /\ UNCHANGED <<writerVars, netVars, reader, holding, taken, discarded, open, calls>>
        BY <1>8 DEF Receive
    <2>2. /\ m \in Message /\ Tail(queue) \in Seq(Message)
          /\ Len(Tail(queue)) = Len(queue) - 1 /\ Len(queue) \in Nat
          /\ m = queue[1] /\ 1 \in DOMAIN queue
        BY <1>r, <2>1, HeadTailProperties
    <2>3. Append(received, m) \in Seq(Message) /\ Len(Tail(queue)) <= QueueSize
        BY <1>r, <1>c, <2>2, Widths
    <2>4. peer_ssrc' \in {None, Ssrc, Other}
        <3>1. CASE m.from = "RTP"
            <4>1. Good(m)
                BY <2>2 DEF IInv, Passed
            <4>2. m.n \in DOMAIN sent /\ RtpPacket(sent[m.n].wire).out = "ok"
                BY <3>1, <4>1 DEF Good
            <4>3. sent[m.n].wire.ssrc \in {Ssrc, Other}
                <5>1. sent[m.n] \in Datagram
                    BY <1>w, <4>2
                <5> QED
                    BY <5>1 DEF Datagram
            <4>4. Packet(m) = RtpPacket(sent[m.n].wire).packet
                BY <3>1 DEF Packet, Parse
            <4>5. RtpPacket(sent[m.n].wire).packet.ssrc = sent[m.n].wire.ssrc
                BY <4>2, Parsed
            <4>6. Packet(m).ssrc \in {Ssrc, Other}
                BY <4>3, <4>4, <4>5
            <4> QED
                BY <1>c, <2>1, <4>6
        <3> QED
            BY <1>c, <2>1, <3>1
    <2> HIDE DEF m
    <2> QED
        BY <1>w, <1>n, <1>r, <1>c, <2>1, <2>2, <2>3, <2>4 DEF TypeOK, writerVars, netVars
<1>9. CASE UNCHANGED vars
    BY <1>0, <1>9 DEF TypeOK, vars, writerVars, netVars, readerVars, callerVars
<1> QED
    BY <1>1, <1>2, <1>3, <1>4, <1>5, <1>6, <1>7, <1>8, <1>9, Steps DEF Sends, Rests

-----------------------------------------------------------------------------

\* What has been sent stays as it is.
LEMMA SentStays ==
    ASSUME IInv, [Next]_vars
    PROVE  /\ DOMAIN sent \subseteq DOMAIN sent'
           /\ \A k \in DOMAIN sent : sent'[k] = sent[k]
<1>1. CASE Sends
    <2>1. PICK h \in Header, length \in Nat, number \in Nat \cup {-1}, samples \in Nat :
              Put(h, length, number, samples)
        BY <1>1, SendsPut
    <2>2. /\ DOMAIN sent = 1 .. Len(sent) /\ DOMAIN sent' = 1 .. Len(sent) + 1
          /\ Len(sent) \in Nat
          /\ \A k \in DOMAIN sent : sent'[k] = sent[k]
        BY <2>1, PutFacts
    <2> QED
        BY <2>2
<1>2. CASE UNCHANGED sent
    BY <1>2
<1> QED
    BY <1>1, <1>2, OthersLeaveWriter, Steps DEF writerVars

\* Every step keeps the datagrams on their way as they were encoded.
LEMMA EncodedStep == ASSUME IInv, [Next]_vars PROVE Encoded'
<1>1. CASE Sends
    <2>1. PICK h \in Header, length \in Nat, number \in Nat \cup {-1}, samples \in Nat :
              Put(h, length, number, samples)
        BY <1>1, SendsPut
    <2> DEFINE n == Len(sent) + 1
    <2>2. /\ DOMAIN sent = 1 .. Len(sent) /\ DOMAIN sent' = 1 .. n /\ Len(sent) \in Nat
          /\ \A k \in DOMAIN sent : sent'[k] = sent[k]
          /\ sent'[n].wire = Wire(sent'[n].header, sent'[n].length)
        BY <2>1, PutFacts
    <2>3. ASSUME NEW k \in 1 .. n PROVE k \in DOMAIN sent \/ k = n
        BY <2>2
    <2> HIDE DEF n
    <2> QED
        BY <2>2, <2>3 DEF IInv, Encoded
<1>2. CASE UNCHANGED sent
    BY <1>2 DEF IInv, Encoded
<1> QED
    BY <1>1, <1>2, OthersLeaveWriter, Steps DEF writerVars

\* A message once parsed stays parsed.
StillGood(m) ==
    m.from = "RTP" => m.n \in DOMAIN sent' /\ RtpPacket(sent'[m.n].wire).out = "ok"

\* A message that is good stays good.
LEMMA GoodStays ==
    ASSUME IInv, [Next]_vars
    PROVE  /\ \A m : Good(m) => StillGood(m)
           /\ \A r \in Reader : \A i \in DOMAIN holding[r] : StillGood(holding[r][i])
           /\ \A i \in DOMAIN queue : StillGood(queue[i])
           /\ \A i \in DOMAIN received : StillGood(received[i])
<1>1. \A m : Good(m) => StillGood(m)
    BY SentStays DEF Good, StillGood
<1> QED
    BY <1>1 DEF IInv, Passed

\* The parts of Passed after a step.
LEMMA PassedParts ==
    ASSUME flight'["RTP"] \subseteq DOMAIN sent',
           \A r \in Reader : 0 \notin flight'[r],
           \A r \in Reader : reader'[r] = "holding" => Len(holding'[r]) = 1,
           \A r \in Reader : \A i \in DOMAIN holding'[r] : StillGood(holding'[r][i]),
           \A i \in DOMAIN queue' : StillGood(queue'[i]),
           \A i \in DOMAIN received' : StillGood(received'[i])
    PROVE  Passed'
BY DEF Passed, Good, StillGood

\* Every step keeps what was passed on good.
LEMMA PassedStep == ASSUME IInv, [Next]_vars PROVE Passed'
<1>0. /\ flight \in [Reader -> SUBSET Nat] /\ queue \in Seq(Message)
      /\ reader \in [Reader -> {"reading", "holding", "ended"}]
      /\ holding \in [Reader -> Seq(Message)] /\ received \in Seq(Message)
      /\ reports \in Seq(Seq(0 .. 255))
    BY DEF IInv, TypeOK
<1>1. /\ flight["RTP"] \subseteq DOMAIN sent /\ \A r \in Reader : 0 \notin flight[r]
      /\ \A r \in Reader : reader[r] = "holding" => Len(holding[r]) = 1
    BY DEF IInv, Passed
<1>2. DOMAIN sent \subseteq DOMAIN sent'
    BY SentStays
<1>3. CASE Sends
    <2>1. PICK h \in Header, length \in Nat, number \in Nat \cup {-1}, samples \in Nat :
              Put(h, length, number, samples)
        BY <1>3, SendsPut
    <2>2. /\ DOMAIN sent' = 1 .. Len(sent) + 1 /\ Len(sent) \in Nat
          /\ flight'["RTP"] = flight["RTP"] \cup {Len(sent) + 1}
        BY <2>1, PutFacts
    <2>3. flight'["RTP"] \subseteq DOMAIN sent' /\ 0 \notin flight'["RTP"]
        BY <1>1, <1>2, <2>2 DEF Reader
    <2>4. flight'["RTCP"] = flight["RTCP"]
        BY <1>0, <2>1 DEF Put, Reader
    <2>5. UNCHANGED <<reader, holding, queue, received>>
        BY <1>3 DEF Sends, WriteRtp, SendRtpPacket, readerVars, callerVars
    <2> QED
        BY <1>1, <2>3, <2>4, <2>5, GoodStays, PassedParts DEF Reader
<1>4. ASSUME NEW d \in RtcpDatagrams, SendReport(d) PROVE Passed'
    <2>1. /\ flight' = [flight EXCEPT !["RTCP"] = flight["RTCP"] \cup {Len(reports) + 1}]
          /\ UNCHANGED <<sent, reader, holding, queue, received>>
        BY <1>4 DEF SendReport, writerVars, readerVars, callerVars
    <2>2. Len(reports) + 1 # 0
        <3>1. Len(reports) \in Nat
            BY <1>0
        <3> QED
            BY <3>1
    <2>3. /\ flight'["RTP"] = flight["RTP"]
          /\ \A r \in Reader : 0 \notin flight'[r]
        BY <1>0, <1>1, <2>1, <2>2 DEF Reader
    <2> QED
        BY <1>1, <2>1, <2>3, GoodStays, PassedParts
<1>5. CASE /\ UNCHANGED <<sent, flight, holding, queue, received>>
           /\ \A r \in Reader : reader'[r] \in {reader[r], "ended"}
    BY <1>1, <1>5, GoodStays, PassedParts
<1>6. ASSUME NEW r \in Reader, RecvFails(r) \/ Shutdown(r) PROVE Passed'
    <2>1. /\ UNCHANGED <<sent, flight, holding, queue, received>>
          /\ reader' = reader \/ reader' = [reader EXCEPT ![r] = "ended"]
        BY <1>6 DEF RecvFails, Shutdown, Leave, writerVars, netVars, readerVars, callerVars
    <2> QED
        BY <1>0, <1>5, <2>1
<1>7. ASSUME NEW r \in Reader, NEW error, Trouble(r, error) PROVE Passed'
    BY <1>5, <1>7 DEF Trouble, writerVars, readerVars, callerVars
<1>8. CASE WriteFails \/ CallReceive \/ ReceiveNone \/ Cancel
    BY <1>5, <1>8 DEF WriteFails, CallReceive, ReceiveNone, Cancel, writerVars, netVars,
        readerVars, callerVars
<1>9. CASE DropSession
    <2>1. queue' = <<>> /\ UNCHANGED <<sent, flight, reader, holding, received>>
        BY <1>9 DEF DropSession, writerVars, netVars
    <2>2. \A i \in DOMAIN queue' : FALSE
        BY <2>1
    <2> QED
        BY <1>1, <2>1, <2>2, GoodStays, PassedParts
<1>10. ASSUME NEW r \in Reader, NEW n \in flight[r], Recv(r, n) PROVE Passed'
    <2>1. /\ flight' = [flight EXCEPT ![r] = flight[r] \ {n}]
          /\ UNCHANGED <<sent, queue, received>>
        BY <1>10 DEF Recv, writerVars, callerVars
    <2>2. /\ flight'["RTP"] \subseteq DOMAIN sent'
          /\ \A q \in Reader : 0 \notin flight'[q]
        BY <1>0, <1>1, <2>1 DEF Reader
    <2>3. CASE /\ Parse(r, n).out = "ok"
               /\ reader' = [reader EXCEPT ![r] = "holding"]
               /\ holding' = [holding EXCEPT ![r] = <<[from |-> r, n |-> n]>>]
        <3> DEFINE m == [from |-> r, n |-> n]
        <3>1. Good(m)
            <4>1. CASE r = "RTP"
                BY <1>1, <2>3, <4>1 DEF Good, Parse
            <4> QED
                BY <4>1 DEF Good
        <3>2. StillGood(m)
            BY <3>1, GoodStays
        <3>3. /\ holding'[r] = <<m>> /\ \A q \in Reader \ {r} : holding'[q] = holding[q]
              /\ \A q \in Reader \ {r} : reader'[q] = reader[q]
            BY <1>0, <2>3
        <3> HIDE DEF m
        <3>4. Len(<<m>>) = 1 /\ DOMAIN <<m>> = {1} /\ <<m>>[1] = m
            OBVIOUS
        <3>5. \A q \in Reader : \A i \in DOMAIN holding'[q] : StillGood(holding'[q][i])
            BY <3>2, <3>3, <3>4, GoodStays
        <3>6. \A q \in Reader : reader'[q] = "holding" => Len(holding'[q]) = 1
            BY <1>1, <3>3, <3>4
        <3> QED
            BY <2>1, <2>2, <3>5, <3>6, GoodStays, PassedParts
    <2>4. CASE /\ UNCHANGED holding
               /\ reader' = reader \/ reader' = [reader EXCEPT ![r] = "ended"]
        BY <1>0, <1>1, <2>1, <2>2, <2>4, GoodStays, PassedParts
    <2> QED
        BY <1>10, <2>3, <2>4, RecvCases
<1>11. ASSUME NEW r \in Reader, Offer(r) PROVE Passed'
    <2>1. /\ holding' = [holding EXCEPT ![r] = <<>>]
          /\ UNCHANGED <<sent, flight, received>>
          /\ \/ reader' = [reader EXCEPT ![r] = "ended"]
             \/ reader' = [reader EXCEPT ![r] = "reading"]
          /\ queue' = queue \/ queue' = queue \o holding[r]
        BY <1>11 DEF Offer, Leave, writerVars, netVars, callerVars
    <2>2. /\ holding'[r] = <<>> /\ reader'[r] # "holding"
          /\ \A q \in Reader \ {r} : holding'[q] = holding[q] /\ reader'[q] = reader[q]
        BY <1>0, <2>1
    <2>3. \A q \in Reader : \A i \in DOMAIN holding'[q] : StillGood(holding'[q][i])
        <3>1. \A i \in DOMAIN holding'[r] : FALSE
            BY <2>2
        <3> QED
            BY <2>2, <3>1, GoodStays
    <2>4. \A i \in DOMAIN queue' : StillGood(queue'[i])
        <3>1. CASE queue' = queue
            BY <3>1, GoodStays
        <3>2. CASE queue' = queue \o holding[r]
            <4>1. holding[r] \in Seq(Message)
                BY <1>0
            <4>2. ASSUME NEW i \in DOMAIN (queue \o holding[r])
                  PROVE  \/ i \in DOMAIN queue /\ (queue \o holding[r])[i] = queue[i]
                         \/ /\ i - Len(queue) \in DOMAIN holding[r]
                            /\ (queue \o holding[r])[i] = holding[r][i - Len(queue)]
                BY <1>0, <4>1
            <4> QED
                BY <3>2, <4>2, GoodStays
        <3> QED
            BY <2>1, <3>1, <3>2
    <2> QED
        BY <1>1, <2>1, <2>2, <2>3, <2>4, GoodStays, PassedParts
<1>12. CASE Receive
    <2>1. /\ queue # <<>> /\ received' = Append(received, Head(queue))
          /\ queue' = Tail(queue) /\ UNCHANGED <<sent, flight, reader, holding>>
        BY <1>12 DEF Receive, writerVars, netVars
    <2>2. \A i \in DOMAIN queue' : i + 1 \in DOMAIN queue /\ queue'[i] = queue[i + 1]
        BY <1>0, <2>1, HeadTailProperties
    <2>3. Head(queue) = queue[1] /\ 1 \in DOMAIN queue /\ Head(queue) \in Message
        BY <1>0, <2>1, HeadTailProperties
    <2>4. \A i \in DOMAIN received' :
              \/ i \in DOMAIN received /\ received'[i] = received[i]
              \/ received'[i] = Head(queue)
        <3> DEFINE m == Head(queue)
        <3>1. m \in Message /\ received' = Append(received, m)
            BY <2>1, <2>3
        <3> HIDE DEF m
        <3>2. \A i \in DOMAIN received' :
                  \/ i \in DOMAIN received /\ received'[i] = received[i]
                  \/ received'[i] = m
            BY <1>0, <3>1
        <3> QED
            BY <3>2 DEF m
    <2> QED
        BY <1>1, <2>1, <2>2, <2>3, <2>4, GoodStays, PassedParts
<1>13. CASE UNCHANGED vars
    BY <1>5, <1>13 DEF vars, writerVars, netVars, readerVars, callerVars
<1> QED
    BY <1>3, <1>4, <1>6, <1>7, <1>8, <1>9, <1>10, <1>11, <1>12, <1>13, Steps DEF Rests

-----------------------------------------------------------------------------

\* Packet k counts once more.
LEMMA CountOn ==
    ASSUME NEW a \in Nat, NEW b \in Nat, NEW x \in Nat, a < b,
           NEW y, y = (x + (b - a)) % SeqSpan
    PROVE  (y + 1) % SeqSpan = (x + ((b + 1) - a)) % SeqSpan
<1>1. x + (b - a) \in Nat /\ (x + (b - a)) + 1 = x + ((b + 1) - a)
    OBVIOUS
<1> QED
    BY <1>1, WrapOnce, Widths

\* Every step keeps the numbers and timestamps of what was sent.
LEMMA NumberingStep == ASSUME IInv, [Next]_vars PROVE Numbering'
<1>0. /\ sent \in Seq(Datagram) /\ writes \in 0 .. Len(sent)
      /\ sequence_number \in 0 .. (SeqSpan - 1) /\ timestamp \in 0 .. (StampSpan - 1)
      /\ payload_type \in 0 .. 127
    BY DEF IInv, TypeOK
<1>1. Numbering
    BY DEF IInv
<1>n. \A k \in DOMAIN sent : sent[k].number \in Nat \cup {-1}
    <2>1. \A k \in DOMAIN sent : sent[k] \in Datagram
        BY <1>0
    <2> QED
        BY <2>1 DEF Datagram
<1>2. CASE UNCHANGED writerVars
    BY <1>1, <1>2 DEF Numbering, Written, writerVars
<1>3. ASSUME NEW h \in OwnHeaders, NEW length \in Lengths, SendRtpPacket(h, length)
      PROVE  Numbering'
    <2> DEFINE n == Len(sent) + 1
    <2>1. Put(h, length, -1, 0) /\ UNCHANGED <<sequence_number, timestamp, writes>>
        BY <1>3 DEF SendRtpPacket
    <2>2. /\ DOMAIN sent' = 1 .. n /\ DOMAIN sent = 1 .. Len(sent) /\ Len(sent) \in Nat
          /\ \A k \in DOMAIN sent : sent'[k] = sent[k]
          /\ sent'[n].number = -1
        BY <2>1, PutFacts, Inputs
    <2>3. ASSUME NEW k \in DOMAIN sent', Written(k)'
          PROVE  k \in DOMAIN sent /\ Written(k) /\ sent'[k] = sent[k]
        <3>1. sent'[k].number # -1
            BY <2>3 DEF Written
        <3>2. k \in DOMAIN sent
            BY <2>2, <3>1
        <3> QED
            BY <2>2, <3>1, <3>2 DEF Written
    <2> QED
        BY <1>1, <2>1, <2>3 DEF Numbering
<1>4. ASSUME NEW samples \in Samples, NEW length \in Lengths, WriteRtp(samples, length)
      PROVE  Numbering'
    <2> DEFINE h == [version |-> RtpVersion, padding |-> FALSE, extension |-> FALSE,
                     marker |-> FALSE, payload_type |-> payload_type, csrcs |-> 0,
                     ssrc |-> Ssrc, seq |-> sequence_number, stamp |-> timestamp]
               n == Len(sent) + 1
    <2>1. /\ h \in Header /\ h.seq = sequence_number /\ h.stamp = timestamp
          /\ samples \in Nat /\ length \in Nat /\ writes \in Nat
        BY <1>0, Inputs, Widths DEF Header, RtpVersion
    <2>2. /\ Put(h, length, writes, samples)
          /\ timestamp' = (timestamp + samples) % StampSpan
          /\ sequence_number' = (sequence_number + 1) % SeqSpan
          /\ writes' = writes + 1
        BY <1>4 DEF WriteRtp
    <2> HIDE DEF h
    <2>3. /\ DOMAIN sent' = 1 .. n /\ DOMAIN sent = 1 .. Len(sent) /\ Len(sent) \in Nat
          /\ \A k \in DOMAIN sent : sent'[k] = sent[k]
          /\ sent'[n].number = writes /\ sent'[n].samples = samples
          /\ sent'[n].header = h
        BY <2>1, <2>2, PutFacts
    <2>4. \A k \in DOMAIN sent' : k \in DOMAIN sent \/ k = n
        BY <2>3
    <2> HIDE DEF n
    <2>5. ASSUME NEW k \in DOMAIN sent, sent[k].number # -1
          PROVE  /\ sent[k].number \in Nat /\ sent[k].number < writes
                 /\ sent[k].header.seq \in Nat
                 /\ sent[k].header.seq \in 0 .. (SeqSpan - 1)
                 /\ sequence_number =
                        (sent[k].header.seq + (writes - sent[k].number)) % SeqSpan
                 /\ sent[k].number = writes - 1 =>
                        timestamp = (sent[k].header.stamp + sent[k].samples) % StampSpan
        <3>1. sent[k].number \in Nat
            BY <1>n, <2>5
        <3> QED
            BY <1>1, <2>5, <3>1, Widths DEF Numbering, Written
    <2>6. ASSUME NEW k \in DOMAIN sent', sent'[k].number # -1
          PROVE  /\ sent'[k].number < writes'
                 /\ sequence_number' =
                        (sent'[k].header.seq + (writes' - sent'[k].number)) % SeqSpan
                 /\ sent'[k].header.seq \in 0 .. (SeqSpan - 1)
                 /\ sent'[k].number = writes' - 1 =>
                        timestamp' = (sent'[k].header.stamp + sent'[k].samples) % StampSpan
        <3>1. CASE k \in DOMAIN sent
            <4>1. sent'[k] = sent[k]
                BY <2>3, <3>1
            <4>2. /\ sent[k].number \in Nat /\ sent[k].number < writes
                  /\ sent[k].header.seq \in Nat
                  /\ sent[k].header.seq \in 0 .. (SeqSpan - 1)
                  /\ sequence_number =
                         (sent[k].header.seq + (writes - sent[k].number)) % SeqSpan
                BY <2>5, <2>6, <3>1, <4>1
            <4>3. (sequence_number + 1) % SeqSpan =
                      (sent[k].header.seq + ((writes + 1) - sent[k].number)) % SeqSpan
                BY SMTT(40), <2>1, <4>2, CountOn
            <4>4. sent[k].number # (writes + 1) - 1
                BY <2>1, <4>2
            <4>5. sent[k].number < writes + 1
                BY <2>1, <4>2
            <4> QED
                BY <2>2, <4>1, <4>2, <4>3, <4>4, <4>5
        <3>2. CASE k = n
            <4>1. (writes + 1) - writes = 1 /\ writes < writes + 1
                BY <2>1
            <4> QED
                BY <1>0, <2>1, <2>2, <2>3, <3>2, <4>1
        <3> QED
            BY <2>4, <3>1, <3>2
    <2>7. ASSUME NEW j \in DOMAIN sent', NEW k \in DOMAIN sent', sent'[j].number # -1,
                 sent'[k].number # -1, sent'[j].number <= sent'[k].number
          PROVE  /\ sent'[k].header.seq =
                        (sent'[j].header.seq + (sent'[k].number - sent'[j].number)) % SeqSpan
                 /\ sent'[k].number = sent'[j].number + 1 =>
                        sent'[k].header.stamp =
                            (sent'[j].header.stamp + sent'[j].samples) % StampSpan
        <3>1. CASE j \in DOMAIN sent /\ k \in DOMAIN sent
            BY <1>1, <2>3, <2>7, <3>1 DEF Numbering, Written
        <3>2. CASE j \in DOMAIN sent /\ k = n
            <4>1. sent'[j] = sent[j] /\ sent[j].number # -1
                BY <2>3, <2>7, <3>2
            <4>2. /\ sent[j].number \in Nat
                  /\ sequence_number =
                         (sent[j].header.seq + (writes - sent[j].number)) % SeqSpan
                  /\ sent[j].number = writes - 1 =>
                         timestamp = (sent[j].header.stamp + sent[j].samples) % StampSpan
                BY <2>5, <3>2, <4>1
            <4>3. writes = sent[j].number + 1 => sent[j].number = writes - 1
                BY <2>1, <4>2
            <4> QED
                BY <2>1, <2>3, <3>2, <4>1, <4>2, <4>3
        <3>3. CASE j = n /\ k \in DOMAIN sent
            <4>1. sent'[k] = sent[k] /\ sent[k].number < writes /\ sent[k].number \in Nat
                BY <2>3, <2>5, <2>7, <3>3
            <4> QED
                BY <2>1, <2>3, <2>7, <3>3, <4>1
        <3>4. CASE j = n /\ k = n
            <4>1. writes - writes = 0 /\ writes # writes + 1
                BY <2>1
            <4>2. sequence_number + 0 = sequence_number /\ sequence_number % SeqSpan = sequence_number
                BY <1>0, Widths, Small
            <4> QED
                BY <2>1, <2>3, <3>4, <4>1, <4>2
        <3> QED
            BY <2>4, <3>1, <3>2, <3>3, <3>4
    <2> QED
        BY <2>6, <2>7 DEF Numbering, Written
<1> QED
    BY <1>2, <1>3, <1>4, OthersLeaveWriter, Steps DEF Sends

-----------------------------------------------------------------------------

\* The inductive invariant holds in every reachable state.
THEOREM Invariance == Spec => []IInv
<1>1. IInv /\ [Next]_vars => IInv'
    BY TypeStep, PassedStep, EncodedStep, NumberingStep DEF IInv
<1> QED
    BY Start, <1>1, PTL DEF Spec

\* Every variable of the two sessions keeps its type, the channel its bound
\* and the counters their widths (rtp/mod.rs).
THEOREM TypeCorrect == Spec => []TypeOK
BY Invariance, PTL DEF IInv

\* A message of the application stands for a datagram that was sent.
LEMMA KeptGood ==
    ASSUME IInv, NEW m \in Kept, m.from = "RTP"
    PROVE  /\ m.n \in DOMAIN sent /\ sent[m.n] \in Datagram
           /\ RtpPacket(Wire(sent[m.n].header, sent[m.n].length)).out = "ok"
           /\ Packet(m) = RtpPacket(Wire(sent[m.n].header, sent[m.n].length)).packet
           /\ Packet(m).seq = sent[m.n].header.seq
           /\ Packet(m).stamp = sent[m.n].header.stamp
<1>1. Good(m)
    BY DEF Kept, ToSet, IInv, Passed
<1>2. m.n \in DOMAIN sent /\ RtpPacket(sent[m.n].wire).out = "ok"
    BY <1>1 DEF Good
<1>3. sent[m.n] \in Datagram
    BY <1>2 DEF IInv, TypeOK
<1>4. sent[m.n].wire = Wire(sent[m.n].header, sent[m.n].length)
    BY <1>2 DEF IInv, Encoded
<1>5. Packet(m) = RtpPacket(sent[m.n].wire).packet
    BY DEF Packet, Parse
<1>6. /\ RtpPacket(sent[m.n].wire).packet.seq = sent[m.n].wire.seq
      /\ RtpPacket(sent[m.n].wire).packet.stamp = sent[m.n].wire.stamp
    BY <1>2, Parsed
<1>7. /\ Wire(sent[m.n].header, sent[m.n].length).seq = sent[m.n].header.seq
      /\ Wire(sent[m.n].header, sent[m.n].length).stamp = sent[m.n].header.stamp
    BY DEF Wire
<1>8. /\ Packet(m).seq = sent[m.n].header.seq
      /\ Packet(m).stamp = sent[m.n].header.stamp
    BY <1>4, <1>5, <1>6, <1>7
<1> QED
    BY <1>2, <1>3, <1>4, <1>5, <1>8

\* What the peer reads in the sequence numbers is what was lost, for every
\* width of the counters (RtpSession::write_rtp).
THEOREM LossIsCounted == Spec => []GapsCountLoss
<1>1. ASSUME IInv, NEW m1 \in Kept, NEW m2 \in Kept, m1.from = "RTP", m2.from = "RTP",
             0 <= sent[m1.n].number, sent[m1.n].number <= sent[m2.n].number
      PROVE  /\ Packet(m2).seq =
                    (Packet(m1).seq + (sent[m2.n].number - sent[m1.n].number)) % SeqSpan
             /\ sent[m2.n].number = sent[m1.n].number + 1 =>
                    Packet(m2).stamp = (Packet(m1).stamp + sent[m1.n].samples) % StampSpan
    <2>1. m1.n \in DOMAIN sent /\ m2.n \in DOMAIN sent
          /\ sent[m1.n] \in Datagram /\ sent[m2.n] \in Datagram
        BY <1>1, KeptGood
    <2>2. /\ Packet(m1).seq = sent[m1.n].header.seq
          /\ Packet(m1).stamp = sent[m1.n].header.stamp
        BY <1>1, KeptGood
    <2>3. /\ Packet(m2).seq = sent[m2.n].header.seq
          /\ Packet(m2).stamp = sent[m2.n].header.stamp
        BY <1>1, KeptGood
    <2>4. sent[m1.n].number \in Nat \cup {-1} /\ sent[m2.n].number \in Nat \cup {-1}
        BY <2>1 DEF Datagram
    <2>5. sent[m1.n].number # -1 /\ sent[m2.n].number # -1
        BY <1>1, <2>4
    <2> QED
        BY <1>1, <2>1, <2>2, <2>3, <2>5 DEF IInv, Numbering, Written
<1>2. IInv => GapsCountLoss
    BY <1>1 DEF GapsCountLoss
<1> QED
    BY <1>2, Invariance, PTL

\* What an application receives over RTP is what the peer wrote exactly if
\* the header can be encoded (rtp/mod.rs, header.rs): the RTP half of
\* ReadAsWritten.
THEOREM RtpFaithful == Spec => [](\A m \in Kept : m.from = "RTP" => RtpAsWritten(m))
<1>1. ASSUME IInv, NEW m \in Kept, m.from = "RTP" PROVE RtpAsWritten(m)
    <2>1. /\ sent[m.n] \in Datagram
          /\ RtpPacket(Wire(sent[m.n].header, sent[m.n].length)).out = "ok"
          /\ Packet(m) = RtpPacket(Wire(sent[m.n].header, sent[m.n].length)).packet
        BY <1>1, KeptGood
    <2>2. sent[m.n].header \in Header /\ sent[m.n].length \in Nat
        BY <2>1 DEF Datagram
    <2> QED
        BY <2>1, <2>2, CodecFaithful DEF RtpAsWritten
<1>2. IInv => \A m \in Kept : m.from = "RTP" => RtpAsWritten(m)
    BY <1>1
<1> QED
    BY <1>2, Invariance, PTL
-----------------------------------------------------------------------------
(* The order of the messages.                                              *)

Of(r) == [from : {r}, n : Nat \ {0}]

\* The numbers of a message more, and of one of the other socket.
LEMMA NumbersAppend ==
    ASSUME NEW r \in Reader, NEW ms \in Seq(Message), NEW m \in Message
    PROVE  /\ Numbers(r, ms) \in Seq(Nat)
           /\ m.from = r => Numbers(r, Append(ms, m)) = Append(Numbers(r, ms), m.n)
           /\ m.from # r => Numbers(r, Append(ms, m)) = Numbers(r, ms)
<1> DEFINE f == Filter(ms, Of(r))
           g == Filter(Append(ms, m), Of(r))
<1>1. f \in Seq(Message)
    BY FilterType
<1>2. g = IF m \in Of(r) THEN Append(f, m) ELSE f
    BY FilterAppend
<1>3. m.n \in Nat /\ (m \in Of(r) <=> m.from = r)
    BY DEF Message, Of
<1>4. /\ Numbers(r, ms) = [k \in DOMAIN f |-> f[k].n]
      /\ Numbers(r, Append(ms, m)) = [k \in DOMAIN g |-> g[k].n]
    BY DEF Numbers, Of
<1> HIDE DEF f, g
<1>5. /\ Len(f) \in Nat /\ DOMAIN f = 1 .. Len(f)
      /\ \A k \in 1 .. Len(f) : f[k].n \in Nat
    <2>1. \A k \in 1 .. Len(f) : f[k] \in Message
        BY <1>1
    <2> QED
        BY <1>1, <2>1 DEF Message
<1>6. Numbers(r, ms) \in Seq(Nat) /\ Len(Numbers(r, ms)) = Len(f)
    BY <1>4, <1>5
<1>7. ASSUME m.from = r PROVE Numbers(r, Append(ms, m)) = Append(Numbers(r, ms), m.n)
    <2>1. g = Append(f, m)
        BY <1>2, <1>3, <1>7
    <2>2. /\ DOMAIN g = 1 .. (Len(f) + 1) /\ g[Len(f) + 1] = m
          /\ \A k \in 1 .. Len(f) : g[k] = f[k]
        BY <1>1, <2>1
    <2> DEFINE a == Numbers(r, Append(ms, m))
               b == Append(Numbers(r, ms), m.n)
               n == m.n
    <2>3. /\ b = [k \in 1 .. (Len(f) + 1) |->
                     IF k = Len(f) + 1 THEN m.n ELSE Numbers(r, ms)[k]]
        <3> HIDE DEF n
        <3>1. Append(Numbers(r, ms), n) =
                  [k \in 1 .. (Len(f) + 1) |->
                      IF k = Len(f) + 1 THEN n ELSE Numbers(r, ms)[k]]
            BY <1>3, <1>6 DEF n
        <3> QED
            BY <3>1 DEF n
    <2>4. \A k \in 1 .. (Len(f) + 1) :
              g[k].n = IF k = Len(f) + 1 THEN m.n ELSE Numbers(r, ms)[k]
        BY <1>4, <1>5, <2>2
    <2> QED
        BY <1>4, <2>2, <2>3, <2>4
<1> QED
    BY <1>2, <1>3, <1>4, <1>6, <1>7

\* The messages of the one socket are none of the other's.
LEMMA NumbersEmpty == \A r \in Reader : Numbers(r, <<>>) = <<>>
    BY FilterEmpty DEF Numbers

\* What a reader still may take has not been numbered otherwise: where the
\* datagrams of a socket end.
Total(r) == IF r = "RTP" THEN Len(sent) ELSE Len(reports)

\* The messages of one socket that have been queued, handed out or not.
Queued(r) == Numbers(r, received \o queue)

Survivors(r) == Nat \ discarded[r]

\* Reader r holds the last of those it has taken, or nothing.
Holds(r) ==
    \E front \in Seq(Nat) :
        LET n == holding[r][1].n IN
        /\ holding[r] = <<[from |-> r, n |-> n]>>
        /\ n \in Nat \ {0} /\ n \notin discarded[r]
        /\ \A i \in DOMAIN front : front[i] # n
        /\ taken[r] = Append(front, n)
        /\ open => Queued(r) = Filter(front, Survivors(r))

\* What is taken or discarded is not on its way any more, and what is queued
\* is what was taken, without what was discarded and what the reader holds.
OrderedAt(r) ==
    /\ flight[r] \subseteq 1 .. Total(r)
    /\ \A i \in DOMAIN taken[r] : taken[r][i] \in (1 .. Total(r)) \ flight[r]
    /\ discarded[r] \subseteq (1 .. Total(r)) \ flight[r]
    /\ reader[r] = "holding" => Holds(r)
    /\ reader[r] # "holding" => holding[r] = <<>>
    /\ reader[r] # "holding" /\ open => Queued(r) = Filter(taken[r], Survivors(r))

Ordered == \A r \in Reader : OrderedAt(r)

\* It holds at first.
LEMMA OrderedStart == Init => Ordered
<1> SUFFICES ASSUME Init PROVE Ordered
    OBVIOUS
<1>1. /\ received = <<>> /\ queue = <<>> /\ sent = <<>> /\ reports = <<>>
      /\ \A r \in Reader : /\ taken[r] = <<>> /\ discarded[r] = {} /\ flight[r] = {}
                           /\ reader[r] = "reading" /\ holding[r] = <<>>
    BY DEF Init
<1>2. received \o queue = <<>>
    BY <1>1
<1>3. \A r \in Reader : Queued(r) = <<>> /\ Filter(taken[r], Survivors(r)) = <<>>
    BY <1>1, <1>2, NumbersEmpty, FilterEmpty DEF Queued
<1>4. DOMAIN <<>> = {}
    OBVIOUS
<1> QED
    BY <1>1, <1>3, <1>4 DEF Ordered, OrderedAt

\* A step that only adds to what is on its way keeps the order.
LEMMA OrderedMore ==
    ASSUME TypeOK, Ordered, UNCHANGED <<taken, discarded, reader, holding, queue, received, open>>,
           \A r \in Reader : /\ Total(r)' \in Nat /\ Total(r) <= Total(r)'
                             /\ flight'[r] \subseteq flight[r] \cup ((Total(r) + 1) .. Total(r)')
    PROVE  Ordered'
<1>1. ASSUME NEW r \in Reader PROVE Total(r) \in Nat
    BY DEF Total, TypeOK
<1>2. ASSUME NEW r \in Reader
      PROVE  /\ Queued(r)' = Queued(r) /\ Survivors(r)' = Survivors(r)
             /\ Holds(r) => Holds(r)'
    BY DEF Queued, Survivors, Holds
<1>3. ASSUME NEW r \in Reader
      PROVE  /\ flight'[r] \subseteq 1 .. Total(r)'
             /\ (1 .. Total(r)) \ flight[r] \subseteq (1 .. Total(r)') \ flight'[r]
    <2>1. flight[r] \subseteq 1 .. Total(r) /\ Total(r) \in Nat /\ Total(r)' \in Nat
        BY <1>1 DEF Ordered, OrderedAt
    <2> QED
        BY <2>1
<1>4. ASSUME NEW r \in Reader
      PROVE  /\ flight'[r] \subseteq 1 .. Total(r)'
             /\ \A i \in DOMAIN taken'[r] : taken'[r][i] \in (1 .. Total(r)') \ flight'[r]
             /\ discarded'[r] \subseteq (1 .. Total(r)') \ flight'[r]
             /\ reader'[r] = "holding" => Holds(r)'
             /\ reader'[r] # "holding" => holding'[r] = <<>>
             /\ reader'[r] # "holding" /\ open' =>
                    Queued(r)' = Filter(taken'[r], Survivors(r)')
    BY <1>2, <1>3 DEF Ordered, OrderedAt
<1> QED
    BY <1>4 DEF Ordered, OrderedAt

\* A datagram is taken.
LEMMA OrderedRecv ==
    ASSUME TypeOK, Ordered, NEW r \in Reader, NEW n \in flight[r], Recv(r, n)
    PROVE  Ordered'
<1>1. /\ flight \in [Reader -> SUBSET Nat] /\ taken \in [Reader -> Seq(Nat)]
      /\ reader \in [Reader -> {"reading", "holding", "ended"}]
      /\ holding \in [Reader -> Seq(Message)] /\ discarded \in [Reader -> SUBSET Nat]
      /\ sent \in Seq(Datagram) /\ reports \in Seq(Seq(0..255))
    BY DEF TypeOK
<1>2. /\ flight' = [flight EXCEPT ![r] = flight[r] \ {n}] /\ reader[r] = "reading"
      /\ UNCHANGED <<sent, reports, queue, discarded, received, open>>
    BY DEF Recv, writerVars, callerVars
<1>3. \/ /\ reader' = [reader EXCEPT ![r] = "holding"]
         /\ holding' = [holding EXCEPT ![r] = <<[from |-> r, n |-> n]>>]
         /\ taken' = [taken EXCEPT ![r] = Append(taken[r], n)]
      \/ UNCHANGED <<reader, holding, taken>>
      \/ reader' = [reader EXCEPT ![r] = "ended"] /\ UNCHANGED <<holding, taken>>
    BY RecvCases
<1>4. \A q \in Reader : /\ Total(q)' = Total(q) /\ flight'[q] \subseteq flight[q]
                        /\ Queued(q)' = Queued(q) /\ Survivors(q)' = Survivors(q)
    BY <1>1, <1>2 DEF Total, Queued, Survivors
<1>5. ASSUME NEW q \in Reader, q # r PROVE OrderedAt(q)'
    <2>1. flight'[q] = flight[q] /\ taken'[q] = taken[q] /\ reader'[q] = reader[q]
          /\ holding'[q] = holding[q] /\ discarded'[q] = discarded[q] /\ open' = open
        BY <1>1, <1>2, <1>3, <1>5
    <2>2. Holds(q) => Holds(q)'
        BY <1>4, <2>1 DEF Holds
    <2> QED
        BY <1>4, <2>1, <2>2 DEF Ordered, OrderedAt
<1>6. n \in 1 .. Total(r) /\ Total(r) \in Nat /\ n \notin discarded[r] /\ n \in Nat \ {0}
    BY <1>1 DEF Ordered, OrderedAt, Total
<1>7. n \notin flight'[r] /\ discarded'[r] = discarded[r] /\ holding[r] = <<>>
    BY <1>1, <1>2 DEF Ordered, OrderedAt
<1>8. CASE /\ reader' = [reader EXCEPT ![r] = "holding"]
           /\ holding' = [holding EXCEPT ![r] = <<[from |-> r, n |-> n]>>]
           /\ taken' = [taken EXCEPT ![r] = Append(taken[r], n)]
    <2> DEFINE front == taken[r]
               m == [from |-> r, n |-> n]
    <2>1. /\ holding'[r] = <<m>> /\ taken'[r] = Append(front, n) /\ reader'[r] = "holding"
          /\ front \in Seq(Nat)
        BY <1>1, <1>8
    <2>2. holding'[r][1] = m /\ m.n = n
        BY <2>1
    <2>3. \A i \in DOMAIN front : front[i] # n /\ front[i] \in (1 .. Total(r)') \ flight'[r]
        BY <1>4, <1>6 DEF Ordered, OrderedAt
    <2>4. open' => Queued(r)' = Filter(front, Survivors(r)')
        BY <1>2, <1>4 DEF Ordered, OrderedAt
    <2>5. holding'[r] = <<[from |-> r, n |-> holding'[r][1].n]>> /\ holding'[r][1].n = n
        BY <2>1, <2>2
    <2>6. DOMAIN taken'[r] = 1 .. (Len(front) + 1) /\ DOMAIN front = 1 .. Len(front)
          /\ \A i \in DOMAIN taken'[r] : taken'[r][i] = n \/ (i \in DOMAIN front /\ taken'[r][i] = front[i])
        BY <1>6, <2>1
    <2> HIDE DEF front, m
    <2>7. Holds(r)'
        BY <1>6, <1>7, <2>1, <2>3, <2>4, <2>5 DEF Holds
    <2>8. \A i \in DOMAIN taken'[r] : taken'[r][i] \in (1 .. Total(r)') \ flight'[r]
        BY <1>4, <1>6, <1>7, <2>3, <2>6
    <2>9. flight'[r] \subseteq 1 .. Total(r)' /\ discarded'[r] \subseteq (1 .. Total(r)') \ flight'[r]
        BY <1>4, <1>7 DEF Ordered, OrderedAt
    <2>10. OrderedAt(r)'
        BY <2>1, <2>7, <2>8, <2>9 DEF OrderedAt
    <2> QED
        BY <1>5, <2>10 DEF Ordered, OrderedAt
<1>9. CASE /\ UNCHANGED <<holding, taken>>
           /\ reader' = reader \/ reader' = [reader EXCEPT ![r] = "ended"]
    <2>1. reader'[r] # "holding" /\ holding'[r] = <<>> /\ taken'[r] = taken[r]
        BY <1>1, <1>2, <1>7, <1>9
    <2>2. OrderedAt(r)'
        BY <1>2, <1>4, <1>7, <2>1 DEF Ordered, OrderedAt
    <2> QED
        BY <1>5, <2>2 DEF Ordered, OrderedAt
<1> QED
    BY <1>3, <1>8, <1>9

\* What is before the end of a sequence of messages.
LEMMA Joined ==
    ASSUME NEW s \in Seq(Message), NEW t \in Seq(Message), NEW m \in Message
    PROVE  s \o (t \o <<m>>) = Append(s \o t, m)
    OBVIOUS

\* A message is queued, or found no room, or the session is gone.
LEMMA OrderedOffer ==
    ASSUME TypeOK, Ordered, NEW r \in Reader, Offer(r)
    PROVE  Ordered'
<1>1. /\ flight \in [Reader -> SUBSET Nat] /\ taken \in [Reader -> Seq(Nat)]
      /\ reader \in [Reader -> {"reading", "holding", "ended"}]
      /\ holding \in [Reader -> Seq(Message)] /\ discarded \in [Reader -> SUBSET Nat]
      /\ queue \in Seq(Message) /\ received \in Seq(Message)
      /\ received \o queue \in Seq(Message)
    <2>1. queue \in Seq(Message) /\ received \in Seq(Message)
        BY DEF TypeOK
    <2>2. received \o queue \in Seq(Message)
        BY <2>1
    <2> QED
        BY <2>1, <2>2 DEF TypeOK
<1>2. /\ reader[r] = "holding"
      /\ holding' = [holding EXCEPT ![r] = <<>>]
      /\ UNCHANGED <<sent, reports, flight, taken, received, open>>
      /\ reader' = [reader EXCEPT ![r] = "ended"] \/ reader' = [reader EXCEPT ![r] = "reading"]
    BY DEF Offer, Leave, writerVars, netVars, callerVars
<1>3. PICK front \in Seq(Nat) :
          /\ holding[r] = <<[from |-> r, n |-> holding[r][1].n]>>
          /\ holding[r][1].n \in Nat \ {0} /\ holding[r][1].n \notin discarded[r]
          /\ \A i \in DOMAIN front : front[i] # holding[r][1].n
          /\ taken[r] = Append(front, holding[r][1].n)
          /\ open => Queued(r) = Filter(front, Survivors(r))
    BY <1>2 DEF Ordered, OrderedAt, Holds
<1> DEFINE n == holding[r][1].n
           m == [from |-> r, n |-> n]
<1>4. n \in Nat \ {0} /\ m \in Message /\ holding[r] = <<m>> /\ m.from = r /\ m.n = n
    BY <1>3 DEF Message
<1>5. \/ ~open /\ UNCHANGED <<queue, discarded>>
      \/ open /\ queue' = queue \o <<m>> /\ UNCHANGED discarded
      \/ open /\ UNCHANGED queue /\ discarded' = [discarded EXCEPT ![r] = discarded[r] \cup {n}]
    BY <1>4 DEF Offer
<1>6. \A q \in Reader : Total(q)' = Total(q)
    BY <1>2 DEF Total
<1>7. /\ holding'[r] = <<>> /\ reader'[r] # "holding"
      /\ \A q \in Reader \ {r} : holding'[q] = holding[q] /\ reader'[q] = reader[q]
    BY <1>1, <1>2
<1>8. n \in (1 .. Total(r)) \ flight[r]
    <2>1. Len(front) + 1 \in DOMAIN taken[r] /\ taken[r][Len(front) + 1] = n
        BY <1>3, <1>4
    <2> QED
        BY <2>1 DEF Ordered, OrderedAt
<1> HIDE DEF n, m
<1>9. CASE ~open /\ UNCHANGED <<queue, discarded>>
    <2>1. ASSUME NEW q \in Reader \ {r}, Holds(q) PROVE Holds(q)'
        <3>1. /\ ~open' /\ holding'[q] = holding[q] /\ taken'[q] = taken[q]
              /\ discarded'[q] = discarded[q]
            BY <1>2, <1>7, <1>9
        <3> QED
            BY <2>1, <3>1 DEF Holds
    <2>2. ASSUME NEW q \in Reader PROVE OrderedAt(q)'
        BY <1>2, <1>6, <1>7, <1>9, <2>1 DEF Ordered, OrderedAt
    <2> QED
        BY <2>2 DEF Ordered
<1>10. CASE open /\ queue' = queue \o <<m>> /\ UNCHANGED discarded
    <2>1. received' \o queue' = Append(received \o queue, m)
        BY <1>1, <1>2, <1>4, <1>10, Joined
    <2>2. /\ Queued(r)' = Append(Queued(r), n)
          /\ \A q \in Reader \ {r} : Queued(q)' = Queued(q)
        <3> DEFINE s == received \o queue
        <3>1. s \in Seq(Message)
            BY <1>1
        <3> HIDE DEF s
        <3>2. \A q \in Reader : IF q = r THEN Numbers(q, Append(s, m)) = Append(Numbers(q, s), n)
                                 ELSE Numbers(q, Append(s, m)) = Numbers(q, s)
            BY <1>4, <3>1, NumbersAppend
        <3> QED
            BY <2>1, <3>2 DEF Queued, s
    <2>3. \A q \in Reader : Survivors(q)' = Survivors(q)
        BY <1>10 DEF Survivors
    <2>4. Filter(taken[r], Survivors(r)) = Append(Filter(front, Survivors(r)), n)
        <3>1. n \in Survivors(r) /\ taken[r] = Append(front, n) /\ n \in Nat
            BY <1>3, <1>4 DEF Survivors, n
        <3> QED
            BY <3>1, FilterAppend
    <2>5. Queued(r)' = Filter(taken'[r], Survivors(r)')
        BY <1>2, <1>3, <1>10, <2>2, <2>3, <2>4
    <2>6. OrderedAt(r)'
        BY <1>2, <1>6, <1>7, <1>10, <2>5 DEF Ordered, OrderedAt
    <2>7. ASSUME NEW q \in Reader \ {r} PROVE OrderedAt(q)'
        <3>1. Holds(q) => Holds(q)'
            BY <1>2, <1>7, <1>10, <2>2, <2>3 DEF Holds
        <3> QED
            BY <1>2, <1>6, <1>7, <1>10, <2>2, <2>3, <3>1 DEF Ordered, OrderedAt
    <2> QED
        BY <2>6, <2>7 DEF Ordered
<1>11. CASE /\ open /\ UNCHANGED queue
            /\ discarded' = [discarded EXCEPT ![r] = discarded[r] \cup {n}]
    <2>1. /\ discarded'[r] = discarded[r] \cup {n}
          /\ \A q \in Reader \ {r} : discarded'[q] = discarded[q]
        BY <1>1, <1>11
    <2>2. \A q \in Reader : Queued(q)' = Queued(q)
        BY <1>2, <1>11 DEF Queued
    <2>3. Filter(taken[r], Survivors(r)') = Filter(front, Survivors(r))
        <3>1. n \notin Survivors(r)' /\ taken[r] = Append(front, n) /\ n \in Nat
            BY <1>3, <1>4, <2>1 DEF Survivors, n
        <3>2. Filter(taken[r], Survivors(r)') = Filter(front, Survivors(r)')
            BY <3>1, FilterAppend
        <3> DEFINE D == Nat \ {n}
                   R == Survivors(r)'
        <3>3. \A x \in D : x \in R <=> x \in Survivors(r)
            BY <2>1 DEF Survivors
        <3>4. front \in Seq(D)
            <4>1. \A i \in 1 .. Len(front) : front[i] \in D
                BY <1>3 DEF n
            <4> QED
                BY <4>1
        <3> HIDE DEF D, R
        <3>5. Filter(front, R) = Filter(front, Survivors(r))
            BY <3>3, <3>4, FilterSame
        <3> QED
            BY <3>2, <3>5 DEF R
    <2>4. Queued(r)' = Filter(taken'[r], Survivors(r)')
        BY <1>2, <1>3, <1>11, <2>2, <2>3
    <2>5. OrderedAt(r)'
        BY <1>2, <1>6, <1>7, <1>8, <2>1, <2>4 DEF Ordered, OrderedAt
    <2>6. ASSUME NEW q \in Reader \ {r} PROVE OrderedAt(q)'
        <3>1. Survivors(q)' = Survivors(q)
            BY <2>1 DEF Survivors
        <3>2. Holds(q) => Holds(q)'
            BY <1>2, <1>7, <2>1, <2>2, <3>1 DEF Holds
        <3> QED
            BY <1>2, <1>6, <1>7, <2>1, <2>2, <3>1, <3>2 DEF Ordered, OrderedAt
    <2> QED
        BY <2>5, <2>6 DEF Ordered
<1> QED
    BY <1>5, <1>9, <1>10, <1>11

\* A message is handed out, or the session is dropped.
LEMMA OrderedCalls ==
    ASSUME TypeOK, Ordered, Receive \/ DropSession
    PROVE  Ordered'
<1>1. /\ UNCHANGED <<sent, reports, flight, taken, discarded, reader, holding>>
      /\ open' => open
    BY DEF Receive, DropSession, writerVars, netVars
<1>2. open' => \A q \in Reader : Queued(q)' = Queued(q)
    <2>1. CASE Receive
        <3> DEFINE x == Head(queue)
                   t == Tail(queue)
        <3>1. queue \in Seq(Message) /\ received \in Seq(Message) /\ queue # <<>>
              /\ received' = Append(received, x) /\ queue' = t
            BY <2>1 DEF Receive, TypeOK
        <3>2. x \in Message /\ t \in Seq(Message) /\ queue = <<x>> \o t
            BY <3>1, HeadTailProperties
        <3> HIDE DEF x, t
        <3>3. Append(received, x) \o t = received \o (<<x>> \o t)
            BY <3>1, <3>2
        <3> QED
            BY <3>1, <3>2, <3>3 DEF Queued
    <2>2. CASE DropSession
        BY <2>2 DEF DropSession
    <2> QED
        BY <2>1, <2>2
<1>3. ASSUME NEW q \in Reader PROVE OrderedAt(q)'
    <2>1. Total(q)' = Total(q) /\ Survivors(q)' = Survivors(q)
        BY <1>1 DEF Total, Survivors
    <2>2. Holds(q) => Holds(q)'
        BY <1>1, <1>2, <2>1 DEF Holds
    <2> QED
        BY <1>1, <1>2, <2>1, <2>2 DEF Ordered, OrderedAt
<1> QED
    BY <1>3 DEF Ordered

\* Every step keeps the order.
LEMMA OrderedStep == ASSUME IInv, Ordered, [Next]_vars PROVE Ordered'
<1>0. /\ TypeOK /\ sent \in Seq(Datagram) /\ reports \in Seq(Seq(0..255))
      /\ flight \in [Reader -> SUBSET Nat]
    BY DEF IInv, TypeOK
<1>1. /\ Total("RTP") = Len(sent) /\ Total("RTP")' = Len(sent')
      /\ Total("RTCP") = Len(reports) /\ Total("RTCP")' = Len(reports')
      /\ Len(sent) \in Nat /\ Len(reports) \in Nat
    BY <1>0 DEF Total
<1>2. CASE Sends
    <2>1. PICK h \in Header, length \in Nat, number \in Nat \cup {-1}, samples \in Nat :
              Put(h, length, number, samples)
        BY <1>2, SendsPut
    <2>2. Len(sent') = Len(sent) + 1
        BY <2>1, PutFacts
    <2>3. UNCHANGED <<reports, taken, discarded, reader, holding, queue, received, open>>
        BY <1>2 DEF Sends, WriteRtp, SendRtpPacket, readerVars, callerVars
    <2>4. flight' = [flight EXCEPT !["RTP"] = flight["RTP"] \cup {Len(sent) + 1}]
        BY <2>1 DEF Put
    <2>5. ASSUME NEW r \in Reader
          PROVE  /\ Total(r)' \in Nat /\ Total(r) <= Total(r)'
                 /\ flight'[r] \subseteq flight[r] \cup ((Total(r) + 1) .. Total(r)')
        <3>1. CASE r = "RTP"
            BY <1>0, <1>1, <2>2, <2>4, <3>1
        <3>2. CASE r = "RTCP"
            BY <1>0, <1>1, <2>3, <2>4, <3>2
        <3> QED
            BY <3>1, <3>2 DEF Reader
    <2> QED
        BY <1>0, <2>3, <2>5, OrderedMore
<1>3. ASSUME NEW d \in RtcpDatagrams, SendReport(d) PROVE Ordered'
    <2>1. /\ reports' = Append(reports, d)
          /\ flight' = [flight EXCEPT !["RTCP"] = flight["RTCP"] \cup {Len(reports) + 1}]
          /\ UNCHANGED <<sent, taken, discarded, reader, holding, queue, received, open>>
        BY <1>3 DEF SendReport, writerVars, readerVars, callerVars
    <2>2. Len(reports') = Len(reports) + 1
        BY <1>0, <1>1, <2>1, Inputs
    <2>3. ASSUME NEW r \in Reader
          PROVE  /\ Total(r)' \in Nat /\ Total(r) <= Total(r)'
                 /\ flight'[r] \subseteq flight[r] \cup ((Total(r) + 1) .. Total(r)')
        <3>1. CASE r = "RTP"
            BY <1>0, <1>1, <2>1, <3>1
        <3>2. CASE r = "RTCP"
            BY <1>0, <1>1, <2>1, <2>2, <3>2
        <3> QED
            BY <3>1, <3>2 DEF Reader
    <2> QED
        BY <1>0, <2>1, <2>3, OrderedMore
<1>4. CASE \/ WriteFails \/ CallReceive \/ ReceiveNone \/ Cancel
           \/ \E r \in Reader : \E error \in {"refused", "fatal"} : Trouble(r, error)
           \/ UNCHANGED vars
    <2>1. UNCHANGED <<sent, reports, flight, taken, discarded, reader, holding, queue,
                      received, open>>
        BY <1>4 DEF WriteFails, CallReceive, ReceiveNone, Cancel, Trouble, vars, writerVars,
            netVars, readerVars, callerVars
    <2>2. \A r \in Reader : Total(r)' = Total(r) /\ Total(r) \in Nat
        BY <1>1, <2>1 DEF Total
    <2> QED
        BY <1>0, <2>1, <2>2, OrderedMore
<1>5. ASSUME NEW r \in Reader, RecvFails(r) \/ Shutdown(r) PROVE Ordered'
    <2>1. /\ UNCHANGED <<sent, reports, flight, taken, discarded, holding, queue, received,
                         open>>
          /\ reader[r] = "reading"
          /\ reader' = reader \/ reader' = [reader EXCEPT ![r] = "ended"]
        BY <1>5 DEF RecvFails, Shutdown, Leave, writerVars, netVars, callerVars
    <2>2. reader \in [Reader -> {"reading", "holding", "ended"}]
        BY <1>0 DEF TypeOK
    <2>3. ASSUME NEW q \in Reader PROVE OrderedAt(q)'
        <3>1. /\ Total(q)' = Total(q) /\ Queued(q)' = Queued(q) /\ Survivors(q)' = Survivors(q)
              /\ (reader'[q] = "holding" <=> reader[q] = "holding")
            BY <2>1, <2>2 DEF Total, Queued, Survivors
        <3>2. Holds(q) => Holds(q)'
            BY <2>1, <3>1 DEF Holds
        <3> QED
            BY <2>1, <3>1, <3>2 DEF Ordered, OrderedAt
    <2> QED
        BY <2>3 DEF Ordered
<1> QED
    BY <1>0, <1>2, <1>3, <1>4, <1>5, OrderedRecv, OrderedOffer, OrderedCalls, Steps DEF Rests

\* However the readers, a full queue, dropped calls and failing sockets
\* interleave, the application gets the messages of each socket in the order
\* they were delivered, without those that found the queue full
\* (rtp/mod.rs: try_send in the reader tasks, receive).
THEOREM OrderKept == Spec => []InOrder
<1>1. ASSUME TypeOK, Ordered, open, NEW r \in Reader
      PROVE  Numbers(r, received \o queue \o holding[r]) = Filter(taken[r], Nat \ discarded[r])
    <2>0. /\ received \o queue \in Seq(Message) /\ taken \in [Reader -> Seq(Nat)]
        <3>1. queue \in Seq(Message) /\ received \in Seq(Message)
            BY <1>1 DEF TypeOK
        <3>2. received \o queue \in Seq(Message)
            BY <3>1
        <3> QED
            BY <1>1, <3>2 DEF TypeOK
    <2> DEFINE s == received \o queue
    <2>1. CASE reader[r] # "holding"
        <3>1. holding[r] = <<>> /\ Queued(r) = Filter(taken[r], Survivors(r))
            BY <1>1, <2>1 DEF Ordered, OrderedAt
        <3>2. s \o holding[r] = s
            BY <2>0, <3>1
        <3> QED
            BY <3>1, <3>2 DEF Queued, Survivors
    <2>2. CASE reader[r] = "holding"
        <3> DEFINE n == holding[r][1].n
                   m == [from |-> r, n |-> n]
        <3>1. PICK front \in Seq(Nat) :
                  /\ holding[r] = <<m>> /\ n \in Nat \ {0} /\ n \notin discarded[r]
                  /\ taken[r] = Append(front, n)
                  /\ Queued(r) = Filter(front, Survivors(r))
            BY <1>1, <2>2 DEF Ordered, OrderedAt, Holds
        <3>2. m \in Message /\ m.from = r /\ m.n = n
            BY <3>1 DEF Message
        <3> HIDE DEF n, m
        <3>3. s \o holding[r] = Append(s, m)
            BY <2>0, <3>1, <3>2
        <3>4. Numbers(r, Append(s, m)) = Append(Numbers(r, s), n)
            BY <2>0, <3>2, NumbersAppend
        <3>5. Filter(taken[r], Survivors(r)) = Append(Filter(front, Survivors(r)), n)
            <4>1. n \in Survivors(r) /\ n \in Nat
                BY <3>1 DEF Survivors
            <4> QED
                BY <3>1, <4>1, FilterAppend
        <3> QED
            BY <3>1, <3>3, <3>4, <3>5 DEF Queued, Survivors
    <2> QED
        BY <2>1, <2>2
<1>2. TypeOK /\ Ordered => InOrder
    BY <1>1 DEF InOrder
<1>3. Spec => []Ordered
    <2>1. Ordered /\ IInv /\ [Next]_vars => Ordered'
        BY OrderedStep
    <2> QED
        BY <2>1, OrderedStart, Invariance, PTL DEF Spec
<1> QED
    BY <1>2, <1>3, TypeCorrect, PTL

-----------------------------------------------------------------------------
(* The RTCP parsers.                                                       *)

Byte == 0 .. 255
Position == Nat \ {0}
Outcome == [out : {"ok", "error", "panic"}, at : Nat]

\* A parser that starts at `from' stops there or behind it, in the datagram.
Within(r, d, from) ==
    r \in Outcome /\ (r.out = "ok" => from <= r.at /\ r.at <= Len(d) + 1)

\* A datagram is a sequence of bytes.
LEMMA Octets ==
    ASSUME NEW d \in Seq(Byte)
    PROVE  /\ Len(d) \in Nat
           /\ \A k \in Position : k <= Len(d) => d[k] \in Nat
           /\ \A at \in Position, n \in Nat : Has(d, at, n) <=> at + n <= Len(d) + 1
<1>1. Len(d) \in Nat /\ \A k \in 1 .. Len(d) : d[k] \in Byte
    OBVIOUS
<1>2. \A k \in Position : k <= Len(d) => d[k] \in Nat
    <2>1. ASSUME NEW k \in Position, k <= Len(d) PROVE d[k] \in Nat
        <3>1. k \in 1 .. Len(d)
            BY <1>1, <2>1 DEF Position
        <3>2. d[k] \in Byte
            BY <1>1, <3>1
        <3>3. \A x \in Byte : x \in Nat
            BY DEF Byte
        <3> QED
            BY <3>2, <3>3
    <2> QED
        BY <2>1
<1> QED
    BY <1>1, <1>2 DEF Has

\* The results of a parser.
LEMMA Results ==
    ASSUME NEW at \in Nat
    PROVE  /\ Found(at) \in Outcome /\ Found(at).out = "ok" /\ Found(at).at = at
           /\ Failed("error", at) \in Outcome /\ Failed("error", at).out = "error"
           /\ Failed("panic", at) \in Outcome /\ Failed("panic", at).out = "panic"
    BY DEF Found, Failed, Outcome

\* What the items of a chunk are read by.
Item(d, f, at) ==
    IF ~Has(d, at, 1) THEN Failed("error", at)
    ELSE IF d[at] = End THEN Found(at + 1)
    ELSE IF /\ Has(d, at, 2) /\ Has(d, at, 2 + d[at + 1])
            /\ Utf8(d, at + 2, d[at + 1]) /\ d[at] <= Priv
         THEN f[at + 2 + d[at + 1]]
         ELSE Failed("error", at)

\* The items of a source description end inside the datagram.
LEMMA ItemsRead ==
    ASSUME NEW d \in Seq(Byte), NEW from \in Position
    PROVE  Within(Items(d, from), d, from)
<1> DEFINE Is(f) == f = [at \in Position |-> Item(d, f, at)]
           More(at) == /\ Has(d, at, 1) /\ d[at] # End /\ Has(d, at, 2)
                       /\ Has(d, at, 2 + d[at + 1])
                       /\ Utf8(d, at + 2, d[at + 1]) /\ d[at] <= Priv
           stop == {at \in Position : ~More(at)}
           base == [at \in Position |-> IF Has(d, at, 1) /\ d[at] = End THEN Found(at + 1)
                                        ELSE Failed("error", at)]
           to == [at \in Position |-> IF More(at) THEN at + 2 + d[at + 1] ELSE at]
           G == [p \in Position \X Outcome |-> p[2]]
<1>1. ASSUME NEW at \in Position, More(at)
      PROVE  at + 2 + d[at + 1] \in Position /\ at < at + 2 + d[at + 1] /\ at <= Len(d)
    <2>1. at \in Nat /\ at + 2 <= Len(d) + 1 /\ at + 1 \in Position
        BY <1>1, Octets DEF Position
    <2>2. at + 1 <= Len(d)
        BY <2>1, Octets
    <2>3. d[at + 1] \in Nat
        BY <2>1, <2>2, Octets
    <2> QED
        BY <2>1, <2>2, <2>3 DEF Position
<1>2. \E f : Is(f)
    <2>1. base \in [Position -> Outcome]
        BY Results DEF Position
    <2>2. to \in [Position -> Position]
        BY <1>1
    <2>3. G \in [Position \X Outcome -> Outcome]
        OBVIOUS
    <2>4. \A n \in Position : n \notin stop => n < to[n] /\ n <= Len(d)
        BY <1>1
    <2>5. Position \in SUBSET Nat /\ Len(d) \in Nat
        BY Octets DEF Position
    <2>n. \A n \in Position : n \in stop <=> ~More(n)
        OBVIOUS
    <2>b. \A n \in Position : base[n] = IF Has(d, n, 1) /\ d[n] = End THEN Found(n + 1)
                                        ELSE Failed("error", n)
        OBVIOUS
    <2>t. \A n \in Position : More(n) => to[n] = n + 2 + d[n + 1]
        OBVIOUS
    <2>g. \A n \in Position, x \in Outcome : G[<<n, x>>] = x
        OBVIOUS
    <2> HIDE DEF stop, base, to, G
    <2>6. DefinableUp(Position, stop, Outcome, base, to, G)
        BY <2>1, <2>2, <2>3, <2>4, <2>5, RecursionUp
    <2>7. PICK f \in [Position -> Outcome] : \A n \in Position :
              f[n] = IF n \in stop THEN base[n] ELSE G[<<n, f[to[n]]>>]
        BY <2>6 DEF DefinableUp
    <2>8. ASSUME NEW n \in Position PROVE f[n] = Item(d, f, n)
        <3>1. CASE More(n)
            <4>1. to[n] = n + 2 + d[n + 1] /\ f[to[n]] \in Outcome
                BY <2>2, <2>7, <2>t, <3>1
            <4>2. f[n] = G[<<n, f[to[n]]>>] /\ G[<<n, f[to[n]]>>] = f[to[n]]
                BY <2>7, <2>n, <2>g, <3>1, <4>1
            <4> QED
                BY <3>1, <4>1, <4>2 DEF Item
        <3>2. CASE ~More(n)
            BY <2>7, <2>n, <2>b, <3>2 DEF Item
        <3> QED
            BY <3>1, <3>2
    <2>9. Is(f)
        BY <2>7, <2>8
    <2> QED
        BY <2>9
<1> DEFINE f == CHOOSE f : Is(f)
<1>3. Is(f) /\ Items(d, from) = f[from]
    <2>1. Items(d, from) = f[from]
        BY DEF Items, Item, Position
    <2> HIDE DEF Is
    <2> QED
        BY <1>2, <2>1
<1> HIDE DEF f
<1>4. \A n \in Position : f[n] = Item(d, f, n)
    BY <1>3
<1> HIDE DEF Is
<1> DEFINE T == {n \in Position : Within(f[n], d, n)}
<1>5. ASSUME NEW n \in Position, \A m \in Position : n < m => m \in T PROVE n \in T
    <2>1. n \in Nat /\ Len(d) \in Nat /\ n + 1 \in Nat
        BY Octets DEF Position
    <2>2. CASE More(n)
        <3> DEFINE m == n + 2 + d[n + 1]
        <3>1. m \in Position /\ n < m /\ f[n] = f[m]
            BY <1>1, <1>4, <2>2 DEF Item
        <3> HIDE DEF m
        <3>2. Within(f[m], d, m) /\ m \in Nat
            BY <1>5, <3>1 DEF Position
        <3> QED
            BY <2>1, <3>1, <3>2 DEF Within, Outcome
    <2>3. CASE Has(d, n, 1) /\ d[n] = End
        <3>1. f[n] = Found(n + 1) /\ n + 1 <= Len(d) + 1
            BY <1>4, <2>3, Octets DEF Item
        <3> QED
            BY <2>1, <3>1, Results DEF Within
    <2>4. CASE ~More(n) /\ ~(Has(d, n, 1) /\ d[n] = End)
        <3>1. f[n] = Failed("error", n)
            BY <1>4, <2>4 DEF Item
        <3> QED
            BY <2>1, <3>1, Results DEF Within
    <2> QED
        BY <2>2, <2>3, <2>4
<1>6. \A n \in Position : n > Len(d) => n \in T
    <2>1. ASSUME NEW n \in Position, n > Len(d) PROVE n \in T
        <3>1. n \in Nat /\ ~Has(d, n, 1)
            BY <2>1, Octets DEF Position
        <3>2. f[n] = Failed("error", n)
            BY <1>4, <3>1 DEF Item
        <3> QED
            BY <3>1, <3>2, Results DEF Within
    <2> QED
        BY <2>1
<1> HIDE DEF T
<1>7. from \in T
    <2> DEFINE P == Position
               b == Len(d)
    <2>1. P \in SUBSET Nat /\ b \in Nat
        BY Octets DEF Position
    <2>2. \A n \in P : (\A m \in P : n < m => m \in T) => n \in T
        BY <1>5
    <2>3. \A n \in P : n > b => n \in T
        BY <1>6
    <2> HIDE DEF P, b
    <2>4. P \subseteq T
        BY ZenonT(40), <2>1, <2>2, <2>3, InductionDown
    <2> QED
        BY <2>4 DEF P
<1> QED
    BY <1>3, <1>7 DEF T

\* The chunks of an SDES packet, one after the other.
LEMMA ChunksRead ==
    ASSUME NEW d \in Seq(Byte), NEW from \in Position, from <= Len(d) + 1, NEW n \in Nat
    PROVE  Within(SourceDescription(d, from, n), d, from)
<1> DEFINE Then(r) == IF r.out = "ok" THEN Chunk(d, r.at) ELSE r
           Is(f) == f = [k \in 0 .. n |-> IF k = 0 THEN Found(from) ELSE Then(f[k - 1])]
           R == {r \in Outcome : Within(r, d, from)}
           G == [p \in Nat \X R |-> Then(p[2])]
<1>1. Len(d) \in Nat /\ from \in Nat /\ from # 0
    BY Octets DEF Position
<1>2. ASSUME NEW r \in R PROVE Then(r) \in R
    <2>1. r \in Outcome /\ Within(r, d, from) /\ r.at \in Nat
        BY DEF Outcome
    <2>2. CASE r.out = "ok" /\ Has(d, r.at, 4)
        <3> DEFINE at == r.at + 4
        <3>1. at \in Position /\ from <= at /\ Then(r) = Items(d, at)
            BY <1>1, <2>1, <2>2 DEF Within, Chunk, Position
        <3> HIDE DEF at
        <3>2. Within(Items(d, at), d, at) /\ at \in Nat
            BY <3>1, ItemsRead DEF Position
        <3> HIDE DEF Then
        <3> QED
            BY <1>1, <3>1, <3>2 DEF Within, Outcome
    <2>3. CASE r.out = "ok" /\ ~Has(d, r.at, 4)
        BY <2>1, <2>3, Results DEF Within, Chunk
    <2>4. CASE r.out # "ok"
        BY <2>1, <2>4
    <2> QED
        BY <2>2, <2>3, <2>4
<1>3. Found(from) \in R
    BY <1>1, Results DEF Within
<1>4. G \in [Nat \X R -> R] /\ \A k \in Nat, r \in R : G[<<k, r>>] = Then(r)
    BY <1>2
<1> HIDE DEF Then, R, G
<1>5. PICK h \in [0 .. n -> R] :
          h[0] = Found(from) /\ \A k \in 0 .. n : k # 0 => h[k] = Then(h[k - 1])
    <2> DEFINE a == Found(from)
    <2>1. a \in R /\ 0 \in Nat /\ 0 <= n
        BY <1>3
    <2> HIDE DEF a
    <2>2. Definable(0, n, R, a, G)
        BY <1>4, <2>1, Recursion
    <2>3. PICK h \in [0 .. n -> R] :
              h[0] = a /\ \A k \in 0 .. n : k # 0 => h[k] = G[<<k, h[k - 1]>>]
        BY <2>2 DEF Definable
    <2>4. ASSUME NEW k \in 0 .. n, k # 0 PROVE h[k] = Then(h[k - 1])
        <3>1. k \in Nat /\ h[k - 1] \in R
            BY <2>4
        <3> QED
            BY <1>4, <2>3, <2>4, <3>1
    <2> QED
        BY <2>3, <2>4 DEF a
<1>6. Is(h)
    BY <1>5
<1> DEFINE f == CHOOSE f : Is(f)
<1>7. Is(f) /\ SourceDescription(d, from, n) = f[n]
    <2>1. SourceDescription(d, from, n) = f[n]
        BY DEF SourceDescription, Then
    <2> HIDE DEF Is
    <2> QED
        BY <1>6, <2>1
<1> HIDE DEF f
<1>8. \A k \in 0 .. n : f[k] = IF k = 0 THEN Found(from) ELSE Then(f[k - 1])
    BY <1>7
<1> HIDE DEF Is
<1> DEFINE T == {k \in 0 .. n : f[k] \in R}
<1>9. 0 \in T
    BY <1>3, <1>8
<1>10. ASSUME NEW k \in 0 .. n, k < n, k \in T PROVE k + 1 \in T
    <2>1. k + 1 \in 0 .. n /\ k + 1 # 0 /\ (k + 1) - 1 = k /\ f[k] \in R
        BY <1>10
    <2>2. f[k + 1] = Then(f[k])
        BY <1>8, <2>1
    <2> QED
        BY <1>2, <2>1, <2>2
<1> HIDE DEF T
<1>11. n \in T
    <2>1. \A k \in 0 .. n : k < n /\ k \in T => k + 1 \in T
        BY <1>10
    <2>2. \A k \in 0 .. n : k \in T
        BY <1>9, <2>1, InductionTo
    <2> QED
        BY <2>2
<1> QED
    BY <1>7, <1>11 DEF T, R

\* A packet that is found has a header and ends in the datagram.
LEMMA PacketRead ==
    ASSUME NEW d \in Seq(Byte), NEW at \in Position
    PROVE  /\ RtcpPacket(d, at) \in Outcome
           /\ RtcpPacket(d, at).out = "ok" =>
                  /\ Has(d, at, 4) /\ at + 4 <= RtcpPacket(d, at).at
                  /\ RtcpPacket(d, at).at <= Len(d) + 1
                  /\ Kind(d, at) \in {SR, RR, APP} => RtcpPacket(d, at).at = Len(d) + 1
<1> DEFINE n == Count(d, at)
           r == RtcpPacket(d, at)
<1>1. at \in Nat /\ Len(d) \in Nat /\ (Has(d, at, 4) <=> at + 4 <= Len(d) + 1)
    BY Octets DEF Position
<1>2. CASE ~Has(d, at, 4)
    BY <1>1, <1>2, Results DEF RtcpPacket
<1>3. ASSUME Has(d, at, 4)
      PROVE  n \in Nat /\ at + 4 \in Position /\ at + 4 <= Len(d) + 1
    <2>1. d[at] \in Nat
        BY <1>1, <1>3, Octets
    <2>2. \A x \in Nat : x % 32 \in Nat
        BY Z3
    <2> QED
        BY <1>1, <1>3, <2>1, <2>2 DEF Count, Position
<1> HIDE DEF n
<1>4. ASSUME NEW x \in Nat, NEW c \in Nat
      PROVE  /\ ReportsAndRest(d, x, c) \in Outcome
             /\ ReportsAndRest(d, x, c).out = "ok" => ReportsAndRest(d, x, c).at = Len(d) + 1
    <2>1. Len(d) + 1 \in Nat /\ x + c * 24 \in Nat
        BY <1>1
    <2> QED
        BY <2>1, Results DEF ReportsAndRest, Reports, ReceptionReportLength
<1>5. CASE Has(d, at, 4) /\ Kind(d, at) = SR
    <2>1. r = SenderReport(d, at + 4, n)
        BY <1>5 DEF RtcpPacket, n, SR, RR, SDES, BYE, APP
    <2>2. (at + 4) + 24 \in Nat /\ at + 4 \in Nat
        BY <1>1
    <2>3. r \in Outcome /\ (r.out = "ok" => r.at = Len(d) + 1)
        BY <1>3, <1>4, <1>5, <2>1, <2>2, Results DEF SenderReport
    <2> QED
        BY <1>3, <1>5, <2>3, <1>1
<1>6. CASE Has(d, at, 4) /\ Kind(d, at) = RR
    <2>1. r = ReceiverReport(d, at + 4, n)
        BY <1>6 DEF RtcpPacket, n, SR, RR, SDES, BYE, APP
    <2>2. (at + 4) + 4 \in Nat /\ at + 4 \in Nat
        BY <1>1
    <2>3. r \in Outcome /\ (r.out = "ok" => r.at = Len(d) + 1)
        BY <1>3, <1>4, <1>6, <2>1, <2>2, Results DEF ReceiverReport
    <2> QED
        BY <1>3, <1>6, <2>3, <1>1
<1>7. CASE Has(d, at, 4) /\ Kind(d, at) = SDES
    <2>1. r = SourceDescription(d, at + 4, n)
        BY <1>7 DEF RtcpPacket, n, SR, RR, SDES, BYE, APP
    <2>2. Within(r, d, at + 4)
        BY <1>3, <1>7, <2>1, ChunksRead
    <2> QED
        BY <1>7, <2>2 DEF Within, SR, RR, SDES, APP
<1>8. CASE Has(d, at, 4) /\ Kind(d, at) = BYE
    <2> DEFINE reason == (at + 4) + 4 * n
    <2>1. r = GoodBye(d, at + 4, n)
        BY <1>8 DEF RtcpPacket, n, SR, RR, SDES, BYE, APP
    <2>2. /\ reason \in Nat /\ reason \in Position /\ at + 4 <= reason /\ at + 4 \in Nat
          /\ at + 4 \in Position /\ 4 * n \in Nat
        BY <1>1, <1>3, <1>8 DEF Position
    <2>3. (Has(d, at + 4, 4 * n) <=> reason <= Len(d) + 1) /\ (Has(d, reason, 1) <=> reason <= Len(d))
        BY <1>1, <2>2 DEF Has
    <2> HIDE DEF reason
    <2>4. CASE ~Has(d, at + 4, 4 * n)
        BY <2>1, <2>2, <2>4, Results DEF GoodBye
    <2>5. CASE Has(d, at + 4, 4 * n) /\ ~Has(d, reason, 1)
        <3>1. r = Found(reason)
            BY <2>1, <2>5 DEF GoodBye, reason
        <3> QED
            BY <1>1, <1>8, <2>2, <2>3, <2>5, <3>1, Results DEF SR, RR, BYE, APP
    <2>6. CASE Has(d, at + 4, 4 * n) /\ Has(d, reason, 1)
        <3>1. d[reason] \in Nat
            BY <2>2, <2>3, <2>6, Octets
        <3>2. r = IF Has(d, reason, 1 + d[reason]) /\ Utf8(d, reason + 1, d[reason])
                  THEN Found(reason + 1 + d[reason])
                  ELSE Failed("error", at + 4)
            BY <2>1, <2>6 DEF GoodBye, reason
        <3>3. Has(d, reason, 1 + d[reason]) <=> reason + (1 + d[reason]) <= Len(d) + 1
            BY <2>2, <3>1 DEF Has
        <3>4. reason + 1 + d[reason] \in Nat /\ reason + 1 + d[reason] = reason + (1 + d[reason])
            BY <2>2, <3>1
        <3> QED
            BY <1>1, <1>8, <2>2, <3>1, <3>2, <3>3, <3>4, Results DEF SR, RR, BYE, APP
    <2> QED
        BY <2>4, <2>5, <2>6
<1>9. CASE Has(d, at, 4) /\ Kind(d, at) = APP
    <2>1. r = ApplicationDefined(d, at + 4)
        BY <1>9 DEF RtcpPacket, n, SR, RR, SDES, BYE, APP
    <2>2. Len(d) + 1 \in Nat /\ at + 4 \in Nat
        BY <1>1
    <2>3. r \in Outcome /\ (r.out = "ok" => r.at = Len(d) + 1)
        BY <2>1, <2>2, Results DEF ApplicationDefined
    <2> QED
        BY <1>3, <1>9, <2>3, <1>1
<1>10. CASE Has(d, at, 4) /\ Kind(d, at) \notin {SR, RR, SDES, BYE, APP}
    <2>1. r = Failed("error", at)
        BY <1>10 DEF RtcpPacket
    <2> QED
        BY <1>1, <2>1, Results
<1> QED
    BY <1>2, <1>5, <1>6, <1>7, <1>8, <1>9, <1>10

\* Where the length fields lead from a position, and where the parsers do.
After(d, at) == at + 4 + 4 * LengthField(d, at)

Marks(d, f) ==
    \A at \in Position :
        f[at] = IF Has(d, at, 4) THEN <<at>> \o f[After(d, at)] ELSE <<at>>

Finds(d, f) ==
    \A at \in Position :
        f[at] = IF RtcpPacket(d, at).out = "ok"
                THEN <<at>> \o f[RtcpPacket(d, at).at] ELSE <<at>>

\* A packet with a whole header ends behind it.
LEMMA LengthRead ==
    ASSUME NEW d \in Seq(Byte), NEW at \in Position, Has(d, at, 4)
    PROVE  /\ After(d, at) \in Position /\ at < After(d, at) /\ at + 4 <= After(d, at)
           /\ at <= Len(d)
<1>1. at \in Nat /\ Len(d) \in Nat /\ at + 4 <= Len(d) + 1
    BY Octets DEF Position, Has
<1>2. at + 2 \in Position /\ at + 3 \in Position /\ at + 2 <= Len(d) /\ at + 3 <= Len(d)
    BY <1>1 DEF Position
<1>3. d[at + 2] \in Nat /\ d[at + 3] \in Nat
    BY <1>2, Octets
<1>4. LengthField(d, at) \in Nat
    BY <1>3 DEF LengthField
<1> QED
    BY <1>1, <1>4 DEF After, Position

\* A walk over positions lists those it comes by.
Walk(stop, to) ==
    \E f \in [Position -> Seq(Position)] : \A n \in Position :
        f[n] = IF n \in stop THEN <<n>> ELSE <<n>> \o f[to[n]]

\* A parser that moves on, and stops beyond some place, ends.
LEMMA Stepwise ==
    ASSUME NEW b \in Nat, NEW stop, NEW to \in [Position -> Position],
           \A n \in Position : n \notin stop => n < to[n] /\ n <= b
    PROVE  Walk(stop, to)
<1> DEFINE D == Seq(Position)
           base == [n \in Position |-> <<n>>]
           G == [p \in Position \X D |-> <<p[1]>> \o p[2]]
<1>1. base \in [Position -> D] /\ G \in [Position \X D -> D]
    <2>1. ASSUME NEW p \in Position \X D PROVE <<p[1]>> \o p[2] \in D
        <3>1. p[1] \in Position /\ p[2] \in D
            OBVIOUS
        <3>2. <<p[1]>> \in Seq(Position)
            BY <3>1
        <3> QED
            BY <3>1, <3>2
    <2> QED
        BY <2>1
<1>2. /\ \A n \in Position : base[n] = <<n>>
      /\ \A n \in Position, s \in D : G[<<n, s>>] = <<n>> \o s
    OBVIOUS
<1>3. Position \in SUBSET Nat
    BY DEF Position
<1> HIDE DEF D, base, G
<1>4. DefinableUp(Position, stop, D, base, to, G)
    BY <1>1, <1>3, RecursionUp
<1>5. PICK f \in [Position -> D] : \A n \in Position :
          f[n] = IF n \in stop THEN base[n] ELSE G[<<n, f[to[n]]>>]
    BY <1>4 DEF DefinableUp
<1>6. ASSUME NEW n \in Position
      PROVE  f[n] = IF n \in stop THEN <<n>> ELSE <<n>> \o f[to[n]]
    <2>1. to[n] \in Position /\ f[to[n]] \in D
        BY <1>5
    <2> QED
        BY <1>2, <1>5, <2>1
<1> QED
    BY <1>5, <1>6 DEF D, Walk

\* The recursive function that cuts a datagram exists.
LEMMA BoundariesMark ==
    ASSUME NEW d \in Seq(Byte)
    PROVE  \E f : Marks(d, f) /\ Boundaries(d) = f[1]
<1> DEFINE Is(f) == f = [at \in Position |->
                            IF Has(d, at, 4) THEN <<at>> \o f[After(d, at)] ELSE <<at>>]
           stop == {at \in Position : ~Has(d, at, 4)}
           to == [at \in Position |-> IF Has(d, at, 4) THEN After(d, at) ELSE at]
<1>1. to \in [Position -> Position]
    BY LengthRead
<1>2. /\ \A at \in Position : at \in stop <=> ~Has(d, at, 4)
      /\ \A at \in Position : Has(d, at, 4) => to[at] = After(d, at)
    OBVIOUS
<1>3. \A n \in Position : n \notin stop => n < to[n] /\ n <= Len(d)
    BY <1>2, LengthRead
<1>4. Len(d) \in Nat
    OBVIOUS
<1> HIDE DEF stop, to
<1>5. PICK h \in [Position -> Seq(Position)] : \A n \in Position :
          h[n] = IF n \in stop THEN <<n>> ELSE <<n>> \o h[to[n]]
    <2> DEFINE b == Len(d)
    <2>1. b \in Nat /\ \A n \in Position : n \notin stop => n < to[n] /\ n <= b
        BY <1>3, <1>4
    <2> HIDE DEF b
    <2>2. Walk(stop, to)
        BY <1>1, <2>1, Stepwise
    <2> QED
        BY <2>2 DEF Walk
<1>6. Is(h)
    BY <1>2, <1>5
<1> DEFINE f == CHOOSE f : Is(f)
<1>7. Is(f) /\ Boundaries(d) = f[1]
    <2>1. Boundaries(d) = f[1]
        BY DEF Boundaries, After, Position
    <2> HIDE DEF Is
    <2> QED
        BY <1>6, <2>1
<1> HIDE DEF f
<1>8. Marks(d, f)
    BY <1>7 DEF Marks
<1> QED
    BY <1>7, <1>8

\* The recursive function that reads a compound packet exists.
LEMMA CompoundFinds ==
    ASSUME NEW d \in Seq(Byte)
    PROVE  \E f : Finds(d, f) /\ RtcpCompoundPacket(d) = f[1]
<1> DEFINE Is(f) == f = [at \in Position |->
                            IF ~Has(d, at, 1) THEN <<at>>
                            ELSE IF RtcpPacket(d, at).out = "ok"
                                 THEN <<at>> \o f[RtcpPacket(d, at).at] ELSE <<at>>]
           ok(at) == RtcpPacket(d, at).out = "ok"
           stop == {at \in Position : ~ok(at)}
           to == [at \in Position |-> IF ok(at) THEN RtcpPacket(d, at).at ELSE at]
<1>1. ASSUME NEW at \in Position, ok(at)
      PROVE  /\ RtcpPacket(d, at).at \in Position /\ at < RtcpPacket(d, at).at
             /\ at <= Len(d) /\ Has(d, at, 1)
    <2>1. /\ RtcpPacket(d, at).at \in Nat /\ at + 4 <= RtcpPacket(d, at).at
          /\ Has(d, at, 4)
        BY <1>1, PacketRead DEF Outcome
    <2>2. at \in Nat /\ Len(d) \in Nat /\ at # 0
        BY Octets DEF Position
    <2> QED
        BY <2>1, <2>2 DEF Position, Has
<1>2. /\ \A at \in Position : at \in stop <=> ~ok(at)
      /\ \A at \in Position : ok(at) => to[at] = RtcpPacket(d, at).at
    OBVIOUS
<1>3. to \in [Position -> Position]
    BY <1>1
<1> HIDE DEF stop, to
<1>4. \A n \in Position : n \notin stop => n < to[n] /\ n <= Len(d)
    BY <1>1, <1>2
<1>5. Len(d) \in Nat
    OBVIOUS
<1>6. PICK h \in [Position -> Seq(Position)] : \A n \in Position :
          h[n] = IF n \in stop THEN <<n>> ELSE <<n>> \o h[to[n]]
    <2> DEFINE b == Len(d)
    <2>1. b \in Nat /\ \A n \in Position : n \notin stop => n < to[n] /\ n <= b
        BY <1>4, <1>5
    <2> HIDE DEF b
    <2>2. Walk(stop, to)
        BY <1>3, <2>1, Stepwise
    <2> QED
        BY <2>2 DEF Walk
<1>7. Is(h)
    <2>1. ASSUME NEW at \in Position
          PROVE  h[at] = IF ~Has(d, at, 1) THEN <<at>>
                         ELSE IF RtcpPacket(d, at).out = "ok"
                              THEN <<at>> \o h[RtcpPacket(d, at).at] ELSE <<at>>
        BY <1>1, <1>2, <1>6
    <2> QED
        BY <1>6, <2>1
<1> DEFINE f == CHOOSE f : Is(f)
<1>8. Is(f) /\ RtcpCompoundPacket(d) = f[1]
    <2>1. RtcpCompoundPacket(d) = f[1]
        BY DEF RtcpCompoundPacket, Position
    <2> HIDE DEF Is
    <2> QED
        BY <1>7, <2>1
<1> HIDE DEF f
<1>9. Finds(d, f)
    BY <1>1, <1>8 DEF Finds
<1> QED
    BY <1>8, <1>9

\* A packet that another follows ends where its length field says exactly if
\* Delimits says so.
LEMMA DelimitsFinds ==
    ASSUME NEW d \in Seq(Byte), NEW at \in Position, Has(d, at, 4),
           After(d, at) <= Len(d) + 1
    PROVE  /\ Delimits(d, at) => RtcpPacket(d, at) = Found(After(d, at))
           /\ After(d, at) # Len(d) + 1 /\ RtcpPacket(d, at) = Found(After(d, at)) =>
                  Delimits(d, at)
<1> DEFINE n == Count(d, at)
           e == After(d, at)
           r == RtcpPacket(d, at)
<1>1. /\ at \in Nat /\ at # 0 /\ Len(d) \in Nat /\ e \in Nat /\ at + 4 <= e /\ e <= Len(d) + 1
      /\ at <= Len(d)
    BY LengthRead, Octets DEF Position
<1>2. n \in Nat
    <2>1. d[at] \in Nat
        BY <1>1, Octets
    <2>2. \A x \in Nat : x % 32 \in Nat
        BY Z3
    <2> QED
        BY <2>1, <2>2 DEF Count
<1> HIDE DEF n, e
<1>3. CASE Kind(d, at) \in {SR, RR, APP}
    <2>1. ~Delimits(d, at)
        BY <1>3 DEF Delimits, SR, RR, APP, SDES, BYE
    <2>2. r = Found(e) => e = Len(d) + 1
        <3>1. r = Found(e) => r.out = "ok" /\ r.at = e
            BY <1>1, Results
        <3> QED
            BY <1>3, <3>1, PacketRead
    <2> QED
        BY <2>1, <2>2 DEF e
<1>4. CASE Kind(d, at) = SDES
    <2>1. r = SourceDescription(d, at + 4, n)
        BY <1>4 DEF RtcpPacket, n, SR, RR, SDES, BYE, APP
    <2>2. Delimits(d, at) <=> SourceDescription(d, at + 4, n) = Found(e)
        BY <1>4 DEF Delimits, n, e, After, SR, RR, SDES, BYE, APP
    <2> QED
        BY <2>1, <2>2 DEF e
<1>5. CASE Kind(d, at) = BYE
    <2> DEFINE reason == (at + 4) + 4 * n
    <2>1. r = GoodBye(d, at + 4, n)
        BY <1>5 DEF RtcpPacket, n, SR, RR, SDES, BYE, APP
    <2>2. reason \in Nat /\ reason # 0 /\ at + 4 \in Nat /\ reason = at + 4 + 4 * n
        BY <1>1, <1>2
    <2>3. Delimits(d, at) <=> /\ reason < e /\ reason + 1 + d[reason] = e
                              /\ Utf8(d, reason + 1, d[reason])
        BY <1>5, <2>2 DEF Delimits, n, e, After, SR, RR, SDES, BYE, APP
    <2>4. (Has(d, at + 4, 4 * n) <=> reason <= Len(d) + 1) /\ (Has(d, reason, 1) <=> reason <= Len(d))
        BY <1>1, <1>2, <2>2 DEF Has
    <2> HIDE DEF reason
    <2>5. ASSUME reason <= Len(d)
          PROVE  /\ d[reason] \in Nat
                 /\ r = IF /\ reason + 1 + d[reason] <= Len(d) + 1
                           /\ Utf8(d, reason + 1, d[reason])
                        THEN Found(reason + 1 + d[reason]) ELSE Failed("error", at + 4)
        <3>1. reason \in Position
            BY <2>2 DEF Position
        <3>2. d[reason] \in Nat
            BY <2>5, <3>1, Octets
        <3>3. Has(d, reason, 1 + d[reason]) <=> reason + 1 + d[reason] <= Len(d) + 1
            BY <1>1, <2>2, <3>2 DEF Has
        <3>4. Has(d, at + 4, 4 * n) /\ Has(d, reason, 1)
            BY <1>1, <2>2, <2>4, <2>5
        <3> QED
            BY <2>1, <3>2, <3>3, <3>4 DEF GoodBye, reason
    <2>6. ASSUME Delimits(d, at) PROVE r = Found(e)
        <3>1. reason <= Len(d)
            BY <1>1, <2>2, <2>3, <2>6
        <3> QED
            BY <1>1, <2>3, <2>5, <2>6, <3>1
    <2>7. ASSUME e # Len(d) + 1, r = Found(e) PROVE Delimits(d, at)
        <3>1. r.out = "ok" /\ r.at = e
            BY <1>1, <2>7, Results
        <3>2. CASE reason <= Len(d)
            <4>1. d[reason] \in Nat /\ reason + 1 + d[reason] \in Nat /\ at + 4 \in Nat
                BY <2>2, <2>5, <3>2
            <4>2. r = Found(reason + 1 + d[reason]) /\ Utf8(d, reason + 1, d[reason])
                BY <2>5, <3>1, <3>2, <4>1, Results
            <4>3. reason + 1 + d[reason] = e
                BY <3>1, <4>1, <4>2, Results
            <4> QED
                BY <2>2, <2>3, <4>1, <4>2, <4>3
        <3>3. CASE reason = Len(d) + 1
            <4>1. Has(d, at + 4, 4 * n) /\ ~Has(d, reason, 1)
                BY <1>1, <2>2, <2>4, <3>3
            <4>2. r = Found(reason)
                BY <2>1, <4>1 DEF GoodBye, reason
            <4> QED
                BY <2>2, <2>7, <3>1, <3>3, <4>2, Results
        <3>4. CASE reason > Len(d) + 1
            <4>1. ~Has(d, at + 4, 4 * n)
                BY <1>1, <2>2, <2>4, <3>4
            <4>2. r = Failed("panic", at + 4)
                BY <2>1, <4>1 DEF GoodBye
            <4> QED
                BY <2>2, <3>1, <4>2, Results
        <3> QED
            BY <1>1, <2>2, <3>2, <3>3, <3>4
    <2> QED
        BY <2>6, <2>7 DEF e
<1>6. CASE Kind(d, at) \notin {SR, RR, SDES, BYE, APP}
    <2>1. r = Failed("error", at) /\ ~Delimits(d, at)
        BY <1>6 DEF RtcpPacket, Delimits
    <2>2. r # Found(e)
        BY <1>1, <2>1, Results
    <2> QED
        BY <2>1, <2>2 DEF e
<1> QED
    BY <1>3, <1>4, <1>5, <1>6

\* One position and a list of them, and one alone.
LEMMA Prepend ==
    ASSUME NEW n \in Position, NEW s \in Seq(Position)
    PROVE  /\ <<n>> \o s \in Seq(Position) /\ Len(<<n>> \o s) = Len(s) + 1
           /\ (<<n>> \o s)[1] = n /\ \A k \in 1 .. Len(s) : (<<n>> \o s)[k + 1] = s[k]
           /\ Len(s) \in Nat /\ Len(s) # 0 => (<<n>> \o s)[Len(s) + 1] = s[Len(s)]
           /\ s = Tail(<<n>> \o s)
           /\ <<n>> \in Seq(Position) /\ Len(<<n>>) = 1 /\ <<n>>[1] = n
<1>1. <<n>> \in Seq(Position) /\ Len(<<n>>) = 1 /\ <<n>>[1] = n /\ Len(s) \in Nat
    OBVIOUS
<1> DEFINE t == <<n>>
<1> HIDE DEF t
<1>2. /\ t \o s \in Seq(Position) /\ Len(t \o s) = Len(s) + 1
      /\ (t \o s)[1] = n /\ \A k \in 1 .. Len(s) : (t \o s)[k + 1] = s[k]
    BY <1>1 DEF t
<1>3. Len(s) # 0 => (t \o s)[Len(s) + 1] = s[Len(s)]
    BY <1>1, <1>2
<1>4. s = Tail(<<n>> \o s)
    OBVIOUS
<1> QED
    BY <1>1, <1>2, <1>3, <1>4 DEF t

\* The marks of a position begin there, rise, and are positions.
LEMMA MarksRise ==
    ASSUME NEW d \in Seq(Byte), NEW f, Marks(d, f), NEW at \in Position
    PROVE  /\ f[at] \in Seq(Position) /\ Len(f[at]) # 0 /\ f[at][1] = at
           /\ f[at][Len(f[at])] >= at
<1> DEFINE Ok(n) == /\ f[n] \in Seq(Position) /\ Len(f[n]) # 0 /\ f[n][1] = n
                    /\ f[n][Len(f[n])] >= n
           T == {n \in Position : Ok(n)}
           P == Position
           b == Len(d)
<1>1. ASSUME NEW n \in P, \A m \in P : n < m => m \in T PROVE n \in T
    <2>1. CASE Has(d, n, 4)
        <3> DEFINE e == After(d, n)
        <3>1. e \in Position /\ n < e /\ f[n] = <<n>> \o f[e] /\ n \in Position /\ e \in Nat /\ n \in Nat
            BY <2>1, LengthRead DEF Marks, Position
        <3>2. Ok(e)
            BY <1>1, <3>1
        <3> DEFINE s == f[e]
        <3>3. /\ s \in Seq(Position) /\ Len(s) # 0 /\ s[Len(s)] >= e /\ f[n] = <<n>> \o s
              /\ s[Len(s)] \in Nat
            <4>1. s \in Seq(Position) /\ Len(s) # 0
                BY <3>2
            <4>2. s[Len(s)] \in Position
                BY <4>1
            <4> QED
                BY <3>1, <3>2, <4>2 DEF Position
        <3> HIDE DEF e, s, Ok
        <3>4. /\ f[n] \in Seq(Position) /\ Len(f[n]) = Len(s) + 1 /\ f[n][1] = n
              /\ f[n][Len(s) + 1] = s[Len(s)]
            <4> DEFINE t == <<n>> \o s
            <4>1. /\ t \in Seq(Position) /\ Len(t) = Len(s) + 1 /\ t[1] = n
                  /\ t[Len(s) + 1] = s[Len(s)]
                BY <3>1, <3>3, Prepend
            <4>2. f[n] = t
                BY <3>3
            <4> HIDE DEF t
            <4> QED
                BY <4>1, <4>2
        <3>5. Ok(n)
            BY SMTT(40), <3>1, <3>3, <3>4 DEF Ok
        <3> QED
            BY <3>5
    <2>2. CASE ~Has(d, n, 4)
        <3>1. f[n] = <<n>> /\ n \in Position /\ n \in Nat
            BY <2>2 DEF Marks, Position
        <3>2. Ok(n)
            BY <3>1
        <3> QED
            BY <3>2
    <2> QED
        BY <2>1, <2>2
<1>2. \A n \in P : n > b => n \in T
    <2>1. ASSUME NEW n \in P, n > b PROVE n \in T
        <3>1. n \in Position /\ n \in Nat /\ ~Has(d, n, 4)
            BY <2>1, Octets DEF Position, Has
        <3>2. f[n] = <<n>>
            BY <3>1 DEF Marks
        <3>3. Ok(n)
            BY <3>1, <3>2
        <3> QED
            BY <3>3
    <2> QED
        BY <2>1
<1>3. P \in SUBSET Nat /\ b \in Nat
    BY Octets DEF Position
<1> HIDE DEF T, b, P
<1>4. \A n \in P : (\A m \in P : n < m => m \in T) => n \in T
    BY <1>1
<1>5. P \subseteq T
    BY <1>2, <1>3, <1>4, InductionDown
<1> QED
    BY <1>5 DEF T, P

\* So do the packets that are found.
LEMMA FindsFirst ==
    ASSUME NEW d \in Seq(Byte), NEW f, Finds(d, f), NEW at \in Position
    PROVE  f[at] \in Seq(Position) /\ Len(f[at]) # 0 /\ f[at][1] = at
<1> DEFINE Ok(n) == f[n] \in Seq(Position) /\ Len(f[n]) # 0 /\ f[n][1] = n
           T == {n \in Position : Ok(n)}
           P == Position
           b == Len(d)
<1>1. ASSUME NEW n \in P, \A m \in P : n < m => m \in T PROVE n \in T
    <2>1. CASE RtcpPacket(d, n).out = "ok"
        <3> DEFINE e == RtcpPacket(d, n).at
        <3>1. e \in Position /\ n < e /\ f[n] = <<n>> \o f[e] /\ n \in Position
            <4>1. e \in Nat /\ n + 4 <= e /\ n \in Position /\ n \in Nat
                BY <2>1, PacketRead DEF Outcome, Position
            <4>2. f[n] = <<n>> \o f[e]
                BY <2>1, <4>1 DEF Finds
            <4> HIDE DEF e
            <4> QED
                BY <4>1, <4>2 DEF Position
        <3>2. Ok(e)
            BY <1>1, <3>1
        <3> DEFINE s == f[e]
        <3>3. s \in Seq(Position) /\ f[n] = <<n>> \o s
            BY <3>1, <3>2
        <3> HIDE DEF e, s, Ok
        <3>4. f[n] \in Seq(Position) /\ Len(f[n]) = Len(s) + 1 /\ f[n][1] = n
            <4> DEFINE t == <<n>> \o s
            <4>1. t \in Seq(Position) /\ Len(t) = Len(s) + 1 /\ t[1] = n
                BY <3>1, <3>3, Prepend
            <4>2. f[n] = t
                BY <3>3
            <4> HIDE DEF t
            <4> QED
                BY <4>1, <4>2
        <3>5. Ok(n)
            BY <3>3, <3>4 DEF Ok
        <3> QED
            BY <3>5
    <2>2. CASE RtcpPacket(d, n).out # "ok"
        <3>1. f[n] = <<n>> /\ n \in Position
            BY <2>2 DEF Finds
        <3>2. Ok(n)
            BY <3>1
        <3> QED
            BY <3>2
    <2> QED
        BY <2>1, <2>2
<1>2. \A n \in P : n > b => n \in T
    <2>1. ASSUME NEW n \in P, n > b PROVE n \in T
        <3>1. n \in Position /\ n \in Nat /\ ~Has(d, n, 4)
            BY <2>1, Octets DEF Position, Has
        <3>2. RtcpPacket(d, n).out # "ok"
            BY <3>1, PacketRead
        <3>3. f[n] = <<n>>
            BY <3>1, <3>2 DEF Finds
        <3>4. Ok(n)
            BY <3>1, <3>3
        <3> QED
            BY <3>4
    <2> QED
        BY <2>1
<1>3. P \in SUBSET Nat /\ b \in Nat
    BY Octets DEF Position
<1> HIDE DEF T, b, P
<1>4. \A n \in P : (\A m \in P : n < m => m \in T) => n \in T
    BY <1>1
<1>5. P \subseteq T
    BY <1>2, <1>3, <1>4, InductionDown
<1> QED
    BY <1>5 DEF T, P

\* From a position on, the packets that are found are those that are there
\* exactly if each but the last can be told from the next, and the last ends
\* the datagram.
Told(d, s) ==
    /\ \A k \in 1 .. (Len(s) - 2) : Delimits(d, s[k])
    /\ RtcpPacket(d, s[Len(s) - 1]) = Found(Len(d) + 1)

\* One packet more in front of those that a datagram tells.
LEMMA ToldStep ==
    ASSUME NEW d, NEW at \in Position, NEW s \in Seq(Position), Len(s) >= 2
    PROVE  Told(d, <<at>> \o s) <=> Delimits(d, at) /\ Told(d, s)
<1> DEFINE t == <<at>> \o s
<1>1. /\ Len(s) \in Nat /\ Len(t) = Len(s) + 1 /\ t[1] = at
      /\ \A k \in 1 .. Len(s) : t[k + 1] = s[k]
    OBVIOUS
<1> HIDE DEF t
<1>2. t[Len(t) - 1] = s[Len(s) - 1]
    <2>1. Len(s) - 1 \in 1 .. Len(s) /\ (Len(s) - 1) + 1 = Len(t) - 1
        BY <1>1
    <2> QED
        BY <1>1, <2>1
<1>3. ASSUME \A k \in 1 .. (Len(t) - 2) : Delimits(d, t[k])
      PROVE  Delimits(d, at) /\ \A k \in 1 .. (Len(s) - 2) : Delimits(d, s[k])
    <2>1. 1 \in 1 .. (Len(t) - 2)
        BY <1>1
    <2>2. ASSUME NEW k \in 1 .. (Len(s) - 2) PROVE Delimits(d, s[k])
        <3>1. k + 1 \in 1 .. (Len(t) - 2) /\ k \in 1 .. Len(s)
            BY <1>1
        <3> QED
            BY <1>1, <1>3, <3>1
    <2> QED
        BY <1>1, <1>3, <2>1, <2>2
<1>4. ASSUME Delimits(d, at), \A k \in 1 .. (Len(s) - 2) : Delimits(d, s[k])
      PROVE  \A k \in 1 .. (Len(t) - 2) : Delimits(d, t[k])
    <2>1. ASSUME NEW k \in 1 .. (Len(t) - 2) PROVE Delimits(d, t[k])
        <3>1. CASE k = 1
            BY <1>1, <1>4, <3>1
        <3>2. CASE k # 1
            <4>1. k - 1 \in 1 .. (Len(s) - 2) /\ k - 1 \in 1 .. Len(s) /\ (k - 1) + 1 = k
                BY <1>1, <3>2
            <4>2. t[k] = s[k - 1]
                BY <1>1, <4>1
            <4> QED
                BY <1>4, <4>1, <4>2
        <3> QED
            BY <3>1, <3>2
    <2> QED
        BY <2>1
<1> QED
    BY <1>2, <1>3, <1>4 DEF Told, t

\* A compound packet is read as its lengths tell, from every place.
LEMMA FoundAsTold ==
    ASSUME NEW d \in Seq(Byte), NEW f, NEW g, Marks(d, f), Finds(d, g),
           NEW from \in Position, f[from][Len(f[from])] = Len(d) + 1
    PROVE  /\ from = Len(d) + 1 => f[from] = <<from>> /\ g[from] = <<from>>
           /\ from # Len(d) + 1 =>
                  Len(f[from]) >= 2 /\ (g[from] = f[from] <=> Told(d, f[from]))
<1> DEFINE L == Len(d)
           Ends(n) == f[n][Len(f[n])] = L + 1
           Ok(n) == /\ n = L + 1 => f[n] = <<n>> /\ g[n] = <<n>>
                    /\ n # L + 1 => Len(f[n]) >= 2 /\ (g[n] = f[n] <=> Told(d, f[n]))
           T == {n \in Position : Ends(n) => Ok(n)}
           P == Position
<1>0. L \in Nat
    OBVIOUS
<1>1. ASSUME NEW n \in P, n > L PROVE n \in T
    <2>1. n \in Position /\ n \in Nat /\ ~Has(d, n, 4)
        BY <1>0, <1>1 DEF Position, Has
    <2>2. RtcpPacket(d, n).out # "ok"
        BY <2>1, PacketRead
    <2>3. f[n] = <<n>> /\ g[n] = <<n>>
        BY <2>1, <2>2 DEF Marks, Finds
    <2>4. f[n][Len(f[n])] = n
        BY <2>1, <2>3
    <2> QED
        BY <2>1, <2>3, <2>4
<1>2. ASSUME NEW n \in P, \A m \in P : n < m => m \in T, Ends(n), n <= L PROVE Ok(n)
    <2>0. n \in Position /\ n \in Nat /\ n # L + 1
        BY <1>0, <1>2 DEF Position
    <2>1. Has(d, n, 4)
        <3>1. CASE ~Has(d, n, 4)
            <4>1. f[n] = <<n>>
                BY <2>0, <3>1 DEF Marks
            <4>2. f[n][Len(f[n])] = n
                BY <2>0, <4>1
            <4> QED
                BY <1>2, <2>0, <4>2
        <3> QED
            BY <3>1
    <2> DEFINE e == After(d, n)
               s == f[e]
               r == RtcpPacket(d, n)
               u == g[r.at]
    <2>2. e \in Position /\ n < e /\ e \in Nat
        BY <2>0, <2>1, LengthRead DEF Position
    <2>3. /\ s \in Seq(Position) /\ Len(s) # 0 /\ s[1] = e /\ s[Len(s)] >= e
          /\ f[n] = <<n>> \o s
        <3>1. f[n] = <<n>> \o s
            BY <2>0, <2>1 DEF Marks
        <3> HIDE DEF e
        <3> QED
            BY <2>2, <3>1, MarksRise
    <2>4. Ends(e) /\ e <= L + 1
        <3> HIDE DEF s, e
        <3>1. /\ Len(<<n>> \o s) = Len(s) + 1 /\ Len(s) \in Nat
              /\ (<<n>> \o s)[Len(s) + 1] = s[Len(s)]
            BY <2>0, <2>3
        <3>2. s[Len(s)] = L + 1
            BY <1>2, <2>3, <3>1
        <3> QED
            BY <2>3, <3>2 DEF s
    <2>5. Ok(e)
        BY <1>2, <2>2, <2>4
    <2>6. /\ Delimits(d, n) => r = Found(e)
          /\ e # L + 1 /\ r = Found(e) => Delimits(d, n)
        BY <2>0, <2>1, <2>4, DelimitsFinds
    <2>7. r \in Outcome /\ (r.out = "ok" => r.at \in Position /\ g[n] = <<n>> \o u)
        <3>1. r.out = "ok" => r.at \in Nat /\ n + 4 <= r.at
            BY <2>0, PacketRead DEF Outcome
        <3>2. r.out = "ok" => g[n] = <<n>> \o u
            BY <2>0 DEF Finds
        <3>3. r \in Outcome
            BY <2>0, PacketRead
        <3> HIDE DEF r, u
        <3>4. r.out = "ok" => r.at \in Position
            BY <2>0, <3>1 DEF Position
        <3> QED
            BY <3>2, <3>3, <3>4
    <2>8. r.out # "ok" => g[n] = <<n>>
        BY <2>0 DEF Finds
    <2>9. r = Found(e) <=> r.out = "ok" /\ r.at = e
        BY <2>2, <2>7, Results DEF Outcome, Found
    <2>10. g[n] = f[n] <=> r = Found(e) /\ g[e] = f[e]
        <3>1. CASE r.out # "ok"
            <4>1. g[n] # f[n]
                <5> HIDE DEF s
                <5>1. Len(<<n>> \o s) = Len(s) + 1 /\ Len(s) \in Nat /\ Len(<<n>>) = 1
                    BY <2>0, <2>3
                <5> QED
                    BY <2>3, <2>8, <3>1, <5>1
            <4> QED
                BY <2>9, <3>1, <4>1
        <3>2. CASE r.out = "ok"
            <4>1. u \in Seq(Position) /\ Len(u) # 0 /\ u[1] = r.at
                BY <2>7, <3>2, FindsFirst
            <4>2. <<n>> \o u = <<n>> \o s => u = s
                <5> HIDE DEF u, s, e, r
                <5>1. u = Tail(<<n>> \o u) /\ s = Tail(<<n>> \o s)
                    <6>1. ASSUME NEW w \in Seq(Position) PROVE w = Tail(<<n>> \o w)
                        BY <2>0, <6>1
                    <6> QED
                        BY <2>3, <4>1, <6>1
                <5> QED
                    BY <5>1
            <4>3. g[n] = f[n] <=> u = s
                BY <2>3, <2>7, <3>2, <4>2
            <4>4. u = s => r.at = e
                BY <2>3, <4>1
            <4> QED
                BY <2>9, <3>2, <4>3, <4>4
        <3> QED
            BY <3>1, <3>2
    <2>11. Len(f[n]) >= 2
        <3> HIDE DEF s
        <3>1. Len(<<n>> \o s) = Len(s) + 1 /\ Len(s) \in Nat
            BY <2>0, <2>3
        <3> QED
            BY <2>3, <3>1
    <2>12. CASE e = L + 1
        <3>1. f[e] = <<e>> /\ g[e] = <<e>>
            BY <2>5, <2>12
        <3> DEFINE t == f[n]
        <3>2. Len(t) = 2 /\ t[1] = n
            <4> HIDE DEF e
            <4>1. <<e>> \in Seq(Position) /\ Len(<<e>>) = 1
                BY <2>2
            <4> QED
                BY <2>0, <2>3, <3>1, <4>1, Prepend
        <3>3. Told(d, f[n]) <=> r = Found(e)
            <4>1. /\ Len(t) - 2 = 0 /\ Len(t) - 1 = 1 /\ \A k \in 1 .. 0 : FALSE
                BY <3>2
            <4> HIDE DEF e, r, t
            <4>2. Told(d, t) <=> RtcpPacket(d, n) = Found(L + 1)
                BY <3>2, <4>1 DEF Told
            <4> QED
                BY <2>12, <4>2 DEF r, t
        <3> QED
            BY <2>0, <2>10, <2>11, <3>1, <3>3
    <2>13. CASE e # L + 1
        <3>1. Len(s) >= 2 /\ (g[e] = f[e] <=> Told(d, s))
            BY <2>5, <2>13
        <3>2. Told(d, f[n]) <=> Delimits(d, n) /\ Told(d, s)
            BY SMTT(40), <2>0, <2>3, <3>1, ToldStep
        <3> QED
            BY <2>0, <2>6, <2>10, <2>11, <2>13, <3>1, <3>2
    <2> QED
        BY <2>12, <2>13
<1> HIDE DEF Ok, Ends
<1>3. ASSUME NEW n \in P, \A m \in P : n < m => m \in T PROVE n \in T
    <2>1. CASE n <= L
        BY <1>2, <1>3, <2>1
    <2>2. CASE n > L
        BY <1>1, <2>2
    <2> QED
        BY <1>0, <2>1, <2>2 DEF Position
<1>4. P \in SUBSET Nat
    BY DEF Position
<1> HIDE DEF T, L, P
<1>5. P \subseteq T
    <2>1. \A n \in P : (\A m \in P : n < m => m \in T) => n \in T
        BY <1>3
    <2>2. \A n \in P : n > L => n \in T
        BY <1>1
    <2>3. L \in Nat /\ P \in SUBSET Nat
        BY <1>0, <1>4
    <2> QED
        BY <2>1, <2>2, <2>3, InductionDown
<1>6. from \in T
    BY <1>5 DEF P
<1> QED
    BY <1>6 DEF T, Ends, Ok, L

\* A compound packet is read as its lengths tell.
LEMMA CompoundTold == ASSUME NEW d \in Seq(Byte) PROVE CompoundFound(d)
<1> SUFFICES ASSUME WellFormed(d) PROVE RtcpCompoundPacket(d) = Boundaries(d) <=> Told(d, Boundaries(d))
    <2>1. PICK f : Marks(d, f) /\ Boundaries(d) = f[1]
        BY BoundariesMark
    <2>2. 1 \in Position
        BY DEF Position
    <2> DEFINE s == Boundaries(d)
    <2>3. s \in Seq(Position)
        BY <2>1, <2>2, MarksRise
    <2> HIDE DEF s
    <2>4. (Len(s) - 1) - 1 = Len(s) - 2
        BY <2>3
    <2> QED
        BY <2>4 DEF CompoundFound, Told, s
<1>1. PICK f : Marks(d, f) /\ Boundaries(d) = f[1]
    BY BoundariesMark
<1>2. PICK g : Finds(d, g) /\ RtcpCompoundPacket(d) = g[1]
    BY CompoundFinds
<1>3. 1 \in Position /\ Len(d) # 0
    BY DEF Position, WellFormed
<1>4. f[1][Len(f[1])] = Len(d) + 1
    BY <1>1 DEF WellFormed
<1>5. 1 # Len(d) + 1
    BY <1>3
<1>6. g[1] = f[1] <=> Told(d, f[1])
    BY <1>1, <1>2, <1>3, <1>4, <1>5, FoundAsTold
<1> QED
    BY <1>1, <1>2, <1>6

\* A message of the RTCP socket is the packet its datagram begins with.
LEMMA FirstPacket ==
    ASSUME NEW d \in Seq(Byte), WellFormed(d), RtcpPacket(d, 1).out = "ok",
           Delimits(d, 1)
    PROVE  RtcpPacket(d, 1).at = Boundaries(d)[2]
<1>1. PICK f : Marks(d, f) /\ Boundaries(d) = f[1]
    BY BoundariesMark
<1>2. 1 \in Position
    BY DEF Position
<1>3. Has(d, 1, 4)
    BY <1>2, PacketRead
<1> DEFINE e == After(d, 1)
           s == f[e]
<1>4. e \in Position /\ e \in Nat /\ f[1] = <<1>> \o s
    BY <1>1, <1>2, <1>3, LengthRead DEF Marks, Position
<1> HIDE DEF e
<1>5. s \in Seq(Position) /\ Len(s) # 0 /\ s[1] = e /\ s[Len(s)] >= e
    BY <1>1, <1>4, MarksRise
<1> HIDE DEF s
<1> DEFINE t == <<1>> \o s
<1>6. /\ Len(t) = Len(s) + 1 /\ Len(s) \in Nat /\ t[Len(s) + 1] = s[Len(s)]
      /\ \A k \in 1 .. Len(s) : t[k + 1] = s[k]
    BY <1>2, <1>5, Prepend
<1>7. Boundaries(d) = t
    BY <1>1, <1>4
<1> HIDE DEF t
<1>8. s[Len(s)] = Len(d) + 1
    BY <1>6, <1>7 DEF WellFormed
<1>9. t[2] = e
    <2>1. 1 \in 1 .. Len(s) /\ 1 + 1 = 2
        BY <1>5, <1>6
    <2> QED
        BY <1>5, <1>6, <2>1
<1>10. e <= Len(d) + 1
    BY <1>5, <1>8
<1>11. RtcpPacket(d, 1) = Found(e)
    BY <1>2, <1>3, <1>10, DelimitsFinds DEF e
<1> QED
    BY <1>4, <1>7, <1>9, <1>11, Results

\* A report that was read is the one that was sent.
LEMMA RtcpFaithful ==
    ASSUME NEW m, m.from # "RTP", NEW d \in Seq(Byte), d = reports[m.n],
           RtcpPacket(d, 1).out = "ok"
    PROVE  RtcpAsSent(m)
<1> DEFINE p == RtcpPacket(d, 1)
           s == SubSeq(d, 1, p.at - 1)
<1>1. 1 \in Position
    BY DEF Position
<1>2. p.at \in Nat /\ 1 + 4 <= p.at /\ p.at <= Len(d) + 1
    BY <1>1, PacketRead DEF Outcome
<1>3. Packet(m) = s
    BY DEF Packet, Parse
<1>4. Len(s) + 1 = p.at
    <2> HIDE DEF p
    <2>1. p.at - 1 \in Nat /\ 1 <= p.at - 1 /\ p.at - 1 <= Len(d)
        BY <1>2
    <2>2. Len(s) = p.at - 1
        BY <2>1
    <2> QED
        BY <1>2, <2>2
<1>5. Kind(d, 1) \in {SR, RR, APP} => p.at = Len(d) + 1
    BY <1>1, PacketRead
<1>6. WellFormed(d) /\ Delimits(d, 1) => p.at = Boundaries(d)[2]
    BY FirstPacket
<1> HIDE DEF p, s
<1> QED
    BY <1>3, <1>4, <1>5, <1>6 DEF RtcpAsSent

\* What the application has, or will get, of the RTCP socket was parsed.
Parsable(m) ==
    m.from = "RTCP" => m.n \in DOMAIN reports /\ RtcpPacket(reports[m.n], 1).out = "ok"

KeptParsable == \A m \in Kept : Parsable(m)

\* No step adds more than the message of one datagram.
LEMMA KeptGrows ==
    ASSUME IInv, [Next]_vars
    PROVE  \/ Kept' \subseteq Kept
           \/ \E r \in Reader : \E n \in flight[r] :
                  /\ Parse(r, n).out = "ok" /\ UNCHANGED reports
                  /\ Kept' \subseteq Kept \cup {[from |-> r, n |-> n]}
<1>0. /\ holding \in [Reader -> Seq(Message)]
      /\ queue \in Seq(Message) /\ received \in Seq(Message)
    BY DEF IInv, TypeOK
<1>1. CASE UNCHANGED <<received, queue, holding>>
    BY <1>1 DEF Kept
<1>2. CASE Sends \/ Rests \/ UNCHANGED vars
    <2>1. CASE DropSession
        <3>1. queue' = <<>> /\ UNCHANGED <<received, holding>>
            BY <2>1 DEF DropSession
        <3>2. ToSet(queue') = {}
            BY <3>1 DEF ToSet
        <3> QED
            BY <3>1, <3>2 DEF Kept
    <2>2. CASE ~DropSession
        BY <1>1, <1>2, <2>2 DEF Sends, WriteRtp, SendRtpPacket, Rests, WriteFails, CallReceive,
            ReceiveNone, Cancel, SendReport, Trouble, RecvFails, Shutdown, vars, readerVars,
            callerVars
    <2> QED
        BY <2>1, <2>2
<1>3. ASSUME Receive PROVE Kept' \subseteq Kept
    <2> DEFINE x == Head(queue)
    <2>1. /\ queue # <<>> /\ received' = Append(received, x) /\ queue' = Tail(queue)
          /\ UNCHANGED holding
        BY <1>3 DEF Receive
    <2>2. ToSet(received') \subseteq ToSet(received) \cup {x}
        <3>1. x \in Message
            BY <1>0, <2>1, HeadTailProperties
        <3> HIDE DEF x
        <3> QED
            BY <1>0, <2>1, <3>1 DEF ToSet
    <2>3. ToSet(queue') \subseteq ToSet(queue) /\ x \in ToSet(queue)
        <3>1. \A i \in DOMAIN Tail(queue) : i + 1 \in DOMAIN queue /\ Tail(queue)[i] = queue[i + 1]
            BY <1>0, <2>1
        <3>2. x = queue[1] /\ 1 \in DOMAIN queue
            BY <1>0, <2>1
        <3> QED
            BY <2>1, <3>1, <3>2 DEF ToSet
    <2> QED
        BY <2>1, <2>2, <2>3 DEF Kept
<1>4. ASSUME NEW r \in Reader, Offer(r) PROVE Kept' \subseteq Kept
    <2>1. /\ holding' = [holding EXCEPT ![r] = <<>>] /\ received' = received
          /\ queue' = queue \/ queue' = queue \o holding[r]
        BY <1>4 DEF Offer, callerVars
    <2>2. ToSet(queue') \subseteq ToSet(queue) \cup ToSet(holding[r])
        <3> DEFINE h == holding[r]
        <3>1. h \in Seq(Message)
            BY <1>0
        <3> HIDE DEF h
        <3>2. ToSet(queue \o h) \subseteq ToSet(queue) \cup ToSet(h)
            <4>1. ASSUME NEW i \in DOMAIN (queue \o h)
                  PROVE  \/ i \in DOMAIN queue /\ (queue \o h)[i] = queue[i]
                         \/ i - Len(queue) \in DOMAIN h /\ (queue \o h)[i] = h[i - Len(queue)]
                BY <1>0, <3>1
            <4> QED
                BY <4>1 DEF ToSet
        <3> QED
            BY <2>1, <3>2 DEF h
    <2>3. \A q \in Reader : ToSet(holding'[q]) \subseteq ToSet(holding[q])
        <3>1. ToSet(<<>>) = {}
            BY DEF ToSet
        <3> QED
            BY <1>0, <2>1, <3>1
    <2> QED
        BY <2>1, <2>2, <2>3 DEF Kept
<1>5. ASSUME NEW r \in Reader, NEW n \in flight[r], Recv(r, n)
      PROVE  \/ Kept' \subseteq Kept
             \/ /\ Parse(r, n).out = "ok" /\ UNCHANGED reports
                /\ Kept' \subseteq Kept \cup {[from |-> r, n |-> n]}
    <2>1. UNCHANGED <<reports, queue, received>>
        BY <1>5 DEF Recv, callerVars
    <2>2. CASE UNCHANGED holding
        <3>1. received' = received /\ queue' = queue /\ holding' = holding
            BY <2>1, <2>2
        <3> QED
            BY <3>1 DEF Kept
    <2>3. CASE /\ Parse(r, n).out = "ok"
               /\ holding' = [holding EXCEPT ![r] = <<[from |-> r, n |-> n]>>]
        <3> DEFINE m == [from |-> r, n |-> n]
        <3>1. ToSet(<<m>>) = {m}
            <4> HIDE DEF m
            <4> QED
                BY DEF ToSet
        <3>2. \A q \in Reader : ToSet(holding'[q]) \subseteq ToSet(holding[q]) \cup {m}
            BY <1>0, <2>3, <3>1
        <3> HIDE DEF m
        <3>3. Kept' \subseteq Kept \cup {m}
            BY <2>1, <3>2 DEF Kept
        <3> QED
            BY <2>1, <2>3, <3>3 DEF m
    <2> QED
        BY <1>5, <2>2, <2>3, RecvCases
<1> QED
    BY <1>2, <1>3, <1>4, <1>5, Steps

\* Every step keeps the reports on their way parsable.
LEMMA ParsableStep ==
    ASSUME IInv, Ordered, KeptParsable, [Next]_vars
    PROVE  KeptParsable'
<1>0. reports \in Seq(Seq(0 .. 255))
    BY DEF IInv, TypeOK
<1>1. DOMAIN reports \subseteq DOMAIN reports' /\ \A k \in DOMAIN reports : reports'[k] = reports[k]
    <2>1. CASE UNCHANGED reports
        BY <2>1
    <2>2. ASSUME NEW d \in RtcpDatagrams, SendReport(d)
          PROVE  DOMAIN reports \subseteq DOMAIN reports' /\ \A k \in DOMAIN reports : reports'[k] = reports[k]
        <3>1. reports' = Append(reports, d) /\ d \in Seq(0 .. 255)
            BY <2>2, Inputs DEF SendReport
        <3> QED
            BY <1>0, <3>1
    <2>3. CASE \A d \in RtcpDatagrams : ~SendReport(d)
        BY <2>1, <2>3, Steps DEF Sends, WriteRtp, SendRtpPacket, Rests, WriteFails, CallReceive,
            ReceiveNone, Cancel, DropSession, Trouble, RecvFails, Shutdown, Receive, Offer, Recv,
            vars, netVars
    <2> QED
        BY <2>2, <2>3
<1>2. ASSUME NEW m \in Kept PROVE Parsable(m)'
    <2>1. Parsable(m)
        BY DEF KeptParsable
    <2> QED
        BY <1>1, <2>1 DEF Parsable
<1>3. ASSUME NEW r \in Reader, NEW n \in flight[r], Parse(r, n).out = "ok", UNCHANGED reports
      PROVE  Parsable([from |-> r, n |-> n])'
    <2>1. CASE r = "RTCP"
        <3>1. n \in 1 .. Len(reports) /\ DOMAIN reports = 1 .. Len(reports)
            BY <1>0, <2>1 DEF Ordered, OrderedAt, Total
        <3>2. RtcpPacket(reports[n], 1).out = "ok"
            BY <1>3, <2>1 DEF Parse
        <3> QED
            BY <1>3, <3>1, <3>2 DEF Parsable
    <2>2. CASE r = "RTP"
        BY <2>2 DEF Parsable
    <2> QED
        BY <2>1, <2>2 DEF Reader
<1>4. \A m \in Kept' : Parsable(m)'
    BY <1>2, <1>3, KeptGrows
<1> QED
    BY <1>4 DEF KeptParsable

\* What an application receives is what the peer wrote, for every header,
\* payload length and RTCP datagram: within what the codecs can tell
\* (rtp/packet.rs, rtcp/packet.rs, rtcp/header.rs).
THEOREM Faithful == Spec => []ReadAsWritten
<1>1. ASSUME IInv, KeptParsable, \A m \in Kept : m.from = "RTP" => RtpAsWritten(m)
      PROVE  ReadAsWritten
    <2>1. ASSUME NEW m \in Kept, m.from # "RTP" PROVE RtcpAsSent(m)
        <3>1. m \in Message
            BY <1>1 DEF Kept, ToSet, IInv, TypeOK
        <3>2. m.from = "RTCP"
            BY <2>1, <3>1 DEF Message, Reader
        <3>3. m.n \in DOMAIN reports /\ RtcpPacket(reports[m.n], 1).out = "ok"
            BY <1>1, <3>2 DEF KeptParsable, Parsable
        <3>4. reports[m.n] \in Seq(Byte)
            BY <1>1, <3>3 DEF IInv, TypeOK, Byte
        <3> QED
            BY <2>1, <3>3, <3>4, RtcpFaithful
    <2>2. \A k \in DOMAIN reports : CompoundFound(reports[k])
        <3>1. \A k \in DOMAIN reports : reports[k] \in Seq(Byte)
            BY <1>1 DEF IInv, TypeOK, Byte
        <3> QED
            BY <3>1, CompoundTold
    <2> QED
        BY <1>1, <2>1, <2>2 DEF ReadAsWritten
<1>2. Init => KeptParsable
    <2> SUFFICES ASSUME Init PROVE Kept = {}
        BY DEF KeptParsable
    <2>1. ToSet(<<>>) = {}
        BY DEF ToSet
    <2>2. received = <<>> /\ queue = <<>> /\ \A r \in Reader : holding[r] = <<>>
        BY DEF Init
    <2> QED
        BY <2>1, <2>2 DEF Kept
<1>3. Spec => [](IInv /\ Ordered /\ KeptParsable)
    <2>1. IInv /\ Ordered /\ KeptParsable /\ [Next]_vars => (Ordered /\ KeptParsable)'
        BY OrderedStep, ParsableStep
    <2> QED
        BY <1>2, <2>1, OrderedStart, Invariance, PTL DEF Spec
<1>4. IInv /\ Ordered /\ KeptParsable /\ (\A m \in Kept : m.from = "RTP" => RtpAsWritten(m))
          => ReadAsWritten
    BY <1>1
<1> QED
    BY <1>3, <1>4, RtpFaithful, PTL
=============================================================================
