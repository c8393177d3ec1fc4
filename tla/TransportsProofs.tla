-------------------------- MODULE TransportsProofs --------------------------
(***************************************************************************)
(* Proofs about Framing and Transports, for any number of connections,     *)
(* peers and senders and whatever the peers write: the decoder finds every *)
(* message, wherever the stream was cut; the registry; the writers of one  *)
(* connection; and what is heard is what was said.                         *)
(***************************************************************************)
EXTENDS Transports, SelectionProofs, TLAPS

(* Framing. *)

\* A bounded set of naturals that is not empty has a greatest element.
LEMMA Greatest ==
  ASSUME NEW S \in SUBSET Nat, S # {}, NEW b \in Nat, \A n \in S : n <= b
  PROVE  \E n \in S : \A m \in S : m <= n
<1> DEFINE T == {b - n : n \in S}
<1>0. PICK s \in S : TRUE
  OBVIOUS
<1>1. T \in SUBSET Nat /\ T # {}
  <2>1. \A n \in S : b - n \in Nat
    OBVIOUS
  <2>2. b - s \in T
    BY <1>0
  <2> QED
    BY <2>1, <2>2
<1>2. PICK t \in T : \A u \in T : t <= u
  BY <1>1, Least
<1>3. PICK n \in S : t = b - n
  OBVIOUS
<1>4. \A m \in S : b - m \in T
  OBVIOUS
<1>5. ASSUME NEW m \in S PROVE m <= n
  <2>1. t <= b - m
    BY <1>2, <1>4
  <2>2. m \in Nat /\ n \in Nat
    OBVIOUS
  <2> QED
    BY <2>1, <2>2, <1>3
<1> QED
  BY <1>5

\* What it is to start with some bytes.
LEMMA Starts ==
  ASSUME NEW bytes \in Seq(Nat), NEW start \in Seq(Nat)
  PROVE  StartsWith(bytes, start) <=>
            /\ Len(start) <= Len(bytes)
            /\ \A i \in 1 .. Len(start) : bytes[i] = start[i]
<1> DEFINE n == Len(start)
<1> SUFFICES ASSUME n <= Len(bytes)
             PROVE  SubSeq(start, 1, n) = SubSeq(bytes, 1, n) <=>
                        \A i \in 1 .. n : bytes[i] = start[i]
  BY DEF StartsWith, IsPrefix
<1>1. /\ SubSeq(start, 1, n) \in Seq(Nat) /\ Len(SubSeq(start, 1, n)) = n
      /\ \A i \in 1 .. n : SubSeq(start, 1, n)[i] = start[i]
  OBVIOUS
<1>2. /\ SubSeq(bytes, 1, n) \in Seq(Nat) /\ Len(SubSeq(bytes, 1, n)) = n
      /\ \A i \in 1 .. n : SubSeq(bytes, 1, n)[i] = bytes[i]
  OBVIOUS
<1>3. (\A i \in 1 .. n : bytes[i] = start[i]) =>
        SubSeq(start, 1, n) = SubSeq(bytes, 1, n)
  BY <1>1, <1>2, SeqEqual
<1> QED
  BY <1>1, <1>2, <1>3

\* What is left after some bytes.
LEMMA Rest ==
  ASSUME NEW bytes \in Seq(Nat), NEW n \in 0 .. Len(bytes)
  PROVE  /\ From(bytes, n) \in Seq(Nat)
         /\ Len(From(bytes, n)) = Len(bytes) - n
         /\ \A i \in 1 .. Len(bytes) - n : From(bytes, n)[i] = bytes[n + i]
  BY DEF From

\* The keep-alives and the end of headers.
LEMMA Markers ==
  ASSUME NEW bytes \in Seq(Nat)
  PROVE  /\ StartsWith(bytes, KeepaliveRequest) <=>
                /\ 4 <= Len(bytes)
                /\ bytes[1] = CR /\ bytes[2] = LF /\ bytes[3] = CR /\ bytes[4] = LF
         /\ StartsWith(bytes, KeepaliveResponse) <=>
                2 <= Len(bytes) /\ bytes[1] = CR /\ bytes[2] = LF
<1>1. KeepaliveRequest \in Seq(Nat) /\ KeepaliveResponse \in Seq(Nat)
  BY DEF KeepaliveRequest, KeepaliveResponse, CR, LF
<1>2. /\ Len(KeepaliveRequest) = 4
      /\ KeepaliveRequest[1] = CR /\ KeepaliveRequest[2] = LF
      /\ KeepaliveRequest[3] = CR /\ KeepaliveRequest[4] = LF
  BY DEF KeepaliveRequest
<1>3. /\ Len(KeepaliveResponse) = 2
      /\ KeepaliveResponse[1] = CR /\ KeepaliveResponse[2] = LF
  BY DEF KeepaliveResponse
<1>4. \A i \in 1 .. 4 : i = 1 \/ i = 2 \/ i = 3 \/ i = 4
  OBVIOUS
<1>5. \A i \in 1 .. 2 : i = 1 \/ i = 2
  OBVIOUS
<1>6. StartsWith(bytes, KeepaliveRequest) <=>
        4 <= Len(bytes) /\ \A i \in 1 .. 4 : bytes[i] = KeepaliveRequest[i]
  BY <1>1, <1>2, Starts
<1>7. StartsWith(bytes, KeepaliveResponse) <=>
        2 <= Len(bytes) /\ \A i \in 1 .. 2 : bytes[i] = KeepaliveResponse[i]
  BY <1>1, <1>3, Starts
<1> QED
  BY <1>2, <1>3, <1>4, <1>5, <1>6, <1>7

\* Where the headers may end.
LEMMA EndAt ==
  ASSUME NEW bytes \in Seq(Nat), NEW n \in 0 .. Len(bytes)
  PROVE  n \in HeaderSizes(bytes) <=>
            /\ n + 4 <= Len(bytes)
            /\ bytes[n + 1] = CR /\ bytes[n + 2] = LF
            /\ bytes[n + 3] = CR /\ bytes[n + 4] = LF
<1>1. n \in HeaderSizes(bytes) <=> StartsWith(From(bytes, n), KeepaliveRequest)
  BY DEF HeaderSizes, HeadersEnd
<1> DEFINE rest == From(bytes, n)
<1>2. rest \in Seq(Nat) /\ Len(rest) = Len(bytes) - n
  BY Rest
<1>3. StartsWith(rest, KeepaliveRequest) <=>
        /\ 4 <= Len(rest)
        /\ rest[1] = CR /\ rest[2] = LF /\ rest[3] = CR /\ rest[4] = LF
  BY <1>2, Markers
<1>4. \A i \in 1 .. Len(bytes) - n : rest[i] = bytes[n + i]
  BY Rest
<1>5. 4 <= Len(rest) <=> n + 4 <= Len(bytes)
  BY <1>2
<1>6. n + 4 <= Len(bytes) =>
        /\ rest[1] = bytes[n + 1] /\ rest[2] = bytes[n + 2]
        /\ rest[3] = bytes[n + 3] /\ rest[4] = bytes[n + 4]
  BY <1>4
<1> HIDE DEF rest
<1> QED
  BY <1>1, <1>3, <1>5, <1>6 DEF rest

\* The first end of headers, and the last line before it with a length.
LEMMA Header ==
  ASSUME NEW bytes \in Seq(Nat), HeaderSizes(bytes) # {}
  PROVE  /\ HeaderSize(bytes) \in HeaderSizes(bytes)
         /\ HeaderSize(bytes) \in 0 .. Len(bytes)
         /\ \A n \in HeaderSizes(bytes) : HeaderSize(bytes) <= n
<1>1. HeaderSizes(bytes) \in SUBSET Nat
  BY DEF HeaderSizes
<1>2. \E n \in HeaderSizes(bytes) : \A m \in HeaderSizes(bytes) : n <= m
  BY <1>1, Least
<1>3. /\ HeaderSize(bytes) \in HeaderSizes(bytes)
      /\ \A n \in HeaderSizes(bytes) : HeaderSize(bytes) <= n
  BY <1>2 DEF HeaderSize
<1> QED
  BY <1>3 DEF HeaderSizes

\* The length of a content is a number.
LEMMA LengthIsNat ==
  ASSUME NEW bytes \in Seq(Nat), HeaderSizes(bytes) # {},
         LengthLines(bytes) # {}
  PROVE  ContentLength(bytes) \in Nat
<1>1. HeaderSize(bytes) \in 0 .. Len(bytes)
  BY Header
<1>2. LengthLines(bytes) \in SUBSET Nat
  BY DEF LengthLines
<1>3. \A i \in LengthLines(bytes) : i <= HeaderSize(bytes)
  BY <1>1 DEF LengthLines
<1>4. \E i \in LengthLines(bytes) : \A j \in LengthLines(bytes) : j <= i
  <2>1. HeaderSize(bytes) \in Nat
    BY <1>1
  <2> QED
    BY <2>1, <1>2, <1>3, Greatest
<1> DEFINE last == CHOOSE i \in LengthLines(bytes) :
                      \A j \in LengthLines(bytes) : j <= i
<1>5. last \in LengthLines(bytes)
  BY <1>4
<1>6. last \in 1 .. Len(bytes) /\ bytes[last] >= Length(0)
  BY <1>1, <1>5 DEF LengthLines
<1>7. bytes[last] \in Nat
  BY <1>6
<1>8. bytes[last] - Length(0) \in Nat
  BY <1>6, <1>7 DEF Length
<1> QED
  BY <1>8 DEF ContentLength

\* A frame is part of the buffer.
LEMMA FrameInBuffer ==
  ASSUME NEW bytes \in Seq(Nat)
  PROVE  Decode(bytes).size \in 0 .. Len(bytes)
<1>1. CASE StartsWith(bytes, KeepaliveRequest)
  <2>1. Decode(bytes) = Frame("ping", 4)
    BY <1>1 DEF Decode
  <2> QED
    BY <1>1, <2>1, Markers DEF Frame
<1>2. CASE /\ StartsWith(bytes, KeepaliveResponse)
           /\ ~StartsWith(bytes, KeepaliveRequest)
  <2>1. Decode(bytes) = Frame("pong", 2)
    BY <1>2 DEF Decode
  <2> QED
    BY <1>2, <2>1, Markers DEF Frame
<1>3. CASE /\ ~StartsWith(bytes, KeepaliveResponse)
           /\ ~StartsWith(bytes, KeepaliveRequest)
  <2>1. CASE HeaderSizes(bytes) = {} \/ LengthLines(bytes) = {}
    BY <1>3, <2>1 DEF Decode, Frame, Incomplete
  <2>2. CASE HeaderSizes(bytes) # {} /\ LengthLines(bytes) # {}
    <3>1. ExpectedSize(bytes) \in Nat
      BY <2>2, Header, LengthIsNat DEF ExpectedSize, HeadersEnd, KeepaliveRequest
    <3> QED
      BY <1>3, <2>2, <3>1 DEF Decode, Frame, Incomplete
  <2> QED
    BY <2>1, <2>2
<1> QED
  BY <1>1, <1>2, <1>3

\* The first end of headers does not move when more bytes come.
LEMMA HeaderStable ==
  ASSUME NEW bytes \in Seq(Nat), NEW more \in Seq(Nat),
         HeaderSizes(bytes) # {}
  PROVE  /\ HeaderSizes(bytes \o more) # {}
         /\ HeaderSize(bytes \o more) = HeaderSize(bytes)
         /\ LengthLines(bytes \o more) = LengthLines(bytes)
<1> DEFINE all == bytes \o more
           h == HeaderSize(bytes)
<1>1. /\ all \in Seq(Nat) /\ Len(all) >= Len(bytes)
      /\ \A i \in 1 .. Len(bytes) : all[i] = bytes[i]
  OBVIOUS
<1>2. /\ h \in HeaderSizes(bytes) /\ h \in 0 .. Len(bytes)
      /\ \A n \in HeaderSizes(bytes) : h <= n
  BY Header
<1> HIDE DEF all, h
<1>3. h + 4 <= Len(bytes)
  BY <1>2, EndAt
<1>4. ASSUME NEW n \in 0 .. h
      PROVE  n \in HeaderSizes(all) <=> n \in HeaderSizes(bytes)
  <2>1. n \in 0 .. Len(bytes) /\ n \in 0 .. Len(all) /\ n + 4 <= Len(bytes)
    BY <1>1, <1>2, <1>3
  <2>2. /\ all[n + 1] = bytes[n + 1] /\ all[n + 2] = bytes[n + 2]
        /\ all[n + 3] = bytes[n + 3] /\ all[n + 4] = bytes[n + 4]
    BY <1>1, <2>1
  <2>3. n + 4 <= Len(all)
    BY <1>1, <2>1
  <2> QED
    BY <1>1, <2>1, <2>2, <2>3, EndAt
<1>5. h \in HeaderSizes(all)
  BY <1>2, <1>4
<1>6. /\ HeaderSize(all) \in HeaderSizes(all) /\ HeaderSize(all) \in 0 .. Len(all)
      /\ HeaderSize(all) <= h
  BY <1>1, <1>5, Header
<1>7. HeaderSize(all) = h
  BY <1>2, <1>4, <1>6
<1>8. LengthLines(all) = LengthLines(bytes)
  <2>1. h \in Nat /\ \A i \in 1 .. h : all[i] = bytes[i]
    BY <1>1, <1>2
  <2>2. LengthLines(bytes) = {i \in 1 .. h : bytes[i] >= Length(0)}
    BY DEF LengthLines, h
  <2>3. LengthLines(all) = {i \in 1 .. h : all[i] >= Length(0)}
    BY <1>7 DEF LengthLines
  <2> QED
    BY <2>1, <2>2, <2>3
<1> QED
  BY <1>5, <1>7, <1>8 DEF all, h

\* A decision of the decoder (decode.rs:29-93) does not depend on how much of
\* the stream has been read: once it takes a message or a keep-alive request
\* off the buffer, or gives up, it would have done the same with any more
\* bytes behind.
THEOREM DecodeStable ==
  ASSUME NEW bytes \in Seq(Nat), NEW more \in Seq(Nat),
         Decode(bytes).kind \in {"message", "ping", "error"}
  PROVE  Decode(bytes \o more) = Decode(bytes)
<1> DEFINE all == bytes \o more
<1>1. /\ all \in Seq(Nat) /\ Len(all) >= Len(bytes)
      /\ \A i \in 1 .. Len(bytes) : all[i] = bytes[i]
  OBVIOUS
<1> HIDE DEF all
<1>2. CASE StartsWith(bytes, KeepaliveRequest)
  <2>1. /\ 4 <= Len(bytes)
        /\ bytes[1] = CR /\ bytes[2] = LF /\ bytes[3] = CR /\ bytes[4] = LF
    BY <1>2, Markers
  <2>2. /\ 4 <= Len(all)
        /\ all[1] = CR /\ all[2] = LF /\ all[3] = CR /\ all[4] = LF
    <3>1. Len(bytes) \in Nat /\ Len(all) \in Nat
      BY <1>1
    <3>2. /\ 1 \in 1 .. Len(bytes) /\ 2 \in 1 .. Len(bytes)
          /\ 3 \in 1 .. Len(bytes) /\ 4 \in 1 .. Len(bytes)
      BY <2>1, <3>1
    <3>3. /\ all[1] = bytes[1] /\ all[2] = bytes[2]
          /\ all[3] = bytes[3] /\ all[4] = bytes[4]
      BY <1>1, <3>2
    <3>4. 4 <= Len(all)
      BY <1>1, <2>1, <3>1
    <3> QED
      BY <2>1, <3>3, <3>4
  <2>3. StartsWith(all, KeepaliveRequest)
    BY <1>1, <2>2, Markers
  <2> QED
    BY <1>2, <2>3 DEF Decode, all
<1>3. CASE ~StartsWith(bytes, KeepaliveRequest)
  <2>1. ~StartsWith(bytes, KeepaliveResponse)
    <3>1. StartsWith(bytes, KeepaliveResponse) => Decode(bytes) = Frame("pong", 2)
      BY <1>3 DEF Decode
    <3> QED
      BY <3>1 DEF Frame
  <2>2. HeaderSizes(bytes) # {}
    <3>1. HeaderSizes(bytes) = {} => Decode(bytes) = Incomplete
      BY <1>3, <2>1 DEF Decode
    <3> QED
      BY <3>1 DEF Incomplete, Frame
  <2>3. 4 <= Len(bytes)
    BY <2>2, Header, EndAt
  <2>4. /\ ~StartsWith(all, KeepaliveRequest)
        /\ ~StartsWith(all, KeepaliveResponse)
    <3>1. ~(bytes[1] = CR /\ bytes[2] = LF)
      BY <2>1, <2>3, Markers
    <3>2. all[1] = bytes[1] /\ all[2] = bytes[2]
      BY <1>1, <2>3
    <3> QED
      BY <1>1, <3>1, <3>2, Markers
  <2>5. /\ HeaderSizes(all) # {}
        /\ HeaderSize(all) = HeaderSize(bytes)
        /\ LengthLines(all) = LengthLines(bytes)
    BY <2>2, HeaderStable DEF all
  <2>6. CASE LengthLines(bytes) = {}
    <3>1. Decode(bytes) = Frame("error", 0)
      BY <1>3, <2>1, <2>2, <2>6 DEF Decode
    <3>2. Decode(all) = Frame("error", 0)
      BY <2>4, <2>5, <2>6 DEF Decode
    <3> QED
      BY <3>1, <3>2 DEF all
  <2>7. CASE LengthLines(bytes) # {}
    <3>1. ContentLength(all) = ContentLength(bytes)
      <4> DEFINE last == CHOOSE i \in LengthLines(bytes) :
                            \A j \in LengthLines(bytes) : j <= i
      <4>1. last \in LengthLines(bytes)
        <5>1. HeaderSize(bytes) \in Nat
          BY <2>2, Header
        <5>2. LengthLines(bytes) \in SUBSET Nat
          BY DEF LengthLines
        <5>3. \A i \in LengthLines(bytes) : i <= HeaderSize(bytes)
          BY <5>1 DEF LengthLines
        <5> QED
          BY <2>7, <5>1, <5>2, <5>3, Greatest
      <4>2. last \in 1 .. Len(bytes)
        BY <2>2, <4>1, Header DEF LengthLines
      <4>3. all[last] = bytes[last]
        BY <1>1, <4>2
      <4> QED
        BY <2>5, <4>3 DEF ContentLength
    <3>2. ExpectedSize(all) = ExpectedSize(bytes)
      BY <2>5, <3>1 DEF ExpectedSize
    <3>3. ~(Len(bytes) < ExpectedSize(bytes))
      <4>1. Len(bytes) < ExpectedSize(bytes) => Decode(bytes) = Incomplete
        BY <1>3, <2>1, <2>2, <2>7 DEF Decode
      <4> QED
        BY <4>1 DEF Incomplete, Frame
    <3>4. ExpectedSize(bytes) \in Nat
      BY <2>2, <2>7, Header, LengthIsNat DEF ExpectedSize, HeadersEnd, KeepaliveRequest
    <3>5. ~(Len(all) < ExpectedSize(bytes))
      BY <1>1, <3>3, <3>4
    <3>6. Decode(bytes) = Frame("message", ExpectedSize(bytes))
      BY <1>3, <2>1, <2>2, <2>7, <3>3 DEF Decode
    <3>7. Decode(all) = Frame("message", ExpectedSize(bytes))
      BY <2>4, <2>5, <2>7, <3>2, <3>5 DEF Decode
    <3> QED
      BY <3>6, <3>7 DEF all
  <2> QED
    BY <2>6, <2>7
<1> QED
  BY <1>2, <1>3

-----------------------------------------------------------------------------
(* The bytes of a stream of items. *)

\* The bytes are the last of those of the first items.
Flattens(f, s) ==
    \A i \in 1 .. Len(s) : f[i] = IF i = 1 THEN s[1] ELSE f[i - 1] \o s[i]

\* They exist, so Bytes is what its definition seems to say.
LEMMA BytesFlatten ==
  ASSUME NEW s \in Seq(Seq(Nat)), s # <<>>
  PROVE  \E f \in [1 .. Len(s) -> Seq(Nat)] : Flattens(f, s) /\ Bytes(s) = f[Len(s)]
<1> DEFINE n == Len(s)
           E == Seq(Nat)
           e == s[1]
           G == [p \in Nat \X E |-> IF p[1] \in 1 .. n THEN p[2] \o s[p[1]] ELSE p[2]]
           Is(f) == f = [i \in 1 .. n |-> IF i = 1 THEN s[i] ELSE f[i - 1] \o s[i]]
<1>1. n \in Nat /\ n # 0 /\ 1 <= n /\ e \in E /\ \A i \in 1 .. n : s[i] \in E
  OBVIOUS
<1>2. G \in [Nat \X E -> E]
  <2>1. ASSUME NEW p \in Nat \X E
        PROVE  (IF p[1] \in 1 .. n THEN p[2] \o s[p[1]] ELSE p[2]) \in E
    <3>1. p[2] \in Seq(Nat)
      OBVIOUS
    <3>2. CASE p[1] \in 1 .. n
      <4>1. s[p[1]] \in Seq(Nat)
        BY <1>1, <3>2
      <4> DEFINE a == p[2]
                 b == s[p[1]]
      <4> HIDE DEF a, b
      <4>2. a \in Seq(Nat) /\ b \in Seq(Nat) => a \o b \in Seq(Nat)
        OBVIOUS
      <4> QED
        BY <3>1, <3>2, <4>1, <4>2 DEF a, b
    <3> QED
      BY <3>1, <3>2
  <2> QED
    BY <2>1
<1> HIDE DEF n, G, e, E
<1>3. PICK h \in [1 .. n -> E] : h[1] = e /\ \A i \in 1 .. n : i # 1 => h[i] = G[<<i, h[i - 1]>>]
  <2>1. 1 \in Nat /\ n \in Nat /\ 1 <= n /\ e \in E /\ G \in [Nat \X E -> E]
    BY <1>1, <1>2
  <2>2. Definable(1, n, E, e, G)
    BY <2>1, Recursion
  <2> QED
    BY <2>2 DEF Definable
<1>4. ASSUME NEW i \in 1 .. n, i # 1 PROVE h[i] = h[i - 1] \o s[i]
  <2>1. i \in Nat /\ h[i - 1] \in E
    BY <1>1, <1>4
  <2> QED
    BY <1>3, <1>4, <2>1 DEF G
<1>5. Is(h)
  BY <1>3, <1>4 DEF e
<1> DEFINE f == CHOOSE f : Is(f)
<1>6. Is(f) /\ Bytes(s) = f[n]
  <2>1. Bytes(s) = f[n]
    BY <1>1 DEF Bytes, FlattenSeq, n
  <2> HIDE DEF Is
  <2> QED
    BY <1>5, <2>1
<1> HIDE DEF f
<1>7. DOMAIN f = 1 .. n /\ f[1] = e
  BY <1>1, <1>6 DEF e
<1>8. ASSUME NEW i \in 1 .. n, i # 1 PROVE f[i] = f[i - 1] \o s[i]
  BY <1>6, <1>8
<1> HIDE DEF Is
<1> DEFINE T == {i \in 1 .. n : f[i] \in E}
<1>9. \A i \in 1 .. n : i \in T
  <2>1. 1 \in T
    BY <1>1, <1>7
  <2>2. ASSUME NEW i \in 1 .. n, i < n, i \in T PROVE i + 1 \in T
    <3>1. i + 1 \in 1 .. n /\ i + 1 # 1 /\ (i + 1) - 1 = i
      BY <1>1, <2>2
    <3>2. f[i + 1] = f[i] \o s[i + 1]
      BY <1>8, <3>1
    <3>3. f[i] \in Seq(Nat) /\ s[i + 1] \in Seq(Nat)
      BY <1>1, <2>2, <3>1 DEF E
    <3>4. f[i + 1] \in E
      BY <3>2, <3>3 DEF E
    <3> QED
      BY <3>1, <3>4
  <2> HIDE DEF T
  <2>3. \A i \in 1 .. n : i < n /\ i \in T => i + 1 \in T
    BY <2>2
  <2> QED
    BY <1>1, <2>1, <2>3, InductionTo
<1>10. f \in [1 .. n -> E]
  <2>1. f = [i \in 1 .. n |-> f[i]]
    BY <1>6, <1>7 DEF Is
  <2> QED
    BY <1>9, <2>1
<1>11. Flattens(f, s)
  BY <1>7, <1>8 DEF Flattens, n, e
<1> QED
  BY <1>6, <1>10, <1>11 DEF n, E

\* Nothing has no bytes.
LEMMA BytesEmpty == Bytes(<<>>) = <<>>
BY DEF Bytes, FlattenSeq

\* One more item at the end.
LEMMA BytesAppend ==
  ASSUME NEW s \in Seq(Seq(Nat)), NEW x \in Seq(Nat)
  PROVE  Bytes(s) \in Seq(Nat) /\ Bytes(Append(s, x)) = Bytes(s) \o x
<1> DEFINE n == Len(s)
           t == Append(s, x)
<1>1. /\ n \in Nat /\ t \in Seq(Seq(Nat)) /\ Len(t) = n + 1 /\ t[n + 1] = x /\ t # <<>>
      /\ \A i \in 1 .. n : t[i] = s[i]
  <2> DEFINE D == Seq(Nat)
  <2>1. s \in Seq(D) /\ x \in D
    OBVIOUS
  <2> HIDE DEF D
  <2>2. n \in Nat /\ t \in Seq(D) /\ t # <<>> /\ Len(t) = n + 1
    BY <2>1, AppendProperties
  <2>3. t[n + 1] = x /\ \A i \in 1 .. n : t[i] = s[i]
    BY <2>1, AppendProperties
  <2> QED
    BY <2>2, <2>3 DEF D
<1> HIDE DEF t
<1>2. PICK g \in [1 .. Len(t) -> Seq(Nat)] : Flattens(g, t) /\ Bytes(t) = g[Len(t)]
  BY <1>1, BytesFlatten
<1>3. CASE s = <<>>
  <2>1. n = 0 /\ Bytes(s) = <<>> /\ <<>> \in Seq(Nat)
    BY <1>3, BytesEmpty
  <2>2. g[1] = x /\ Bytes(t) = g[1]
    <3>1. 1 \in 1 .. Len(t) /\ Len(t) = 1
      BY <1>1, <2>1
    <3>2. g[1] = t[1]
      BY <1>2, <3>1 DEF Flattens
    <3> QED
      BY <1>1, <1>2, <2>1, <3>1, <3>2
  <2>3. <<>> \o x = x
    BY ConcatEmptySeq
  <2> QED
    BY <2>1, <2>2, <2>3 DEF t
<1>4. CASE s # <<>>
  <2>1. PICK f \in [1 .. n -> Seq(Nat)] : Flattens(f, s) /\ Bytes(s) = f[n]
    BY <1>4, BytesFlatten
  <2>2. n # 0
    BY <1>4
  <2> HIDE DEF n
  <2> DEFINE T == {i \in 1 .. n : f[i] = g[i]}
  <2>3. n \in T
    <3>1. 1 \in T
      <4>1. 1 \in 1 .. n /\ 1 \in 1 .. Len(t) /\ t[1] = s[1]
        BY <1>1, <2>2
      <4> QED
        BY <1>2, <2>1, <4>1 DEF Flattens, n
    <3>2. ASSUME NEW i \in 1 .. n, i < n, i \in T PROVE i + 1 \in T
      <4>1. i + 1 \in 1 .. n /\ i + 1 \in 1 .. Len(t) /\ i + 1 # 1 /\ (i + 1) - 1 = i
            /\ t[i + 1] = s[i + 1]
        BY <1>1, <3>2
      <4>2. f[i + 1] = f[i] \o s[i + 1]
        BY <2>1, <4>1 DEF Flattens, n
      <4>3. g[i + 1] = g[i] \o t[i + 1]
        BY <1>2, <4>1 DEF Flattens
      <4> QED
        BY <3>2, <4>1, <4>2, <4>3
    <3> HIDE DEF T
    <3>3. \A i \in 1 .. n : i < n /\ i \in T => i + 1 \in T
      BY <3>2
    <3>4. \A i \in 1 .. n : i \in T
      BY <1>1, <2>2, <3>1, <3>3, InductionTo
    <3> QED
      BY <1>1, <2>2, <3>4
  <2>4. n + 1 \in 1 .. Len(t) /\ n + 1 # 1 /\ (n + 1) - 1 = n
    BY <1>1, <2>2
  <2>5. g[n + 1] = g[n] \o t[n + 1]
    BY <1>2, <2>4 DEF Flattens
  <2>6. f[n] \in Seq(Nat)
    BY <1>1, <2>2
  <2> QED
    BY <1>1, <1>2, <2>1, <2>3, <2>5, <2>6 DEF t
<1> QED
  BY <1>3, <1>4

\* The bytes of a stream are bytes.
LEMMA BytesType == ASSUME NEW s \in Seq(Seq(Nat)) PROVE Bytes(s) \in Seq(Nat)
<1>1. <<>> \in Seq(Nat)
  OBVIOUS
<1> QED
  BY <1>1, BytesAppend

\* One more item at the front.
LEMMA BytesFirst ==
  ASSUME NEW x \in Seq(Nat), NEW s \in Seq(Seq(Nat))
  PROVE  Bytes(<<x>> \o s) = x \o Bytes(s)
<1> DEFINE D == Seq(Nat)
           T == {u \in Seq(D) : Bytes(<<x>> \o u) = x \o Bytes(u)}
<1>1. <<>> \in T
  <2>1. <<x>> = Append(<<>>, x) /\ <<>> \in Seq(D) /\ <<x>> \o <<>> = <<x>>
    OBVIOUS
  <2>2. Bytes(<<x>>) = <<>> \o x /\ Bytes(<<>>) = <<>>
    BY <2>1, BytesAppend, BytesEmpty
  <2>3. <<>> \o x = x /\ x \o <<>> = x
    BY ConcatEmptySeq
  <2> QED
    BY <2>1, <2>2, <2>3
<1>2. ASSUME NEW u \in Seq(D), NEW y \in D, u \in T PROVE Append(u, y) \in T
  <2> DEFINE v == <<x>> \o u
  <2>1. v \in Seq(D) /\ Append(u, y) \in Seq(D) /\ <<x>> \o Append(u, y) = Append(v, y)
    <3> HIDE DEF D
    <3>1. x \in D
      BY DEF D
    <3> QED
      BY <3>1
  <2>2. Bytes(v) = x \o Bytes(u)
    BY <1>2
  <2> HIDE DEF v
  <2>3. /\ Bytes(Append(v, y)) = Bytes(v) \o y /\ Bytes(u) \in Seq(Nat)
        /\ Bytes(Append(u, y)) = Bytes(u) \o y
    BY <2>1, BytesAppend
  <2>4. (x \o Bytes(u)) \o y = x \o (Bytes(u) \o y)
    BY SMTT(40), <2>3, ConcatAssociative
  <2>5. Bytes(<<x>> \o Append(u, y)) = x \o Bytes(Append(u, y))
    BY <2>1, <2>2, <2>3, <2>4
  <2> QED
    BY <2>1, <2>5
<1> HIDE DEF T, D
<1>3. s \in Seq(D)
  BY DEF D
<1>4. s \in T
  BY <1>1, <1>2, <1>3, PrefixInduction
<1> QED
  BY <1>4 DEF T

\* Cutting and joining.
LEMMA Joined ==
  ASSUME NEW D, NEW s \in Seq(D), NEW t \in Seq(D)
  PROVE  /\ s \o t \in Seq(D) /\ Len(s \o t) = Len(s) + Len(t)
         /\ SubSeq(s \o t, 1, Len(s)) = s
         /\ From(s \o t, Len(s)) = t
         /\ From(s, 0) = s
<1>1. /\ s \o t \in Seq(D) /\ Len(s) \in Nat /\ Len(t) \in Nat /\ Len(s \o t) = Len(s) + Len(t)
      /\ \A i \in 1 .. Len(s) + Len(t) : (s \o t)[i] = IF i <= Len(s) THEN s[i] ELSE t[i - Len(s)]
  BY ConcatProperties, LenProperties
<1> DEFINE u == s \o t
           a == SubSeq(u, 1, Len(s))
           b == SubSeq(u, Len(s) + 1, Len(u))
<1>2. a \in Seq(D) /\ Len(a) = Len(s) /\ \A i \in 1 .. Len(s) : a[i] = u[i]
  <2> HIDE DEF u
  <2> QED
    BY <1>1 DEF u
<1>3. b \in Seq(D) /\ Len(b) = Len(t) /\ \A i \in 1 .. Len(t) : b[i] = u[Len(s) + i]
  <2> HIDE DEF u
  <2> QED
    BY <1>1 DEF u
<1> HIDE DEF u, a, b
<1>4. a = s
  <2>1. \A i \in 1 .. Len(a) : a[i] = s[i]
    BY <1>1, <1>2 DEF u
  <2> QED
    BY <1>2, <2>1, SeqEqual
<1>5. b = t
  <2>1. ASSUME NEW i \in 1 .. Len(b) PROVE b[i] = t[i]
    <3>1. /\ i \in 1 .. Len(t) /\ Len(s) + i \in 1 .. Len(s) + Len(t)
          /\ ~(Len(s) + i <= Len(s)) /\ (Len(s) + i) - Len(s) = i
      BY <1>1, <1>3
    <3> QED
      BY <1>1, <1>3, <3>1 DEF u
  <2> QED
    BY <1>3, <2>1, SeqEqual
<1>6. From(s, 0) = s
  BY SubSeqFull DEF From
<1> QED
  BY <1>1, <1>4, <1>5, <1>6 DEF From, u, a, b

\* A sequence is its first members and the rest.
LEMMA Cut ==
  ASSUME NEW D, NEW s \in Seq(D), NEW n \in 0 .. Len(s)
  PROVE  /\ SubSeq(s, 1, n) \in Seq(D) /\ Len(SubSeq(s, 1, n)) = n
         /\ From(s, n) \in Seq(D) /\ Len(From(s, n)) = Len(s) - n
         /\ SubSeq(s, 1, n) \o From(s, n) = s
<1> DEFINE a == SubSeq(s, 1, n)
           b == SubSeq(s, n + 1, Len(s))
<1>1. n \in Nat /\ Len(s) \in Nat /\ n <= Len(s)
  OBVIOUS
<1>2. a \in Seq(D) /\ Len(a) = n /\ \A i \in 1 .. n : a[i] = s[i]
  BY <1>1
<1>3. b \in Seq(D) /\ Len(b) = Len(s) - n /\ \A i \in 1 .. Len(s) - n : b[i] = s[n + i]
  BY <1>1
<1> HIDE DEF a, b
<1>4. /\ a \o b \in Seq(D) /\ Len(a \o b) = Len(a) + Len(b)
      /\ \A i \in 1 .. Len(a) + Len(b) : (a \o b)[i] = IF i <= Len(a) THEN a[i] ELSE b[i - Len(a)]
  BY <1>2, <1>3, ConcatProperties
<1>5. ASSUME NEW i \in 1 .. Len(s) PROVE (a \o b)[i] = s[i]
  <2>1. i \in 1 .. Len(a) + Len(b)
    BY <1>1, <1>2, <1>3
  <2>2. CASE i <= n
    <3>1. i \in 1 .. n
      BY <1>1, <2>2
    <3> QED
      BY <1>2, <1>4, <2>1, <2>2, <3>1
  <2>3. CASE ~(i <= n)
    <3>1. i - n \in 1 .. Len(s) - n /\ n + (i - n) = i
      BY <1>1, <2>3
    <3> QED
      BY <1>2, <1>3, <1>4, <2>1, <2>3, <3>1
  <2> QED
    BY <2>2, <2>3
<1>6. Len(a \o b) = Len(s)
  BY <1>1, <1>2, <1>3, <1>4
<1>7. a \o b = s
  <2>1. \A i \in 1 .. Len(a \o b) : (a \o b)[i] = s[i]
    BY <1>5, <1>6
  <2> QED
    BY <1>4, <1>6, <2>1, SeqEqual
<1> QED
  BY <1>2, <1>3, <1>7 DEF From, a, b

\* More behind does not change what a cut leaves in front of it.
LEMMA CutJoined ==
  ASSUME NEW D, NEW s \in Seq(D), NEW t \in Seq(D), NEW n \in 0 .. Len(s)
  PROVE  /\ SubSeq(s \o t, 1, n) = SubSeq(s, 1, n)
         /\ From(s \o t, n) = From(s, n) \o t
<1> DEFINE a == SubSeq(s, 1, n)
           b == From(s, n)
<1>1. a \in Seq(D) /\ Len(a) = n /\ b \in Seq(D) /\ s = a \o b
  BY Cut
<1> HIDE DEF a, b
<1>2. s \o t = a \o (b \o t) /\ b \o t \in Seq(D)
  <2>1. (a \o b) \o t = a \o (b \o t)
    BY <1>1, ConcatAssociative
  <2>2. b \o t \in Seq(D)
    BY <1>1, ConcatProperties
  <2> QED
    BY <1>1, <2>1, <2>2
<1>3. SubSeq(a \o (b \o t), 1, Len(a)) = a /\ From(a \o (b \o t), Len(a)) = b \o t
  <2> DEFINE u == b \o t
  <2>1. u \in Seq(D) /\ a \in Seq(D)
    BY <1>1, <1>2
  <2> HIDE DEF u
  <2>2. SubSeq(a \o u, 1, Len(a)) = a /\ From(a \o u, Len(a)) = u
    BY <2>1, Joined
  <2> QED
    BY <2>2 DEF u
<1> QED
  BY <1>1, <1>2, <1>3 DEF a, b

\* Three parts, for bytes.
LEMMA Three ==
  ASSUME NEW a \in Seq(Nat), NEW b \in Seq(Nat), NEW c \in Seq(Nat)
  PROVE  (a \o b) \o c = a \o (b \o c)
BY ConcatAssociative

\* The bytes of the items from one on.
LEMMA BytesFrom ==
  ASSUME NEW items \in Seq(Seq(Nat)), NEW k \in 0 .. Len(items)
  PROVE  /\ Bytes(From(items, k)) \in Seq(Nat)
         /\ k = Len(items) => Bytes(From(items, k)) = <<>>
         /\ k < Len(items) =>
                /\ items[k + 1] \in Seq(Nat) /\ k + 1 \in 0 .. Len(items)
                /\ Bytes(From(items, k)) = items[k + 1] \o Bytes(From(items, k + 1))
<1> DEFINE D == Seq(Nat)
           n == Len(items)
<1>1. items \in Seq(D) /\ n \in Nat /\ k \in Nat /\ k <= n
  OBVIOUS
<1> HIDE DEF D
<1>2. From(items, k) \in Seq(D)
  BY <1>1, Cut
<1>3. Bytes(From(items, k)) \in Seq(Nat)
  BY <1>2, BytesType DEF D
<1>4. ASSUME k = n PROVE Bytes(From(items, k)) = <<>>
  <2>1. From(items, n) = <<>>
    BY <1>1, SubSeqEmpty DEF From, n
  <2> QED
    BY <1>4, <2>1, BytesEmpty
<1>5. ASSUME k < n
      PROVE  /\ items[k + 1] \in D /\ k + 1 \in 0 .. n
             /\ Bytes(From(items, k)) = items[k + 1] \o Bytes(From(items, k + 1))
  <2>1. k + 1 \in 1 .. n /\ k + 1 \in 0 .. n /\ n \in (k + 1) .. n
    BY <1>1, <1>5
  <2>2. items[k + 1] \in D
    BY <1>1, <2>1, ElementOfSeq DEF n
  <2>3. SubSeq(items, k + 1, n) = <<items[k + 1]>> \o SubSeq(items, (k + 1) + 1, n)
    BY <1>1, <2>1, SubSeqRecursiveFirst DEF n
  <2>4. From(items, k) = <<items[k + 1]>> \o From(items, k + 1)
    BY <2>3 DEF From, n
  <2>5. From(items, k + 1) \in Seq(D)
    BY <1>1, <2>1, Cut DEF n
  <2> QED
    BY <2>1, <2>2, <2>4, <2>5, BytesFirst DEF D
<1> QED
  BY <1>3, <1>4, <1>5 DEF D, n

-----------------------------------------------------------------------------
(* What the decoder makes of an item. *)

\* One group of header lines and their end.
LEMMA HeadersOnce ==
  ASSUME NEW bytes \in Seq(Nat), 5 <= Len(bytes), bytes[1] >= NoLength,
         bytes[2] = CR, bytes[3] = LF, bytes[4] = CR, bytes[5] = LF
  PROVE  /\ ~StartsWith(bytes, KeepaliveRequest) /\ ~StartsWith(bytes, KeepaliveResponse)
         /\ HeaderSizes(bytes) # {} /\ HeaderSize(bytes) = 1
         /\ LengthLines(bytes) = {i \in {1} : bytes[1] >= Length(0)}
<1>1. bytes[1] \in Nat /\ bytes[1] # CR
  BY DEF NoLength, CR
<1>2. ~StartsWith(bytes, KeepaliveRequest) /\ ~StartsWith(bytes, KeepaliveResponse)
  BY <1>1, Markers
<1>3. 1 \in HeaderSizes(bytes)
  <2>1. 1 \in 0 .. Len(bytes)
    OBVIOUS
  <2> QED
    BY <2>1, EndAt
<1>4. 0 \notin HeaderSizes(bytes)
  <2>1. 0 \in 0 .. Len(bytes)
    OBVIOUS
  <2> QED
    BY <1>1, <2>1, EndAt
<1>5. HeaderSize(bytes) = 1
  <2>1. /\ HeaderSize(bytes) \in HeaderSizes(bytes) /\ HeaderSize(bytes) \in 0 .. Len(bytes)
        /\ HeaderSize(bytes) <= 1
    BY <1>3, Header
  <2> QED
    BY <1>4, <2>1
<1>6. LengthLines(bytes) = {i \in {1} : bytes[1] >= Length(0)}
  <2>1. LengthLines(bytes) = {i \in 1 .. 1 : bytes[i] >= Length(0)}
    BY <1>5 DEF LengthLines
  <2> QED
    BY <2>1
<1> QED
  BY <1>2, <1>3, <1>5, <1>6

\* The first bytes of a message, and of one without a usable length.
LEMMA ItemBytes ==
  ASSUME NEW n \in Nat, NEW content \in Seq(Nat)
  PROVE  LET item == <<n>> \o HeadersEnd \o content
         IN  /\ item \in Seq(Nat) /\ Len(item) = 5 + Len(content)
             /\ item[1] = n
             /\ item[2] = CR /\ item[3] = LF /\ item[4] = CR /\ item[5] = LF
<1> DEFINE h == <<n>> \o HeadersEnd
<1>1. /\ h \in Seq(Nat) /\ Len(h) = 5 /\ h[1] = n
      /\ h[2] = CR /\ h[3] = LF /\ h[4] = CR /\ h[5] = LF
  BY DEF HeadersEnd, KeepaliveRequest, CR, LF
<1> HIDE DEF h
<1>2. /\ h \o content \in Seq(Nat) /\ Len(h \o content) = 5 + Len(content)
      /\ \A i \in 1 .. 5 : (h \o content)[i] = h[i]
  <2> DEFINE s == h \o content
  <2>1. h \in Seq(Nat)
    BY <1>1
  <2>2. /\ s \in Seq(Nat) /\ Len(s) = Len(h) + Len(content)
        /\ \A i \in 1 .. Len(h) + Len(content) :
              s[i] = IF i <= Len(h) THEN h[i] ELSE content[i - Len(h)]
    BY <2>1, ConcatProperties
  <2>3. Len(h) = 5 /\ Len(content) \in Nat
    BY <1>1
  <2> HIDE DEF s
  <2>4. s \in Seq(Nat) /\ Len(s) = 5 + Len(content) /\ \A i \in 1 .. 5 : s[i] = h[i]
    BY <2>2, <2>3
  <2> QED
    BY <2>4 DEF s
<1> QED
  BY <1>1, <1>2 DEF h

\* What a message is to the decoder, whatever follows.
LEMMA DecodeMessage ==
  ASSUME NEW content \in Seq(Nat), NEW more \in Seq(Nat)
  PROVE  /\ Message(content) \in Framed
         /\ Decode(Message(content) \o more) = Frame("message", Len(Message(content)))
         /\ ~StartsWith(Message(content) \o more, KeepaliveResponse)
<1> DEFINE x == Message(content)
           n == Length(Len(content))
           bytes == x \o more
<1>1. n \in Nat /\ n >= Length(0) /\ n >= NoLength /\ n - Length(0) = Len(content) /\ Len(content) \in Nat
  BY DEF Length, NoLength
<1>2. /\ x \in Seq(Nat) /\ Len(x) = 5 + Len(content) /\ x[1] = n
      /\ x[2] = CR /\ x[3] = LF /\ x[4] = CR /\ x[5] = LF
  BY <1>1, ItemBytes DEF Message
<1>3. x \in Framed
  BY <1>1, <1>2 DEF Framed
<1> HIDE DEF x, n
<1>4. /\ bytes \in Seq(Nat) /\ Len(bytes) >= Len(x) /\ Len(bytes) \in Nat
      /\ \A i \in 1 .. Len(x) : bytes[i] = x[i]
  <2>1. /\ bytes \in Seq(Nat) /\ Len(bytes) = Len(x) + Len(more)
        /\ \A i \in 1 .. Len(x) + Len(more) :
              bytes[i] = IF i <= Len(x) THEN x[i] ELSE more[i - Len(x)]
    <3>1. x \in Seq(Nat)
      BY <1>2
    <3> QED
      BY <3>1, ConcatProperties
  <2>2. Len(x) \in Nat /\ Len(more) \in Nat
    BY <1>2
  <2> HIDE DEF bytes
  <2>3. Len(bytes) >= Len(x) /\ Len(bytes) \in Nat
    BY <2>1, <2>2
  <2>4. \A i \in 1 .. Len(x) : bytes[i] = x[i]
    BY <2>1, <2>2
  <2> QED
    BY <2>1, <2>3, <2>4
<1> HIDE DEF bytes
<1>5. /\ 5 <= Len(bytes) /\ bytes[1] = n
      /\ bytes[2] = CR /\ bytes[3] = LF /\ bytes[4] = CR /\ bytes[5] = LF
  <2>1. 1 \in 1 .. Len(x) /\ 2 \in 1 .. Len(x) /\ 3 \in 1 .. Len(x) /\ 4 \in 1 .. Len(x) /\ 5 \in 1 .. Len(x)
    BY <1>1, <1>2
  <2>2. /\ bytes[1] = x[1] /\ bytes[2] = x[2] /\ bytes[3] = x[3] /\ bytes[4] = x[4]
        /\ bytes[5] = x[5]
    BY <1>4, <2>1
  <2>3. 5 <= Len(bytes)
    BY <1>1, <1>2, <1>4
  <2> QED
    BY <1>2, <2>2, <2>3
<1>6. /\ ~StartsWith(bytes, KeepaliveRequest) /\ ~StartsWith(bytes, KeepaliveResponse)
      /\ HeaderSizes(bytes) # {} /\ HeaderSize(bytes) = 1
      /\ LengthLines(bytes) = {i \in {1} : bytes[1] >= Length(0)}
  BY <1>1, <1>4, <1>5, HeadersOnce
<1>7. LengthLines(bytes) = {1}
  BY <1>1, <1>5, <1>6
<1>8. ContentLength(bytes) = Len(content)
  <2>1. (CHOOSE i \in {1} : \A j \in {1} : j <= i) = 1
    OBVIOUS
  <2> QED
    BY <1>1, <1>5, <1>7, <2>1 DEF ContentLength
<1>9. ExpectedSize(bytes) = Len(x)
  <2>1. Len(HeadersEnd) = 4
    BY DEF HeadersEnd, KeepaliveRequest
  <2> QED
    BY <1>1, <1>2, <1>6, <1>8, <2>1 DEF ExpectedSize
<1>10. ~(Len(bytes) < ExpectedSize(bytes))
  BY <1>1, <1>2, <1>4, <1>9
<1>11. LengthLines(bytes) # {}
  BY <1>7
<1>12. Decode(bytes) = Frame("message", ExpectedSize(bytes))
  BY <1>6, <1>10, <1>11 DEF Decode
<1> QED
  BY <1>3, <1>6, <1>9, <1>12 DEF x, bytes

\* And one without a usable length.
LEMMA DecodeUnframed ==
  ASSUME NEW more \in Seq(Nat)
  PROVE  /\ Unframed \in Seq(Nat) /\ Unframed \notin Framed
         /\ Decode(Unframed \o more) = Frame("error", 0)
         /\ ~StartsWith(Unframed \o more, KeepaliveResponse)
<1> DEFINE x == Unframed
           bytes == x \o more
<1>1. /\ x \in Seq(Nat) /\ Len(x) = 5 /\ x[1] = NoLength
      /\ x[2] = CR /\ x[3] = LF /\ x[4] = CR /\ x[5] = LF
  BY DEF Unframed, NoLength, HeadersEnd, KeepaliveRequest, CR, LF
<1>2. x \notin Framed
  BY <1>1 DEF Framed, NoLength, Length
<1> HIDE DEF x
<1>3. /\ bytes \in Seq(Nat) /\ Len(bytes) >= 5 /\ Len(bytes) \in Nat
      /\ \A i \in 1 .. 5 : bytes[i] = x[i]
  <2>1. /\ bytes \in Seq(Nat) /\ Len(bytes) = Len(x) + Len(more)
        /\ \A i \in 1 .. Len(x) + Len(more) :
              bytes[i] = IF i <= Len(x) THEN x[i] ELSE more[i - Len(x)]
    BY <1>1, ConcatProperties
  <2>2. Len(x) = 5 /\ Len(more) \in Nat
    BY <1>1
  <2> HIDE DEF bytes
  <2> QED
    BY <2>1, <2>2
<1> HIDE DEF bytes
<1>4. /\ 5 <= Len(bytes) /\ bytes[1] = NoLength /\ bytes[1] >= NoLength
      /\ bytes[2] = CR /\ bytes[3] = LF /\ bytes[4] = CR /\ bytes[5] = LF
  BY <1>1, <1>3 DEF NoLength
<1>5. /\ ~StartsWith(bytes, KeepaliveRequest) /\ ~StartsWith(bytes, KeepaliveResponse)
      /\ HeaderSizes(bytes) # {}
      /\ LengthLines(bytes) = {i \in {1} : bytes[1] >= Length(0)}
  BY <1>3, <1>4, HeadersOnce
<1>6. LengthLines(bytes) = {}
  BY <1>4, <1>5 DEF NoLength, Length
<1>7. Decode(bytes) = Frame("error", 0)
  BY <1>5, <1>6 DEF Decode
<1> QED
  BY <1>1, <1>2, <1>5, <1>7 DEF x, bytes

\* The keep-alives are sequences of bytes, and no messages.
LEMMA KeepaliveBytes ==
  /\ KeepaliveRequest \in Seq(Nat) /\ Len(KeepaliveRequest) = 4
  /\ KeepaliveResponse \in Seq(Nat) /\ Len(KeepaliveResponse) = 2
  /\ KeepaliveRequest = KeepaliveResponse \o KeepaliveResponse
  /\ KeepaliveRequest # KeepaliveResponse
  /\ KeepaliveRequest \notin Framed /\ KeepaliveResponse \notin Framed
  /\ Unframed \notin Keepalive
<1>1. /\ KeepaliveRequest \in Seq(Nat) /\ Len(KeepaliveRequest) = 4 /\ KeepaliveRequest[1] = 13
      /\ KeepaliveResponse \in Seq(Nat) /\ Len(KeepaliveResponse) = 2 /\ KeepaliveResponse[1] = 13
      /\ KeepaliveResponse[2] = 10
      /\ KeepaliveRequest[2] = 10 /\ KeepaliveRequest[3] = 13 /\ KeepaliveRequest[4] = 10
  BY DEF KeepaliveRequest, KeepaliveResponse, CR, LF
<1>2. KeepaliveRequest \notin Framed /\ KeepaliveResponse \notin Framed
  BY <1>1 DEF Framed, Length
<1>3. KeepaliveRequest = KeepaliveResponse \o KeepaliveResponse
  <2> DEFINE a == KeepaliveResponse
             b == KeepaliveResponse \o KeepaliveResponse
             r == KeepaliveRequest
  <2> HIDE DEF a, r
  <2>1. b \in Seq(Nat) /\ Len(b) = 4 /\ b[1] = a[1] /\ b[2] = a[2] /\ b[3] = a[1] /\ b[4] = a[2]
    <3>1. a \in Seq(Nat) /\ Len(a) = 2
      BY <1>1 DEF a
    <3>2. /\ b \in Seq(Nat) /\ Len(b) = Len(a) + Len(a)
          /\ \A i \in 1 .. Len(a) + Len(a) : b[i] = IF i <= Len(a) THEN a[i] ELSE a[i - Len(a)]
      BY <3>1, ConcatProperties DEF a
    <3> HIDE DEF b
    <3> QED
      BY <3>1, <3>2
  <2> HIDE DEF b
  <2>2. r \in Seq(Nat) /\ Len(r) = Len(b) /\ \A i \in 1 .. Len(r) : r[i] = b[i]
    <3>1. r \in Seq(Nat) /\ Len(r) = 4
      BY <1>1 DEF r
    <3>2. r[1] = b[1] /\ r[2] = b[2] /\ r[3] = b[3] /\ r[4] = b[4]
      BY <1>1, <2>1 DEF r, a
    <3> QED
      BY <2>1, <3>1, <3>2
  <2>3. r = b
    BY <2>1, <2>2, SeqEqual
  <2> QED
    BY <2>3 DEF r, b
<1>4. Len(Unframed) = 5
  BY DEF Unframed, HeadersEnd, KeepaliveRequest
<1> QED
  BY <1>1, <1>2, <1>3, <1>4 DEF Keepalive

-----------------------------------------------------------------------------
(* How far a stream has been decoded.  A request may have been taken for   *)
(* two responses, so the place is a number of items and, if the first half *)
(* of a request was taken and the second was not, one half more.           *)

Half(mid) == IF mid = 1 THEN KeepaliveResponse ELSE <<>>
Ahead(items, k, mid) == Half(mid) \o Bytes(From(items, k))

\* The half requests seen: two for a request, one for a response if it may
\* still be taken with what follows.
PingsTo(items, k) == {i \in 1 .. k : items[i] = KeepaliveRequest}
Lone(items, k) ==
    \E i \in 1 .. k :
        items[i] = KeepaliveResponse /\ \A j \in i .. k : items[j] \in Keepalive
Due(items, k) ==
    2 * Cardinality(PingsTo(items, k)) + (IF Lone(items, k) THEN 1 ELSE 0)

\* The half requests seen are a number of them.
LEMMA DueType ==
  ASSUME NEW items, NEW k \in Nat
  PROVE  Cardinality(PingsTo(items, k)) \in Nat /\ Due(items, k) \in Nat
<1>1. IsFiniteSet(PingsTo(items, k))
  <2>1. IsFiniteSet(1 .. k) /\ PingsTo(items, k) \in SUBSET (1 .. k)
    BY FS_Interval DEF PingsTo
  <2> QED
    BY <2>1, FS_Subset
<1>2. Cardinality(PingsTo(items, k)) \in Nat
  BY <1>1, FS_CardinalityType
<1> QED
  BY <1>2 DEF Due

\* One more item.  A peer that sends no two responses in a row never has two
\* lone ones.
LEMMA DueStep ==
  ASSUME NEW items \in Seq(Seq(Nat)), IsStream(items),
         NEW k \in 0 .. Len(items), k < Len(items)
  PROVE  /\ items[k + 1] = KeepaliveRequest => Due(items, k + 1) = Due(items, k) + 2
         /\ items[k + 1] = KeepaliveResponse => Due(items, k + 1) = Due(items, k) + 1
         /\ items[k + 1] \notin Keepalive =>
                \A n \in Nat : 2 * n <= Due(items, k) => 2 * n <= Due(items, k + 1)
<1> DEFINE x == items[k + 1]
<1>1. /\ k \in Nat /\ k + 1 \in 1 .. (k + 1)
      /\ \A i \in 1 .. (k + 1) : i \in 1 .. k \/ i = k + 1
      /\ 1 .. k \subseteq 1 .. (k + 1) /\ k + 1 \notin 1 .. k
      /\ DOMAIN items = 1 .. Len(items) /\ Len(items) \in Nat /\ k + 1 \in 1 .. Len(items)
      /\ 1 .. k \subseteq 1 .. Len(items)
  OBVIOUS
<1>2. IsFiniteSet(PingsTo(items, k))
  <2>1. IsFiniteSet(1 .. k) /\ PingsTo(items, k) \in SUBSET (1 .. k)
    BY <1>1, FS_Interval DEF PingsTo
  <2> QED
    BY <2>1, FS_Subset
<1>3. Cardinality(PingsTo(items, k)) \in Nat
  BY <1>2, FS_CardinalityType
<1>4. ASSUME x = KeepaliveRequest PROVE Due(items, k + 1) = Due(items, k) + 2
  <2>1. PingsTo(items, k + 1) = PingsTo(items, k) \cup {k + 1} /\ k + 1 \notin PingsTo(items, k)
    BY <1>1, <1>4 DEF PingsTo
  <2>2. Cardinality(PingsTo(items, k + 1)) = Cardinality(PingsTo(items, k)) + 1
    BY <1>2, <2>1, FS_AddElement
  <2>3. Lone(items, k + 1) <=> Lone(items, k)
    <3>1. ASSUME NEW i \in 1 .. k
          PROVE  (\A j \in i .. (k + 1) : items[j] \in Keepalive) <=>
                     \A j \in i .. k : items[j] \in Keepalive
      <4>1. items[k + 1] \in Keepalive
        BY <1>4 DEF Keepalive
      <4>2. \A j \in i .. (k + 1) : j \in i .. k \/ j = k + 1
        BY <1>1
      <4>3. i .. k \subseteq i .. (k + 1)
        BY <1>1
      <4> QED
        BY <4>1, <4>2, <4>3
    <3>2. items[k + 1] # KeepaliveResponse
      BY <1>4, KeepaliveBytes
    <3> QED
      BY <1>1, <3>1, <3>2 DEF Lone
  <2> QED
    BY <1>3, <2>2, <2>3 DEF Due
<1>5. ASSUME x = KeepaliveResponse PROVE Due(items, k + 1) = Due(items, k) + 1
  <2>1. PingsTo(items, k + 1) = PingsTo(items, k)
    BY <1>1, <1>5, KeepaliveBytes DEF PingsTo
  <2>2. Lone(items, k + 1)
    <3>1. \A j \in (k + 1) .. (k + 1) : j = k + 1
      BY <1>1
    <3>2. items[k + 1] \in Keepalive
      BY <1>5 DEF Keepalive
    <3> QED
      BY <1>1, <1>5, <3>1, <3>2 DEF Lone
  <2>3. ~Lone(items, k)
    <3> SUFFICES ASSUME NEW i \in 1 .. k, items[i] = KeepaliveResponse,
                        \A j \in i .. k : items[j] \in Keepalive
                 PROVE  FALSE
      BY DEF Lone
    <3>1. i < k + 1 /\ i \in DOMAIN items /\ k + 1 \in DOMAIN items
      BY <1>1
    <3>2. PICK j \in i .. (k + 1) : items[j] \notin Keepalive
      BY <1>5, <3>1 DEF IsStream
    <3>3. j \in i .. k \/ j = k + 1
      BY <1>1
    <3> QED
      BY <1>5, <3>2, <3>3 DEF Keepalive
  <2> QED
    BY <1>3, <2>1, <2>2, <2>3 DEF Due
<1>6. ASSUME x \notin Keepalive, NEW n \in Nat, 2 * n <= Due(items, k)
      PROVE  2 * n <= Due(items, k + 1)
  <2>1. PingsTo(items, k + 1) = PingsTo(items, k)
    BY <1>1, <1>6 DEF PingsTo, Keepalive
  <2>2. ~Lone(items, k + 1)
    <3>1. \A i \in 1 .. (k + 1) : k + 1 \in i .. (k + 1)
      BY <1>1
    <3> QED
      BY <1>6, <3>1 DEF Lone
  <2> DEFINE p == Cardinality(PingsTo(items, k))
  <2>3. p \in Nat /\ 2 * n <= 2 * p + 1 /\ Due(items, k + 1) = 2 * p
    <3>1. Due(items, k + 1) = 2 * p
      BY <1>3, <2>1, <2>2 DEF Due
    <3>2. Due(items, k) = 2 * p \/ Due(items, k) = 2 * p + 1
      BY <1>3 DEF Due
    <3> HIDE DEF p
    <3> QED
      BY <1>3, <1>6, <3>1, <3>2 DEF p
  <2> HIDE DEF p
  <2>4. 2 * n <= 2 * p
    BY <2>3
  <2> QED
    BY <2>3, <2>4
<1> QED
  BY <1>4, <1>5, <1>6

\* What the next item of a stream is to the decoder.
LEMMA NextItem ==
  ASSUME NEW items \in Seq(Seq(Nat)), IsStream(items),
         NEW k \in 0 .. Len(items), k < Len(items)
  PROVE  LET x == items[k + 1]
             bytes == Bytes(From(items, k))
         IN  \/ x \in Keepalive
             \/ /\ x \in Framed /\ x \notin Keepalive
                /\ Decode(bytes) = Frame("message", Len(x))
                /\ ~StartsWith(bytes, KeepaliveResponse)
             \/ /\ x \notin Framed /\ x \notin Keepalive
                /\ Decode(bytes) = Frame("error", 0)
                /\ ~StartsWith(bytes, KeepaliveResponse)
<1> DEFINE x == items[k + 1]
           more == Bytes(From(items, k + 1))
<1>1. /\ x \in Seq(Nat) /\ k + 1 \in 0 .. Len(items)
      /\ Bytes(From(items, k)) = x \o more
  BY BytesFrom
<1>2. more \in Seq(Nat)
  BY <1>1, BytesFrom
<1>3. IsItem(x)
  <2>1. k + 1 \in DOMAIN items
    OBVIOUS
  <2> QED
    BY <2>1 DEF IsStream
<1> HIDE DEF x, more
<1>4. CASE x = Unframed
  BY <1>1, <1>2, <1>4, DecodeUnframed, KeepaliveBytes DEF x
<1>5. CASE x = Message(From(x, Len(Message(<<>>)))) /\ x \notin Keepalive
  <2> DEFINE content == From(x, Len(Message(<<>>)))
  <2>1. content \in Seq(Nat)
    <3>1. Len(Message(<<>>)) \in Nat
      <4>1. <<>> \in Seq(Nat)
        OBVIOUS
      <4>2. Len(<<>>) = 0
        OBVIOUS
      <4>3. Length(0) \in Nat
        BY DEF Length
      <4> QED
        BY <4>1, <4>2, <4>3, ItemBytes DEF Message
    <3>2. Len(x) \in Nat /\ \A i \in 1 .. Len(x) : x[i] \in Nat
      BY <1>1
    <3> QED
      BY <3>1, <3>2, SubSeqProperties DEF From
  <2> HIDE DEF content
  <2>2. x = Message(content)
    BY <1>5 DEF content
  <2> QED
    BY <1>1, <1>2, <1>5, <2>1, <2>2, DecodeMessage DEF x
<1>6. x \in Keepalive \/ x = Unframed \/ x = Message(From(x, Len(Message(<<>>))))
  BY <1>3 DEF IsItem
<1> QED
  BY <1>4, <1>5, <1>6 DEF x

\* A step of half a request: the bytes ahead begin with CR LF.
HalfStep(items, k, mid) ==
    \E m \in 0 .. Len(items), half \in {0, 1} :
        /\ From(Ahead(items, k, mid), 2) = Ahead(items, m, half)
        /\ Due(items, m) - half = Due(items, k) - mid + 1
        /\ Messages(SubSeq(items, 1, m)) = Messages(SubSeq(items, 1, k))

\* The messages of one more item.
LEMMA MessagesStep ==
  ASSUME NEW items \in Seq(Seq(Nat)), NEW k \in 0 .. Len(items), k < Len(items)
  PROVE  /\ Messages(SubSeq(items, 1, k)) \in Seq(Seq(Nat))
         /\ Messages(SubSeq(items, 1, k + 1)) =
                IF items[k + 1] \in Framed
                THEN Append(Messages(SubSeq(items, 1, k)), items[k + 1])
                ELSE Messages(SubSeq(items, 1, k))
<1> DEFINE D == Seq(Nat)
           s == SubSeq(items, 1, k)
           x == items[k + 1]
<1>1. items \in Seq(D)
  OBVIOUS
<1> HIDE DEF D
<1>2. /\ s \in Seq(D) /\ x \in D
      /\ SubSeq(items, 1, k + 1) = Append(s, x)
  BY <1>1
<1> HIDE DEF s, x
<1>3. Filter(s, Framed) \in Seq(D)
  BY <1>2, FilterType
<1>4. Filter(Append(s, x), Framed) =
          IF x \in Framed THEN Append(Filter(s, Framed), x) ELSE Filter(s, Framed)
  BY <1>2, FilterAppend
<1> QED
  BY <1>2, <1>3, <1>4 DEF Messages, D, s, x

\* The bytes ahead are bytes.
LEMMA AheadType ==
  ASSUME NEW items \in Seq(Seq(Nat)), NEW k \in 0 .. Len(items), NEW mid \in {0, 1}
  PROVE  /\ Ahead(items, k, mid) \in Seq(Nat)
         /\ Ahead(items, k, 0) = Bytes(From(items, k))
         /\ Ahead(items, k, 1) = KeepaliveResponse \o Bytes(From(items, k))
         /\ StartsWith(Ahead(items, k, 1), KeepaliveResponse)
         /\ From(Ahead(items, k, 1), 2) = Ahead(items, k, 0)
<1> DEFINE b == Bytes(From(items, k))
           r == KeepaliveResponse
<1>1. b \in Seq(Nat) /\ r \in Seq(Nat) /\ Len(r) = 2 /\ <<>> \in Seq(Nat)
  <2>1. b \in Seq(Nat)
    BY BytesFrom
  <2>2. r \in Seq(Nat) /\ Len(r) = 2
    BY KeepaliveBytes
  <2>3. <<>> \in Seq(Nat)
    OBVIOUS
  <2> QED
    BY <2>1, <2>2, <2>3
<1> HIDE DEF b, r
<1>2. Ahead(items, k, 0) = b /\ Ahead(items, k, 1) = r \o b
  <2>1. <<>> \o b = b
    BY <1>1, ConcatEmptySeq
  <2> QED
    BY <2>1 DEF Ahead, Half, b, r
<1>3. r \o b \in Seq(Nat) /\ SubSeq(r \o b, 1, 2) = r /\ From(r \o b, 2) = b
      /\ Len(r \o b) = 2 + Len(b)
  <2>1. /\ r \o b \in Seq(Nat) /\ Len(r \o b) = Len(r) + Len(b)
        /\ SubSeq(r \o b, 1, Len(r)) = r /\ From(r \o b, Len(r)) = b
    <3>1. r \in Seq(Nat) /\ b \in Seq(Nat)
      BY <1>1
    <3> QED
      BY <3>1, Joined
  <2>2. Len(r) = 2
    BY <1>1
  <2> QED
    BY <2>1, <2>2
<1>4. StartsWith(r \o b, r)
  <2>1. SubSeq(r, 1, 2) = r
    BY <1>1, SubSeqFull
  <2>2. Len(r) <= Len(r \o b)
    <3>1. Len(b) \in Nat
      BY <1>1
    <3> QED
      BY <1>1, <1>3, <3>1
  <2> QED
    BY <1>1, <1>3, <2>1, <2>2 DEF StartsWith, IsPrefix
<1> QED
  BY <1>1, <1>2, <1>3, <1>4 DEF b, r

\* Wherever CR LF is next, taking it off is such a step.
LEMMA TakeHalf ==
  ASSUME NEW items \in Seq(Seq(Nat)), IsStream(items),
         NEW k \in 0 .. Len(items), NEW mid \in {0, 1},
         StartsWith(Ahead(items, k, mid), KeepaliveResponse)
  PROVE  HalfStep(items, k, mid)
<1>1. Due(items, k) \in Nat
  BY DueType
<1>2. CASE mid = 1
  <2>1. From(Ahead(items, k, mid), 2) = Ahead(items, k, 0)
    BY <1>2, AheadType
  <2>2. Due(items, k) - 0 = Due(items, k) - mid + 1
    BY <1>1, <1>2
  <2> QED
    BY <2>1, <2>2 DEF HalfStep
<1>3. CASE mid = 0
  <2> DEFINE x == items[k + 1]
             more == Bytes(From(items, k + 1))
             r == KeepaliveResponse
  <2>1. Ahead(items, k, mid) = Bytes(From(items, k))
    BY <1>3, AheadType
  <2>2. k < Len(items)
    <3>1. SUFFICES ASSUME k = Len(items) PROVE FALSE
      OBVIOUS
    <3>2. StartsWith(<<>>, KeepaliveResponse)
      BY <2>1, <3>1, BytesFrom
    <3>3. Len(<<>>) = 0
      OBVIOUS
    <3> QED
      BY <3>2, <3>3, KeepaliveBytes DEF StartsWith, IsPrefix
  <2>3. x \in Keepalive
    BY <2>1, <2>2, NextItem
  <2>4. /\ k + 1 \in 0 .. Len(items) /\ Bytes(From(items, k)) = x \o more
        /\ x \notin Framed /\ more \in Seq(Nat)
    BY <2>2, <2>3, BytesFrom, KeepaliveBytes DEF Keepalive
  <2>5. Messages(SubSeq(items, 1, k + 1)) = Messages(SubSeq(items, 1, k))
    BY <2>2, <2>4, MessagesStep
  <2>6. CASE x = KeepaliveResponse
    <3>1. From(r \o more, Len(r)) = more
      BY <2>4, KeepaliveBytes, Joined
    <3>2. From(Ahead(items, k, mid), 2) = Ahead(items, k + 1, 0)
      BY <2>1, <2>4, <2>6, <3>1, KeepaliveBytes, AheadType
    <3>3. Due(items, k + 1) = Due(items, k) + 1
      BY <2>2, <2>6, DueStep
    <3>4. Due(items, k + 1) - 0 = Due(items, k) - mid + 1
      BY <1>1, <1>3, <3>3
    <3> QED
      BY <2>4, <2>5, <3>2, <3>4 DEF HalfStep
  <2>7. CASE x = KeepaliveRequest
    <3>1. x \o more = r \o (r \o more) /\ r \o more \in Seq(Nat)
      <4>0. r \in Seq(Nat) /\ more \in Seq(Nat)
        BY <2>4, KeepaliveBytes
      <4> HIDE DEF r, more
      <4>1. (r \o r) \o more = r \o (r \o more)
        BY SMTT(40), <4>0, ConcatAssociative
      <4>2. r \o more \in Seq(Nat)
        BY <4>0, ConcatProperties
      <4>3. x = r \o r
        BY <2>7, KeepaliveBytes DEF r
      <4> QED
        BY <4>1, <4>2, <4>3
    <3>2. From(r \o (r \o more), Len(r)) = r \o more
      <4> DEFINE u == r \o more
      <4>1. u \in Seq(Nat) /\ r \in Seq(Nat)
        BY <3>1, KeepaliveBytes
      <4> HIDE DEF u
      <4>2. From(r \o u, Len(r)) = u
        BY <4>1, Joined
      <4> QED
        BY <4>2 DEF u
    <3>3. From(Ahead(items, k, mid), 2) = Ahead(items, k + 1, 1)
      BY <2>1, <2>4, <3>1, <3>2, KeepaliveBytes, AheadType
    <3>4. Due(items, k + 1) = Due(items, k) + 2
      BY <2>2, <2>7, DueStep
    <3>5. Due(items, k + 1) - 1 = Due(items, k) - mid + 1
      BY <1>1, <1>3, <3>4
    <3> QED
      BY <2>4, <2>5, <3>3, <3>5 DEF HalfStep
  <2> QED
    BY <2>3, <2>6, <2>7 DEF Keepalive
<1> QED
  BY <1>2, <1>3

\* A step of a whole message: the decoder finds one in the bytes ahead.
LEMMA TakeMessage ==
  ASSUME NEW items \in Seq(Seq(Nat)), IsStream(items),
         NEW k \in 0 .. Len(items), NEW mid \in {0, 1},
         Decode(Ahead(items, k, mid)).kind = "message"
  PROVE  /\ mid = 0 /\ k < Len(items) /\ items[k + 1] \in Framed
         /\ items[k + 1] \notin Keepalive
         /\ items[k + 1] \in Seq(Nat)
         /\ Decode(Ahead(items, k, mid)).size = Len(items[k + 1])
         /\ Ahead(items, k, mid) = items[k + 1] \o Ahead(items, k + 1, 0)
<1> DEFINE bytes == Ahead(items, k, mid)
           x == items[k + 1]
<1>1. bytes \in Seq(Nat)
  BY AheadType
<1>2. ~StartsWith(bytes, KeepaliveResponse)
  <2> HIDE DEF bytes
  <2>1. SUFFICES ASSUME StartsWith(bytes, KeepaliveResponse) PROVE FALSE
    OBVIOUS
  <2>2. Decode(bytes) = Frame("ping", 4) \/ Decode(bytes) = Frame("pong", 2)
    <3>1. CASE StartsWith(bytes, KeepaliveRequest)
      BY <3>1 DEF Decode
    <3>2. CASE ~StartsWith(bytes, KeepaliveRequest)
      BY <2>1, <3>2 DEF Decode
    <3> QED
      BY <3>1, <3>2
  <2>3. Decode(bytes).kind = "message"
    BY DEF bytes
  <2> QED
    BY <2>2, <2>3 DEF Frame
<1>3. mid = 0 /\ bytes = Bytes(From(items, k))
  BY <1>2, AheadType
<1>4. k < Len(items)
  <2>1. SUFFICES ASSUME k = Len(items) PROVE FALSE
    OBVIOUS
  <2>2. bytes = <<>>
    BY <1>3, <2>1, BytesFrom
  <2>3. Decode(bytes).size \in 0 .. 0 /\ Decode(bytes) = Incomplete
    <3> HIDE DEF bytes
    <3>1. Len(bytes) = 0 /\ bytes \in Seq(Nat)
      BY <1>1, <2>2
    <3>2. ~StartsWith(bytes, KeepaliveRequest) /\ ~StartsWith(bytes, KeepaliveResponse)
      <4>1. ~(4 <= Len(bytes)) /\ ~(2 <= Len(bytes))
        BY <3>1
      <4> QED
        BY <3>1, <4>1, Markers
    <3>3. HeaderSizes(bytes) = {}
      <4>1. ASSUME NEW n \in 0 .. Len(bytes) PROVE n \notin HeaderSizes(bytes)
        <5>1. ~(n + 4 <= Len(bytes))
          BY <3>1
        <5> QED
          BY <3>1, <5>1, EndAt
      <4> QED
        BY <4>1 DEF HeaderSizes
    <3>4. Decode(bytes) = Incomplete
      BY <3>2, <3>3 DEF Decode
    <3> QED
      BY <3>4 DEF Incomplete, Frame
  <2> QED
    BY <2>3 DEF Incomplete, Frame
<1>5. x \notin Keepalive
  <2>1. SUFFICES ASSUME x \in Keepalive PROVE FALSE
    OBVIOUS
  <2> DEFINE more == Bytes(From(items, k + 1))
             r == KeepaliveResponse
  <2>2. bytes = x \o more /\ more \in Seq(Nat) /\ r \in Seq(Nat) /\ Len(r) = 2
    BY <1>3, <1>4, BytesFrom, KeepaliveBytes
  <2>3. \E t \in Seq(Nat) : bytes = r \o t
    <3>1. CASE x = r
      BY <2>2, <3>1
    <3>2. CASE x = KeepaliveRequest
      <4>1. (r \o r) \o more = r \o (r \o more) /\ r \o more \in Seq(Nat)
        BY SMTT(40), <2>2, ConcatAssociative, ConcatProperties
      <4> QED
        BY <2>2, <3>2, <4>1, KeepaliveBytes
    <3> QED
      BY <2>1, <3>1, <3>2 DEF Keepalive
  <2>4. PICK t \in Seq(Nat) : bytes = r \o t
    BY <2>3
  <2> HIDE DEF r, more, bytes
  <2>5. SubSeq(bytes, 1, 2) = r /\ Len(bytes) = 2 + Len(t) /\ Len(t) \in Nat
    <3>1. r \in Seq(Nat) /\ Len(r) = 2
      BY <2>2
    <3>2. SubSeq(r \o t, 1, Len(r)) = r /\ Len(r \o t) = Len(r) + Len(t)
      <4>1. r \in Seq(Nat) /\ t \in Seq(Nat)
        BY <3>1
      <4> QED
        BY <4>1, Joined
    <3>3. Len(t) \in Nat
      OBVIOUS
    <3> QED
      BY <2>4, <3>1, <3>2, <3>3
  <2>6. StartsWith(bytes, r)
    <3>1. SubSeq(r, 1, 2) = r
      BY <2>2, SubSeqFull
    <3>2. 2 <= Len(bytes)
      BY <2>5
    <3> QED
      BY <2>2, <2>5, <3>1, <3>2 DEF StartsWith, IsPrefix
  <2> QED
    BY <1>2, <2>6 DEF r
<1>6. x \in Framed /\ Decode(bytes) = Frame("message", Len(x))
  <2>1. Decode(bytes) # Frame("error", 0)
    BY DEF Frame
  <2> QED
    BY <1>3, <1>4, <1>5, <2>1, NextItem
<1>7. x \in Seq(Nat) /\ k + 1 \in 0 .. Len(items) /\ bytes = x \o Ahead(items, k + 1, 0)
  BY <1>3, <1>4, BytesFrom, AheadType
<1>8. Decode(bytes).size = Len(x)
  BY <1>6 DEF Frame
<1> QED
  BY <1>3, <1>4, <1>5, <1>6, <1>7, <1>8

-----------------------------------------------------------------------------
(* What has been read of a stream, wherever it is cut. *)

\* The bytes in the buffer and on the wire are the next ones of the stream,
\* the messages passed on are those before, and as many half requests came
\* before as the requests taken need.
At(items, bytes, passed, halves) ==
    \E k \in 0 .. Len(items), mid \in {0, 1}, lost \in Seq(Nat) :
        /\ bytes \o lost = Ahead(items, k, mid)
        /\ passed = Messages(SubSeq(items, 1, k))
        /\ halves <= Due(items, k) - mid

\* What a number of requests needs.
Even == {2 * n : n \in Nat}

\* Bytes may be lost from the end.
LEMMA AtShorter ==
  ASSUME NEW items \in Seq(Seq(Nat)), NEW a \in Seq(Nat), NEW b \in Seq(Nat),
         NEW passed, NEW halves, At(items, a \o b, passed, halves)
  PROVE  At(items, a, passed, halves)
<1>1. PICK k \in 0 .. Len(items), mid \in {0, 1}, lost \in Seq(Nat) :
        /\ (a \o b) \o lost = Ahead(items, k, mid)
        /\ passed = Messages(SubSeq(items, 1, k))
        /\ halves <= Due(items, k) - mid
  BY DEF At
<1>2. (a \o b) \o lost = a \o (b \o lost) /\ b \o lost \in Seq(Nat)
  BY SMTT(40), ConcatAssociative, ConcatProperties
<1> QED
  BY <1>1, <1>2 DEF At

\* Fewer requests need fewer halves.
LEMMA AtFewer ==
  ASSUME NEW items \in Seq(Seq(Nat)), NEW bytes, NEW passed,
         NEW halves \in Nat, NEW fewer \in Nat, fewer <= halves,
         At(items, bytes, passed, halves)
  PROVE  At(items, bytes, passed, fewer)
<1>1. PICK k \in 0 .. Len(items), mid \in {0, 1}, lost \in Seq(Nat) :
        /\ bytes \o lost = Ahead(items, k, mid)
        /\ passed = Messages(SubSeq(items, 1, k))
        /\ halves <= Due(items, k) - mid
  BY DEF At
<1>2. Due(items, k) \in Nat
  BY DueType
<1>3. fewer <= Due(items, k) - mid
  BY <1>1, <1>2
<1> QED
  BY <1>1, <1>3 DEF At

\* What starts the bytes of the buffer starts those ahead.
LEMMA StartsLonger ==
  ASSUME NEW bytes \in Seq(Nat), NEW more \in Seq(Nat),
         StartsWith(bytes, KeepaliveResponse)
  PROVE  /\ StartsWith(bytes \o more, KeepaliveResponse)
         /\ 2 \in 0 .. Len(bytes)
<1> DEFINE all == bytes \o more
<1>1. 2 <= Len(bytes) /\ bytes[1] = CR /\ bytes[2] = LF
  BY Markers
<1>2. /\ all \in Seq(Nat) /\ Len(all) = Len(bytes) + Len(more)
      /\ \A i \in 1 .. Len(bytes) + Len(more) :
            all[i] = IF i <= Len(bytes) THEN bytes[i] ELSE more[i - Len(bytes)]
  BY ConcatProperties
<1>3. Len(bytes) \in Nat /\ Len(more) \in Nat
  OBVIOUS
<1> HIDE DEF all
<1>4. 2 <= Len(all) /\ all[1] = CR /\ all[2] = LF
  BY <1>1, <1>2, <1>3
<1>5. StartsWith(all, KeepaliveResponse)
  BY <1>2, <1>4, Markers
<1> QED
  BY <1>1, <1>3, <1>5 DEF all

\* CR LF is taken off.
LEMMA AtHalf ==
  ASSUME NEW items \in Seq(Seq(Nat)), IsStream(items), NEW bytes \in Seq(Nat),
         NEW passed, NEW halves \in Nat, At(items, bytes, passed, halves),
         StartsWith(bytes, KeepaliveResponse)
  PROVE  /\ From(bytes, 2) \in Seq(Nat)
         /\ At(items, From(bytes, 2), passed, halves + 1)
<1>1. PICK k \in 0 .. Len(items), mid \in {0, 1}, lost \in Seq(Nat) :
        /\ bytes \o lost = Ahead(items, k, mid)
        /\ passed = Messages(SubSeq(items, 1, k))
        /\ halves <= Due(items, k) - mid
  BY DEF At
<1>2. StartsWith(bytes \o lost, KeepaliveResponse) /\ 2 \in 0 .. Len(bytes)
  BY StartsLonger
<1>3. StartsWith(Ahead(items, k, mid), KeepaliveResponse)
  BY <1>1, <1>2
<1>4. PICK m \in 0 .. Len(items), half \in {0, 1} :
        /\ From(Ahead(items, k, mid), 2) = Ahead(items, m, half)
        /\ Due(items, m) - half = Due(items, k) - mid + 1
        /\ Messages(SubSeq(items, 1, m)) = Messages(SubSeq(items, 1, k))
  BY <1>3, TakeHalf DEF HalfStep
<1>5. From(bytes \o lost, 2) = From(bytes, 2) \o lost /\ From(bytes, 2) \in Seq(Nat)
  BY <1>2, CutJoined, Cut
<1>6. halves + 1 <= Due(items, m) - half
  <2>1. Due(items, m) \in Nat /\ Due(items, k) \in Nat
    BY DueType
  <2> QED
    BY <1>1, <1>4, <2>1
<1>7. From(bytes, 2) \o lost = Ahead(items, m, half)
  BY <1>1, <1>4, <1>5
<1>8. passed = Messages(SubSeq(items, 1, m))
  BY <1>1, <1>4
<1> QED
  BY <1>5, <1>6, <1>7, <1>8 DEF At

\* A response is taken off the buffer.
LEMMA AtPong ==
  ASSUME NEW items \in Seq(Seq(Nat)), IsStream(items),
         NEW bytes \in Seq(Nat), NEW more \in Seq(Nat),
         NEW passed, NEW halves \in Nat, At(items, bytes \o more, passed, halves),
         StartsWith(bytes, KeepaliveResponse)
  PROVE  At(items, From(bytes, 2) \o more, passed, halves + 1)
<1> DEFINE all == bytes \o more
<1>1. all \in Seq(Nat) /\ StartsWith(all, KeepaliveResponse) /\ 2 \in 0 .. Len(bytes)
  BY StartsLonger, ConcatProperties
<1>2. From(all, 2) = From(bytes, 2) \o more
  BY <1>1, CutJoined
<1> HIDE DEF all
<1>3. At(items, all, passed, halves)
  BY DEF all
<1>4. At(items, From(all, 2), passed, halves + 1)
  BY <1>1, <1>3, AtHalf
<1> QED
  BY <1>2, <1>4

\* A request is taken off it: two halves.
LEMMA AtPing ==
  ASSUME NEW items \in Seq(Seq(Nat)), IsStream(items),
         NEW bytes \in Seq(Nat), NEW more \in Seq(Nat),
         NEW passed, NEW halves \in Nat, At(items, bytes \o more, passed, halves),
         StartsWith(bytes, KeepaliveRequest)
  PROVE  At(items, From(bytes, 4) \o more, passed, halves + 2)
<1> DEFINE rest == From(bytes, 2)
<1>1. /\ 4 <= Len(bytes) /\ Len(bytes) \in Nat
      /\ bytes[1] = CR /\ bytes[2] = LF /\ bytes[3] = CR /\ bytes[4] = LF
  BY Markers
<1>2. StartsWith(bytes, KeepaliveResponse)
  <2>1. 2 <= Len(bytes)
    BY <1>1
  <2> QED
    BY <1>1, <2>1, Markers
<1>3. /\ rest \in Seq(Nat) /\ Len(rest) = Len(bytes) - 2
      /\ \A i \in 1 .. Len(bytes) - 2 : rest[i] = bytes[2 + i]
  <2>1. 2 \in 0 .. Len(bytes)
    BY <1>1
  <2> QED
    BY <2>1, Rest
<1>4. From(rest, 2) = From(bytes, 4)
  <2>1. 2 \in 0 .. Len(rest) /\ 4 \in 0 .. Len(bytes)
    BY <1>1, <1>3
  <2> DEFINE a == From(rest, 2)
             b == From(bytes, 4)
  <2>2. /\ a \in Seq(Nat) /\ Len(a) = Len(rest) - 2
        /\ \A i \in 1 .. Len(rest) - 2 : a[i] = rest[2 + i]
    BY <1>3, <2>1, Rest
  <2>3. /\ b \in Seq(Nat) /\ Len(b) = Len(bytes) - 4
        /\ \A i \in 1 .. Len(bytes) - 4 : b[i] = bytes[4 + i]
    BY <2>1, Rest
  <2> HIDE DEF a, b, rest
  <2>4. Len(a) = Len(b)
    BY <1>1, <1>3, <2>2, <2>3
  <2>5. ASSUME NEW i \in 1 .. Len(a) PROVE a[i] = b[i]
    <3>1. /\ i \in 1 .. Len(rest) - 2 /\ i \in 1 .. Len(bytes) - 4
          /\ 2 + i \in 1 .. Len(bytes) - 2 /\ 2 + (2 + i) = 4 + i
      BY <1>1, <1>3, <2>2, <2>5
    <3> QED
      BY <1>3, <2>2, <2>3, <3>1
  <2>6. a = b
    BY <2>2, <2>3, <2>4, <2>5, SeqEqual
  <2> QED
    BY <2>6 DEF a, b
<1>5. StartsWith(rest, KeepaliveResponse)
  <2> HIDE DEF rest
  <2>1. 1 \in 1 .. Len(bytes) - 2 /\ 2 \in 1 .. Len(bytes) - 2
    BY <1>1
  <2>2. rest[1] = CR /\ rest[2] = LF /\ 2 <= Len(rest)
    BY SMTT(40), <1>1, <1>3, <2>1
  <2> QED
    BY <1>3, <2>2, Markers
<1>6. At(items, rest \o more, passed, halves + 1)
  BY <1>2, AtPong
<1> HIDE DEF rest
<1>7. At(items, From(rest, 2) \o more, passed, (halves + 1) + 1)
  <2>1. halves + 1 \in Nat
    OBVIOUS
  <2> QED
    BY <1>3, <1>5, <1>6, <2>1, AtPong
<1>8. (halves + 1) + 1 = halves + 2
  OBVIOUS
<1> QED
  BY <1>4, <1>7, <1>8

\* A message is taken off it and passed on, the one that is next.
LEMMA AtMessage ==
  ASSUME NEW items \in Seq(Seq(Nat)), IsStream(items),
         NEW bytes \in Seq(Nat), NEW more \in Seq(Nat),
         NEW passed, NEW halves \in Even, At(items, bytes \o more, passed, halves),
         Decode(bytes).kind = "message"
  PROVE  LET size == Decode(bytes).size
         IN  At(items, From(bytes, size) \o more,
                Append(passed, SubSeq(bytes, 1, size)), halves)
<1> DEFINE size == Decode(bytes).size
<1>1. PICK k \in 0 .. Len(items), mid \in {0, 1}, lost \in Seq(Nat) :
        /\ (bytes \o more) \o lost = Ahead(items, k, mid)
        /\ passed = Messages(SubSeq(items, 1, k))
        /\ halves <= Due(items, k) - mid
  BY DEF At
<1> DEFINE tail == more \o lost
           x == items[k + 1]
<1>2. (bytes \o more) \o lost = bytes \o tail /\ tail \in Seq(Nat)
  <2>1. (bytes \o more) \o lost = bytes \o (more \o lost) /\ more \o lost \in Seq(Nat)
    BY SMTT(40), ConcatAssociative, ConcatProperties
  <2> QED
    BY <2>1
<1> HIDE DEF tail
<1>3. Decode(bytes \o tail) = Decode(bytes)
  BY <1>2, DecodeStable
<1>4. bytes \o tail = Ahead(items, k, mid)
  BY <1>1, <1>2
<1>5. /\ mid = 0 /\ k < Len(items) /\ x \in Framed /\ x \notin Keepalive /\ x \in Seq(Nat)
      /\ size = Len(x) /\ Ahead(items, k, mid) = x \o Ahead(items, k + 1, 0)
  <2>1. Decode(Ahead(items, k, mid)) = Decode(bytes)
    BY <1>3, <1>4
  <2>2. Decode(Ahead(items, k, mid)).kind = "message"
    BY <2>1
  <2> QED
    BY <2>1, <2>2, TakeMessage
<1>6. size \in 0 .. Len(bytes)
  BY FrameInBuffer
<1>7. k + 1 \in 0 .. Len(items) /\ Ahead(items, k + 1, 0) \in Seq(Nat)
  <2>1. k + 1 \in 0 .. Len(items)
    BY <1>5
  <2> QED
    BY <2>1, AheadType
<1> HIDE DEF size, x
<1>8. SubSeq(bytes, 1, size) = x /\ From(bytes, size) \o tail = Ahead(items, k + 1, 0)
  <2> DEFINE next == Ahead(items, k + 1, 0)
  <2>1. next \in Seq(Nat) /\ x \in Seq(Nat) /\ bytes \o tail = x \o next
    BY <1>4, <1>5, <1>7
  <2> HIDE DEF next
  <2>2. SubSeq(x \o next, 1, Len(x)) = x /\ From(x \o next, Len(x)) = next
    BY <2>1, Joined
  <2>3. /\ SubSeq(bytes \o tail, 1, size) = SubSeq(bytes, 1, size)
        /\ From(bytes \o tail, size) = From(bytes, size) \o tail
    BY <1>2, <1>6, CutJoined
  <2> QED
    BY <1>5, <2>1, <2>2, <2>3 DEF next
<1>9. (From(bytes, size) \o more) \o lost = Ahead(items, k + 1, 0)
  <2> DEFINE b == From(bytes, size)
  <2>1. b \in Seq(Nat)
    BY <1>6, Cut
  <2> HIDE DEF b
  <2>2. (b \o more) \o lost = b \o (more \o lost)
    BY <2>1, Three, Zenon
  <2> QED
    BY <1>8, <2>2 DEF b, tail
<1>10. Append(passed, x) = Messages(SubSeq(items, 1, k + 1))
  BY <1>1, <1>5, MessagesStep DEF x
<1>11. halves <= Due(items, k + 1) - 0
  <2>0. PICK n \in Nat : halves = 2 * n
    BY DEF Even
  <2>1. Due(items, k) \in Nat /\ Due(items, k + 1) \in Nat
    BY <1>7, DueType
  <2>2. 2 * n <= Due(items, k)
    BY <1>1, <1>5, <2>0, <2>1
  <2>3. 2 * n <= Due(items, k + 1)
    BY <1>5, <2>2, DueStep DEF x
  <2> QED
    BY <2>0, <2>1, <2>3
<1> QED
  BY <1>7, <1>8, <1>9, <1>10, <1>11 DEF At, size

\* Before a stream there is nothing.
LEMMA AtNothing ==
  ASSUME NEW bytes \in Seq(Nat), NEW passed, NEW halves \in Nat,
         At(<<>>, bytes, passed, halves)
  PROVE  bytes = <<>> /\ passed = <<>> /\ halves = 0
<1> DEFINE items == <<>>
<1>0. items \in Seq(Seq(Nat)) /\ Len(items) = 0
  OBVIOUS
<1>1. PICK k \in 0 .. Len(items), mid \in {0, 1}, lost \in Seq(Nat) :
        /\ bytes \o lost = Ahead(items, k, mid)
        /\ passed = Messages(SubSeq(items, 1, k))
        /\ halves <= Due(items, k) - mid
  BY DEF At
<1>2. k = 0
  BY <1>0
<1>3. SubSeq(items, 1, 0) = items
  BY SubSeqEmpty
<1>4. passed = <<>>
  BY <1>1, <1>2, <1>3, FilterEmpty DEF Messages
<1> HIDE DEF items
<1>5. Due(items, 0) = 0
  <2>1. PingsTo(items, 0) = {} /\ ~Lone(items, 0)
    BY DEF PingsTo, Lone
  <2>2. Cardinality({}) = 0
    BY FS_EmptySet
  <2>3. Cardinality(PingsTo(items, 0)) = 0
    BY <2>1, <2>2
  <2> QED
    BY <2>1, <2>3 DEF Due
<1>6. mid = 0 /\ halves = 0
  BY <1>1, <1>2, <1>5
<1>7. bytes \o lost = <<>>
  <2>1. Ahead(items, 0, 0) = <<>>
    <3>1. 0 \in 0 .. Len(items) /\ 0 = Len(items) /\ 0 \in {0, 1}
      BY <1>0
    <3> QED
      BY <1>0, <3>1, AheadType, BytesFrom
  <2> QED
    BY <1>1, <1>2, <1>6, <2>1
<1> QED
  BY <1>4, <1>6, <1>7, ConcatEqualIffEmpty

\* At the start of one there are all its bytes.
LEMMA AtStart ==
  ASSUME NEW items \in Seq(Seq(Nat))
  PROVE  At(items, Bytes(items), <<>>, 0)
<1>1. 0 \in 0 .. Len(items) /\ <<>> \in Seq(Nat) /\ 0 \in {0, 1}
  OBVIOUS
<1>2. Bytes(items) \o <<>> = Ahead(items, 0, 0)
  <2>1. From(items, 0) = items
    BY SubSeqFull DEF From
  <2>2. Ahead(items, 0, 0) = Bytes(items)
    BY <1>1, <2>1, AheadType
  <2>3. Bytes(items) \o <<>> = Bytes(items)
    BY BytesType, ConcatEmptySeq
  <2> QED
    BY <2>2, <2>3
<1>3. <<>> = Messages(SubSeq(items, 1, 0))
  <2>1. SubSeq(items, 1, 0) = <<>>
    BY SubSeqEmpty
  <2> QED
    BY <2>1, FilterEmpty DEF Messages
<1>4. 0 <= Due(items, 0) - 0
  <2>1. Due(items, 0) \in Nat
    BY DueType
  <2> QED
    BY <2>1
<1> QED
  BY <1>1, <1>2, <1>3, <1>4 DEF At

\* Wherever it is, it has passed on a first part of the messages.
LEMMA AtPrefix ==
  ASSUME NEW items \in Seq(Seq(Nat)), NEW bytes, NEW passed, NEW halves,
         At(items, bytes, passed, halves)
  PROVE  IsPrefix(passed, Messages(items))
<1>1. PICK k \in 0 .. Len(items) : passed = Messages(SubSeq(items, 1, k))
  BY DEF At
<1> DEFINE D == Seq(Nat)
           a == SubSeq(items, 1, k)
           b == From(items, k)
<1>2. items \in Seq(D)
  OBVIOUS
<1> HIDE DEF D
<1>3. a \in Seq(D) /\ b \in Seq(D) /\ a \o b = items
  BY <1>2, Cut
<1> HIDE DEF a, b
<1> DEFINE p == Filter(a, Framed)
           q == Filter(b, Framed)
<1>4. p \in Seq(D) /\ q \in Seq(D) /\ Filter(items, Framed) = p \o q
  <2>1. p \in Seq(D) /\ q \in Seq(D)
    BY <1>3, FilterType
  <2>2. a \in Seq(D) /\ b \in Seq(D)
    BY <1>3
  <2>3. Filter(a \o b, Framed) = p \o q
    BY <2>2, FilterConcat
  <2> QED
    BY <1>3, <2>1, <2>3
<1>5. passed = p
  BY <1>1 DEF Messages, a
<1> HIDE DEF p, q
<1>6. SubSeq(p \o q, 1, Len(p)) = p /\ Len(p \o q) = Len(p) + Len(q)
  BY <1>4, Joined
<1>7. SubSeq(p, 1, Len(p)) = p /\ Len(p) \in Nat /\ Len(q) \in Nat
  BY <1>4, SubSeqFull
<1>8. IsPrefix(p, p \o q)
  BY <1>6, <1>7 DEF IsPrefix
<1> QED
  BY <1>4, <1>5, <1>8 DEF Messages

\* And it has taken no more requests than there are.
LEMMA AtPings ==
  ASSUME NEW items \in Seq(Seq(Nat)), NEW bytes, NEW passed, NEW n \in Nat,
         At(items, bytes, passed, 2 * n)
  PROVE  n <= Cardinality(Pings(items))
<1>1. PICK k \in 0 .. Len(items), mid \in {0, 1} : 2 * n <= Due(items, k) - mid
  BY DEF At
<1>2. IsFiniteSet(Pings(items)) /\ PingsTo(items, k) \in SUBSET Pings(items)
  <2>1. DOMAIN items = 1 .. Len(items) /\ 1 .. k \subseteq 1 .. Len(items)
    OBVIOUS
  <2>2. IsFiniteSet(1 .. Len(items))
    BY FS_Interval
  <2>3. Pings(items) \in SUBSET (1 .. Len(items))
    BY <2>1 DEF Pings
  <2> QED
    BY <2>1, <2>2, <2>3, FS_Subset DEF Pings, PingsTo
<1>3. Cardinality(PingsTo(items, k)) <= Cardinality(Pings(items))
  BY <1>2, FS_Subset
<1>4. Cardinality(PingsTo(items, k)) \in Nat /\ Cardinality(Pings(items)) \in Nat
  BY <1>2, DueType, FS_CardinalityType
<1>5. 2 * n <= 2 * Cardinality(PingsTo(items, k)) + 1
  BY <1>1, <1>4 DEF Due
<1> DEFINE c == Cardinality(PingsTo(items, k))
           d == Cardinality(Pings(items))
<1> HIDE DEF c, d
<1>6. n <= c
  BY <1>4, <1>5 DEF c
<1>7. c \in Nat /\ d \in Nat /\ c <= d
  BY <1>3, <1>4 DEF c, d
<1>8. n <= d
  BY <1>6, <1>7
<1> QED
  BY <1>8 DEF d

-----------------------------------------------------------------------------
(* Types. *)

USE ConstantsAssumption DEF ConstantsAssumption

\* The type invariant, by groups of variables.
LinkType ==
    /\ registry \in [Key -> Link \cup {Nobody}]
    /\ status \in [Conn -> Status]
    /\ side \in [Conn -> {"in", "out", "none"}]
    /\ proto \in [Conn -> Proto \cup {"none"}]
ReadType ==
    /\ said \in [Conn -> Seq(Seq(Byte))]
    /\ wire \in [Conn -> Seq(Byte)]
    /\ buffer \in [Conn -> Seq(Byte)]
    /\ heard \in [Conn -> Seq(Seq(Byte))]
    /\ answering \in [Conn -> BOOLEAN]
WriteType ==
    /\ lock \in [Conn -> Writer \cup {Nobody}]
    /\ out \in [Conn -> Seq(Part)]
FaultType ==
    /\ shut \in [Conn -> BOOLEAN]
    /\ dead \in [Conn -> BOOLEAN]
    /\ stalled \in [Conn -> BOOLEAN]
SenderType ==
    /\ task \in [Sender -> Task]
    /\ kind \in [Sender -> {"none", "request", "reply", "response"}]
    /\ todo \in [Sender -> Seq([addr : Peer, proto : Proto])]
    /\ via \in [Sender -> Link \cup {Nobody}]
    /\ \A u \in Sender : task[u] \in {"holding", "writing"} => via[u] \in Link
    /\ \A u \in Sender : task[u] = "connecting" => todo[u] # <<>>
Held ==
    \A c \in Conn : lock[c] \in Sender =>
        task[lock[c]] = "writing" /\ via[lock[c]] = c

\* The type invariant is its groups.
LEMMA TypeParts ==
  TypeOK <=> /\ LinkType /\ ReadType /\ WriteType
             /\ FaultType /\ SenderType /\ Held
BY DEF TypeOK, LinkType, ReadType, WriteType, FaultType, SenderType, Held

\* The same after a step.
LEMMA TypePartsNext ==
  TypeOK' <=> /\ LinkType' /\ ReadType' /\ WriteType'
              /\ FaultType' /\ SenderType' /\ Held'
BY DEF TypeOK, LinkType, ReadType, WriteType, FaultType, SenderType, Held

\* A group whose variables do not change keeps its type.
LEMMA Unchanged ==
  ASSUME TypeOK
  PROVE  /\ UNCHANGED linkVars => LinkType'
         /\ UNCHANGED readVars => ReadType'
         /\ UNCHANGED writeVars => WriteType'
         /\ UNCHANGED faultVars => FaultType'
         /\ UNCHANGED senderVars => SenderType'
         /\ UNCHANGED <<lock, task, via>> => Held'
<1>1. LinkType /\ ReadType /\ WriteType /\ FaultType /\ SenderType /\ Held
  BY TypeParts
<1>2. UNCHANGED linkVars => LinkType'
  BY <1>1 DEF LinkType, linkVars
<1>3. UNCHANGED readVars => ReadType'
  BY <1>1 DEF ReadType, readVars
<1>4. UNCHANGED writeVars => WriteType'
  BY <1>1 DEF WriteType, writeVars
<1>5. UNCHANGED faultVars => FaultType'
  BY <1>1 DEF FaultType, faultVars
<1>6. UNCHANGED senderVars => SenderType'
  BY <1>1 DEF SenderType, senderVars
<1>7. UNCHANGED <<lock, task, via>> => Held'
  BY <1>1 DEF Held
<1> QED
  BY <1>2, <1>3, <1>4, <1>5, <1>6, <1>7

\* The key of a connection that exists.
LEMMA OwnKeyType ==
  ASSUME NEW c \in Conn, side[c] \in {"in", "out", "none"}, proto[c] \in Proto
  PROVE  OwnKey(c) \in Key
BY DEF OwnKey, KeyOf, Local, Key

\* What is known of a connection that is in use.
Known ==
    \A c \in Conn :
        /\ status[c] = "unused" <=> side[c] = "none"
        /\ status[c] # "unused" => proto[c] \in {"tcp", "ws"}
        /\ answering[c] => status[c] = "running"

\* A read task that ends keeps the types.
LEMMA ReaderGoneType ==
  ASSUME TypeOK, NEW c \in Conn, ReaderGone(c)
  PROVE  ReadType'
<1>1. ReadType
  BY TypeParts
<1>2. <<>> \in Seq(Byte)
  OBVIOUS
<1> QED
  BY <1>1, <1>2 DEF ReadType, ReaderGone

\* So does one that has seen the end of the stream.
LEMMA ClosedType ==
  ASSUME TypeOK, Known, NEW c \in Conn, status[c] # "unused", Closed(c)
  PROVE  LinkType' /\ ReadType'
<1>1. LinkType
  BY TypeParts
<1>2. LinkType'
  BY <1>1 DEF LinkType, Closed, Registered, Status
<1> QED
  BY <1>2, ReaderGoneType DEF Closed

\* So does one that has returned an error.
LEMMA BrokenType ==
  ASSUME TypeOK, NEW c \in Conn, Broken(c)
  PROVE  LinkType' /\ ReadType'
<1>1. LinkType
  BY TypeParts
<1>2. LinkType'
  BY <1>1 DEF LinkType, Broken, Status
<1> QED
  BY <1>2, ReaderGoneType DEF Broken

\* A new connection keeps the types.
LEMMA EstablishedType ==
  ASSUME TypeOK, NEW c \in Conn, NEW s \in {"in", "out"},
         NEW protocol \in {"tcp", "ws"}, Established(c, s, protocol)
  PROVE  LinkType' /\ ReadType' /\ WriteType' /\ FaultType'
<1>1. LinkType /\ ReadType
  BY TypeParts
<1>2. LinkType'
  <2>1. registry' \in [Key -> Link \cup {Nobody}]
    BY <1>1 DEF LinkType, Established, Registered, Link
  <2>2. status' \in [Conn -> Status]
    BY <1>1 DEF LinkType, Established, Status
  <2>3. side' \in [Conn -> {"in", "out", "none"}]
    BY <1>1 DEF LinkType, Established
  <2>4. proto' \in [Conn -> Proto \cup {"none"}]
    BY <1>1 DEF LinkType, Established, Proto
  <2> QED
    BY <2>1, <2>2, <2>3, <2>4 DEF LinkType
<1>3. PICK items \in {<<>>} \cup Streams :
        /\ said' = [said EXCEPT ![c] = items]
        /\ wire' = [wire EXCEPT ![c] = Bytes(items)]
  BY DEF Established, Speaks
<1>4. items \in Seq(Seq(Byte)) /\ Bytes(items) \in Seq(Byte)
  <2>1. items \in Seq(Seq(Nat))
    <3>1. <<>> \in Seq(Seq(Nat)) /\ Streams \subseteq Seq(Seq(Nat))
      OBVIOUS
    <3> QED
      BY <3>1
  <2> QED
    BY <2>1, BytesType DEF Byte
<1>5. ReadType'
  BY <1>1, <1>3, <1>4 DEF ReadType, Established
<1>6. WriteType' /\ FaultType'
  BY Unchanged DEF Established
<1> QED
  BY <1>2, <1>5, <1>6

\* The steps of the network and of the read tasks.
LEMMA NetworkType ==
  ASSUME TypeOK, NEW c \in Conn, Network(c)
  PROVE  TypeOK'
<1>1. CASE \E protocol \in {"tcp", "ws"} : Accept(c, protocol)
  <2>1. PICK protocol \in {"tcp", "ws"} : Accept(c, protocol)
    BY <1>1
  <2>2. Established(c, "in", protocol) /\ UNCHANGED senderVars
    BY <2>1 DEF Accept
  <2>3. LinkType' /\ ReadType' /\ WriteType' /\ FaultType'
    BY <2>2, EstablishedType
  <2>4. SenderType' /\ Held'
    BY <2>2, Unchanged DEF Established, writeVars, senderVars
  <2> QED
    BY <2>3, <2>4, TypePartsNext
<1>2. CASE HangUp(c)
  <2>1. ReadType'
    <3>1. ReadType /\ <<>> \in Seq(Byte)
      BY TypeParts
    <3>2. PICK rest \in {wire[c], <<>>} : wire' = [wire EXCEPT ![c] = rest]
      BY <1>2 DEF HangUp
    <3>3. rest \in Seq(Byte)
      <4>1. wire[c] \in Seq(Byte)
        BY <3>1 DEF ReadType
      <4> QED
        BY <3>1, <3>2, <4>1
    <3> QED
      BY <1>2, <3>1, <3>2, <3>3 DEF ReadType, HangUp
  <2>2. FaultType'
    BY <1>2, TypeParts DEF FaultType, HangUp
  <2>3. LinkType' /\ WriteType' /\ SenderType' /\ Held'
    BY <1>2, Unchanged DEF HangUp, writeVars, senderVars
  <2> QED
    BY <2>1, <2>2, <2>3, TypePartsNext
<1>3. CASE Reset(c)
  <2>1. FaultType'
    BY <1>3, TypeParts DEF FaultType, Reset
  <2>2. LinkType' /\ ReadType' /\ WriteType' /\ SenderType' /\ Held'
    BY <1>3, Unchanged DEF Reset, writeVars, senderVars
  <2> QED
    BY <2>1, <2>2, TypePartsNext
<1>4. CASE Stall(c)
  <2>1. FaultType'
    BY <1>4, TypeParts DEF FaultType, Stall
  <2>2. LinkType' /\ ReadType' /\ WriteType' /\ SenderType' /\ Held'
    BY <1>4, Unchanged DEF Stall, writeVars, senderVars
  <2> QED
    BY <2>1, <2>2, TypePartsNext
<1> QED
  BY <1>1, <1>2, <1>3, <1>4 DEF Network

\* A turn of the read loop keeps the types.
LEMMA TurnType ==
  ASSUME TypeOK, Known, NEW c \in Conn, Turn(c)
  PROVE  TypeOK'
<1> DEFINE frame == Decode(buffer[c])
<1>1. LinkType /\ ReadType
  BY TypeParts
<1>2. buffer[c] \in Seq(Nat) /\ wire[c] \in Seq(Nat)
  BY <1>1 DEF ReadType, Byte
<1>3. frame.size \in 0 .. Len(buffer[c])
  BY <1>2, FrameInBuffer
<1>4. status[c] = "running" /\ UNCHANGED <<writeVars, faultVars, senderVars>>
  BY DEF Turn
<1>5. Read(c, frame) \/ Hear(c, frame) \/ HearKeepalive(c, frame)
        \/ ReadFails(c, frame) \/ EndOfStream(c, frame)
  BY DEF Turn
<1> HIDE DEF frame
<1>6. From(buffer[c], frame.size) \in Seq(Nat)
  BY <1>2, <1>3, Rest
<1>7. ASSUME Read(c, frame) PROVE ReadType'
  <2>1. PICK n \in 1 .. Len(wire[c]) :
            /\ buffer' = [buffer EXCEPT ![c] = @ \o SubSeq(wire[c], 1, n)]
            /\ wire' = [wire EXCEPT ![c] = From(@, n)]
    BY <1>7 DEF Read
  <2>2. SubSeq(wire[c], 1, n) \in Seq(Nat) /\ From(wire[c], n) \in Seq(Nat)
    BY <1>2, <2>1, Rest
  <2>3. buffer[c] \o SubSeq(wire[c], 1, n) \in Seq(Nat)
    BY <1>2, <2>2
  <2>4. ReadType'
    BY <1>1, <1>7, <2>1, <2>2, <2>3 DEF ReadType, Read, Byte
  <2> QED
    BY <2>4
<1>8. ASSUME Hear(c, frame) PROVE ReadType'
  <2>1. SubSeq(buffer[c], 1, frame.size) \in Seq(Nat)
    BY <1>2, <1>3
  <2>2. heard[c] \in Seq(Seq(Nat))
    BY <1>1 DEF ReadType, Byte
  <2>3. Append(heard[c], SubSeq(buffer[c], 1, frame.size)) \in Seq(Seq(Nat))
    BY <2>1, <2>2
  <2>4. ReadType'
    BY <1>1, <1>6, <1>8, <2>3 DEF ReadType, Hear, Consume, Byte
  <2> QED
    BY <2>4
<1>9. ASSUME HearKeepalive(c, frame) PROVE ReadType'
  <2>1. (frame.kind = "ping") \in BOOLEAN
    OBVIOUS
  <2>2. answering' \in [Conn -> BOOLEAN]
    BY <1>1, <1>9, <2>1, Zenon DEF ReadType, HearKeepalive
  <2>3. ReadType'
    BY <1>1, <1>6, <1>9, <2>2 DEF ReadType, HearKeepalive, Consume, Byte
  <2> QED
    BY <2>3
<1>10. Broken(c) => LinkType' /\ ReadType'
  BY BrokenType
<1>11. Closed(c) => LinkType' /\ ReadType'
  BY <1>4, ClosedType
<1>12. LinkType' /\ ReadType'
  <2>1. Read(c, frame) \/ Hear(c, frame) \/ HearKeepalive(c, frame) => LinkType'
    BY Unchanged DEF Read, Hear, HearKeepalive
  <2>2. ReadFails(c, frame) \/ EndOfStream(c, frame) => Broken(c) \/ Closed(c)
    BY DEF ReadFails, EndOfStream
  <2> QED
    BY <1>5, <1>7, <1>8, <1>9, <1>10, <1>11, <2>1, <2>2
<1>13. WriteType' /\ FaultType' /\ SenderType' /\ Held'
  BY <1>4, Unchanged DEF writeVars, senderVars
<1> QED
  BY <1>12, <1>13, TypePartsNext

\* What is written keeps the types.
LEMMA PutType ==
  ASSUME TypeOK, NEW c \in Conn, NEW w \in Writer, NEW part \in {"first", "rest"},
         Put(c, w, part)
  PROVE  out' \in [Conn -> Seq(Part)]
<1>1. out \in [Conn -> Seq(Part)]
  BY TypeParts DEF WriteType
<1>2. [by |-> w, part |-> part] \in Part
  BY DEF Part
<1>3. Append(out[c], [by |-> w, part |-> part]) \in Seq(Part)
  BY <1>1, <1>2
<1> QED
  BY <1>1, <1>3 DEF Put

\* Every step of a read task keeps the types.
LEMMA ReaderType ==
  ASSUME TypeOK, Known, NEW c \in Conn, Reader(c)
  PROVE  TypeOK'
<1>1. CASE Register(c)
  <2>1. LinkType'
    BY <1>1, TypeParts DEF LinkType, Register, Registered, Status, Link
  <2>2. ReadType' /\ WriteType' /\ FaultType' /\ SenderType' /\ Held'
    BY <1>1, Unchanged DEF Register, writeVars, senderVars
  <2> QED
    BY <2>1, <2>2, TypePartsNext
<1>2. CASE WsEnds(c)
  <2>1. LinkType' /\ ReadType'
    BY <1>2, ClosedType, BrokenType DEF WsEnds
  <2>2. WriteType' /\ FaultType' /\ SenderType' /\ Held'
    BY <1>2, Unchanged DEF WsEnds, writeVars, senderVars
  <2> QED
    BY <2>1, <2>2, TypePartsNext
<1>3. CASE Turn(c)
  BY <1>3, TurnType
<1>4. CASE StartAnswer(c)
  <2>1. Put(c, ReadTask, "first") /\ lock' = [lock EXCEPT ![c] = ReadTask]
    BY <1>4 DEF StartAnswer
  <2>2. WriteType'
    BY <2>1, PutType, TypeParts DEF WriteType, Writer
  <2>3. Held'
    BY <2>1, TypeParts, <1>4 DEF Held, WriteType, StartAnswer, senderVars
  <2>4. LinkType' /\ ReadType' /\ FaultType' /\ SenderType'
    BY <1>4, Unchanged DEF StartAnswer, senderVars
  <2> QED
    BY <2>2, <2>3, <2>4, TypePartsNext
<1>5. CASE FinishAnswer(c)
  <2>1. Put(c, ReadTask, "rest") /\ lock' = [lock EXCEPT ![c] = Nobody]
    BY <1>5 DEF FinishAnswer
  <2>2. WriteType'
    BY <2>1, PutType, TypeParts DEF WriteType, Writer
  <2>3. Held'
    BY <2>1, TypeParts, <1>5 DEF Held, WriteType, FinishAnswer, senderVars
  <2>4. ReadType'
    BY <1>5, TypeParts DEF ReadType, FinishAnswer
  <2>5. LinkType' /\ FaultType' /\ SenderType'
    BY <1>5, Unchanged DEF FinishAnswer, senderVars
  <2> QED
    BY <2>2, <2>3, <2>4, <2>5, TypePartsNext
<1>6. CASE AnswerFails(c)
  <2>1. LinkType' /\ ReadType'
    BY <1>6, BrokenType DEF AnswerFails
  <2>2. WriteType' /\ Held'
    BY <1>6, TypeParts DEF AnswerFails, WriteType, Held, senderVars
  <2>3. FaultType' /\ SenderType'
    BY <1>6, Unchanged DEF AnswerFails
  <2> QED
    BY <2>1, <2>2, <2>3, TypePartsNext
<1> QED
  BY <1>1, <1>2, <1>3, <1>4, <1>5, <1>6 DEF Reader

\* The steps of the senders.
LEMMA ReturnedType ==
  ASSUME TypeOK, NEW u \in Sender, NEW ok \in BOOLEAN, Returned(u, ok)
  PROVE  /\ SenderType'
         /\ \A v \in Sender \ {u} : task'[v] = task[v] /\ via'[v] = via[v]
         /\ task'[u] \notin {"holding", "writing"}
<1>1. SenderType /\ <<>> \in Seq([addr : Peer, proto : Proto])
  BY TypeParts
<1>2. CASE ok \/ kind[u] = "request"
  <2>1. /\ task' = [task EXCEPT ![u] = "ended"]
        /\ kind' = [kind EXCEPT ![u] = "none"]
        /\ todo' = [todo EXCEPT ![u] = <<>>]
        /\ via' = [via EXCEPT ![u] = Nobody]
    BY <1>2 DEF Returned, Ends
  <2> QED
    BY <1>1, <2>1 DEF SenderType, Task
<1>3. CASE ~(ok \/ kind[u] = "request")
  <2>1. /\ task' = [task EXCEPT ![u] =
                IF kind[u] = "reply" THEN "resolving" ELSE "choosing"]
        /\ kind' = [kind EXCEPT ![u] = "response"]
        /\ via' = [via EXCEPT ![u] = Nobody]
        /\ todo' = todo
    BY <1>3 DEF Returned
  <2> QED
    BY <1>1, <2>1 DEF SenderType, Task
<1> QED
  BY <1>2, <1>3

\* A sender that was not writing holds nothing before or after.
LEMMA HeldKept ==
  ASSUME TypeOK, NEW u \in Sender, task[u] # "writing", lock' = lock,
         \A v \in Sender \ {u} : task'[v] = task[v] /\ via'[v] = via[v]
  PROVE  Held'
<1>1. Held /\ WriteType
  BY TypeParts
<1>2. ASSUME NEW c \in Conn, lock[c] \in Sender
      PROVE  task'[lock[c]] = "writing" /\ via'[lock[c]] = c
  <2>1. task[lock[c]] = "writing" /\ via[lock[c]] = c
    BY <1>1, <1>2 DEF Held
  <2>2. lock[c] \in Sender \ {u}
    BY <1>1, <1>2, <2>1 DEF WriteType
  <2> QED
    BY <2>1, <2>2
<1> QED
  BY <1>2 DEF Held

\* A send that starts keeps the types.
LEMMA StartType ==
  ASSUME TypeOK, NEW u \in Sender, Start(u)
  PROVE  TypeOK'
<1>1. SenderType
  BY TypeParts
<1>2. CASE SendRequest(u)
  <2>1. SenderType'
    BY <1>1, <1>2 DEF SenderType, SendRequest, Task
  <2>2. Held'
    BY <1>1, <1>2, HeldKept DEF SendRequest, writeVars, SenderType
  <2>3. LinkType' /\ ReadType' /\ WriteType' /\ FaultType'
    BY <1>2, Unchanged DEF SendRequest
  <2> QED
    BY <2>1, <2>2, <2>3, TypePartsNext
<1>3. CASE \E l \in Link : SendResponse(u, l)
  <2>1. PICK l \in Link : SendResponse(u, l)
    BY <1>3
  <2>2. SenderType'
    BY <1>1, <2>1 DEF SenderType, SendResponse, Task
  <2>3. Held'
    BY <1>1, <2>1, HeldKept DEF SendResponse, writeVars, SenderType
  <2>4. LinkType' /\ ReadType' /\ WriteType' /\ FaultType'
    BY <2>1, Unchanged DEF SendResponse
  <2> QED
    BY <2>2, <2>3, <2>4, TypePartsNext
<1> QED
  BY <1>2, <1>3 DEF Start

\* The choice of a transport keeps the types.
LEMMA ChoiceType ==
  ASSUME TypeOK, NEW u \in Sender,
         \/ \E route \in Routes \cup {<<>>} : Resolve(u, route)
         \/ Select(u)
         \/ Refused(u)
         \/ NoTransport(u)
  PROVE  TypeOK'
<1>1. SenderType /\ LinkType
  BY TypeParts
<1>2. CASE \E route \in Routes \cup {<<>>} : Resolve(u, route)
  <2>1. PICK route \in Routes \cup {<<>>} : Resolve(u, route)
    BY <1>2
  <2>2. route \in Seq([addr : Peer, proto : Proto])
    <3>1. <<>> \in Seq([addr : Peer, proto : Proto])
      OBVIOUS
    <3> QED
      BY <3>1
  <2>3. SenderType'
    BY <1>1, <2>1, <2>2 DEF SenderType, Resolve, Task
  <2>4. Held'
    BY <1>1, <2>1, HeldKept DEF Resolve, writeVars, SenderType
  <2>5. LinkType' /\ ReadType' /\ WriteType' /\ FaultType'
    BY <2>1, Unchanged DEF Resolve
  <2> QED
    BY <2>3, <2>4, <2>5, TypePartsNext
<1>3. CASE Select(u)
  <2> DEFINE a == Head(todo[u])
             l == Lookup(a)
             connects == l = Nobody /\ a.proto # "udp"
  <2>1. /\ via' = [via EXCEPT ![u] = l]
        /\ task' = [task EXCEPT ![u] =
                CASE l # Nobody -> "holding"
                  [] connects -> "connecting"
                  [] OTHER -> "choosing"]
        /\ todo' = [todo EXCEPT ![u] = IF connects THEN @ ELSE Tail(@)]
        /\ task[u] = "choosing" /\ todo[u] # <<>> /\ kind' = kind
        /\ UNCHANGED <<linkVars, readVars, writeVars, faultVars>>
    BY <1>3 DEF Select
  <2>2. a \in [addr : Peer, proto : Proto]
        /\ Tail(todo[u]) \in Seq([addr : Peer, proto : Proto])
    <3>1. todo[u] \in Seq([addr : Peer, proto : Proto]) /\ todo[u] # <<>>
      BY <1>1, <2>1 DEF SenderType
    <3> QED
      BY <3>1, HeadTailProperties
  <2>3. a \in Key
    BY <2>2 DEF Key
  <2>4. l \in Link \cup {Nobody}
    BY <1>1, <2>3 DEF Lookup, LinkType, Link
  <2> HIDE DEF a, l, connects
  <2>5. SenderType'
    <3>1. todo' \in [Sender -> Seq([addr : Peer, proto : Proto])]
      BY <1>1, <2>1, <2>2 DEF SenderType
    <3>2. task' \in [Sender -> Task]
      BY <1>1, <2>1 DEF SenderType, Task
    <3>3. via' \in [Sender -> Link \cup {Nobody}]
      BY <1>1, <2>1, <2>4 DEF SenderType
    <3>4. kind' \in [Sender -> {"none", "request", "reply", "response"}]
      BY <1>1, <2>1 DEF SenderType
    <3>5. task'[u] \in {"holding", "writing"} => via'[u] \in Link
      <4>1. l # Nobody \/ task'[u] \in {"connecting", "choosing"}
        BY <1>1, <2>1 DEF SenderType
      <4>2. via'[u] = l
        BY <1>1, <2>1 DEF SenderType
      <4> QED
        BY <2>4, <4>1, <4>2
    <3>6. \A v \in Sender \ {u} : task'[v] = task[v] /\ via'[v] = via[v]
      BY <1>1, <2>1 DEF SenderType
    <3>7. task'[u] = "connecting" => todo'[u] # <<>>
      <4>1. task'[u] = "connecting" => connects
        BY <1>1, <2>1 DEF SenderType
      <4>2. connects => todo'[u] = todo[u]
        BY <1>1, <2>1 DEF SenderType
      <4> QED
        BY <2>1, <4>1, <4>2
    <3>8. \A v \in Sender \ {u} : todo'[v] = todo[v]
      BY <1>1, <2>1 DEF SenderType
    <3> QED
      BY <1>1, <3>1, <3>2, <3>3, <3>4, <3>5, <3>6, <3>7, <3>8 DEF SenderType
  <2>6. Held'
    BY <1>1, <2>1, HeldKept DEF writeVars, SenderType
  <2>7. LinkType' /\ ReadType' /\ WriteType' /\ FaultType'
    BY <2>1, Unchanged
  <2> QED
    BY <2>5, <2>6, <2>7, TypePartsNext
<1>4. CASE Refused(u)
  <2>1. SenderType'
    <3>1. todo' \in [Sender -> Seq([addr : Peer, proto : Proto])]
      <4>1. Tail(todo[u]) \in Seq([addr : Peer, proto : Proto])
        <5>1. todo[u] \in Seq([addr : Peer, proto : Proto]) /\ todo[u] # <<>>
          BY <1>1, <1>4 DEF SenderType, Refused
        <5> QED
          BY <5>1
      <4> QED
        BY <1>1, <1>4, <4>1 DEF SenderType, Refused
    <3> QED
      BY <1>1, <1>4, <3>1 DEF SenderType, Refused, Task
  <2>2. Held'
    BY <1>1, <1>4, HeldKept DEF Refused, writeVars, SenderType
  <2>3. LinkType' /\ ReadType' /\ WriteType' /\ FaultType'
    BY <1>4, Unchanged DEF Refused
  <2> QED
    BY <2>1, <2>2, <2>3, TypePartsNext
<1>5. CASE NoTransport(u)
  <2>1. SenderType'
    <3>1. <<>> \in Seq([addr : Peer, proto : Proto])
      OBVIOUS
    <3> QED
      BY <1>1, <1>5, <3>1 DEF SenderType, NoTransport, Ends, Task
  <2>2. Held'
    BY <1>1, <1>5, HeldKept DEF NoTransport, Ends, writeVars, SenderType
  <2>3. LinkType' /\ ReadType' /\ WriteType' /\ FaultType'
    BY <1>5, Unchanged DEF NoTransport
  <2> QED
    BY <2>1, <2>2, <2>3, TypePartsNext
<1> QED
  BY <1>2, <1>3, <1>4, <1>5

\* A connection that was asked for keeps the types.
LEMMA ConnectedType ==
  ASSUME TypeOK, NEW u \in Sender, NEW c \in Conn, Connected(u, c)
  PROVE  TypeOK'
<1>1. SenderType
  BY TypeParts
<1>2. PICK protocol \in {"tcp", "ws"} : Established(c, "out", protocol)
  BY DEF Connected
<1>3. LinkType' /\ ReadType' /\ WriteType' /\ FaultType'
  BY <1>2, EstablishedType
<1>4. SenderType'
  <2>1. todo[u] \in Seq([addr : Peer, proto : Proto]) /\ todo[u] # <<>>
    BY <1>1 DEF SenderType, Connected
  <2>2. Tail(todo[u]) \in Seq([addr : Peer, proto : Proto])
    BY <2>1
  <2> QED
    BY <1>1, <2>2 DEF SenderType, Connected, Task, Link
<1>5. Held'
  BY <1>1, <1>2, HeldKept DEF Connected, Established, writeVars, SenderType
<1> QED
  BY <1>3, <1>4, <1>5, TypePartsNext

\* The steps of a writer keep the types.
LEMMA WriteStepType ==
  ASSUME TypeOK, NEW u \in Sender,
         \/ StartWrite(u)
         \/ FinishWrite(u)
         \/ WriteFails(u)
         \/ \E ok \in BOOLEAN : SendWhole(u, ok)
  PROVE  TypeOK'
<1>1. SenderType /\ WriteType /\ Held
  BY TypeParts
<1>2. CASE StartWrite(u)
  <2>1. SenderType'
    BY <1>1, <1>2 DEF SenderType, StartWrite, Task
  <2>2. WriteType'
    <3>1. via[u] \in Conn /\ u \in Writer
      BY <1>2 DEF StartWrite, On, Writer
    <3> QED
      BY <1>1, <1>2, <3>1, PutType DEF WriteType, StartWrite, Writer
  <2>3. Held'
    <3>1. ASSUME NEW c \in Conn, lock'[c] \in Sender
          PROVE  task'[lock'[c]] = "writing" /\ via'[lock'[c]] = c
      <4>1. CASE c = via[u]
        BY <1>1, <1>2, <4>1 DEF SenderType, WriteType, StartWrite
      <4>2. CASE c # via[u]
        <5>1. lock'[c] = lock[c] /\ lock[c] \in Sender
          BY <1>1, <1>2, <3>1, <4>2 DEF WriteType, StartWrite
        <5>2. task[lock[c]] = "writing" /\ via[lock[c]] = c
          BY <1>1, <3>1, <5>1 DEF Held
        <5> QED
          BY <1>1, <1>2, <5>1, <5>2 DEF SenderType, StartWrite
      <4> QED
        BY <4>1, <4>2
    <3> QED
      BY <3>1 DEF Held
  <2>4. LinkType' /\ ReadType' /\ FaultType'
    BY <1>2, Unchanged DEF StartWrite
  <2> QED
    BY <2>1, <2>2, <2>3, <2>4, TypePartsNext
<1>3. ASSUME NEW ok \in BOOLEAN, Returned(u, ok),
             \/ lock' = [lock EXCEPT ![via[u]] = Nobody]
             \/ lock' = lock /\ task[u] # "writing"
      PROVE  Held'
  <2>1. ASSUME NEW c \in Conn, lock'[c] \in Sender
        PROVE  task'[lock'[c]] = "writing" /\ via'[lock'[c]] = c
    <3>1. lock'[c] = lock[c] /\ lock[c] \in Sender
      BY <1>1, <1>3, <2>1 DEF WriteType
    <3>2. task[lock[c]] = "writing" /\ via[lock[c]] = c
      BY <1>1, <2>1, <3>1 DEF Held
    <3>3. lock[c] # u
      <4>1. lock[c] = u => lock' = [lock EXCEPT ![c] = Nobody]
        BY <1>3, <3>2
      <4>2. lock[c] = u => lock'[c] = Nobody
        BY <1>1, <4>1 DEF WriteType
      <4> QED
        BY <2>1, <4>2
    <3>4. task'[lock[c]] = task[lock[c]] /\ via'[lock[c]] = via[lock[c]]
      BY <1>3, <3>1, <3>3, ReturnedType
    <3> QED
      BY <3>1, <3>2, <3>4
  <2> QED
    BY <2>1 DEF Held
<1>4. CASE FinishWrite(u)
  <2>1. Returned(u, TRUE) /\ lock' = [lock EXCEPT ![via[u]] = Nobody]
        /\ Put(via[u], u, "rest") /\ UNCHANGED <<linkVars, readVars, faultVars>>
    BY <1>4 DEF FinishWrite
  <2>2. SenderType' /\ Held'
    BY <1>3, <2>1, ReturnedType
  <2>3. WriteType'
    <3>1. CASE via[u] \in Conn
      BY <1>1, <2>1, <3>1, PutType DEF WriteType, Writer
    <3>2. CASE via[u] \notin Conn
      BY <1>1, <2>1, <3>2 DEF WriteType, Put
    <3> QED
      BY <3>1, <3>2
  <2>4. LinkType' /\ ReadType' /\ FaultType'
    BY <2>1, Unchanged
  <2> QED
    BY <2>2, <2>3, <2>4, TypePartsNext
<1>5. CASE WriteFails(u)
  <2>1. Returned(u, FALSE) /\ lock' = [lock EXCEPT ![via[u]] = Nobody]
        /\ out' = out /\ UNCHANGED <<linkVars, readVars, faultVars>>
    BY <1>5 DEF WriteFails
  <2>2. SenderType' /\ Held'
    BY <1>3, <2>1, ReturnedType
  <2>3. WriteType'
    BY <1>1, <2>1 DEF WriteType
  <2>4. LinkType' /\ ReadType' /\ FaultType'
    BY <2>1, Unchanged
  <2> QED
    BY <2>2, <2>3, <2>4, TypePartsNext
<1>6. CASE \E ok \in BOOLEAN : SendWhole(u, ok)
  <2>1. PICK ok \in BOOLEAN : SendWhole(u, ok)
    BY <1>6
  <2>2. /\ Returned(u, ok) /\ task[u] = "holding"
        /\ UNCHANGED <<linkVars, readVars, writeVars, faultVars>>
    BY <2>1 DEF SendWhole
  <2>3. SenderType' /\ Held'
    BY <1>3, <2>2, ReturnedType DEF writeVars
  <2>4. LinkType' /\ ReadType' /\ WriteType' /\ FaultType'
    BY <2>2, Unchanged
  <2> QED
    BY <2>3, <2>4, TypePartsNext
<1> QED
  BY <1>2, <1>4, <1>5, <1>6

\* Every step keeps the types.
LEMMA NextType ==
  ASSUME TypeOK, Known, Next
  PROVE  TypeOK'
<1>1. ASSUME NEW c \in Conn, Network(c) PROVE TypeOK'
  BY <1>1, NetworkType
<1>2. ASSUME NEW c \in Conn, Reader(c) PROVE TypeOK'
  BY <1>2, ReaderType
<1>3. ASSUME NEW u \in Sender, Start(u) PROVE TypeOK'
  BY <1>3, StartType
<1>4. ASSUME NEW u \in Sender, Send(u) PROVE TypeOK'
  <2>1. CASE \/ \E route \in Routes \cup {<<>>} : Resolve(u, route)
             \/ Select(u) \/ Refused(u) \/ NoTransport(u)
    BY <2>1, ChoiceType
  <2>2. CASE \E c \in Conn : Connected(u, c)
    BY <2>2, ConnectedType
  <2>3. CASE \/ StartWrite(u) \/ FinishWrite(u) \/ WriteFails(u)
             \/ \E ok \in BOOLEAN : SendWhole(u, ok)
    BY <2>3, WriteStepType
  <2> QED
    BY <1>4, <2>1, <2>2, <2>3 DEF Send
<1>5. CASE Quiet
  BY <1>5, TypePartsNext, Unchanged
    DEF Quiet, vars, writeVars, senderVars
<1> QED
  BY <1>1, <1>2, <1>3, <1>4, <1>5 DEF Next

\* The types hold at the start.
LEMMA InitType ==
  ASSUME Init
  PROVE  TypeOK
<1>1. LinkType
  BY DEF Init, LinkType, Link, Status
<1>2. ReadType
  BY DEF Init, ReadType, Byte
<1>3. WriteType
  BY DEF Init, WriteType
<1>4. FaultType
  BY DEF Init, FaultType
<1>5. SenderType
  BY DEF Init, SenderType, Task
<1>6. Held
  BY DEF Init, Held
<1> QED
  BY <1>1, <1>2, <1>3, <1>4, <1>5, <1>6, TypeParts

-----------------------------------------------------------------------------
(* The registry. *)

\* What a step may do to the connections and the registry.
LinkStep(c) ==
    \/ \E s \in {"in", "out"}, protocol \in {"tcp", "ws"} :
        Established(c, s, protocol)
    \/ Register(c)
    \/ status[c] = "running" /\ (Closed(c) \/ Broken(c))

\* The steps, as far as they change the registry or a connection.
LEMMA LinkSteps ==
  ASSUME Known, Next
  PROVE  \/ \E c \in Conn : LinkStep(c)
         \/ /\ UNCHANGED linkVars
            /\ \A c \in Conn : answering'[c] => answering[c] \/ status[c] = "running"
<1> DEFINE Kept == /\ UNCHANGED linkVars
                   /\ \A c \in Conn :
                        answering'[c] => answering[c] \/ status[c] = "running"
<1>1. ASSUME NEW c \in Conn, Network(c) PROVE LinkStep(c) \/ Kept
  <2>1. CASE \E protocol \in {"tcp", "ws"} : Accept(c, protocol)
    BY <2>1 DEF Accept, LinkStep
  <2>2. CASE HangUp(c) \/ Reset(c) \/ Stall(c)
    BY <2>2 DEF HangUp, Reset, Stall, readVars
  <2> QED
    BY <1>1, <2>1, <2>2 DEF Network
<1>2. ASSUME NEW c \in Conn, Reader(c) PROVE LinkStep(c) \/ Kept
  <2>1. CASE Register(c)
    BY <2>1 DEF LinkStep
  <2>2. CASE WsEnds(c)
    BY <2>2 DEF WsEnds, LinkStep
  <2>3. CASE Turn(c)
    <3> DEFINE frame == Decode(buffer[c])
    <3>1. status[c] = "running"
          /\ (Read(c, frame) \/ Hear(c, frame) \/ HearKeepalive(c, frame)
                \/ ReadFails(c, frame) \/ EndOfStream(c, frame))
      BY <2>3 DEF Turn
    <3> HIDE DEF frame
    <3>2. CASE ReadFails(c, frame) \/ EndOfStream(c, frame)
      BY <3>1, <3>2 DEF ReadFails, EndOfStream, LinkStep
    <3>3. CASE Read(c, frame) \/ Hear(c, frame)
      BY <3>3 DEF Read, Hear
    <3>4. CASE HearKeepalive(c, frame)
      <4>1. UNCHANGED linkVars
        BY <3>4 DEF HearKeepalive
      <4>2. \A d \in Conn : d # c => answering'[d] = answering[d]
        BY <3>4 DEF HearKeepalive
      <4> QED
        BY <3>1, <4>1, <4>2
    <3> QED
      BY <3>1, <3>2, <3>3, <3>4
  <2>4. CASE StartAnswer(c)
    BY <2>4 DEF StartAnswer, readVars
  <2>5. CASE FinishAnswer(c)
    <3>1. \A d \in Conn : d # c => answering'[d] = answering[d]
      BY <2>5 DEF FinishAnswer
    <3> QED
      BY <2>5, <3>1 DEF FinishAnswer
  <2>6. CASE AnswerFails(c)
    BY <2>6 DEF AnswerFails, LinkStep, Known
  <2> QED
    BY <1>2, <2>1, <2>2, <2>3, <2>4, <2>5, <2>6 DEF Reader
<1>3. ASSUME NEW u \in Sender, Start(u) PROVE Kept
  BY <1>3 DEF Start, SendRequest, SendResponse, readVars
<1>4. ASSUME NEW u \in Sender, Send(u) PROVE Kept \/ \E c \in Conn : LinkStep(c)
  <2>1. CASE \E c \in Conn : Connected(u, c)
    BY <2>1 DEF Connected, LinkStep
  <2>2. CASE \/ \E route \in Routes \cup {<<>>} : Resolve(u, route)
             \/ Select(u) \/ Refused(u) \/ NoTransport(u)
    BY <2>2 DEF Resolve, Select, Refused, NoTransport, readVars
  <2>3. CASE \/ StartWrite(u) \/ FinishWrite(u) \/ WriteFails(u)
             \/ \E ok \in BOOLEAN : SendWhole(u, ok)
    BY <2>3 DEF StartWrite, FinishWrite, WriteFails, SendWhole, readVars
  <2> QED
    BY <1>4, <2>1, <2>2, <2>3 DEF Send
<1>5. CASE Quiet
  BY <1>5 DEF Quiet, vars, readVars
<1> QED
  BY <1>1, <1>2, <1>3, <1>4, <1>5 DEF Next

\* A step changes the status, the side and the protocol of one connection.
LEMMA LinkEffect ==
  ASSUME TypeOK, Known, NEW c \in Conn, LinkStep(c)
  PROVE  /\ \A d \in Conn \ {c} :
                /\ status'[d] = status[d] /\ side'[d] = side[d]
                /\ proto'[d] = proto[d] /\ answering'[d] = answering[d]
                /\ OwnKey(d)' = OwnKey(d)
         /\ side'[c] \in {"in", "out"} /\ proto'[c] \in {"tcp", "ws"}
         /\ status'[c] \in Status \ {"unused"}
         /\ answering'[c] => status'[c] = "running"
<1>1. LinkType /\ ReadType
  BY TypeParts
<1>2. CASE \E s \in {"in", "out"}, protocol \in {"tcp", "ws"} :
            Established(c, s, protocol)
  BY <1>1, <1>2 DEF Known, LinkType, ReadType, Established, OwnKey, Status
<1>3. CASE Register(c)
  BY <1>1, <1>3 DEF Known, LinkType, ReadType, Register, readVars, OwnKey, Status
<1>4. CASE status[c] = "running" /\ (Closed(c) \/ Broken(c))
  BY <1>1, <1>4 DEF Known, LinkType, ReadType, Closed, Broken, ReaderGone,
                    OwnKey, Status
<1> QED
  BY <1>2, <1>3, <1>4 DEF LinkStep

\* Every step keeps what is known of a connection in use.
LEMMA KnownStep ==
  ASSUME TypeOK, Known, Next
  PROVE  Known'
<1>1. ASSUME NEW c \in Conn, LinkStep(c) PROVE Known'
  BY <1>1, LinkEffect DEF Known
<1>2. ASSUME UNCHANGED linkVars,
             \A c \in Conn : answering'[c] => answering[c] \/ status[c] = "running"
      PROVE  Known'
  BY <1>2 DEF Known, linkVars
<1> QED
  BY <1>1, <1>2, LinkSteps

\* The keys of connections that are in use.
LEMMA Keys ==
  ASSUME TypeOK, Known, NEW c \in Conn, status[c] # "unused"
  PROVE  /\ OwnKey(c) \in Key
         /\ side[c] \in {"in", "out"}
         /\ side[c] = "out" => OwnKey(c).addr = c
         /\ side[c] = "in" => OwnKey(c).addr = Here
<1>1. side[c] \in {"in", "out"} /\ proto[c] \in {"tcp", "ws"}
  BY TypeParts DEF LinkType, Known
<1> QED
  BY <1>1 DEF OwnKey, KeyOf, Local, Key, Proto

\* The key under which a step leaves a connection, by its side.
LEMMA KeysNext ==
  ASSUME TypeOK, Known, NEW c \in Conn, LinkStep(c)
  PROVE  /\ OwnKey(c)' \in Key
         /\ side'[c] \in {"in", "out"}
         /\ side'[c] = "out" => OwnKey(c)'.addr = c
         /\ side'[c] = "in" => OwnKey(c)'.addr = Here
<1>1. side'[c] \in {"in", "out"} /\ proto'[c] \in {"tcp", "ws"}
  BY LinkEffect
<1> QED
  BY <1>1 DEF OwnKey, KeyOf, Local, Key, Proto

\* What a step does to the registry.
LEMMA RegistryEffect ==
  ASSUME TypeOK, Known, NEW c \in Conn, LinkStep(c)
  PROVE  /\ status[c] # "unused" =>
                side'[c] = side[c] /\ OwnKey(c)' = OwnKey(c)
         /\ \/ /\ registry' = [registry EXCEPT ![OwnKey(c)'] = c]
               /\ status[c] \in {"unused", "fresh"} /\ status'[c] = "running"
            \/ /\ registry' = [registry EXCEPT ![OwnKey(c)'] = Nobody]
               /\ status[c] = "running" /\ status'[c] = "closed"
            \/ /\ registry' = registry
               /\ status[c] = "unused" /\ status'[c] = "fresh"
            \/ /\ registry' = registry
               /\ status[c] = "running" /\ status'[c] = "broken"
<1>1. LinkType
  BY TypeParts
<1>2. ASSUME NEW s \in {"in", "out"}, NEW protocol \in {"tcp", "ws"},
             Established(c, s, protocol)
      PROVE  \/ /\ registry' = [registry EXCEPT ![OwnKey(c)'] = c]
                /\ status[c] = "unused" /\ status'[c] = "running"
             \/ /\ registry' = registry
                /\ status[c] = "unused" /\ status'[c] = "fresh"
  <2>1. status[c] = "unused" /\ side'[c] = s /\ proto'[c] = protocol
    BY <1>1, <1>2 DEF LinkType, Established
  <2>2. OwnKey(c)' = KeyOf(Local(c, s), protocol)
    BY <2>1 DEF OwnKey, KeyOf, Local
  <2>3. CASE protocol = "tcp"
    BY <1>1, <1>2, <2>1, <2>2, <2>3 DEF LinkType, Established, Registered
  <2>4. CASE protocol = "ws"
    BY <1>1, <1>2, <2>1, <2>4 DEF LinkType, Established
  <2> QED
    BY <2>3, <2>4
<1>3. CASE Register(c)
  <2>1. side' = side /\ OwnKey(c)' = OwnKey(c)
    BY <1>3 DEF Register, OwnKey
  <2> QED
    BY <1>1, <1>3, <2>1 DEF LinkType, Register, Registered
<1>4. CASE status[c] = "running" /\ Closed(c)
  <2>1. side' = side /\ OwnKey(c)' = OwnKey(c)
    BY <1>4 DEF Closed, OwnKey
  <2> QED
    BY <1>1, <1>4, <2>1 DEF LinkType, Closed, Registered
<1>5. CASE status[c] = "running" /\ Broken(c)
  <2>1. side' = side /\ OwnKey(c)' = OwnKey(c)
    BY <1>5 DEF Broken, OwnKey
  <2> QED
    BY <1>1, <1>5, <2>1 DEF LinkType, Broken
<1> QED
  BY <1>2, <1>3, <1>4, <1>5 DEF LinkStep

\* Every step keeps the invariant of the registry.
LEMMA RegistryStep ==
  ASSUME TypeOK, Known, RegistryTracksConnections,
         NEW c \in Conn, LinkStep(c)
  PROVE  RegistryTracksConnections'
<1>1. registry \in [Key -> Link \cup {Nobody}]
  BY TypeParts DEF LinkType
<1>2. Nobody \notin Conn
  BY DEF Link
<1>3. ASSUME NEW k \in Key, NEW d \in Conn, registry'[k] = d
      PROVE  OwnKey(d)' = k /\ status'[d] \in {"running", "broken"}
  <2>1. CASE registry[k] = d
    <3>1. OwnKey(d) = k /\ status[d] \in {"running", "broken"}
      BY <2>1 DEF RegistryTracksConnections
    <3>2. CASE d # c
      BY <3>1, <3>2, LinkEffect
    <3>3. CASE d = c
      <4>1. OwnKey(c)' = k
        BY <3>1, <3>3, RegistryEffect
      <4>2. status'[c] # "closed"
        <5>1. status'[c] = "closed" =>
                registry' = [registry EXCEPT ![k] = Nobody]
          BY <4>1, RegistryEffect
        <5> QED
          BY <1>1, <1>2, <1>3, <5>1
      <4>3. status'[c] \in {"running", "broken"}
        BY <3>1, <3>3, <4>2, RegistryEffect
      <4> QED
        BY <3>3, <4>1, <4>3
    <3> QED
      BY <3>2, <3>3
  <2>2. CASE registry[k] # d
    <3>1. \/ registry' = [registry EXCEPT ![OwnKey(c)'] = c] /\ status'[c] = "running"
          \/ registry' = [registry EXCEPT ![OwnKey(c)'] = Nobody]
      BY <1>3, <2>2, RegistryEffect
    <3>2. k = OwnKey(c)'
      BY <1>1, <1>3, <2>2, <3>1
    <3>3. d = c /\ status'[c] = "running"
      BY <1>1, <1>2, <1>3, <3>1, <3>2
    <3> QED
      BY <3>2, <3>3
  <2> QED
    BY <2>1, <2>2
<1>4. ASSUME NEW d \in Conn, status'[d] = "running", registry'[OwnKey(d)'] # d
      PROVE  \E e \in Conn \ {d} : side'[e] = "in" /\ OwnKey(e)' = OwnKey(d)'
  <2>1. d # c
    <3>1. status'[c] = "running" =>
            registry' = [registry EXCEPT ![OwnKey(c)'] = c]
      BY RegistryEffect
    <3>2. status'[c] = "running" => registry'[OwnKey(c)'] = c
      BY <1>1, <3>1, KeysNext
    <3> QED
      BY <1>4, <3>2
  <2>2. status[d] = "running" /\ OwnKey(d)' = OwnKey(d)
    BY <1>4, <2>1, LinkEffect
  <2>3. CASE registry[OwnKey(d)] # d
    <3>1. PICK e \in Conn \ {d} : side[e] = "in" /\ OwnKey(e) = OwnKey(d)
      BY <2>2, <2>3 DEF RegistryTracksConnections
    <3>2. side'[e] = "in" /\ OwnKey(e)' = OwnKey(e)
      <4>1. CASE e # c
        BY <3>1, <4>1, LinkEffect
      <4>2. CASE e = c
        <5>1. status[c] # "unused"
          BY <3>1, <4>2 DEF Known
        <5> QED
          BY <3>1, <4>2, <5>1, RegistryEffect
      <4> QED
        BY <4>1, <4>2
    <3> QED
      BY <2>2, <3>1, <3>2
  <2>4. CASE registry[OwnKey(d)] = d
    <3>1. registry'[OwnKey(d)] # registry[OwnKey(d)]
      BY <1>4, <2>2, <2>4
    <3>2. \/ registry' = [registry EXCEPT ![OwnKey(c)'] = c]
          \/ registry' = [registry EXCEPT ![OwnKey(c)'] = Nobody]
      BY <3>1, RegistryEffect
    <3>3. OwnKey(d) \in Key
      BY <2>2, Keys
    <3>4. OwnKey(c)' = OwnKey(d)
      BY <1>1, <3>1, <3>2, <3>3
    <3>5. side'[c] = "in"
      <4>1. side'[c] = "out" => OwnKey(d).addr = c
        BY <3>4, KeysNext
      <4>2. OwnKey(d).addr = d \/ OwnKey(d).addr = Here
        BY <2>2, Keys
      <4>3. Here # c
        OBVIOUS
      <4> QED
        BY <2>1, <4>1, <4>2, <4>3, KeysNext
    <3> QED
      BY <2>1, <2>2, <3>4, <3>5
  <2> QED
    BY <2>3, <2>4
<1>5. \A k \in Key : registry'[k] \in Conn =>
        OwnKey(registry[k])' = k /\ status'[registry'[k]] \in {"running", "broken"}
  <2>1. ASSUME NEW k \in Key, NEW d \in Conn, registry'[k] = d
        PROVE  OwnKey(registry[k])' = k
    BY <1>3, <2>1 DEF OwnKey
  <2> QED
    BY <1>3, <2>1
<1> QED
  BY <1>4, <1>5 DEF RegistryTracksConnections

\* The registry and what is known of the connections, for every number of
\* connections and whatever the peers do.
RegistryInv == TypeOK /\ Known /\ RegistryTracksConnections

\* The registry and the types, in every state.
LEMMA RegistryInvariant == Spec => []RegistryInv
<1>1. Init => RegistryInv
  <2> SUFFICES ASSUME Init PROVE RegistryInv
    OBVIOUS
  <2>1. TypeOK
    BY InitType
  <2>2. Known
    BY DEF Init, Known
  <2>3. \A k \in Key : registry[k] \in {Udp, Nobody}
    BY DEF Init
  <2>4. RegistryTracksConnections
    BY <2>3 DEF Init, RegistryTracksConnections, Link
  <2> QED
    BY <2>1, <2>2, <2>4 DEF RegistryInv
<1>2. RegistryInv /\ [Next]_vars => RegistryInv'
  <2> SUFFICES ASSUME RegistryInv, [Next]_vars PROVE RegistryInv'
    OBVIOUS
  <2>1. TypeOK /\ Known /\ RegistryTracksConnections
    BY DEF RegistryInv
  <2>3. CASE Next
    <3>1. TypeOK' /\ Known'
      BY <2>1, <2>3, NextType, KnownStep
    <3>2. RegistryTracksConnections'
      <4>1. CASE \E c \in Conn : LinkStep(c)
        BY <2>1, <4>1, RegistryStep
      <4>2. CASE UNCHANGED linkVars
        BY <2>1, <4>2 DEF RegistryTracksConnections, OwnKey, linkVars
      <4> QED
        BY <2>1, <2>3, <4>1, <4>2, LinkSteps
    <3> QED
      BY <3>1, <3>2 DEF RegistryInv
  <2>4. CASE UNCHANGED vars
    <3>1. TypeOK'
      BY <2>1, <2>4, TypePartsNext, Unchanged DEF vars, writeVars, senderVars
    <3>2. Known' /\ RegistryTracksConnections'
      BY <2>1, <2>4 DEF Known, RegistryTracksConnections, OwnKey, vars,
                        linkVars, readVars
    <3> QED
      BY <3>1, <3>2 DEF RegistryInv
  <2> QED
    BY <2>3, <2>4
<1> QED
  BY <1>1, <1>2, PTL DEF Spec

\* Every reachable state has the types the module states, for any number of
\* connections (the data of mod.rs:131-157, tcp.rs:25-31 and ws.rs:36-42).
THEOREM TypeCorrect == Spec => []TypeOK
<1>1. RegistryInv => TypeOK
  BY DEF RegistryInv
<1> QED
  BY <1>1, RegistryInvariant, PTL

\* The registry (mod.rs:189-200) leads to connections whose read task has not
\* seen their end, under their own key, and loses a connection only to one
\* accepted by the same listener.
THEOREM RegistryCorrect == Spec => []RegistryTracksConnections
<1>1. RegistryInv => RegistryTracksConnections
  BY DEF RegistryInv
<1> QED
  BY <1>1, RegistryInvariant, PTL

-----------------------------------------------------------------------------
(* Writers. *)

\* What was written so far, without its end: every first part is followed by
\* the rest of the same message, and every rest follows a first part.
Paired(parts) ==
    /\ \A i \in 1 .. Len(parts) - 1 :
        parts[i].part = "first" =>
            parts[i + 1] = [by |-> parts[i].by, part |-> "rest"]
    /\ \A i \in 1 .. Len(parts) :
        parts[i].part = "rest" => i > 1 /\ parts[i - 1].part = "first"

Open(parts) == parts # <<>> /\ parts[Len(parts)].part = "first"

\* Its end: whoever holds the lock has written a first part.
Ending(c) ==
    /\ lock[c] # Nobody =>
        Open(out[c]) /\ out[c][Len(out[c])].by = lock[c]
    /\ Open(out[c]) => dead[c] \/ lock[c] # Nobody

\* Whoever is writing holds the lock.
Owned ==
    \A u \in Sender :
        task[u] = "writing" => via[u] \in Conn /\ lock[via[u]] = u

WriteInv ==
    /\ RegistryInv
    /\ Owned
    /\ \A c \in Conn : Paired(out[c]) /\ Ending(c)

\* A part more keeps the parts before in pairs.
LEMMA AppendPaired ==
  ASSUME NEW parts \in Seq(Part), NEW p \in Part, Paired(parts),
         IF Open(parts) THEN p = [by |-> parts[Len(parts)].by, part |-> "rest"]
         ELSE p.part # "rest"
  PROVE  /\ Paired(Append(parts, p))
         /\ Append(parts, p) # <<>>
         /\ Append(parts, p)[Len(Append(parts, p))] = p
<1> DEFINE all == Append(parts, p)
           n == Len(parts)
<1>1. /\ n \in Nat /\ all \in Seq(Part) /\ Len(all) = n + 1
      /\ all[n + 1] = p /\ \A i \in 1 .. n : all[i] = parts[i]
  OBVIOUS
<1>2. parts # <<>> => n >= 1
  OBVIOUS
<1>3. Open(parts) <=> parts # <<>> /\ parts[n].part = "first"
  BY DEF Open
<1>4. parts = <<>> => n = 0
  OBVIOUS
<1> HIDE DEF all, n
<1>5. ASSUME NEW i \in 1 .. Len(all) - 1, all[i].part = "first"
      PROVE  all[i + 1] = [by |-> all[i].by, part |-> "rest"]
  <2>1. i \in 1 .. n /\ all[i] = parts[i]
    BY <1>1
  <2>2. CASE i = n
    <3>1. Open(parts)
      BY <1>3, <1>4, <1>5, <2>1, <2>2
    <3>2. p = [by |-> parts[n].by, part |-> "rest"]
      BY <3>1 DEF n
    <3> QED
      BY <1>1, <2>1, <2>2, <3>2
  <2>3. CASE i < n
    <3>1. i \in 1 .. n - 1 /\ i + 1 \in 1 .. n
      BY <1>1, <2>1, <2>3
    <3>2. parts[i + 1] = [by |-> parts[i].by, part |-> "rest"]
      BY <1>5, <2>1, <3>1 DEF Paired, n
    <3> QED
      BY <1>1, <2>1, <3>1, <3>2
  <2> QED
    BY <1>1, <2>1, <2>2, <2>3
<1>6. ASSUME NEW i \in 1 .. Len(all), all[i].part = "rest"
      PROVE  i > 1 /\ all[i - 1].part = "first"
  <2>1. CASE i = n + 1
    <3>1. Open(parts)
      BY <1>1, <1>6, <2>1
    <3>2. n >= 1 /\ parts[n].part = "first"
      BY <1>2, <1>3, <3>1
    <3> QED
      BY <1>1, <2>1, <3>2
  <2>2. CASE i \in 1 .. n
    <3>1. parts[i].part = "rest"
      BY <1>1, <1>6, <2>2
    <3>2. i > 1 /\ parts[i - 1].part = "first"
      BY <2>2, <3>1 DEF Paired, n
    <3>3. i - 1 \in 1 .. n
      BY <1>1, <2>2, <3>2
    <3> QED
      BY <1>1, <3>2, <3>3
  <2> QED
    BY <1>1, <2>1, <2>2
<1>7. all # <<>>
  BY <1>1 DEF all
<1> QED
  BY <1>1, <1>5, <1>6, <1>7 DEF Paired, all

\* A step by which nothing is written and no lock changes hands.
QuietStep ==
    /\ UNCHANGED writeVars
    /\ \A c \in Conn : dead[c] => dead'[c]
    /\ \A u \in Sender :
        task'[u] = "writing" => task[u] = "writing" /\ via'[u] = via[u]

\* The steps, as far as they write or take the lock.
LEMMA WriteSteps ==
  ASSUME TypeOK, Next
  PROVE  \/ QuietStep
         \/ \E c \in Conn : StartAnswer(c) \/ FinishAnswer(c) \/ AnswerFails(c)
         \/ \E u \in Sender : StartWrite(u) \/ FinishWrite(u) \/ WriteFails(u)
<1>1. /\ task \in [Sender -> Task] /\ via \in [Sender -> Link \cup {Nobody}]
      /\ dead \in [Conn -> BOOLEAN]
  BY TypeParts DEF SenderType, FaultType
<1>2. ASSUME NEW c \in Conn, Network(c) PROVE QuietStep
  <2>1. UNCHANGED <<writeVars, senderVars>> /\ (dead' = dead \/ dead' = [dead EXCEPT ![c] = TRUE])
    BY <1>2 DEF Network, Accept, Established, HangUp, Reset, Stall, faultVars
  <2> QED
    BY <1>1, <2>1 DEF QuietStep, senderVars
<1>3. ASSUME NEW c \in Conn, Reader(c)
      PROVE  QuietStep \/ StartAnswer(c) \/ FinishAnswer(c) \/ AnswerFails(c)
  BY <1>3 DEF Reader, Register, WsEnds, Turn, QuietStep, senderVars, faultVars
<1>4. ASSUME NEW u \in Sender,
             UNCHANGED <<writeVars, faultVars>>,
             \A v \in Sender \ {u} : task'[v] = task[v] /\ via'[v] = via[v],
             task'[u] # "writing"
      PROVE  QuietStep
  BY <1>4 DEF QuietStep, faultVars
<1>5. ASSUME NEW u \in Sender, Start(u) PROVE QuietStep
  BY <1>1, <1>4, <1>5 DEF Start, SendRequest, SendResponse
<1>6. ASSUME NEW u \in Sender, Send(u)
      PROVE  QuietStep \/ StartWrite(u) \/ FinishWrite(u) \/ WriteFails(u)
  <2>1. CASE \E route \in Routes \cup {<<>>} : Resolve(u, route)
    BY <1>1, <1>4, <2>1 DEF Resolve
  <2>2. CASE Select(u)
    <3>1. /\ UNCHANGED <<writeVars, faultVars>>
          /\ \A v \in Sender \ {u} : task'[v] = task[v] /\ via'[v] = via[v]
      BY <1>1, <2>2 DEF Select
    <3>2. task'[u] \in {"holding", "connecting", "choosing"}
      BY <1>1, <2>2 DEF Select
    <3> QED
      BY <1>4, <3>1, <3>2
  <2>3. CASE Refused(u)
    BY <1>1, <1>4, <2>3 DEF Refused
  <2>4. CASE NoTransport(u)
    BY <1>1, <1>4, <2>4 DEF NoTransport, Ends
  <2>5. CASE \E c \in Conn : Connected(u, c)
    BY <1>1, <1>4, <2>5 DEF Connected, Established
  <2>6. CASE \E ok \in BOOLEAN : SendWhole(u, ok)
    <3>1. PICK ok \in BOOLEAN : SendWhole(u, ok)
      BY <2>6
    <3>2. Returned(u, ok) /\ UNCHANGED <<writeVars, faultVars>>
      BY <3>1 DEF SendWhole
    <3> QED
      BY <1>4, <3>2, ReturnedType
  <2> QED
    BY <1>6, <2>1, <2>2, <2>3, <2>4, <2>5, <2>6 DEF Send
<1>7. CASE Quiet
  BY <1>7 DEF Quiet, vars, QuietStep, senderVars, faultVars
<1> QED
  BY <1>2, <1>3, <1>5, <1>6, <1>7 DEF Next

\* Every step keeps the invariant of the writers.
LEMMA WriteInvStep ==
  ASSUME TypeOK, Owned, \A c \in Conn : Paired(out[c]) /\ Ending(c), Next
  PROVE  Owned' /\ \A c \in Conn : Paired(out'[c]) /\ Ending(c)'
<1>1. /\ lock \in [Conn -> Writer \cup {Nobody}] /\ out \in [Conn -> Seq(Part)]
      /\ task \in [Sender -> Task] /\ via \in [Sender -> Link \cup {Nobody}]
      /\ dead \in [Conn -> BOOLEAN]
  BY TypeParts DEF WriteType, SenderType, FaultType
<1>2. Nobody \notin Sender /\ ReadTask \notin Sender /\ ReadTask # Nobody
  OBVIOUS
<1>3. CASE QuietStep
  BY <1>3 DEF QuietStep, Owned, Ending, writeVars
<1>4. ASSUME NEW c \in Conn, StartAnswer(c)
      PROVE  Owned' /\ \A d \in Conn : Paired(out'[d]) /\ Ending(d)'
  <2> DEFINE p == [by |-> ReadTask, part |-> "first"]
  <2>1. /\ out' = [out EXCEPT ![c] = Append(@, p)]
        /\ lock' = [lock EXCEPT ![c] = ReadTask]
        /\ lock[c] = Nobody /\ ~dead[c]
        /\ dead' = dead /\ task' = task /\ via' = via
    BY <1>4 DEF StartAnswer, Put, faultVars, senderVars
  <2>2. ~Open(out[c])
    BY <2>1 DEF Ending
  <2>3. p \in Part
    BY DEF Part, Writer
  <2>4. /\ Paired(Append(out[c], p)) /\ Append(out[c], p) # <<>>
        /\ Append(out[c], p)[Len(Append(out[c], p))] = p
    <3>1. out[c] \in Seq(Part) /\ Paired(out[c])
      BY <1>1
    <3> QED
      BY <2>2, <2>3, <3>1, AppendPaired
  <2>5. out'[c] = Append(out[c], p) /\ lock'[c] = ReadTask
    BY <1>1, <2>1
  <2>6. Paired(out'[c]) /\ Ending(c)'
    BY <1>2, <2>4, <2>5 DEF Ending, Open
  <2>7. ASSUME NEW d \in Conn \ {c} PROVE Paired(out'[d]) /\ Ending(d)'
    BY <1>1, <2>1, <2>7 DEF Ending
  <2>8. Owned'
    BY <1>1, <1>2, <2>1 DEF Owned
  <2> QED
    BY <2>6, <2>7, <2>8
<1>9. ASSUME NEW c \in Conn, FinishAnswer(c)
      PROVE  Owned' /\ \A d \in Conn : Paired(out'[d]) /\ Ending(d)'
  <2> DEFINE p == [by |-> ReadTask, part |-> "rest"]
  <2>1. /\ out' = [out EXCEPT ![c] = Append(@, p)]
        /\ lock' = [lock EXCEPT ![c] = Nobody]
        /\ lock[c] = ReadTask
        /\ dead' = dead /\ task' = task /\ via' = via
    BY <1>9 DEF FinishAnswer, Put, faultVars, senderVars
  <2>2. Open(out[c]) /\ out[c][Len(out[c])].by = ReadTask
    BY <1>2, <2>1 DEF Ending
  <2>3. p \in Part
    BY DEF Part, Writer
  <2>4. /\ Paired(Append(out[c], p))
        /\ Append(out[c], p)[Len(Append(out[c], p))] = p
    <3>1. out[c] \in Seq(Part) /\ Paired(out[c])
      BY <1>1
    <3> QED
      BY <2>2, <2>3, <3>1, AppendPaired
  <2>5. out'[c] = Append(out[c], p) /\ lock'[c] = Nobody
    BY <1>1, <2>1
  <2>6. ~Open(out'[c])
    BY <2>4, <2>5 DEF Open
  <2>7. Paired(out'[c]) /\ Ending(c)'
    BY <2>4, <2>5, <2>6 DEF Ending
  <2>8. ASSUME NEW d \in Conn \ {c} PROVE Paired(out'[d]) /\ Ending(d)'
    BY <1>1, <2>1, <2>8 DEF Ending
  <2>9. Owned'
    BY <1>1, <1>2, <2>1 DEF Owned
  <2> QED
    BY <2>7, <2>8, <2>9
<1>10. ASSUME NEW c \in Conn, AnswerFails(c)
      PROVE  Owned' /\ \A d \in Conn : Paired(out'[d]) /\ Ending(d)'
  <2>1. /\ lock' = [lock EXCEPT ![c] = Nobody]
        /\ lock[c] \in {Nobody, ReadTask} /\ dead[c]
        /\ out' = out /\ dead' = dead /\ task' = task /\ via' = via
    BY <1>10 DEF AnswerFails, faultVars, senderVars
  <2>2. Owned'
    BY <1>1, <1>2, <2>1 DEF Owned
  <2>3. ASSUME NEW d \in Conn PROVE Paired(out'[d]) /\ Ending(d)'
    BY <1>1, <2>1, <2>3 DEF Ending
  <2> QED
    BY <2>2, <2>3
<1>5. ASSUME NEW u \in Sender, StartWrite(u)
      PROVE  Owned' /\ \A d \in Conn : Paired(out'[d]) /\ Ending(d)'
  <2> DEFINE p == [by |-> u, part |-> "first"]
  <2>0. PICK c \in Conn : c = via[u]
    BY <1>5 DEF StartWrite, On
  <2>1. /\ c \in Conn /\ lock[c] = Nobody /\ ~dead[c] /\ task[u] = "holding"
        /\ lock' = [lock EXCEPT ![c] = u]
        /\ out' = [out EXCEPT ![c] = Append(@, p)]
        /\ task' = [task EXCEPT ![u] = "writing"]
        /\ dead' = dead /\ via' = via
    BY <1>5, <2>0 DEF StartWrite, On, Put, faultVars
  <2>2. ~Open(out[c])
    BY <2>1 DEF Ending
  <2>3. p \in Part
    BY DEF Part, Writer
  <2>4. /\ Paired(Append(out[c], p)) /\ Append(out[c], p) # <<>>
        /\ Append(out[c], p)[Len(Append(out[c], p))] = p
    <3>1. out[c] \in Seq(Part) /\ Paired(out[c])
      BY <1>1, <2>1
    <3> QED
      BY <2>2, <2>3, <3>1, AppendPaired
  <2>5. out'[c] = Append(out[c], p) /\ lock'[c] = u
    BY <1>1, <2>1
  <2>6. Paired(out'[c]) /\ Ending(c)'
    BY <1>2, <2>4, <2>5 DEF Ending, Open
  <2>7. ASSUME NEW d \in Conn \ {c} PROVE Paired(out'[d]) /\ Ending(d)'
    BY <1>1, <2>1, <2>7 DEF Ending
  <2>8. ASSUME NEW v \in Sender, task'[v] = "writing"
        PROVE  via'[v] \in Conn /\ lock'[via'[v]] = v
    <3>1. CASE v = u
      BY <2>0, <2>1, <2>5, <3>1
    <3>2. CASE v # u
      <4>1. task[v] = "writing"
        BY <1>1, <2>1, <2>8, <3>2
      <4>2. via[v] \in Conn /\ lock[via[v]] = v
        BY <4>1 DEF Owned
      <4>3. via[v] # c
        BY <1>2, <2>1, <4>2
      <4> QED
        BY <1>1, <2>1, <4>2, <4>3
    <3> QED
      BY <3>1, <3>2
  <2> QED
    BY <2>6, <2>7, <2>8 DEF Owned
<1>6. ASSUME NEW u \in Sender, NEW c \in Conn, c = via[u],
             lock[c] = u \/ lock[c] = Nobody,
             lock' = [lock EXCEPT ![c] = Nobody],
             \A v \in Sender \ {u} : task'[v] = task[v] /\ via'[v] = via[v],
             task'[u] # "writing"
      PROVE  Owned'
  <2>1. ASSUME NEW v \in Sender, task'[v] = "writing"
        PROVE  via'[v] \in Conn /\ lock'[via'[v]] = v
    <3>1. v # u /\ task[v] = "writing" /\ via'[v] = via[v]
      BY <1>6, <2>1
    <3>2. via[v] \in Conn /\ lock[via[v]] = v
      BY <3>1 DEF Owned
    <3>3. via[v] # c
      BY <1>2, <1>6, <3>1, <3>2
    <3> QED
      BY <1>1, <1>6, <3>1, <3>2, <3>3
  <2> QED
    BY <2>1 DEF Owned
<1>7. ASSUME NEW u \in Sender, FinishWrite(u)
      PROVE  Owned' /\ \A d \in Conn : Paired(out'[d]) /\ Ending(d)'
  <2> DEFINE p == [by |-> u, part |-> "rest"]
  <2>0. PICK c \in Conn : c = via[u]
    BY <1>7 DEF FinishWrite, Owned
  <2>1. /\ task[u] = "writing" /\ Returned(u, TRUE) /\ dead' = dead
        /\ lock' = [lock EXCEPT ![c] = Nobody]
        /\ out' = [out EXCEPT ![c] = Append(@, p)]
    BY <1>7, <2>0 DEF FinishWrite, Put, faultVars
  <2>2. c \in Conn /\ lock[c] = u
    BY <2>0, <2>1 DEF Owned
  <2>3. Open(out[c]) /\ out[c][Len(out[c])].by = u
    BY <1>2, <2>2 DEF Ending
  <2>4. p \in Part
    BY DEF Part, Writer
  <2>5. /\ Paired(Append(out[c], p))
        /\ Append(out[c], p)[Len(Append(out[c], p))] = p
    <3>1. out[c] \in Seq(Part) /\ Paired(out[c])
      BY <1>1, <2>2
    <3> QED
      BY <2>3, <2>4, <3>1, AppendPaired
  <2>6. Owned'
    BY <1>6, <2>0, <2>1, <2>2, ReturnedType
  <2>7. out'[c] = Append(out[c], p) /\ lock'[c] = Nobody
    BY <1>1, <2>1, <2>2
  <2>8. ~Open(out'[c])
    BY <2>5, <2>7 DEF Open
  <2>9. Paired(out'[c]) /\ Ending(c)'
    BY <2>5, <2>7, <2>8 DEF Ending
  <2>10. ASSUME NEW d \in Conn \ {c} PROVE Paired(out'[d]) /\ Ending(d)'
    BY <1>1, <2>1, <2>10 DEF Ending
  <2> QED
    BY <2>6, <2>9, <2>10
<1>8. ASSUME NEW u \in Sender, WriteFails(u)
      PROVE  Owned' /\ \A d \in Conn : Paired(out'[d]) /\ Ending(d)'
  <2>0. PICK c \in Conn : c = via[u]
    BY <1>8 DEF WriteFails, On, Owned
  <2>1. /\ \/ task[u] = "holding" /\ c \in Conn /\ lock[c] = Nobody
           \/ task[u] = "writing"
        /\ Returned(u, FALSE) /\ dead[c] /\ dead' = dead /\ out' = out
        /\ lock' = [lock EXCEPT ![c] = Nobody]
    BY <1>8, <2>0 DEF WriteFails, On, faultVars
  <2>2. c \in Conn /\ (lock[c] = u \/ lock[c] = Nobody)
    BY <2>0, <2>1 DEF Owned
  <2>3. Owned'
    BY <1>6, <2>0, <2>1, <2>2, ReturnedType
  <2>4. ASSUME NEW d \in Conn PROVE Paired(out'[d]) /\ Ending(d)'
    <3>1. CASE d = c
      BY <1>1, <2>1, <2>2, <3>1 DEF Ending
    <3>2. CASE d # c
      BY <1>1, <2>1, <2>2, <3>2 DEF Ending
    <3> QED
      BY <3>1, <3>2
  <2> QED
    BY <2>3, <2>4
<1> QED
  BY <1>3, <1>4, <1>5, <1>7, <1>8, <1>9, <1>10, WriteSteps

\* The invariant of the writers, in every state.
LEMMA WriteInvariant == Spec => []WriteInv
<1>1. Init => Owned /\ \A c \in Conn : Paired(out[c]) /\ Ending(c)
  <2> SUFFICES ASSUME Init
               PROVE  Owned /\ \A c \in Conn : Paired(out[c]) /\ Ending(c)
    OBVIOUS
  <2>1. Owned
    BY DEF Init, Owned
  <2>2. \A c \in Conn : out[c] = <<>> /\ lock[c] = Nobody
    BY DEF Init
  <2>3. \A c \in Conn : Len(out[c]) = 0 /\ ~Open(out[c])
    BY <2>2 DEF Open
  <2> QED
    BY <2>1, <2>2, <2>3 DEF Paired, Ending
<1>2. RegistryInv /\ RegistryInv' /\ WriteInv /\ [Next]_vars => WriteInv'
  <2> SUFFICES ASSUME RegistryInv, RegistryInv', WriteInv, [Next]_vars
               PROVE  WriteInv'
    OBVIOUS
  <2>1. TypeOK /\ Owned /\ \A c \in Conn : Paired(out[c]) /\ Ending(c)
    BY DEF RegistryInv, WriteInv
  <2>2. CASE Next
    BY <2>1, <2>2, WriteInvStep DEF WriteInv
  <2>3. CASE UNCHANGED vars
    <3>1. UNCHANGED <<lock, out, dead, task, via>>
      BY <2>3 DEF vars, writeVars, faultVars, senderVars
    <3> QED
      BY <2>1, <3>1 DEF WriteInv, Owned, Ending
  <2> QED
    BY <2>2, <2>3
<1>3. Init /\ RegistryInv => WriteInv
  BY <1>1 DEF WriteInv
<1> QED
  BY <1>2, <1>3, RegistryInvariant, PTL DEF Spec

\* Writers of one connection do not mix (tcp.rs:71-80), for any number of
\* connections and senders: the parts of a message are next to each other.
THEOREM WritesWhole == Spec => []WholeWrites
<1>1. WriteInv => WholeWrites
  <2> SUFFICES ASSUME WriteInv, NEW c \in Conn, NEW i \in DOMAIN out[c]
               PROVE  /\ out[c][i].part = "first" =>
                            IF i = Len(out[c])
                              THEN dead[c] \/ lock[c] = out[c][i].by
                              ELSE out[c][i + 1] = [by |-> out[c][i].by,
                                                    part |-> "rest"]
                      /\ out[c][i].part = "rest" =>
                            i > 1 /\ out[c][i - 1].part = "first"
    BY DEF WholeWrites
  <2>1. out[c] \in Seq(Part)
    BY TypeParts DEF WriteInv, RegistryInv, WriteType
  <2>2. i \in 1 .. Len(out[c]) /\ Len(out[c]) \in Nat
    BY <2>1
  <2>3. Paired(out[c]) /\ Ending(c)
    BY DEF WriteInv
  <2>4. ASSUME out[c][i].part = "first", i = Len(out[c])
        PROVE  dead[c] \/ lock[c] = out[c][i].by
    <3>1. out[c] # <<>>
      BY <2>2
    <3>2. Open(out[c])
      BY <2>4, <3>1 DEF Open
    <3> QED
      BY <2>3, <2>4, <3>2 DEF Ending
  <2>5. ASSUME out[c][i].part = "first", i # Len(out[c])
        PROVE  out[c][i + 1] = [by |-> out[c][i].by, part |-> "rest"]
    <3>1. i \in 1 .. Len(out[c]) - 1
      BY <2>2, <2>5
    <3> QED
      BY <2>3, <2>5, <3>1 DEF Paired
  <2>6. ASSUME out[c][i].part = "rest"
        PROVE  i > 1 /\ out[c][i - 1].part = "first"
    BY <2>2, <2>3, <2>6 DEF Paired
  <2> QED
    BY <2>4, <2>5, <2>6
<1> QED
  BY <1>1, WriteInvariant, PTL

-----------------------------------------------------------------------------
(* Streams. *)

\* The requests taken and answered, or to be answered.
Owed(c) == Cardinality(Answers(c)) + (IF answering[c] THEN 1 ELSE 0)

\* On every connection the bytes in the buffer and on the wire are the next
\* ones of what the peer says, and what was made of those before is right.  On
\* one that does not exist nothing is said.
StreamAt(c) ==
    /\ status[c] = "unused" => said[c] = <<>>
    /\ IsStream(said[c])
    /\ At(said[c], buffer[c] \o wire[c], heard[c], 2 * Owed(c))
StreamInv == \A c \in Conn : StreamAt(c)

\* The requests owed are a number.
LEMMA OwedType ==
  ASSUME TypeOK, NEW c \in Conn
  PROVE  Cardinality(Answers(c)) \in Nat /\ Owed(c) \in Nat /\ 2 * Owed(c) \in Even
<1>1. out[c] \in Seq(Part)
  BY TypeParts DEF WriteType
<1>2. IsFiniteSet(Answers(c))
  <2>1. IsFiniteSet(1 .. Len(out[c])) /\ Answers(c) \in SUBSET (1 .. Len(out[c]))
    BY <1>1, FS_Interval DEF Answers
  <2> QED
    BY <2>1, FS_Subset
<1>3. Cardinality(Answers(c)) \in Nat
  BY <1>2, FS_CardinalityType
<1> DEFINE n == Cardinality(Answers(c))
<1> HIDE DEF n
<1>4. n \in Nat
  BY <1>3 DEF n
<1>5. Owed(c) = n + (IF answering[c] THEN 1 ELSE 0)
  BY DEF Owed, n
<1>6. Owed(c) \in Nat
  BY <1>4, <1>5
<1> QED
  BY <1>3, <1>6 DEF Even

\* The types of what is read.
LEMMA ReadTypes ==
  ASSUME TypeOK, NEW c \in Conn
  PROVE  /\ said[c] \in Seq(Seq(Nat)) /\ wire[c] \in Seq(Nat) /\ buffer[c] \in Seq(Nat)
         /\ heard[c] \in Seq(Seq(Nat)) /\ answering[c] \in BOOLEAN
         /\ DOMAIN said = Conn /\ DOMAIN wire = Conn /\ DOMAIN buffer = Conn
         /\ DOMAIN heard = Conn /\ DOMAIN answering = Conn /\ DOMAIN out = Conn
BY TypeParts DEF ReadType, WriteType, Byte

\* An answer to a keep-alive, when it is written.
Given == [by |-> ReadTask, part |-> "rest"]

\* The rest of what the read task writes is an answer to a keep-alive, anything
\* else that is written is not.
LEMMA AnswersAppend ==
  ASSUME TypeOK, NEW c \in Conn, NEW p, out'[c] = Append(out[c], p)
  PROVE  /\ p # Given => Cardinality(Answers(c)') = Cardinality(Answers(c))
         /\ p = Given => Cardinality(Answers(c)') = Cardinality(Answers(c)) + 1
<1> DEFINE n == Len(out[c])
<1>0. out \in [Conn -> Seq(Part)]
  BY TypeParts DEF WriteType
<1>1. out[c] \in Seq(Part) /\ n \in Nat
  BY <1>0
<1>2. /\ Len(out'[c]) = n + 1 /\ DOMAIN out'[c] = 1 .. (n + 1) /\ DOMAIN out[c] = 1 .. n
      /\ out'[c][n + 1] = p /\ \A i \in 1 .. n : out'[c][i] = out[c][i]
  BY <1>1
<1> HIDE DEF n
<1>3. /\ n + 1 \in 1 .. (n + 1) /\ n + 1 \notin 1 .. n /\ 1 .. n \subseteq 1 .. (n + 1)
      /\ \A i \in 1 .. (n + 1) : i \in 1 .. n \/ i = n + 1
  BY <1>1
<1>4. IsFiniteSet(Answers(c))
  <2>1. IsFiniteSet(1 .. n) /\ Answers(c) \in SUBSET (1 .. n)
    BY <1>1, <1>2, FS_Interval DEF Answers, Given
  <2> QED
    BY <2>1, FS_Subset
<1>5. p # Given => Answers(c)' = Answers(c)
  BY <1>2, <1>3 DEF Answers, Given
<1>6. p = Given => Answers(c)' = Answers(c) \cup {n + 1} /\ n + 1 \notin Answers(c)
  BY <1>2, <1>3 DEF Answers, Given
<1> QED
  BY <1>4, <1>5, <1>6, FS_AddElement

\* The steps, as far as they read or answer.
Delivers(c) ==
    /\ ~answering[c]
    /\ \/ Read(c, Decode(buffer[c])) \/ Hear(c, Decode(buffer[c]))
       \/ HearKeepalive(c, Decode(buffer[c]))

Writes ==
    /\ UNCHANGED readVars
    /\ \A c \in Conn :
        \/ out'[c] = out[c]
        \/ \E p \in Part \ {Given} : out'[c] = Append(out[c], p)

\* Every step is one of these.
LEMMA StreamSteps ==
  ASSUME TypeOK, Next
  PROVE  \/ Writes
         \/ \E c \in Conn :
                /\ out' = out
                /\ \/ \E s \in {"in", "out"}, protocol \in {"tcp", "ws"} :
                        Established(c, s, protocol)
                   \/ HangUp(c) \/ ReaderGone(c) \/ Delivers(c)
         \/ \E c \in Conn : FinishAnswer(c)
<1>0. out \in [Conn -> Seq(Part)]
  BY TypeParts DEF WriteType
<1>1. ASSUME NEW c \in Conn, Network(c)
      PROVE  \/ Writes
             \/ /\ out' = out
                /\ \/ \E s \in {"in", "out"}, protocol \in {"tcp", "ws"} :
                        Established(c, s, protocol)
                   \/ HangUp(c)
  <2>1. CASE \E protocol \in {"tcp", "ws"} : Accept(c, protocol)
    BY <2>1 DEF Accept, Established, writeVars
  <2>2. CASE HangUp(c)
    BY <2>2 DEF HangUp, writeVars
  <2>3. CASE Reset(c)
    BY <2>3 DEF Reset, Writes, writeVars
  <2>4. CASE Stall(c)
    BY <2>4 DEF Stall, Writes, writeVars
  <2> QED
    BY <1>1, <2>1, <2>2, <2>3, <2>4 DEF Network
<1>4. ASSUME NEW c \in Conn, NEW w \in Writer, NEW part \in {"first", "rest"},
             Put(c, w, part), [by |-> w, part |-> part] # Given, UNCHANGED readVars
      PROVE  Writes
  <2> DEFINE p == [by |-> w, part |-> part]
  <2>1. out' = [out EXCEPT ![c] = Append(@, p)] /\ p \in Part \ {Given}
    BY <1>4 DEF Put, Part
  <2>2. \A d \in Conn : out'[d] = out[d] \/ out'[d] = Append(out[d], p)
    <3> HIDE DEF p
    <3> QED
      BY <1>0, <2>1
  <2> QED
    BY <1>4, <2>1, <2>2 DEF Writes
<1>2. ASSUME NEW c \in Conn, Reader(c)
      PROVE  Writes \/ FinishAnswer(c) \/ (out' = out /\ (ReaderGone(c) \/ Delivers(c)))
  <2>1. CASE Register(c)
    BY <2>1 DEF Register, Writes, writeVars
  <2>2. CASE WsEnds(c)
    BY <2>2 DEF WsEnds, Closed, Broken, writeVars
  <2>3. CASE Turn(c)
    <3>1. out' = out /\ ~answering[c]
      BY <2>3 DEF Turn, writeVars
    <3>2. \/ Read(c, Decode(buffer[c])) \/ Hear(c, Decode(buffer[c]))
          \/ HearKeepalive(c, Decode(buffer[c]))
          \/ ReadFails(c, Decode(buffer[c])) \/ EndOfStream(c, Decode(buffer[c]))
      BY <2>3 DEF Turn
    <3>3. ReadFails(c, Decode(buffer[c])) => ReaderGone(c)
      BY DEF ReadFails, Broken
    <3>4. EndOfStream(c, Decode(buffer[c])) => ReaderGone(c)
      BY DEF EndOfStream, Closed, Broken
    <3> QED
      BY <3>1, <3>2, <3>3, <3>4 DEF Delivers
  <2>4. CASE StartAnswer(c)
    <3>1. [by |-> ReadTask, part |-> "first"] # Given
      BY DEF Given
    <3> QED
      BY <1>4, <2>4, <3>1 DEF StartAnswer, Writer
  <2>5. CASE FinishAnswer(c)
    BY <2>5
  <2>6. CASE AnswerFails(c)
    BY <2>6 DEF AnswerFails, Broken
  <2> QED
    BY <1>2, <2>1, <2>2, <2>3, <2>4, <2>5, <2>6 DEF Reader
<1>3. ASSUME NEW u \in Sender, Start(u) PROVE Writes
  BY <1>3 DEF Start, SendRequest, SendResponse, Writes, writeVars
<1>5. ASSUME NEW u \in Sender, Send(u)
      PROVE  \/ Writes
             \/ \E c \in Conn : out' = out /\ \E s \in {"in", "out"}, protocol \in {"tcp", "ws"} :
                    Established(c, s, protocol)
  <2>1. CASE \E c \in Conn : Connected(u, c)
    <3>1. PICK c \in Conn : Connected(u, c)
      BY <2>1
    <3>2. \E protocol \in {"tcp", "ws"} : Established(c, "out", protocol)
      BY <3>1 DEF Connected
    <3>3. out' = out
      BY <3>2 DEF Established, writeVars
    <3> QED
      BY <3>2, <3>3
  <2>2. CASE \/ \E route \in Routes \cup {<<>>} : Resolve(u, route)
             \/ Select(u) \/ Refused(u) \/ NoTransport(u) \/ WriteFails(u)
             \/ \E ok \in BOOLEAN : SendWhole(u, ok)
    BY <2>2 DEF Resolve, Select, Refused, NoTransport, WriteFails, SendWhole, Writes, writeVars
  <2>3. CASE StartWrite(u)
    <3>1. [by |-> u, part |-> "first"] # Given
      BY DEF Given
    <3> QED
      BY <1>4, <2>3, <3>1 DEF StartWrite, On, Writer
  <2>4. CASE FinishWrite(u)
    <3>1. [by |-> u, part |-> "rest"] # Given
      BY DEF Given
    <3>2. CASE via[u] \in Conn
      BY <1>4, <2>4, <3>1, <3>2 DEF FinishWrite, Writer
    <3>3. CASE via[u] \notin Conn
      BY <1>0, <2>4, <3>3 DEF FinishWrite, Put, Writes
    <3> QED
      BY <3>2, <3>3
  <2> QED
    BY <1>5, <2>1, <2>2, <2>3, <2>4 DEF Send
<1>6. CASE Quiet
  BY <1>6 DEF Quiet, vars, Writes, readVars, writeVars
<1> QED
  BY <1>1, <1>2, <1>3, <1>5, <1>6 DEF Next

\* A connection in use stays in use.
Stays == \A c \in Conn : status'[c] = "unused" => status[c] = "unused"

LEMMA StaysInUse == ASSUME TypeOK, Known, Next PROVE Stays
<1>1. ASSUME NEW c \in Conn, LinkStep(c) PROVE Stays
  BY <1>1, LinkEffect DEF Stays
<1>2. ASSUME UNCHANGED linkVars PROVE Stays
  BY <1>2 DEF Stays, linkVars
<1> QED
  BY <1>1, <1>2, LinkSteps

\* A connection that neither reads nor answers.
LEMMA StreamSame ==
  ASSUME NEW c \in Conn, StreamAt(c), Stays,
         said'[c] = said[c], wire'[c] = wire[c], buffer'[c] = buffer[c],
         heard'[c] = heard[c], answering'[c] = answering[c],
         Cardinality(Answers(c)') = Cardinality(Answers(c))
  PROVE  StreamAt(c)'
<1>1. Owed(c)' = Owed(c)
  BY DEF Owed
<1> QED
  BY <1>1 DEF StreamAt, Stays

\* If nothing is written the answers stay.
LEMMA AnswersSame ==
  ASSUME NEW c \in Conn, out'[c] = out[c]
  PROVE  Cardinality(Answers(c)') = Cardinality(Answers(c))
<1>1. Answers(c)' = Answers(c)
  BY DEF Answers
<1> QED
  BY <1>1

\* What is known of a connection of which a step reads something.
LEMMA StreamFacts ==
  ASSUME TypeOK, StreamInv, NEW c \in Conn
  PROVE  /\ said[c] \in Seq(Seq(Nat)) /\ IsStream(said[c])
         /\ buffer[c] \in Seq(Nat) /\ wire[c] \in Seq(Nat) /\ heard[c] \in Seq(Seq(Nat))
         /\ Owed(c) \in Nat /\ 2 * Owed(c) \in Nat /\ 2 * Owed(c) \in Even
         /\ At(said[c], buffer[c] \o wire[c], heard[c], 2 * Owed(c))
         /\ status[c] = "unused" => said[c] = <<>>
<1>1. Owed(c) \in Nat /\ 2 * Owed(c) \in Even
  BY OwedType
<1>2. 2 * Owed(c) \in Nat
  BY <1>1
<1> QED
  BY <1>1, <1>2, ReadTypes DEF StreamInv, StreamAt

\* What is written by a sender does not count as an answer.
LEMMA WritesStep ==
  ASSUME TypeOK, StreamInv, Stays, Writes
  PROVE  StreamInv'
<1> SUFFICES ASSUME NEW c \in Conn PROVE StreamAt(c)'
  BY DEF StreamInv
<1>1. CASE out'[c] = out[c]
  BY <1>1, AnswersSame, StreamSame DEF Writes, readVars, StreamInv
<1>2. CASE \E p \in Part \ {Given} : out'[c] = Append(out[c], p)
  <2>1. PICK p \in Part \ {Given} : out'[c] = Append(out[c], p)
    BY <1>2
  <2>2. Cardinality(Answers(c)') = Cardinality(Answers(c))
    BY <2>1, AnswersAppend
  <2> QED
    BY <2>2, StreamSame DEF Writes, readVars, StreamInv
<1> QED
  BY <1>1, <1>2 DEF Writes

\* Two sequences that give nothing are empty.
LEMMA NothingJoined ==
  ASSUME NEW a \in Seq(Nat), NEW b \in Seq(Nat), a \o b = <<>>
  PROVE  a = <<>>
<1>1. Len(a) + Len(b) = 0 /\ Len(a) \in Nat /\ Len(b) \in Nat
  BY ConcatProperties
<1>2. Len(a) = 0
  BY <1>1
<1> QED
  BY <1>2

\* On a new connection the stream begins.
LEMMA EstablishedStep ==
  ASSUME TypeOK, StreamInv, Stays, NEW c \in Conn, NEW s \in {"in", "out"},
         NEW protocol \in {"tcp", "ws"}, Established(c, s, protocol), out' = out
  PROVE  StreamInv'
<1>1. PICK items \in {<<>>} \cup Streams :
        /\ said' = [said EXCEPT ![c] = items]
        /\ wire' = [wire EXCEPT ![c] = Bytes(items)]
  BY DEF Established, Speaks
<1>2. /\ said[c] = <<>> /\ status'[c] # "unused"
      /\ buffer' = buffer /\ heard' = heard /\ answering' = answering
  <2>1. status[c] = "unused" /\ status'[c] # "unused"
    <3>1. status \in [Conn -> Status]
      BY TypeParts DEF LinkType
    <3> QED
      BY <3>1 DEF Established
  <2> QED
    BY <2>1, StreamFacts DEF Established
<1>3. items \in Seq(Seq(Nat)) /\ IsStream(items)
  <2>1. <<>> \in Seq(Seq(Nat)) /\ Streams \subseteq Seq(Seq(Nat))
    OBVIOUS
  <2>2. IsStream(<<>>)
    BY DEF IsStream
  <2> QED
    BY <2>1, <2>2
<1> SUFFICES ASSUME NEW d \in Conn PROVE StreamAt(d)'
  BY DEF StreamInv
<1>4. Cardinality(Answers(d)') = Cardinality(Answers(d))
  BY AnswersSame
<1>5. CASE d = c
  <2>1. buffer[c] \o wire[c] \in Seq(Nat)
    BY StreamFacts, ConcatProperties
  <2>2. buffer[c] \o wire[c] = <<>> /\ heard[c] = <<>> /\ 2 * Owed(c) = 0
    <3>1. At(<<>>, buffer[c] \o wire[c], heard[c], 2 * Owed(c))
      BY <1>2, StreamFacts
    <3>2. 2 * Owed(c) \in Nat
      BY StreamFacts
    <3> QED
      BY <2>1, <3>1, <3>2, AtNothing
  <2>3. buffer[c] = <<>>
    BY <2>2, StreamFacts, NothingJoined
  <2>4. 2 * Owed(c)' = 0
    BY <1>2, <1>4, <1>5, <2>2 DEF Owed
  <2>5. /\ said'[c] = items /\ wire'[c] = Bytes(items) /\ buffer'[c] = <<>>
        /\ heard'[c] = <<>>
    BY <1>1, <1>2, <2>2, <2>3, ReadTypes
  <2>6. <<>> \o Bytes(items) = Bytes(items)
    BY <1>3, BytesType, ConcatEmptySeq
  <2>7. At(items, Bytes(items), <<>>, 0)
    BY <1>3, AtStart
  <2> QED
    BY <1>2, <1>3, <1>5, <2>4, <2>5, <2>6, <2>7 DEF StreamAt
<1>6. CASE d # c
  <2>1. said'[d] = said[d] /\ wire'[d] = wire[d]
    BY <1>1, <1>6, ReadTypes
  <2> QED
    BY <1>2, <1>4, <2>1, StreamSame DEF StreamInv
<1> QED
  BY <1>5, <1>6

\* What was not read may be lost, and so may what was not decoded.
LEMMA HangUpStep ==
  ASSUME TypeOK, StreamInv, Stays, NEW c \in Conn, HangUp(c), out' = out
  PROVE  StreamInv'
<1>1. PICK rest \in {wire[c], <<>>} : wire' = [wire EXCEPT ![c] = rest]
  BY DEF HangUp
<1>2. said' = said /\ buffer' = buffer /\ heard' = heard /\ answering' = answering
  BY DEF HangUp
<1> SUFFICES ASSUME NEW d \in Conn PROVE StreamAt(d)'
  BY DEF StreamInv
<1>3. Cardinality(Answers(d)') = Cardinality(Answers(d))
  BY AnswersSame
<1>4. CASE wire'[d] = wire[d]
  BY <1>2, <1>3, <1>4, StreamSame DEF StreamInv
<1>5. CASE wire'[d] = <<>>
  <2>1. Owed(d)' = Owed(d)
    BY <1>2, <1>3 DEF Owed
  <2>2. At(said[d], buffer[d], heard[d], 2 * Owed(d))
    BY StreamFacts, AtShorter
  <2>3. buffer[d] \o <<>> = buffer[d]
    BY StreamFacts, ConcatEmptySeq
  <2> QED
    BY <1>2, <1>5, <2>1, <2>2, <2>3, StreamFacts DEF StreamAt, Stays
<1> QED
  BY <1>1, <1>4, <1>5, ReadTypes

\* A read task that ends loses what was ahead.
LEMMA ReaderGoneStep ==
  ASSUME TypeOK, StreamInv, Stays, NEW c \in Conn, ReaderGone(c), out' = out
  PROVE  StreamInv'
<1> SUFFICES ASSUME NEW d \in Conn PROVE StreamAt(d)'
  BY DEF StreamInv
<1>1. Cardinality(Answers(d)') = Cardinality(Answers(d))
  BY AnswersSame
<1>2. said' = said /\ heard' = heard
  BY DEF ReaderGone
<1>3. CASE d = c
  <2>1. wire'[c] = <<>> /\ buffer'[c] = <<>> /\ answering'[c] = FALSE
    BY ReadTypes DEF ReaderGone
  <2> DEFINE n == Cardinality(Answers(c))
             owed == Owed(c)
  <2>2. n \in Nat /\ owed = n + (IF answering[c] THEN 1 ELSE 0) /\ Owed(c)' = n
    BY <1>1, <1>3, <2>1, OwedType DEF Owed
  <2>3. 2 * Owed(c)' \in Nat /\ 2 * Owed(c)' <= 2 * owed
    <3> HIDE DEF n, owed
    <3> QED
      BY <2>2
  <2>4. At(said[c], buffer[c], heard[c], 2 * owed)
    BY StreamFacts, AtShorter
  <2>5. buffer[c] = <<>> \o buffer[c] /\ <<>> \in Seq(Nat)
    BY StreamFacts, ConcatEmptySeq
  <2>6. At(said[c], <<>>, heard[c], 2 * owed)
    <3>1. At(said[c], <<>> \o buffer[c], heard[c], 2 * owed)
      BY <2>4, <2>5
    <3> QED
      BY <2>5, <3>1, StreamFacts, AtShorter
  <2>7. At(said[c], <<>>, heard[c], 2 * Owed(c)')
    BY <2>3, <2>6, StreamFacts, AtFewer
  <2>8. <<>> \o <<>> = <<>>
    OBVIOUS
  <2> QED
    BY <1>2, <1>3, <2>1, <2>7, <2>8, StreamFacts DEF StreamAt, Stays
<1>4. CASE d # c
  <2>1. wire'[d] = wire[d] /\ buffer'[d] = buffer[d] /\ answering'[d] = answering[d]
    BY <1>4, ReadTypes DEF ReaderGone
  <2> QED
    BY <1>1, <1>2, <2>1, StreamSame DEF StreamInv
<1> QED
  BY <1>3, <1>4

\* A read moves bytes from the wire to the buffer.
LEMMA ReadStep ==
  ASSUME TypeOK, StreamInv, Stays, NEW c \in Conn, Read(c, Decode(buffer[c])), out' = out
  PROVE  StreamInv'
<1>1. PICK n \in 1 .. Len(wire[c]) :
        /\ buffer' = [buffer EXCEPT ![c] = @ \o SubSeq(wire[c], 1, n)]
        /\ wire' = [wire EXCEPT ![c] = From(@, n)]
  BY DEF Read
<1>2. said' = said /\ heard' = heard /\ answering' = answering
  BY DEF Read
<1> SUFFICES ASSUME NEW d \in Conn PROVE StreamAt(d)'
  BY DEF StreamInv
<1>3. Cardinality(Answers(d)') = Cardinality(Answers(d))
  BY AnswersSame
<1>4. CASE d = c
  <2> DEFINE a == SubSeq(wire[c], 1, n)
             b == From(wire[c], n)
             old == buffer[c]
  <2>1. buffer'[c] = old \o a /\ wire'[c] = b
    BY <1>1, ReadTypes
  <2>2. wire[c] \in Seq(Nat) /\ old \in Seq(Nat)
    BY ReadTypes
  <2>3. n \in 0 .. Len(wire[c])
    BY <2>2
  <2>4. a \in Seq(Nat) /\ b \in Seq(Nat) /\ a \o b = wire[c]
    BY <2>2, <2>3, Cut
  <2>5. (old \o a) \o b = old \o wire[c]
    <3> HIDE DEF a, b, old
    <3>1. (old \o a) \o b = old \o (a \o b)
      BY ZenonT(40), <2>2, <2>4, Three
    <3> QED
      BY <2>4, <3>1
  <2>6. Owed(c)' = Owed(c)
    BY <1>2, <1>3, <1>4 DEF Owed
  <2>7. At(said[c], buffer'[c] \o wire'[c], heard[c], 2 * Owed(c))
    BY <2>1, <2>5, StreamFacts
  <2> QED
    BY <1>2, <1>4, <2>6, <2>7, StreamFacts DEF StreamAt, Stays
<1>5. CASE d # c
  <2>1. wire'[d] = wire[d] /\ buffer'[d] = buffer[d]
    BY <1>1, <1>5, ReadTypes
  <2> QED
    BY <1>2, <1>3, <2>1, StreamSame DEF StreamInv
<1> QED
  BY <1>4, <1>5

\* A message is taken off the buffer.
LEMMA HearStep ==
  ASSUME TypeOK, StreamInv, Stays, NEW c \in Conn, Hear(c, Decode(buffer[c])), out' = out
  PROVE  StreamInv'
<1> DEFINE size == Decode(buffer[c]).size
<1>1. /\ heard' = [heard EXCEPT ![c] = Append(@, SubSeq(buffer[c], 1, size))]
      /\ buffer' = [buffer EXCEPT ![c] = From(@, size)]
      /\ Decode(buffer[c]).kind = "message"
      /\ said' = said /\ wire' = wire /\ answering' = answering
  BY DEF Hear, Consume
<1> HIDE DEF size
<1> SUFFICES ASSUME NEW d \in Conn PROVE StreamAt(d)'
  BY DEF StreamInv
<1>2. Cardinality(Answers(d)') = Cardinality(Answers(d))
  BY AnswersSame
<1>3. CASE d = c
  <2>1. /\ heard'[c] = Append(heard[c], SubSeq(buffer[c], 1, size))
        /\ buffer'[c] = From(buffer[c], size)
    BY <1>1, ReadTypes
  <2>2. Owed(c)' = Owed(c)
    BY <1>1, <1>2, <1>3 DEF Owed
  <2>3. At(said[c], From(buffer[c], size) \o wire[c],
            Append(heard[c], SubSeq(buffer[c], 1, size)), 2 * Owed(c))
    BY <1>1, StreamFacts, AtMessage DEF size
  <2> QED
    BY <1>1, <1>3, <2>1, <2>2, <2>3, StreamFacts DEF StreamAt, Stays
<1>4. CASE d # c
  <2>1. heard'[d] = heard[d] /\ buffer'[d] = buffer[d]
    BY <1>1, <1>4, ReadTypes
  <2> QED
    BY <1>1, <1>2, <2>1, StreamSame DEF StreamInv
<1> QED
  BY <1>3, <1>4

\* A keep-alive is taken off it; a request leaves an answer to give.
LEMMA KeepaliveStep ==
  ASSUME TypeOK, StreamInv, Stays, NEW c \in Conn, ~answering[c],
         HearKeepalive(c, Decode(buffer[c])), out' = out
  PROVE  StreamInv'
<1> DEFINE frame == Decode(buffer[c])
<1>1. /\ frame.kind \in {"ping", "pong"}
      /\ answering' = [answering EXCEPT ![c] = frame.kind = "ping"]
      /\ buffer' = [buffer EXCEPT ![c] = From(@, frame.size)]
      /\ said' = said /\ wire' = wire /\ heard' = heard
  BY DEF HearKeepalive, Consume
<1>2. /\ frame.kind = "ping" => StartsWith(buffer[c], KeepaliveRequest) /\ frame.size = 4
      /\ frame.kind = "pong" => StartsWith(buffer[c], KeepaliveResponse) /\ frame.size = 2
  <2>1. CASE StartsWith(buffer[c], KeepaliveRequest)
    BY <2>1 DEF Decode, Frame
  <2>2. CASE /\ ~StartsWith(buffer[c], KeepaliveRequest)
             /\ StartsWith(buffer[c], KeepaliveResponse)
    BY <2>2 DEF Decode, Frame
  <2>3. CASE /\ ~StartsWith(buffer[c], KeepaliveRequest)
             /\ ~StartsWith(buffer[c], KeepaliveResponse)
    BY <2>3 DEF Decode, Frame, Incomplete
  <2> QED
    BY <2>1, <2>2, <2>3
<1> HIDE DEF frame
<1> SUFFICES ASSUME NEW d \in Conn PROVE StreamAt(d)'
  BY DEF StreamInv
<1>3. Cardinality(Answers(d)') = Cardinality(Answers(d))
  BY AnswersSame
<1>4. CASE d = c
  <2> DEFINE owed == Owed(c)
             then == Owed(c)'
  <2>1. answering'[c] = (frame.kind = "ping") /\ buffer'[c] = From(buffer[c], frame.size)
    BY <1>1, ReadTypes
  <2>2. then = owed + (IF frame.kind = "ping" THEN 1 ELSE 0) /\ owed \in Nat
    <3>1. CASE frame.kind = "ping"
      <4>1. answering'[c] = TRUE
        BY <2>1, <3>1
      <4>2. owed = Cardinality(Answers(c)) + 0
        BY DEF Owed
      <4>3. then = Cardinality(Answers(c)) + 1
        BY <1>3, <1>4, <4>1 DEF Owed
      <4>4. Cardinality(Answers(c)) \in Nat /\ owed \in Nat
        BY OwedType
      <4>5. then = owed + 1
        <5> DEFINE n == Cardinality(Answers(c))
        <5>1. n \in Nat /\ owed = n + 0 /\ then = n + 1
          BY <4>2, <4>3, <4>4
        <5> HIDE DEF n, owed, then
        <5> QED
          BY <5>1
      <4> QED
        BY <3>1, <4>4, <4>5
    <3>2. CASE frame.kind # "ping"
      <4>1. answering'[c] = FALSE
        BY <2>1, <3>2
      <4>2. ~answering[c]
        OBVIOUS
      <4>3. Owed(c)' = Owed(c)
        BY <1>3, <1>4, <4>1, <4>2 DEF Owed
      <4>4. owed \in Nat
        BY OwedType
      <4>5. then = owed + 0
        BY <4>3, <4>4
      <4> QED
        BY <3>2, <4>4, <4>5
    <3> QED
      BY <3>1, <3>2
  <2>3. At(said[c], buffer'[c] \o wire[c], heard[c], 2 * then)
    <3>1. CASE frame.kind = "ping"
      <4>1. At(said[c], From(buffer[c], 4) \o wire[c], heard[c], 2 * owed + 2)
        BY <1>2, <3>1, StreamFacts, AtPing
      <4>2. 2 * then = 2 * owed + 2
        <5> HIDE DEF then, owed
        <5> QED
          BY <2>2, <3>1
      <4> QED
        BY <1>2, <2>1, <3>1, <4>1, <4>2
    <3>2. CASE frame.kind = "pong"
      <4>1. At(said[c], From(buffer[c], 2) \o wire[c], heard[c], 2 * owed + 1)
        BY <1>2, <3>2, StreamFacts, AtPong
      <4>2. /\ 2 * then = 2 * owed /\ 2 * owed \in Nat /\ 2 * owed + 1 \in Nat
            /\ 2 * owed <= 2 * owed + 1
        <5> HIDE DEF then, owed
        <5> QED
          BY <2>2, <3>2
      <4>3. At(said[c], From(buffer[c], 2) \o wire[c], heard[c], 2 * owed)
        BY <4>1, <4>2, StreamFacts, AtFewer
      <4> QED
        BY <1>2, <2>1, <3>2, <4>2, <4>3
    <3> QED
      BY <1>1, <3>1, <3>2
  <2> QED
    BY <1>1, <1>4, <2>3, StreamFacts DEF StreamAt, Stays
<1>5. CASE d # c
  <2>1. answering'[d] = answering[d] /\ buffer'[d] = buffer[d]
    BY <1>1, <1>5, ReadTypes
  <2> QED
    BY <1>1, <1>3, <2>1, StreamSame DEF StreamInv
<1> QED
  BY <1>4, <1>5

\* The answer is written: it is no longer owed but given.
LEMMA AnswerStep ==
  ASSUME TypeOK, StreamInv, Stays, NEW c \in Conn, FinishAnswer(c)
  PROVE  StreamInv'
<1> DEFINE p == Given
<1>1. /\ out' = [out EXCEPT ![c] = Append(@, p)]
      /\ answering' = [answering EXCEPT ![c] = FALSE] /\ answering[c]
      /\ said' = said /\ wire' = wire /\ buffer' = buffer /\ heard' = heard
  BY DEF FinishAnswer, Put, Given
<1>2. p = Given
  OBVIOUS
<1> HIDE DEF p
<1> SUFFICES ASSUME NEW d \in Conn PROVE StreamAt(d)'
  BY DEF StreamInv
<1>3. CASE d = c
  <2>1. out'[c] = Append(out[c], p) /\ answering'[c] = FALSE
    BY <1>1, ReadTypes
  <2>2. Cardinality(Answers(c)') = Cardinality(Answers(c)) + 1
    BY <1>2, <2>1, AnswersAppend
  <2>3. Owed(c)' = Owed(c)
    BY <1>1, <2>1, <2>2, OwedType DEF Owed
  <2> QED
    BY <1>1, <1>3, <2>3, StreamFacts DEF StreamAt, Stays
<1>4. CASE d # c
  <2>1. out'[d] = out[d] /\ answering'[d] = answering[d]
    BY <1>1, <1>4, ReadTypes
  <2> QED
    BY <1>1, <2>1, AnswersSame, StreamSame DEF StreamInv
<1> QED
  BY <1>3, <1>4

\* Every step keeps the place in the stream.
LEMMA StreamStep ==
  ASSUME TypeOK, Known, StreamInv, Next
  PROVE  StreamInv'
<1>0. Stays
  BY StaysInUse
<1>1. CASE Writes
  BY <1>0, <1>1, WritesStep
<1>2. ASSUME NEW c \in Conn, out' = out,
             \/ \E s \in {"in", "out"}, protocol \in {"tcp", "ws"} :
                    Established(c, s, protocol)
             \/ HangUp(c) \/ ReaderGone(c) \/ Delivers(c)
      PROVE  StreamInv'
  <2>1. CASE \E s \in {"in", "out"}, protocol \in {"tcp", "ws"} :
                Established(c, s, protocol)
    BY <1>0, <1>2, <2>1, EstablishedStep
  <2>2. CASE HangUp(c)
    BY <1>0, <1>2, <2>2, HangUpStep
  <2>3. CASE ReaderGone(c)
    BY <1>0, <1>2, <2>3, ReaderGoneStep
  <2>4. CASE Delivers(c)
    BY <1>0, <1>2, <2>4, ReadStep, HearStep, KeepaliveStep DEF Delivers
  <2> QED
    BY <1>2, <2>1, <2>2, <2>3, <2>4
<1>3. ASSUME NEW c \in Conn, FinishAnswer(c) PROVE StreamInv'
  BY <1>0, <1>3, AnswerStep
<1> QED
  BY <1>1, <1>2, <1>3, StreamSteps

\* The place in the stream, in every state.
LEMMA StreamInvariant == Spec => []StreamInv
<1>1. Init => StreamInv
  <2> SUFFICES ASSUME Init, NEW c \in Conn PROVE StreamAt(c)
    BY DEF StreamInv
  <2>1. /\ said[c] = <<>> /\ wire[c] = <<>> /\ buffer[c] = <<>> /\ heard[c] = <<>>
        /\ answering[c] = FALSE /\ out[c] = <<>>
    BY DEF Init
  <2>2. Answers(c) = {}
    BY <2>1 DEF Answers
  <2>3. Cardinality({}) = 0
    BY FS_EmptySet
  <2>4. 2 * Owed(c) = 0
    BY <2>1, <2>2, <2>3 DEF Owed
  <2>5. At(<<>>, Bytes(<<>>), <<>>, 0)
    <3>1. <<>> \in Seq(Seq(Nat))
      OBVIOUS
    <3> QED
      BY <3>1, AtStart
  <2>6. Bytes(<<>>) = <<>> /\ <<>> \o <<>> = <<>>
    BY BytesEmpty
  <2> QED
    BY <2>1, <2>4, <2>5, <2>6 DEF StreamAt, IsStream
<1>2. TypeOK /\ Known /\ StreamInv /\ [Next]_vars => StreamInv'
  <2>1. CASE Next
    BY <2>1, StreamStep
  <2>2. CASE UNCHANGED vars
    BY <2>2 DEF vars, linkVars, readVars, writeVars, StreamInv, StreamAt, Owed, Answers
  <2> QED
    BY <2>1, <2>2
<1>3. RegistryInv => TypeOK /\ Known
  BY DEF RegistryInv
<1> QED
  BY <1>1, <1>2, <1>3, RegistryInvariant, PTL DEF Spec

\* However the bytes of a TCP connection are cut into reads, and wherever the
\* stream is broken off (decode.rs:29-93, tcp.rs:172-194), what the reader
\* passes on is the messages the peer sent, whole and in order, and it answers
\* no more keep-alive requests than there were.
THEOREM HeardIntact == Spec => []MessagesIntact
<1>1. TypeOK /\ StreamInv => MessagesIntact
  <2> SUFFICES ASSUME TypeOK, StreamInv, NEW c \in Conn
               PROVE  /\ IsPrefix(heard[c], Messages(said[c]))
                      /\ Cardinality(Answers(c)) <= Cardinality(Pings(said[c]))
    BY DEF MessagesIntact
  <2>1. IsPrefix(heard[c], Messages(said[c]))
    BY StreamFacts, AtPrefix
  <2> DEFINE n == Cardinality(Answers(c))
             m == Cardinality(Pings(said[c]))
             owed == Owed(c)
  <2>2. owed <= m /\ owed \in Nat
    BY StreamFacts, AtPings
  <2>3. n \in Nat /\ owed = n + (IF answering[c] THEN 1 ELSE 0)
    BY OwedType DEF Owed
  <2>4. m \in Nat
    <3>1. said[c] \in Seq(Seq(Nat))
      BY StreamFacts
    <3>2. IsFiniteSet(1 .. Len(said[c])) /\ Pings(said[c]) \in SUBSET (1 .. Len(said[c]))
      BY <3>1, FS_Interval DEF Pings
    <3> QED
      BY <3>2, FS_Subset, FS_CardinalityType
  <2>5. n <= m
    <3> HIDE DEF n, m, owed
    <3> QED
      BY <2>2, <2>3, <2>4
  <2> QED
    BY <2>1, <2>5
<1> QED
  BY <1>1, TypeCorrect, StreamInvariant, PTL
=============================================================================
