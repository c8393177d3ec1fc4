------------------------- MODULE NegotiationProofs -------------------------
(***************************************************************************)
(* Proofs about Negotiation, for all parameters of the TU and everything a *)
(* peer may describe, and about SdpExchange, for all offers and foreign    *)
(* descriptions that can be written down.                                  *)
(***************************************************************************)
EXTENDS Negotiation, SdpExchange, SelectionProofs, TLAPS

\* What a caller has said and heard at every stage.
CallerSpoke ==
    /\ stage \in {"new", "calling", "told", "established", "failed"}
    /\ stage = "new" => nego.state = "Initial" /\ spoken = <<>>
    /\ stage = "calling" =>
        \/ nego.state = "Initial" /\ spoken = <<>>
        \/ nego.state = "LocalOffer" /\ spoken = <<"us">> /\ nego.remote = NoSdp
    /\ stage = "told" => nego.state = "Done" /\ spoken = <<"peer">>

\* And one that is called.
CalleeSpoke ==
    /\ stage \in {"new", "incoming", "accepted", "told", "established", "failed"}
    /\ stage = "new" => nego.state = "Initial" /\ spoken = <<>>
    /\ stage = "incoming" =>
        \/ nego.state = "Initial" /\ spoken = <<>> /\ nego.remote = NoSdp
        \/ nego.state = "RemoteOffer" /\ spoken = <<"peer">>
    /\ stage = "accepted" =>
        \/ nego.state = "Done" /\ spoken = <<"peer", "us">>
        \/ nego.state = "LocalOffer" /\ spoken = <<"us">> /\ nego.remote = NoSdp
    /\ stage = "told" => nego.state = "Done" /\ spoken = <<"peer", "us">>

IInv ==
    /\ role \in {"caller", "callee", "application"}
    /\ OffersPresent
    /\ nego.state = "Initial" => nego.remote = NoSdp
    /\ nego.state = "RemoteOffer" => nego.remote # NoSdp
    /\ role = "caller" => CallerSpoke
    /\ role = "callee" => CalleeSpoke
    /\ role = "application" => stage \in {"new", "failed"} /\ spoken = <<>>

-----------------------------------------------------------------------------
(* The invariant. *)

Who == {"us", "peer"}

\* What it is to speak second, or to say nothing.
LEMMA Second ==
  ASSUME NEW a \in Who, NEW b \in Who
  PROVE  /\ Append(<<a>>, b) = <<a, b>>
         /\ <<a>> \o <<b>> = <<a, b>>
         /\ <<a, b>> \o <<>> = <<a, b>>
<1>1. <<a, b>> \in Seq(Who) /\ <<a>> \in Seq(Who) /\ <<b>> \in Seq(Who)
  OBVIOUS
<1>2. Append(<<a>>, b) \in Seq(Who) /\ <<a>> \o <<b>> \in Seq(Who)
  BY <1>1
<1>3. Len(<<a, b>>) = 2 /\ <<a, b>>[1] = a /\ <<a, b>>[2] = b
  OBVIOUS
<1>4. /\ Len(Append(<<a>>, b)) = 2
      /\ Append(<<a>>, b)[1] = a /\ Append(<<a>>, b)[2] = b
  BY <1>1
<1>5. /\ Len(<<a>> \o <<b>>) = 2
      /\ (<<a>> \o <<b>>)[1] = a /\ (<<a>> \o <<b>>)[2] = b
  BY <1>1
<1>6. \A i \in 1 .. 2 : i = 1 \/ i = 2
  OBVIOUS
<1>7. Append(<<a>>, b) = <<a, b>>
  BY <1>1, <1>2, <1>3, <1>4, <1>6, SeqEqual
<1>8. <<a>> \o <<b>> = <<a, b>>
  BY <1>1, <1>2, <1>3, <1>5, <1>6, SeqEqual
<1>9. <<a, b>> \o <<>> = <<a, b>>
  BY <1>1, ConcatEmptySeq
<1> QED
  BY <1>7, <1>8, <1>9

\* It holds at first.
LEMMA Start == Init => IInv
  BY DEF Init, IInv, New, Negotiator, OffersPresent, CallerSpoke, CalleeSpoke

\* Every step keeps it.
LEMMA Step == IInv /\ [Next]_vars => IInv'
<1> SUFFICES ASSUME IInv, [Next]_vars PROVE IInv'
  OBVIOUS
<1> USE ConstantsAssumption DEF ConstantsAssumption, IInv, OffersPresent,
        CallerSpoke, CalleeSpoke, Negotiator, SetLocal, SetRemote,
        CreateAnswer, ProcessAnswer, Say
<1>1. ASSUME Caller PROVE IInv'
  <2>1. CASE SendInvite
    BY <2>1 DEF SendInvite
  <2>2. CASE AnswerWithoutBody
    BY <2>2 DEF AnswerWithoutBody, Tell
  <2>3. CASE OfferUnanswered
    BY <2>3 DEF OfferUnanswered
  <2>4. CASE SendAck
    BY <2>4, Second DEF Who, SendAck
  <2>5. ASSUME NEW theirs \in Remote, AnswerInResponse(theirs) PROVE IInv'
    BY <2>5, Second DEF Who, AnswerInResponse, ProcessAnd, Tell
  <2>6. ASSUME NEW theirs \in Remote, NEW mine \in Local,
               DelayedOffer(theirs, mine)
        PROVE IInv'
    BY <2>6 DEF DelayedOffer, AnswerAnd, Tell
  <2> QED
    BY <1>1, <2>1, <2>2, <2>3, <2>4, <2>5, <2>6 DEF Caller
<1>2. ASSUME Callee PROVE IInv'
  <2>1. CASE FromInvite
    BY <2>1 DEF FromInvite
  <2>2. CASE AnswerMissing
    BY <2>2 DEF AnswerMissing
  <2>3. CASE GotAck
    BY <2>3 DEF GotAck, Tell
  <2>4. CASE StartTask
    BY <2>4 DEF StartTask
  <2>5. ASSUME NEW theirs \in Remote, AnswerInAck(theirs) PROVE IInv'
    BY <2>5, Second DEF Who, AnswerInAck, ProcessAnd, Tell
  <2>6. ASSUME NEW mine \in Local, AcceptOffer(mine) PROVE IInv'
    <3>1. Append(<<"peer">>, "us") = <<"peer", "us">>
      BY Second DEF Who
    <3>2. CASE AnswerPanics(SetLocal(nego, mine))
      BY <2>6, <3>2 DEF AcceptOffer, AnswerAnd
    <3>3. CASE ~AnswerPanics(SetLocal(nego, mine))
      <4>1. /\ stage' = "accepted" /\ role' = role /\ role = "callee"
            /\ nego' = CreateAnswer(SetLocal(nego, mine))
            /\ nego.state = "RemoteOffer" /\ stage = "incoming"
        BY <2>6, <3>3 DEF AcceptOffer, AnswerAnd
      <4>2. spoken' = <<"peer", "us">>
        BY <2>6, <3>1, <4>1 DEF AcceptOffer
      <4>3. /\ nego'.state = "Done" /\ nego'.remote = nego.remote
            /\ nego'.local = mine
        BY <4>1
      <4> QED
        BY <4>1, <4>2, <4>3
    <3> QED
      BY <3>2, <3>3
  <2>7. ASSUME NEW mine \in Local, AcceptAndOffer(mine) PROVE IInv'
    BY <2>7 DEF AcceptAndOffer
  <2> QED
    BY <1>2, <2>1, <2>2, <2>3, <2>4, <2>5, <2>6, <2>7 DEF Callee
<1>3. CASE Fail
  BY <1>3 DEF Fail
<1>4. ASSUME Calls PROVE IInv'
  <2>1. CASE CallCreateAnswer
    BY <2>1 DEF CallCreateAnswer, Application, AnswerAnd
  <2>2. CASE CallRefused
    BY <2>2 DEF CallRefused, vars
  <2>3. ASSUME NEW theirs \in Remote, CallSetRemote(theirs) PROVE IInv'
    BY <2>3 DEF CallSetRemote, Application, CanSetRemote
  <2>4. ASSUME NEW theirs \in Remote, CallProcessAnswer(theirs) PROVE IInv'
    BY <2>4 DEF CallProcessAnswer, Application, ProcessAnd
  <2>5. ASSUME NEW mine \in Local, CallSetLocal(mine) PROVE IInv'
    BY <2>5 DEF CallSetLocal, Application, CanSetLocal
  <2> QED
    BY <1>4, <2>1, <2>2, <2>3, <2>4, <2>5 DEF Calls
<1>5. CASE UNCHANGED vars
  BY <1>5 DEF vars
<1> QED
  BY <1>1, <1>2, <1>3, <1>4, <1>5 DEF Next, Over

\* The inductive invariant of a negotiation: what has been said at each stage.
THEOREM Invariance == Spec => []IInv
  BY Start, Step, PTL DEF Spec

\* What create_answer and process_answer expect is there, in every order of
\* calls.
THEOREM NothingExpectedInVain == Spec => []OffersPresent
<1>1. IInv => OffersPresent
  BY DEF IInv
<1> QED
  BY <1>1, Invariance, PTL

\* A settled negotiation is left alone.
THEOREM Final == Spec => AnswerIsFinal
<1>1. IInv /\ [Next]_vars => (nego.state = "Done" => UNCHANGED nego)
  <2> SUFFICES ASSUME IInv, nego.state = "Done", [Next]_vars
               PROVE  UNCHANGED nego
    OBVIOUS
  <2> USE DEF IInv, CallerSpoke, CalleeSpoke
  <2>1. CASE Caller
    BY <2>1 DEF Caller, SendInvite, AnswerWithoutBody, OfferUnanswered,
                SendAck, AnswerInResponse, DelayedOffer
  <2>2. CASE Callee
    BY <2>2 DEF Callee, FromInvite, AnswerMissing, GotAck, StartTask,
                AnswerInAck, AcceptOffer, AcceptAndOffer
  <2>3. CASE Fail
    BY <2>3 DEF Fail
  <2>4. CASE Calls
    BY <2>4 DEF Calls, CallCreateAnswer, CallRefused, CallSetRemote,
                CallProcessAnswer, CallSetLocal, CanSetRemote, CanSetLocal, vars
  <2>5. CASE UNCHANGED vars
    BY <2>5 DEF vars
  <2> QED
    BY <2>1, <2>2, <2>3, <2>4, <2>5 DEF Next, Over
<1>2. IInv /\ [Next]_vars => [nego.state = "Done" => UNCHANGED nego]_vars
  BY <1>1
<1> QED
  BY <1>2, Invariance, PTL DEF Spec, AnswerIsFinal

-----------------------------------------------------------------------------
(* The answer. *)

Stream == [kind : STRING, open : BOOLEAN, direction : Direction, formats : Seq(Nat)]

\* Every direction of an answer goes with the one offered.
LEMMA DirectionFits ==
    ASSUME NEW l \in Stream, NEW r \in Stream
    PROVE  /\ AnswerStream(l, r) \in Stream
           /\ AnswerStream(l, r).kind = l.kind
           /\ AnswerStream(l, r).formats = Filter(l.formats, ToSet(r.formats))
           /\ Sends(AnswerStream(l, r)) => Receives(r)
           /\ Receives(AnswerStream(l, r)) => Sends(r)
           /\ r.direction # "sendrecv" =>
                  /\ Sends(AnswerStream(l, r)) => Sends(l)
                  /\ Receives(AnswerStream(l, r)) => Receives(l)
<1> DEFINE a == AnswerStream(l, r)
<1>1. /\ l.formats \in Seq(Nat) /\ l.kind \in STRING /\ l.open \in BOOLEAN
      /\ l.direction \in Direction /\ r.direction \in Direction
    BY DEF Stream
<1>2. Filter(l.formats, ToSet(r.formats)) \in Seq(Nat)
    BY <1>1, FilterType
<1>3. AnswerDirection(l, r) \in Direction
    BY <1>1 DEF AnswerDirection, Direction
<1>4. /\ a \in Stream /\ a.kind = l.kind /\ a.direction = AnswerDirection(l, r)
      /\ a.formats = Filter(l.formats, ToSet(r.formats))
    BY <1>1, <1>2, <1>3 DEF AnswerStream, Stream
<1> HIDE DEF a
<1>5. /\ Sends(a) => Receives(r)
      /\ Receives(a) => Sends(r)
      /\ r.direction # "sendrecv" => (Sends(a) => Sends(l)) /\ (Receives(a) => Receives(l))
    BY <1>4 DEF AnswerDirection, Sends, Receives
<1> QED
    BY <1>4, <1>5 DEF a

\* The formats of an answer are the common ones, in our order.
LEMMA FormatsFit ==
    ASSUME NEW s \in Seq(Nat), NEW t \in Seq(Nat)
    PROVE  /\ ToSet(Filter(s, ToSet(t))) = ToSet(s) \cap ToSet(t)
           /\ \E at \in [DOMAIN Filter(s, ToSet(t)) -> DOMAIN s] :
                  /\ Increasing(at)
                  /\ \A i \in DOMAIN at : Filter(s, ToSet(t))[i] = s[at[i]]
<1> DEFINE f == Filter(s, ToSet(t))
<1>1. f \in Seq(Nat)
    BY FilterType
<1>2. PICK at : Places(at, f, s, ToSet(t))
    BY FilterPlaces
<1> HIDE DEF f
<1>3. DOMAIN f = 1 .. Len(f) /\ DOMAIN s = 1 .. Len(s)
    BY <1>1
<1>4. at \in [DOMAIN f -> DOMAIN s] /\ DOMAIN at = DOMAIN f
    BY <1>2, <1>3 DEF Places
<1>5. Increasing(at) /\ \A i \in DOMAIN at : f[i] = s[at[i]]
    BY <1>2, <1>3, <1>4 DEF Places, Increasing
<1>6. ToSet(f) \subseteq ToSet(s) \cap ToSet(t)
    BY <1>2, <1>3, <1>4, <1>5 DEF Places, ToSet
<1>7. ASSUME NEW x \in ToSet(s) \cap ToSet(t) PROVE x \in ToSet(f)
    <2>1. PICK k \in DOMAIN s : s[k] = x
        BY DEF ToSet
    <2>2. s[k] \in ToSet(t) /\ k \in 1 .. Len(s)
        BY <1>3, <2>1
    <2>3. PICK i \in 1 .. Len(f) : at[i] = k
        BY <1>2, <2>2 DEF Places
    <2>4. f[i] = x /\ i \in DOMAIN f
        BY <1>3, <1>4, <1>5, <2>1, <2>3
    <2> QED
        BY <2>4 DEF ToSet
<1> QED
    BY <1>4, <1>5, <1>6, <1>7 DEF f

\* The streams of an answer are the open ones, in order.
LEMMA StreamsFit ==
    ASSUME NEW l \in Description, NEW r \in Description, ~Mismatch(l, r)
    PROVE  LET a == Answer(l, r)
               open == OpenAt(l, r)
           IN /\ a \in Description
              /\ Len(a) = Cardinality(open)
              /\ \E at \in [DOMAIN a -> open] :
                     Increasing(at) /\ \A i \in DOMAIN at : Fits(a[i], l[at[i]], r[at[i]])
<1> DEFINE a == Answer(l, r)
           open == OpenAt(l, r)
           all == [i \in 1 .. Len(l) |-> i]
           at == Answered(l, r)
           n == Len(at)
<1>1. l \in Seq(Stream) /\ r \in Seq(Stream)
    BY DEF Description, Stream
<1>2. Len(l) \in Nat /\ DOMAIN l = 1 .. Len(l) /\ DOMAIN r = 1 .. Len(r)
    BY <1>1
<1>3. all \in Seq(Nat) /\ Len(all) = Len(l) /\ \A i \in 1 .. Len(l) : all[i] = i
    BY <1>2
<1>4. at = Filter(all, open)
    BY DEF Answered
<1>5. open \subseteq 1 .. Len(l) /\ open \subseteq DOMAIN r
    BY <1>2 DEF OpenAt, Matched
<1> HIDE DEF all, open, at
<1>6. at \in Seq(Nat)
    BY <1>3, <1>4, FilterType
<1>7. PICK to : Places(to, at, all, open)
    BY <1>3, <1>4, FilterPlaces
<1>8. n \in Nat /\ DOMAIN at = 1 .. n
    BY <1>6
<1> HIDE DEF n
<1>9. /\ to \in [1 .. n -> 1 .. Len(l)]
      /\ \A i, j \in 1 .. n : i < j => to[i] < to[j]
      /\ \A i \in 1 .. n : at[i] = all[to[i]] /\ at[i] \in open
      /\ \A k \in 1 .. Len(l) : all[k] \in open => \E i \in 1 .. n : to[i] = k
    BY <1>3, <1>7 DEF Places, n
<1>10. \A i \in 1 .. n : at[i] = to[i] /\ at[i] \in open /\ at[i] \in Nat
    BY <1>3, <1>9
<1>11. /\ at \in [1 .. n -> open]
       /\ \A i, j \in 1 .. n : i < j => at[i] < at[j]
       /\ \A k \in open : \E i \in 1 .. n : at[i] = k
    <2>1. at = [i \in 1 .. n |-> at[i]]
        BY <1>6, <1>8
    <2>2. ASSUME NEW k \in open PROVE \E i \in 1 .. n : at[i] = k
        <3>1. k \in 1 .. Len(l) /\ all[k] \in open
            BY <1>3, <1>5
        <3> QED
            BY <1>9, <1>10, <3>1
    <2> QED
        BY <1>9, <1>10, <2>1, <2>2
<1>12. Cardinality(open) = n
    <2>1. \A i, j \in 1 .. n : i # j => at[i] # at[j]
        <3>1. \A i, j \in 1 .. n : i # j => i < j \/ j < i
            BY <1>8
        <3>2. \A i, j \in 1 .. n : i < j => at[i] # at[j]
            BY <1>10, <1>11
        <3> QED
            BY <3>1, <3>2
    <2>2. at \in Bijection(1 .. n, open)
        BY <1>11, <2>1 DEF Bijection, Injection, Surjection, IsInjective
    <2>3. ExistsBijection(1 .. n, open)
        BY <2>2 DEF ExistsBijection
    <2> QED
        BY <1>8, <2>3, FS_CountingElements
<1>13. a = [j \in 1 .. n |-> AnswerStream(l[at[j]], r[at[j]])]
    BY DEF Answer, at, n
<1>14. ASSUME NEW i \in 1 .. n
       PROVE  /\ a[i] = AnswerStream(l[at[i]], r[at[i]])
              /\ l[at[i]] \in Stream /\ r[at[i]] \in Stream /\ a[i] \in Stream
    <2>1. at[i] \in 1 .. Len(l) /\ at[i] \in DOMAIN r
        BY <1>5, <1>10
    <2>2. l[at[i]] \in Stream /\ r[at[i]] \in Stream
        BY <1>1, <1>2, <2>1
    <2> QED
        BY <1>13, <2>2, DirectionFits
<1>15. a \in Seq(Stream) /\ Len(a) = n /\ DOMAIN a = 1 .. n
    BY <1>8, <1>13, <1>14
<1> HIDE DEF a
<1>16. ASSUME NEW i \in 1 .. n PROVE Fits(a[i], l[at[i]], r[at[i]])
    <2> DEFINE x == l[at[i]]
               y == r[at[i]]
    <2>1. a[i] = AnswerStream(x, y) /\ x \in Stream /\ y \in Stream
        BY <1>14
    <2>2. x.kind = y.kind
        <3>1. at[i] \in Matched(l, r)
            BY <1>11 DEF open, OpenAt
        <3> QED
            BY <3>1 DEF Mismatch
    <2> HIDE DEF x, y
    <2>3. x.formats \in Seq(Nat) /\ y.formats \in Seq(Nat)
        BY <2>1 DEF Stream
    <2>4. a[i].formats = Filter(x.formats, ToSet(y.formats)) /\ a[i].kind = x.kind
        BY <2>1, DirectionFits
    <2>5. /\ ToSet(a[i].formats) = ToSet(x.formats) \cap ToSet(y.formats)
          /\ \E f \in [DOMAIN a[i].formats -> DOMAIN x.formats] :
                 Increasing(f) /\ \A k \in DOMAIN f : a[i].formats[k] = x.formats[f[k]]
        <3> DEFINE g == Filter(x.formats, ToSet(y.formats))
        <3>1. /\ ToSet(g) = ToSet(x.formats) \cap ToSet(y.formats)
              /\ \E f \in [DOMAIN g -> DOMAIN x.formats] :
                     Increasing(f) /\ \A k \in DOMAIN f : g[k] = x.formats[f[k]]
            BY <2>3, FormatsFit
        <3>2. a[i].formats = g
            BY <2>4
        <3> HIDE DEF g
        <3> QED
            BY <3>1, <3>2
    <2>6. /\ Sends(a[i]) => Receives(y)
          /\ Receives(a[i]) => Sends(y)
          /\ y.direction # "sendrecv" =>
                 (Sends(a[i]) => Sends(x)) /\ (Receives(a[i]) => Receives(x))
        BY <2>1, DirectionFits
    <2>7. Fits(a[i], x, y)
        BY <2>2, <2>4, <2>5, <2>6 DEF Fits
    <2> QED
        BY <2>7 DEF x, y
<1>17. at \in [DOMAIN a -> open] /\ Increasing(at) /\ DOMAIN at = 1 .. n
    BY <1>8, <1>11, <1>15 DEF Increasing
<1>18. \E f \in [DOMAIN a -> open] :
           Increasing(f) /\ \A i \in DOMAIN f : Fits(a[i], l[f[i]], r[f[i]])
    BY <1>16, <1>17
<1>19. a \in Description
    BY <1>15 DEF Description, Stream
<1> QED
    BY <1>12, <1>15, <1>18, <1>19 DEF a, open

\* What a negotiator may hold: an answer of our own is the one create_answer
\* makes of the two offers, which do not clash.
Held(n) ==
    /\ n \in [state : State, local : Local \cup {NoSdp},
              remote : Remote \cup {NoSdp}, answer : Description \cup {NoSdp}]
    /\ n.state \in {"LocalOffer", "Ready", "Done"} => n.local # NoSdp
    /\ n.state \in {"RemoteOffer", "Ready"} => n.remote # NoSdp
    /\ n.state \in {"Initial", "LocalOffer"} => n.remote = NoSdp
    /\ n.state = "Done" /\ n.remote # NoSdp =>
        n.answer = Answer(n.local, n.remote) /\ ~Mismatch(n.local, n.remote)

HInv == IInv /\ TypeOK /\ Held(nego)

\* What the functions of a negotiator make of it.
LEMMA HeldLocal ==
    ASSUME NEW n, Held(n), CanSetLocal(n), NEW mine \in Local
    PROVE  Held(SetLocal(n, mine))
    BY ConstantsAssumption DEF ConstantsAssumption, Held, CanSetLocal, SetLocal, Negotiator, State

\* A negotiator that is given the remote offer holds what it may.
LEMMA HeldRemote ==
    ASSUME NEW n, Held(n), CanSetRemote(n), NEW theirs \in Remote
    PROVE  Held(SetRemote(n, theirs))
    BY ConstantsAssumption DEF ConstantsAssumption, Held, CanSetRemote, SetRemote, Negotiator, State

\* So does one that has created the answer,
LEMMA HeldAnswer ==
    ASSUME NEW n, Held(n), n.state = "Ready", ~AnswerPanics(n)
    PROVE  Held(CreateAnswer(n))
<1>1. n.local \in Description /\ n.remote \in Description
    BY ConstantsAssumption DEF ConstantsAssumption, Held
<1>2. Answer(n.local, n.remote) \in Description
    BY <1>1, StreamsFit DEF AnswerPanics
<1> QED
    BY <1>2 DEF Held, CreateAnswer, Negotiator, AnswerPanics, State

\* and one that has processed the answer of the peer,
LEMMA HeldProcess ==
    ASSUME NEW n, Held(n), n.state = "LocalOffer", NEW sdp \in Remote
    PROVE  Held(ProcessAnswer(n, sdp))
    BY ConstantsAssumption DEF ConstantsAssumption, Held, ProcessAnswer, Negotiator, State

\* create_answer and process_answer, wherever they are called.
LEMMA HeldAnswerAnd ==
    ASSUME NEW n, Held(n), n.state = "Ready", NEW next, AnswerAnd(n, next)
    PROVE  Held(nego')
<1>1. CASE AnswerPanics(n)
    BY <1>1 DEF AnswerAnd
<1>2. CASE ~AnswerPanics(n)
    BY <1>2, HeldAnswer DEF AnswerAnd
<1> QED
    BY <1>1, <1>2

\* also when the step goes on after that.
LEMMA HeldProcessAnd ==
    ASSUME Held(nego), nego.state = "LocalOffer", NEW sdp \in Remote, NEW next,
           ProcessAnd(sdp, next)
    PROVE  Held(nego')
<1>1. CASE Mismatch(nego.local, sdp)
    BY <1>1 DEF ProcessAnd
<1>2. CASE ~Mismatch(nego.local, sdp)
    BY <1>2, HeldProcess DEF ProcessAnd
<1> QED
    BY <1>1, <1>2

\* It holds at first.
LEMMA HeldStart == Init => HInv
<1> SUFFICES ASSUME Init PROVE HInv
    OBVIOUS
<1>1. IInv
    BY Start
<1>2. Held(nego)
    BY DEF Init, New, Negotiator, Held, State
<1> QED
    BY <1>1, <1>2 DEF HInv, TypeOK, Held, Init

\* Every step keeps it.
LEMMA HeldStep == HInv /\ [Next]_vars => HInv'
<1> SUFFICES ASSUME HInv, [Next]_vars PROVE HInv'
    OBVIOUS
<1> USE DEF HInv
<1>1. IInv'
    BY Step
<1>2. Held(nego')
    <2>1. CASE Caller
        <3>1. CASE SendInvite
            <4>1. CanSetLocal(nego)
                BY <3>1 DEF SendInvite, IInv, CallerSpoke, CanSetLocal
            <4> QED
                BY <3>1, <4>1, HeldLocal DEF SendInvite
        <3>2. CASE AnswerWithoutBody \/ OfferUnanswered \/ SendAck
            BY <3>2 DEF AnswerWithoutBody, OfferUnanswered, SendAck
        <3>3. ASSUME NEW theirs \in Remote, AnswerInResponse(theirs) PROVE Held(nego')
            BY <3>3, HeldProcessAnd DEF AnswerInResponse
        <3>4. ASSUME NEW theirs \in Remote, NEW mine \in Local, DelayedOffer(theirs, mine)
              PROVE  Held(nego')
            <4> DEFINE m == SetLocal(nego, mine)
                       n == SetRemote(m, theirs)
            <4>1. nego.state = "Initial" /\ AnswerAnd(n, Tell(CreateAnswer(n)))
                BY <3>4 DEF DelayedOffer
            <4>2. Held(m) /\ m.state = "LocalOffer"
                BY <4>1, HeldLocal DEF CanSetLocal, SetLocal, Negotiator
            <4> HIDE DEF m
            <4>3. Held(n) /\ n.state = "Ready"
                BY <4>2, HeldRemote DEF CanSetRemote, SetRemote, Negotiator
            <4> HIDE DEF n
            <4> DEFINE next == Tell(CreateAnswer(n))
            <4>4. AnswerAnd(n, next)
                BY <4>1
            <4> HIDE DEF next
            <4> QED
                BY <4>3, <4>4, HeldAnswerAnd
        <3> QED
            BY <2>1, <3>1, <3>2, <3>3, <3>4 DEF Caller
    <2>2. CASE Callee
        <3>1. CASE FromInvite
            <4>1. CanSetRemote(nego)
                BY <3>1 DEF FromInvite, IInv, CalleeSpoke, CanSetRemote
            <4> QED
                BY <3>1, <4>1, HeldRemote DEF FromInvite
        <3>2. CASE AnswerMissing \/ GotAck \/ StartTask
            BY <3>2 DEF AnswerMissing, GotAck, StartTask
        <3>3. ASSUME NEW theirs \in Remote, AnswerInAck(theirs) PROVE Held(nego')
            BY <3>3, HeldProcessAnd DEF AnswerInAck
        <3>4. ASSUME NEW mine \in Local, AcceptOffer(mine) PROVE Held(nego')
            <4> DEFINE n == SetLocal(nego, mine)
            <4>1. /\ nego.state = "RemoteOffer"
                  /\ AnswerAnd(n, stage' = "accepted" /\ UNCHANGED panic)
                BY <3>4 DEF AcceptOffer
            <4>2. Held(n) /\ n.state = "Ready"
                BY <4>1, HeldLocal DEF CanSetLocal, SetLocal, Negotiator
            <4> HIDE DEF n
            <4> DEFINE next == stage' = "accepted" /\ UNCHANGED panic
            <4>3. AnswerAnd(n, next)
                BY <4>1
            <4> HIDE DEF next
            <4> QED
                BY <4>2, <4>3, HeldAnswerAnd
        <3>5. ASSUME NEW mine \in Local, AcceptAndOffer(mine) PROVE Held(nego')
            BY <3>5, HeldLocal DEF AcceptAndOffer, CanSetLocal
        <3> QED
            BY <2>2, <3>1, <3>2, <3>3, <3>4, <3>5 DEF Callee
    <2>3. CASE Calls
        <3>1. CASE CallCreateAnswer
            BY <3>1, HeldAnswerAnd DEF CallCreateAnswer
        <3>2. CASE CallRefused
            BY <3>2 DEF CallRefused, vars
        <3>3. ASSUME NEW theirs \in Remote, CallSetRemote(theirs) PROVE Held(nego')
            BY <3>3, HeldRemote DEF CallSetRemote
        <3>4. ASSUME NEW theirs \in Remote, CallProcessAnswer(theirs) PROVE Held(nego')
            BY <3>4, HeldProcessAnd DEF CallProcessAnswer
        <3>5. ASSUME NEW mine \in Local, CallSetLocal(mine) PROVE Held(nego')
            BY <3>5, HeldLocal DEF CallSetLocal
        <3> QED
            BY <2>3, <3>1, <3>2, <3>3, <3>4, <3>5 DEF Calls
    <2>4. CASE Fail \/ UNCHANGED vars
        BY <2>4 DEF Fail, vars
    <2> QED
        BY <2>1, <2>2, <2>3, <2>4 DEF Next, Over
<1>3. /\ role' \in {"caller", "callee", "application"}
      /\ stage' \in {"new", "calling", "incoming", "accepted", "told",
                     "established", "failed"}
      /\ panic' \in {"no", "todo", "expect"}
    <2>1. role' = role /\ (panic' = panic \/ panic' \in {"todo", "expect"})
        BY DEF Next, Over, Caller, Callee, Calls, vars, SendInvite, AnswerWithoutBody,
               OfferUnanswered, SendAck, AnswerInResponse, DelayedOffer, FromInvite,
               AnswerMissing, GotAck, StartTask, AnswerInAck, AcceptOffer,
               AcceptAndOffer, Fail, CallCreateAnswer, CallRefused, CallSetRemote,
               CallProcessAnswer, CallSetLocal, AnswerAnd, ProcessAnd, Tell
    <2>2. role' \in {"caller", "callee", "application"}
        BY <2>1 DEF TypeOK
    <2>3. stage' \in {"new", "calling", "incoming", "accepted", "told",
                      "established", "failed"}
        BY <1>1, <2>2 DEF IInv, CallerSpoke, CalleeSpoke
    <2> QED
        BY <2>1, <2>2, <2>3 DEF TypeOK
<1>4. spoken' \in {<<>>, <<"us">>, <<"peer">>, <<"us", "peer">>, <<"peer", "us">>}
    <2> USE DEF TypeOK, IInv, CallerSpoke, CalleeSpoke, Say
    <2> DEFINE U == <<"us">>
               P == <<"peer">>
               UP == <<"us", "peer">>
               PU == <<"peer", "us">>
    <2>0. /\ Append(U, "peer") = UP /\ Append(P, "us") = PU
          /\ Append(<<>>, "us") = U /\ Append(<<>>, "peer") = P
        BY Second DEF Who
    <2>1. CASE Caller
        <3>1. CASE SendInvite
            BY <2>0, <3>1 DEF SendInvite
        <3>2. CASE AnswerWithoutBody
            BY <3>2 DEF AnswerWithoutBody
        <3>3. CASE OfferUnanswered
            BY <2>0, <3>3 DEF OfferUnanswered
        <3>4. CASE SendAck
            BY <2>0, <3>4 DEF SendAck
        <3>5. ASSUME NEW theirs \in Remote, AnswerInResponse(theirs)
              PROVE  spoken' \in {<<>>, U, P, UP, PU}
            BY <2>0, <3>5 DEF AnswerInResponse
        <3>6. ASSUME NEW theirs \in Remote, NEW mine \in Local, DelayedOffer(theirs, mine)
              PROVE  spoken' \in {<<>>, U, P, UP, PU}
            BY <2>0, <3>6 DEF DelayedOffer
        <3> QED
            BY <2>1, <3>1, <3>2, <3>3, <3>4, <3>5, <3>6 DEF Caller
    <2>2. CASE Callee
        <3>1. CASE FromInvite
            BY <2>0, <3>1 DEF FromInvite
        <3>2. CASE AnswerMissing \/ GotAck \/ StartTask
            BY <3>2 DEF AnswerMissing, GotAck, StartTask
        <3>3. ASSUME NEW theirs \in Remote, AnswerInAck(theirs)
              PROVE  spoken' \in {<<>>, U, P, UP, PU}
            BY <2>0, <3>3 DEF AnswerInAck
        <3>4. ASSUME NEW mine \in Local, AcceptOffer(mine) \/ AcceptAndOffer(mine)
              PROVE  spoken' \in {<<>>, U, P, UP, PU}
            BY <2>0, <3>4 DEF AcceptOffer, AcceptAndOffer
        <3> QED
            BY <2>2, <3>1, <3>2, <3>3, <3>4 DEF Callee
    <2>3. CASE Calls
        BY <2>3 DEF Calls, CallCreateAnswer, CallRefused, CallSetRemote,
            CallProcessAnswer, CallSetLocal, vars
    <2>4. CASE Fail \/ UNCHANGED vars
        BY <2>4 DEF Fail, vars
    <2> QED
        BY <2>1, <2>2, <2>3, <2>4 DEF Next, Over
<1> QED
    BY <1>1, <1>2, <1>3, <1>4 DEF TypeOK, Held

\* Whatever the TU prefers and the peer describes, in every order of calls and
\* on either side of a session, the answer that is given keeps the streams
\* open at both ends, the common formats and a direction that fits.
THEOREM AnswersFit == Spec => []AnswerSound
<1>1. HInv => AnswerSound
    <2> SUFFICES ASSUME HInv, nego.state = "Done", nego.remote # NoSdp
                 PROVE  AnswerFitsOffer
        BY DEF HInv, AnswerSound, AnswerFitsOffer
    <2>1. /\ nego.local \in Description /\ nego.remote \in Description
          /\ nego.answer = Answer(nego.local, nego.remote)
          /\ ~Mismatch(nego.local, nego.remote)
        BY ConstantsAssumption DEF HInv, Held, ConstantsAssumption
    <2> QED
        BY <2>1, StreamsFit DEF AnswerFitsOffer
<1>2. Spec => []HInv
    BY HeldStart, HeldStep, PTL DEF Spec
<1> QED
    BY <1>1, <1>2, PTL

-----------------------------------------------------------------------------
(* Negotiation implements OfferAnswer. *)

\* The phase of the promise, before and after a step.
Phase == IF stage \in {"established", "failed"} THEN stage ELSE "open"

\* Nobody speaks twice, and a session is established when both have spoken.
LEMMA StepImplements ==
  ASSUME IInv, [Next]_vars
  PROVE  [Promise!Next]_<<spoken, Phase>>
<1> USE DEF IInv, Say, Phase, Promise!Next, Promise!Speak, Promise!Dialogue,
        CallerSpoke, CalleeSpoke
<1>1. ASSUME Caller PROVE [Promise!Next]_<<spoken, Phase>>
  <2>1. CASE SendInvite
    BY <2>1 DEF SendInvite
  <2>2. CASE AnswerWithoutBody
    BY <2>2 DEF AnswerWithoutBody, Tell
  <2>3. CASE OfferUnanswered
    BY <2>3 DEF OfferUnanswered
  <2>4. CASE SendAck
    BY <2>4, Second DEF Who, SendAck
  <2>5. ASSUME NEW theirs \in Remote, AnswerInResponse(theirs)
        PROVE  [Promise!Next]_<<spoken, Phase>>
    BY <2>5, Second DEF Who, AnswerInResponse, ProcessAnd, Tell
  <2>6. ASSUME NEW theirs \in Remote, NEW mine \in Local,
               DelayedOffer(theirs, mine)
        PROVE  [Promise!Next]_<<spoken, Phase>>
    BY <2>6 DEF DelayedOffer, AnswerAnd, Tell
  <2> QED
    BY <1>1, <2>1, <2>2, <2>3, <2>4, <2>5, <2>6 DEF Caller
<1>2. ASSUME Callee PROVE [Promise!Next]_<<spoken, Phase>>
  <2>1. CASE FromInvite
    BY <2>1 DEF FromInvite
  <2>2. CASE AnswerMissing
    BY <2>2 DEF AnswerMissing
  <2>3. CASE GotAck
    BY <2>3 DEF GotAck, Tell
  <2>4. CASE StartTask
    BY <2>4 DEF StartTask
  <2>5. ASSUME NEW theirs \in Remote, AnswerInAck(theirs)
        PROVE  [Promise!Next]_<<spoken, Phase>>
    BY <2>5, Second DEF Who, AnswerInAck, ProcessAnd, Tell
  <2>6. ASSUME NEW mine \in Local, AcceptOffer(mine)
        PROVE  [Promise!Next]_<<spoken, Phase>>
    <3>1. /\ Append(<<"peer">>, "us") = <<"peer", "us">>
          /\ <<"peer">> \o <<"us">> = <<"peer", "us">>
          /\ <<"peer">> \o <<>> = <<"peer">>
      BY Second DEF Who
    <3>2. CASE AnswerPanics(SetLocal(nego, mine))
      BY <2>6, <3>1, <3>2 DEF AcceptOffer, AnswerAnd
    <3>3. CASE ~AnswerPanics(SetLocal(nego, mine))
      BY <2>6, <3>1, <3>3 DEF AcceptOffer, AnswerAnd
    <3> QED
      BY <3>2, <3>3
  <2>7. ASSUME NEW mine \in Local, AcceptAndOffer(mine)
        PROVE  [Promise!Next]_<<spoken, Phase>>
    BY <2>7 DEF AcceptAndOffer
  <2> QED
    BY <1>2, <2>1, <2>2, <2>3, <2>4, <2>5, <2>6, <2>7 DEF Callee
<1>3. CASE Fail
  BY <1>3 DEF Fail
<1>4. CASE Calls
  BY <1>4 DEF Calls, CallCreateAnswer, AnswerAnd, CallRefused, CallSetRemote,
              CallProcessAnswer, ProcessAnd, CallSetLocal, Application, vars
<1>5. CASE UNCHANGED vars
  BY <1>5 DEF vars
<1> QED
  BY <1>1, <1>2, <1>3, <1>4, <1>5 DEF Next, Over

\* A session keeps the promise of the offer/answer model, whichever side it
\* is on and whatever the descriptions.
THEOREM Implements == Spec => KeepsPromise
<1>1. Init => Promise!Init
  BY DEF Init, Promise!Init
<1>2. IInv /\ [Next]_vars => [Promise!Next]_Promise!vars
  BY StepImplements DEF Promise!vars, Phase, Promise!Next, Promise!Speak
<1> QED
  BY <1>1, <1>2, Invariance, PTL DEF Spec, KeepsPromise, Promise!Spec

-----------------------------------------------------------------------------
(* Texts and what stands in them. *)

Tokens == Seq(Words)

\* The words this code writes by itself.
LEMMA OwnWords ==
    /\ {SP, NL, ":", "/", "=", "0"} \subseteq Words /\ "end" \notin Words
    /\ \A letter \in Letters : letter \in Words \ {NL}
    /\ Numbers \cup AddrTypes \cup {"IN"} \subseteq Words \ {SP, NL, ":", "/", "="}
    /\ \A bits : Fitting(bits) \subseteq Numbers
BY TextAssumption DEF Delimiters, Letters, AddrTypes, SP, NL, Word, Fitting

\* An address is a value that begins with no space.
LEMMA AddressWords ==
    ASSUME NEW ip \in Ip4 \cup Ip6
    PROVE  /\ ip \in Free({SP, NL}) /\ ip \in Value /\ ip \in Tokens
           /\ Len(ip) \in Nat \ {0} /\ ip[1] \notin {SP, NL}
           /\ \A k \in 1 .. Len(ip) : ip[k] \in Words \ {SP, NL}
<1>1. ip \in Seq(Words \ {SP, NL}) /\ ip # <<>>
    BY TextAssumption DEF Free
<1>2. Len(ip) \in Nat \ {0} /\ \A k \in 1 .. Len(ip) : ip[k] \in Words \ {SP, NL}
    BY <1>1
<1>3. ip \in Seq(Words) /\ ip \in Seq(Words \ {NL})
    BY <1>1
<1>4. ip[1] \notin {SP, NL}
    BY <1>2
<1> QED
    BY <1>1, <1>2, <1>3, <1>4 DEF Free, Value, Tokens

\* The text u is in the text t from a place on.
Stands(t, at, u) ==
    /\ at \in Nat \ {0} /\ at + Len(u) <= Len(t) + 1
    /\ \A k \in 1 .. Len(u) : t[at + k - 1] = u[k]

\* Two texts joined are a text.
LEMMA JoinedTokens ==
    ASSUME NEW u \in Tokens, NEW v \in Tokens
    PROVE  /\ u \o v \in Tokens /\ Len(u) \in Nat /\ Len(v) \in Nat
           /\ Len(u \o v) = Len(u) + Len(v)
BY DEF Tokens

\* The parts of a text stand one behind the other.
LEMMA StandsConcat ==
    ASSUME NEW t \in Tokens, NEW at, NEW u \in Tokens, NEW v \in Tokens
    PROVE  Stands(t, at, u \o v) <=> Stands(t, at, u) /\ Stands(t, at + Len(u), v)
<1> DEFINE m == Len(u)
           n == Len(v)
           w == u \o v
<1>1. m \in Nat /\ n \in Nat /\ Len(t) \in Nat
    BY DEF Tokens
<1>2. Len(w) = m + n
    BY DEF Tokens
<1>3. \A k \in 1 .. m : w[k] = u[k]
    BY DEF Tokens
<1>4. \A k \in 1 .. n : w[m + k] = v[k]
    BY DEF Tokens
<1> HIDE DEF m, n, w
<1>5. ASSUME Stands(t, at, w)
      PROVE  Stands(t, at, u) /\ Stands(t, at + m, v)
    <2>1. at \in Nat \ {0} /\ at + (m + n) <= Len(t) + 1
        BY <1>2, <1>5 DEF Stands
    <2>2. ASSUME NEW k \in 1 .. m PROVE t[at + k - 1] = u[k]
        BY <1>1, <1>2, <1>3, <1>5 DEF Stands
    <2>3. ASSUME NEW k \in 1 .. n PROVE t[(at + m) + k - 1] = v[k]
        <3>1. m + k \in 1 .. Len(w) /\ at + (m + k) - 1 = (at + m) + k - 1
            BY <1>1, <1>2, <2>1
        <3>2. t[at + (m + k) - 1] = w[m + k]
            BY <1>5, <3>1 DEF Stands
        <3> QED
            BY <1>4, <3>1, <3>2
    <2> QED
        BY <1>1, <2>1, <2>2, <2>3 DEF Stands, m, n
<1>6. ASSUME Stands(t, at, u), Stands(t, at + m, v)
      PROVE  Stands(t, at, w)
    <2>1. at \in Nat \ {0} /\ (at + m) + n <= Len(t) + 1
        BY <1>6 DEF Stands, n
    <2>2. ASSUME NEW k \in 1 .. (m + n) PROVE t[at + k - 1] = w[k]
        <3>1. CASE k <= m
            BY <1>1, <1>3, <1>6, <3>1 DEF Stands, m
        <3>2. CASE k > m
            <4>1. k - m \in 1 .. n /\ m + (k - m) = k /\ (at + m) + (k - m) - 1 = at + k - 1
                BY <1>1, <2>1, <3>2
            <4>2. t[(at + m) + (k - m) - 1] = v[k - m]
                BY <1>6, <4>1 DEF Stands, n
            <4> QED
                BY <1>4, <4>1, <4>2
        <3> QED
            BY <1>1, <3>1, <3>2
    <2> QED
        BY <1>1, <1>2, <2>1, <2>2 DEF Stands
<1> QED
    BY <1>5, <1>6 DEF m, w

\* A token is found where it stands.
LEMMA StandsToken ==
    ASSUME NEW t \in Tokens, NEW at, NEW x, Stands(t, at, <<x>>)
    PROVE  /\ at \in 1 .. Len(t) /\ t[at] = x /\ At(t, at) = x
<1>1. at \in Nat \ {0} /\ at + 1 <= Len(t) + 1 /\ Len(t) \in Nat
    BY DEF Stands, Tokens
<1>2. t[at + 1 - 1] = x /\ at + 1 - 1 = at
    BY <1>1 DEF Stands
<1> QED
    BY <1>1, <1>2 DEF At

\* The first token of what stands somewhere.
LEMMA HeadStands ==
    ASSUME NEW t \in Tokens, NEW at, NEW v \in Tokens, v # <<>>, Stands(t, at, v)
    PROVE  Stands(t, at, <<v[1]>>)
<1>1. Len(v) \in Nat \ {0} /\ Len(t) \in Nat
    BY DEF Tokens
<1>2. at \in Nat \ {0} /\ at + Len(v) <= Len(t) + 1 /\ \A k \in 1 .. Len(v) : t[at + k - 1] = v[k]
    BY DEF Stands
<1>3. at + 1 <= Len(t) + 1 /\ t[at + 1 - 1] = v[1]
    BY <1>1, <1>2
<1>4. Len(<<v[1]>>) = 1 /\ \A k \in 1 .. 1 : t[at + k - 1] = <<v[1]>>[k]
    BY <1>3
<1> QED
    BY <1>2, <1>3, <1>4 DEF Stands

\* The end of a text is no token of it.
LEMMA EndIsEnd ==
    ASSUME NEW t \in Tokens, NEW at \in Nat \ {0}
    PROVE  At(t, at) = "end" <=> at > Len(t)
BY OwnWords DEF At, Tokens

\* A value is read up to the token that ends it.
LEMMA ScanStops ==
    ASSUME NEW t \in Tokens, NEW at, NEW u \in Tokens, NEW stops, Stands(t, at, u),
           \A k \in 1 .. Len(u) : u[k] \notin stops,
           at + Len(u) <= Len(t), t[at + Len(u)] \in stops
    PROVE  ScanUntil(t, at, stops) = Read(at + Len(u), u)
<1> DEFINE end == at + Len(u)
           ends == {k \in at .. Len(t) : t[k] \in stops}
<1>1. at \in Nat \ {0} /\ end \in Nat /\ Len(u) \in Nat /\ Len(t) \in Nat
    BY DEF Stands, Tokens
<1>2. end \in ends
    BY <1>1
<1>3. ASSUME NEW k \in at .. Len(t), t[k] \in stops PROVE end <= k
    <2>1. SUFFICES ASSUME k < end PROVE FALSE
        BY <1>1
    <2>2. k - at + 1 \in 1 .. Len(u) /\ at + (k - at + 1) - 1 = k
        BY <1>1, <2>1
    <2>3. t[k] = u[k - at + 1]
        BY <2>2 DEF Stands
    <2> QED
        BY <1>3, <2>2, <2>3
<1>4. end = CHOOSE k \in ends : \A j \in ends : k <= j
    <2>1. \A j \in ends : end <= j
        BY <1>3
    <2>2. \A k \in ends : (\A j \in ends : k <= j) => k = end
        BY <1>1, <1>2, <2>1
    <2> QED
        BY <1>2, <2>1, <2>2
<1>5. SubSeq(t, at, end - 1) = u
    <2>1. \A k \in 1 .. Len(u) : t[at + k - 1] = u[k]
        BY DEF Stands
    <2>2. Len(SubSeq(t, at, end - 1)) = Len(u)
        BY <1>1 DEF Tokens
    <2>3. \A k \in 1 .. Len(u) : SubSeq(t, at, end - 1)[k] = u[k]
        BY <1>1, <2>1 DEF Tokens
    <2>4. SubSeq(t, at, end - 1) \in Seq(Words)
        BY <1>1 DEF Tokens
    <2> HIDE DEF end
    <2> QED
        BY <2>2, <2>3, <2>4, SeqEqual DEF Tokens
<1> QED
    BY <1>2, <1>4, <1>5 DEF ScanUntil

\* Nothing is skipped where there is nothing to skip, and one token where it
\* is alone.
LEMMA SkipNone ==
    ASSUME NEW t \in Tokens, NEW at \in 1 .. Len(t) + 1, NEW token, At(t, at) # token
    PROVE  Skip(t, at, token) = at
<1> DEFINE ends == {k \in at .. (Len(t) + 1) : At(t, k) # token}
<1>1. Len(t) \in Nat
    BY DEF Tokens
<1>2. at \in ends /\ \A j \in ends : at <= j
    BY <1>1
<1>3. \A k \in ends : (\A j \in ends : k <= j) => k = at
    BY <1>1, <1>2
<1> QED
    BY <1>2, <1>3 DEF Skip

\* Over one token, skip goes one place on.
LEMMA SkipOne ==
    ASSUME NEW t \in Tokens, NEW at \in 1 .. Len(t), NEW token,
           At(t, at) = token, At(t, at + 1) # token
    PROVE  Skip(t, at, token) = at + 1
<1> DEFINE ends == {k \in at .. (Len(t) + 1) : At(t, k) # token}
<1>1. Len(t) \in Nat
    BY DEF Tokens
<1>2. at + 1 \in ends
    BY <1>1
<1>3. \A j \in ends : at + 1 <= j
    BY <1>1
<1>4. \A k \in ends : (\A j \in ends : k <= j) => k = at + 1
    BY <1>1, <1>2, <1>3
<1> QED
    BY <1>2, <1>3, <1>4 DEF Skip

\* A number is read where one stands.
LEMMA NumberStands ==
    ASSUME NEW t \in Tokens, NEW at, NEW v, NEW bits, Stands(t, at, v), OneOf(v, Fitting(bits)),
           v \in Tokens
    PROVE  ScanNumber(t, at, bits) = Read(at + 1, v) /\ at + 1 = at + Len(v)
<1>1. Len(v) = 1 /\ v = <<v[1]>> /\ v[1] \in Fitting(bits)
    BY DEF OneOf, Tokens
<1>2. At(t, at) = v[1] /\ t[at] = v[1]
    BY <1>1, StandsToken
<1> QED
    BY <1>1, <1>2 DEF ScanNumber

-----------------------------------------------------------------------------
(* Lists of texts. *)

\* f[k] is the first k texts in one.
Joins(f, ss) ==
    f[1] = ss[1] /\ \A k \in 2 .. Len(ss) : f[k] = f[k - 1] \o ss[k]

\* FlattenSeq joins the texts of a list, one behind the other.
LEMMA FlattenJoins ==
    ASSUME NEW D, \A u \in D, v \in D : u \o v \in D,
           NEW ss \in Seq(D), ss # <<>>
    PROVE  \E f \in [1 .. Len(ss) -> D] : Joins(f, ss) /\ FlattenSeq(ss) = f[Len(ss)]
<1> DEFINE n == Len(ss)
           G == [p \in Nat \X D |-> IF p[1] \in 1 .. n THEN p[2] \o ss[p[1]] ELSE p[2]]
           Is(f) == f = [i \in 1 .. n |-> IF i = 1 THEN ss[i] ELSE f[i - 1] \o ss[i]]
<1>1. n \in Nat /\ 1 <= n /\ ss[1] \in D
    OBVIOUS
<1>2. G \in [Nat \X D -> D]
    <2>1. ASSUME NEW p \in Nat \X D
          PROVE  (IF p[1] \in 1 .. n THEN p[2] \o ss[p[1]] ELSE p[2]) \in D
        <3>1. p[2] \in D
            OBVIOUS
        <3>2. CASE p[1] \in 1 .. n
            <4>1. ss[p[1]] \in D
                BY <3>2
            <4> QED
                BY <3>1, <3>2, <4>1
        <3> QED
            BY <3>1, <3>2
    <2> QED
        BY <2>1
<1>3. PICK f \in [1 .. n -> D] : f[1] = ss[1] /\ \A k \in 1 .. n : k # 1 => f[k] = G[<<k, f[k - 1]>>]
    <2> HIDE DEF G, n
    <2>1. Definable(1, n, D, ss[1], G)
        BY <1>1, <1>2, Recursion
    <2> QED
        BY <2>1 DEF Definable
<1>4. ASSUME NEW k \in 1 .. n, k # 1 PROVE f[k] = f[k - 1] \o ss[k]
    <2>1. k - 1 \in 1 .. n /\ f[k - 1] \in D /\ <<k, f[k - 1]>> \in Nat \X D
        BY <1>1, <1>4
    <2>2. G[<<k, f[k - 1]>>] = f[k - 1] \o ss[k]
        BY <2>1
    <2> HIDE DEF G
    <2> QED
        BY <1>3, <1>4, <2>2
<1> HIDE DEF G
<1>5. Is(f)
    <2>1. \A i \in 1 .. n : f[i] = IF i = 1 THEN ss[i] ELSE f[i - 1] \o ss[i]
        BY <1>3, <1>4
    <2> QED
        BY <1>3, <2>1
<1> DEFINE g == CHOOSE g : Is(g)
<1>6. Is(g) /\ FlattenSeq(ss) = g[n]
    <2>1. FlattenSeq(ss) = g[n]
        BY <1>1 DEF FlattenSeq
    <2> HIDE DEF Is
    <2> QED
        BY <1>5, <2>1
<1> HIDE DEF g
<1>7. DOMAIN g = 1 .. n /\ g[1] = ss[1]
    BY <1>1, <1>6
<1>8. ASSUME NEW k \in 2 .. n PROVE g[k] = g[k - 1] \o ss[k]
    <2>1. k \in 1 .. n /\ k # 1
        BY <1>1
    <2> QED
        BY <1>6, <2>1
<1> DEFINE T == {k \in 1 .. n : g[k] \in D}
<1>9. \A k \in 1 .. n : k \in T
    <2>1. 1 \in T
        BY <1>1, <1>7
    <2>2. ASSUME NEW k \in 1 .. n, k < n, k \in T PROVE k + 1 \in T
        <3>1. k + 1 \in 2 .. n /\ (k + 1) - 1 = k /\ ss[k + 1] \in D /\ g[k] \in D
            BY <1>1, <2>2
        <3>2. g[k + 1] = g[k] \o ss[k + 1]
            BY <1>8, <3>1
        <3>3. g[k + 1] \in D /\ k + 1 \in 1 .. n
            BY <1>1, <3>1, <3>2
        <3> QED
            BY <3>3
    <2>3. 1 \in Nat /\ \A k \in 1 .. n : k < n /\ k \in T => k + 1 \in T
        BY <2>2
    <2> HIDE DEF T, n
    <2> QED
        BY <1>1, <2>1, <2>3, InductionTo
<1>10. g = [k \in 1 .. n |-> g[k]]
    BY <1>6, <1>7
<1> HIDE DEF Is
<1>11. g \in [1 .. n -> D]
    BY <1>9, <1>10
<1> QED
    BY <1>6, <1>7, <1>8, <1>11 DEF Joins

\* What holds of all texts of a list, and of any two joined, holds of all of
\* them joined.
LEMMA FlattenClosed ==
    ASSUME NEW D, <<>> \in D, \A u \in D, v \in D : u \o v \in D,
           NEW ss \in Seq(D)
    PROVE  FlattenSeq(ss) \in D
<1>1. CASE ss = <<>>
    BY <1>1 DEF FlattenSeq
<1>2. CASE ss # <<>>
    <2>1. PICK f \in [1 .. Len(ss) -> D] : FlattenSeq(ss) = f[Len(ss)]
        BY <1>2, FlattenJoins
    <2>2. Len(ss) \in 1 .. Len(ss)
        BY <1>2
    <2> QED
        BY <2>1, <2>2
<1> QED
    BY <1>1, <1>2

\* The places of the texts of a list.
Standing(p, t, at, ss) ==
    /\ p \in [0 .. Len(ss) -> Nat] /\ p[0] = at
    /\ \A k \in 1 .. Len(ss) : Stands(t, p[k - 1], ss[k]) /\ p[k] = p[k - 1] + Len(ss[k])
    /\ p[Len(ss)] = at + Len(FlattenSeq(ss))

\* A text made of texts has its parts one behind the other.
LEMMA FlattenStands ==
    ASSUME NEW t \in Tokens, NEW at \in Nat, NEW ss \in Seq(Tokens), Stands(t, at, FlattenSeq(ss))
    PROVE  \E p : Standing(p, t, at, ss)
<1> DEFINE n == Len(ss)
<1>1. \A u \in Tokens, v \in Tokens : u \o v \in Tokens
    BY DEF Tokens
<1>2. CASE ss = <<>>
    <2> DEFINE p == [k \in 0 .. n |-> at]
    <2>1. FlattenSeq(ss) = <<>> /\ n = 0
        BY <1>2 DEF FlattenSeq
    <2>2. Standing(p, t, at, ss)
        BY <2>1 DEF Standing
    <2> QED
        BY <2>2
<1>3. CASE ss # <<>>
    <2>1. PICK f \in [1 .. n -> Tokens] : Joins(f, ss) /\ FlattenSeq(ss) = f[n]
        BY <1>1, <1>3, FlattenJoins
    <2>2. n \in Nat /\ 1 <= n
        BY <1>3
    <2> DEFINE p == [k \in 0 .. n |-> IF k = 0 THEN at ELSE at + Len(f[k])]
               T == {j \in 0 .. n - 1 : Stands(t, at, f[n - j])}
    <2>3. \A u \in Tokens : Len(u) \in Nat
        BY DEF Tokens
    <2>4. \A k \in 2 .. n : f[k] = f[k - 1] \o ss[k] /\ f[k - 1] \in Tokens /\ ss[k] \in Tokens
        <3>1. \A k \in 2 .. n : k \in 1 .. n /\ k - 1 \in 1 .. n
            BY <2>2
        <3>2. \A k \in 1 .. n : f[k] \in Tokens /\ ss[k] \in Tokens
            OBVIOUS
        <3>3. \A k \in 2 .. n : f[k] = f[k - 1] \o ss[k]
            BY <2>1 DEF Joins
        <3> QED
            BY <3>1, <3>2, <3>3
    <2>5. \A j \in 0 .. n - 1 : j \in T
        <3>1. 0 \in T
            <4>1. n - 0 = n /\ 0 \in 0 .. n - 1
                BY <2>2
            <4> QED
                BY <2>1, <4>1
        <3>2. ASSUME NEW j \in 0 .. n - 1, j < n - 1, j \in T PROVE j + 1 \in T
            <4>1. n - j \in 2 .. n /\ n - (j + 1) = (n - j) - 1 /\ j + 1 \in 0 .. n - 1
                BY <2>2, <3>2
            <4>2. Stands(t, at, f[(n - j) - 1] \o ss[n - j])
                BY <2>4, <3>2, <4>1
            <4>3. Stands(t, at, f[(n - j) - 1])
                BY <2>4, <4>1, <4>2, StandsConcat
            <4> QED
                BY <4>1, <4>3
        <3>3. n - 1 \in Nat /\ 0 \in Nat
            BY <2>2
        <3> HIDE DEF T, n
        <3> QED
            BY <3>1, <3>2, <3>3, InductionTo
    <2>6. ASSUME NEW k \in 1 .. n PROVE Stands(t, at, f[k])
        <3>1. n - k \in 0 .. n - 1 /\ n - (n - k) = k
            BY <2>2
        <3> QED
            BY <2>5, <3>1
    <2> HIDE DEF T
    <2>7. ASSUME NEW k \in 1 .. n
          PROVE  Stands(t, p[k - 1], ss[k]) /\ p[k] = p[k - 1] + Len(ss[k])
        <3>1. CASE k = 1
            BY <2>1, <2>2, <2>6, <3>1 DEF Joins
        <3>2. CASE k # 1
            <4>1. k \in 2 .. n /\ k - 1 \in 1 .. n /\ k - 1 # 0 /\ k - 1 \in 0 .. n /\ k \in 0 .. n /\ k # 0
                BY <2>2, <3>2
            <4>2. p[k] = at + Len(f[k]) /\ p[k - 1] = at + Len(f[k - 1])
                BY <4>1
            <4>3. Stands(t, at, f[k - 1] \o ss[k])
                BY <2>4, <2>6, <4>1
            <4>4. Stands(t, at + Len(f[k - 1]), ss[k])
                BY <2>4, <4>1, <4>3, StandsConcat
            <4>5. Len(f[k]) = Len(f[k - 1]) + Len(ss[k]) /\ Len(f[k - 1]) \in Nat /\ Len(ss[k]) \in Nat
                BY <2>4, <4>1, JoinedTokens
            <4>6. at + Len(f[k]) = (at + Len(f[k - 1])) + Len(ss[k])
                <5> DEFINE x == Len(f[k])
                           y == Len(f[k - 1])
                           z == Len(ss[k])
                <5>1. x = y + z /\ y \in Nat /\ z \in Nat
                    BY <4>5
                <5> HIDE DEF x, y, z
                <5>2. at + x = (at + y) + z
                    BY <5>1
                <5> QED
                    BY <5>2 DEF x, y, z
            <4> HIDE DEF p
            <4> QED
                BY <4>2, <4>4, <4>6
        <3> QED
            BY <3>1, <3>2
    <2>8. p \in [0 .. n -> Nat] /\ p[0] = at /\ p[n] = at + Len(FlattenSeq(ss))
        <3>1. \A k \in 1 .. n : Len(f[k]) \in Nat
            BY <2>3
        <3> QED
            BY <2>1, <2>2, <3>1
    <2> HIDE DEF p
    <2>9. Standing(p, t, at, ss)
        BY <2>7, <2>8 DEF Standing
    <2> QED
        BY <2>9
<1> QED
    BY <1>2, <1>3

-----------------------------------------------------------------------------
(* Lines. *)

\* No line of the text is empty.
TidyTexts ==
    {u \in Tokens : /\ Len(u) > 0 => u[1] # NL
                    /\ \A k \in 1 .. Len(u) - 1 : u[k] = NL => u[k + 1] # NL}

\* Texts without empty lines can be joined.
LEMMA TidyConcat ==
    ASSUME NEW u \in TidyTexts, NEW v \in TidyTexts
    PROVE  u \o v \in TidyTexts
<1> DEFINE m == Len(u)
           n == Len(v)
           w == u \o v
<1>1. u \in Tokens /\ v \in Tokens
    BY DEF TidyTexts
<1>2. w \in Tokens /\ m \in Nat /\ n \in Nat /\ Len(w) = m + n
    BY <1>1, JoinedTokens
<1>3. /\ \A k \in 1 .. m : w[k] = u[k]
      /\ \A k \in 1 .. n : w[m + k] = v[k]
    BY <1>1 DEF Tokens
<1>4. /\ m > 0 => u[1] # NL
      /\ \A k \in 1 .. m - 1 : u[k] = NL => u[k + 1] # NL
      /\ n > 0 => v[1] # NL
      /\ \A k \in 1 .. n - 1 : v[k] = NL => v[k + 1] # NL
    BY DEF TidyTexts
<1> HIDE DEF m, n, w
<1>5. Len(w) > 0 => w[1] # NL
    <2>1. CASE m > 0
        BY <1>2, <1>3, <1>4, <2>1
    <2>2. CASE m = 0
        <3>1. n > 0 => w[1] = v[1]
            <4>1. n > 0 => w[m + 1] = v[1]
                BY <1>2, <1>3
            <4> QED
                BY <2>2, <4>1
        <3> QED
            BY <1>2, <1>4, <2>2, <3>1
    <2> QED
        BY <1>2, <2>1, <2>2
<1>6. ASSUME NEW k \in 1 .. Len(w) - 1, w[k] = NL PROVE w[k + 1] # NL
    <2>1. CASE k < m
        BY <1>2, <1>3, <1>4, <1>6, <2>1
    <2>2. CASE k = m
        <3>1. w[m + 1] = v[1] /\ n > 0
            BY <1>2, <1>3, <2>2
        <3> QED
            BY <1>4, <2>2, <3>1
    <2>3. CASE k > m
        <3>1. k - m \in 1 .. n - 1 /\ k - m \in 1 .. n /\ (k - m) + 1 \in 1 .. n
              /\ m + (k - m) = k /\ m + ((k - m) + 1) = k + 1
            BY <1>2, <2>3
        <3>2. w[k] = v[k - m] /\ w[k + 1] = v[(k - m) + 1]
            BY <1>3, <3>1
        <3> QED
            BY <1>4, <1>6, <3>1, <3>2
    <2> QED
        BY <1>2, <2>1, <2>2, <2>3
<1> QED
    BY <1>2, <1>5, <1>6 DEF TidyTexts, w

\* A value is a text, and has no newline.
LEMMA ValueTokens ==
    ASSUME NEW v \in Value
    PROVE  v \in Tokens /\ Len(v) \in Nat /\ \A k \in 1 .. Len(v) : v[k] # NL
BY DEF Value, Free, Tokens

\* A line with a value has three tokens more than it, and is not empty.
LEMMA LineTidy ==
    ASSUME NEW letter \in Words \ {NL}, NEW v \in Value
    PROVE  /\ Line(letter, v) \in TidyTexts
           /\ Len(Line(letter, v)) = Len(v) + 3
<1> DEFINE n == Len(v)
           w == (<<letter, "=">> \o v) \o <<NL>>
<1>1. v \in Tokens /\ n \in Nat /\ \A k \in 1 .. n : v[k] # NL
    BY ValueTokens
<1>2. <<letter, "=">> \in Tokens /\ <<NL>> \in Tokens /\ Len(<<letter, "=">>) = 2 /\ Len(<<NL>>) = 1
    BY OwnWords DEF Tokens
<1>3. <<letter, "=">> \o v \in Tokens /\ Len(<<letter, "=">> \o v) = 2 + n
    BY <1>1, <1>2, JoinedTokens
<1>4. w \in Tokens /\ Len(w) = 2 + n + 1
    BY <1>1, <1>2, <1>3, JoinedTokens
<1>5. w[1] = letter /\ w[2] = "=" /\ \A k \in 3 .. n + 2 : w[k] = v[k - 2]
    BY <1>1 DEF Tokens
<1> HIDE DEF w, n
<1>6. w[1] # NL
    BY <1>5
<1>7. ASSUME NEW k \in 1 .. n + 2 PROVE w[k] # NL
    BY <1>1, <1>5, <1>7 DEF NL
<1>8. Line(letter, v) = w
    BY DEF Line, w
<1> QED
    BY <1>1, <1>4, <1>6, <1>7, <1>8 DEF TidyTexts, n

\* A value stands alone on its line from a place on.
Closed(t, at, v) ==
    /\ Stands(t, at, v)
    /\ at + Len(v) \in 1 .. Len(t) /\ t[at + Len(v)] = NL /\ At(t, at + Len(v)) = NL

\* The parts of a line.
LEMMA LineStands ==
    ASSUME NEW t \in Tokens, NEW at, NEW letter \in Words \ {NL}, NEW v \in Value,
           Stands(t, at, Line(letter, v))
    PROVE  /\ at \in 1 .. Len(t) /\ At(t, at) = letter /\ t[at] = letter
           /\ At(t, at + 1) = "="
           /\ Closed(t, at + 2, v)
<1>1. v \in Tokens /\ Len(v) \in Nat
    BY ValueTokens
<1>2. /\ <<letter>> \in Tokens /\ <<"=">> \in Tokens /\ <<NL>> \in Tokens
      /\ Len(<<letter>>) = 1 /\ Len(<<"=">>) = 1
    BY OwnWords DEF Tokens
<1>3. /\ <<letter, "=">> = <<letter>> \o <<"=">> /\ <<letter, "=">> \in Tokens
      /\ Len(<<letter, "=">>) = 2
    BY <1>2 DEF Tokens
<1>4. <<letter, "=">> \o v \in Tokens /\ Len(<<letter, "=">> \o v) = 2 + Len(v)
    BY <1>1, <1>3, JoinedTokens
<1>5. Stands(t, at, <<letter, "=">> \o v) /\ Stands(t, at + (2 + Len(v)), <<NL>>)
    <2>1. Stands(t, at, (<<letter, "=">> \o v) \o <<NL>>)
        BY DEF Line
    <2> QED
        BY <1>2, <1>4, <2>1, StandsConcat
<1>6. Stands(t, at, <<letter, "=">>) /\ Stands(t, at + 2, v)
    BY <1>1, <1>3, <1>5, StandsConcat
<1>7. Stands(t, at, <<letter>>) /\ Stands(t, at + 1, <<"=">>)
    <2>1. Stands(t, at, <<letter>> \o <<"=">>)
        BY <1>3, <1>6
    <2> QED
        BY <1>2, <2>1, StandsConcat
<1>8. at \in 1 .. Len(t) /\ t[at] = letter /\ At(t, at) = letter /\ At(t, at + 1) = "="
    BY <1>7, StandsToken
<1>9. at + (2 + Len(v)) \in 1 .. Len(t) /\ t[at + (2 + Len(v))] = NL /\ At(t, at + (2 + Len(v))) = NL
    BY <1>5, StandsToken
<1>10. at + (2 + Len(v)) = at + 2 + Len(v)
    BY <1>1, <1>8
<1>11. Closed(t, at + 2, v)
    BY <1>6, <1>9, <1>10 DEF Closed
<1> QED
    BY <1>8, <1>11

\* A line is read if its value is.
LEMMA LineRead ==
    ASSUME NEW t \in TidyTexts, NEW at \in Nat, NEW letter \in Letters, NEW v \in Value, NEW d, NEW val,
           Stands(t, at, Line(letter, v)), NEW end \in Nat, end = at + 2 + Len(v),
           ReadValue(letter, t, at + 2) = Read(end, val),
           letter = "r" => d.time # <<>>
    PROVE  /\ at \in 1 .. Len(t)
           /\ ReadField(t, at, d) = Read(end + 1, Set(d, letter, val))
<1>1. t \in Tokens /\ Len(t) \in Nat
    BY DEF TidyTexts, Tokens
<1>2. letter \in Words \ {NL}
    BY OwnWords
<1>3. /\ at \in 1 .. Len(t) /\ At(t, at) = letter /\ t[at] = letter /\ At(t, at + 1) = "="
      /\ end \in 1 .. Len(t) /\ t[end] = NL /\ At(t, end) = NL
    <2>1. /\ at \in 1 .. Len(t) /\ At(t, at) = letter /\ t[at] = letter /\ At(t, at + 1) = "="
          /\ Closed(t, at + 2, v)
        BY <1>1, <1>2, LineStands
    <2> DEFINE p == at + 2
    <2>2. Closed(t, p, v) /\ end = p + Len(v)
        BY <2>1
    <2> HIDE DEF p
    <2>3. end \in 1 .. Len(t) /\ t[end] = NL /\ At(t, end) = NL
        BY <2>2 DEF Closed
    <2> QED
        BY <2>1, <2>3
<1>4. At(t, end + 1) # NL
    BY <1>1, <1>3 DEF TidyTexts, At, NL
<1>5. SkipNewline(t, end) = end + 1
    BY <1>1, <1>3, <1>4, SkipOne DEF SkipNewline
<1>6. MustRead(t, at + 1, "=") = Read(at + 2, <<>>)
    <2>1. at + 1 + 1 = at + 2
        BY <1>3
    <2> QED
        BY <1>3, <2>1 DEF MustRead
<1>7. ReadValue(letter, t, at + 2) = Read(end, val)
    OBVIOUS
<1>8. ReadField(t, at, d) = Read(end + 1, Set(d, letter, val))
    <2> DEFINE equals == MustRead(t, at + 1, "=")
               value == ReadValue(letter, t, at + 2)
    <2>1. equals.ok /\ equals.at = at + 2
        BY <1>6 DEF Read
    <2>2. value.ok /\ value.at = end /\ value.val = val
        BY <1>7 DEF Read
    <2>3. ReadField(t, at, d) =
              IF letter = "r" /\ d.time = <<>> THEN Error
              ELSE Read(SkipNewline(t, value.at), Set(d, letter, value.val))
        <3>1. At(t, at) \in Chars
            BY <1>3, TextAssumption
        <3> QED
            BY <1>3, <2>1, <2>2, <3>1 DEF ReadField, Then
    <2> HIDE DEF value
    <2> QED
        BY <1>5, <2>2, <2>3
<1> QED
    BY <1>3, <1>8

\* And it fails if its value does.
LEMMA LineFails ==
    ASSUME NEW t \in TidyTexts, NEW at, NEW letter \in Letters, NEW v \in Value, NEW d,
           Stands(t, at, Line(letter, v)), ReadValue(letter, t, at + 2) = Error
    PROVE  at \in 1 .. Len(t) /\ ReadField(t, at, d) = Error
<1>1. t \in Tokens /\ Len(t) \in Nat
    BY DEF TidyTexts, Tokens
<1>2. letter \in Words \ {NL}
    BY OwnWords
<1>3. at \in 1 .. Len(t) /\ At(t, at) = letter /\ t[at] = letter /\ At(t, at + 1) = "="
    BY <1>1, <1>2, LineStands
<1>4. MustRead(t, at + 1, "=") = Read(at + 2, <<>>)
    <2>1. at + 1 + 1 = at + 2
        BY <1>3
    <2> QED
        BY <1>3, <2>1 DEF MustRead
<1> QED
    BY <1>3, <1>4 DEF ReadField, Then, Read, Error

-----------------------------------------------------------------------------
(* The loop of the parser. *)

Fields(t) == 1 + Len(t) \div 2

\* f[n] is what the parser has after n fields.
Reads(f, t) == f = [n \in 0 .. Fields(t) |->
                       IF n = 0 THEN Read(1, Empty) ELSE NextField(t, f[n - 1])]

Reading(t) == CHOOSE f : Reads(f, t)

\* There are enough fields for a text that is read two tokens at a time.
LEMMA HalfTheTokens ==
    ASSUME NEW t \in Tokens
    PROVE  /\ Len(t) \in Nat /\ Fields(t) \in Nat
           /\ \A n \in Nat : 2 * n <= Len(t) => n < Fields(t)
<1>1. Len(t) \in Nat
    BY DEF Tokens
<1>2. \A n \in Nat : n \div 2 \in Nat /\ n < 2 * (n \div 2) + 2
    OBVIOUS
<1>3. Len(t) \div 2 \in Nat /\ Len(t) < 2 * (Len(t) \div 2) + 2
    BY <1>1, <1>2
<1> DEFINE h == Len(t) \div 2
<1> HIDE DEF h
<1>4. h \in Nat /\ Len(t) < 2 * h + 2
    BY <1>3 DEF h
<1>5. \A n \in Nat : 2 * n <= Len(t) => n < 1 + h
    BY <1>1, <1>4
<1>6. Fields(t) = 1 + h
    BY DEF Fields, h
<1> QED
    BY <1>1, <1>4, <1>5, <1>6

\* The loop says what it seems to say.
LEMMA ReadingSteps ==
    ASSUME NEW t \in Tokens
    PROVE  /\ Reading(t)[0] = Read(1, Empty)
           /\ \A n \in 1 .. Fields(t) : Reading(t)[n] = NextField(t, Reading(t)[n - 1])
           /\ ReadSdp(t) = Reading(t)[Fields(t)]
<1> DEFINE b == Fields(t)
           Upto(n, f) == /\ f = [k \in 0 .. n |-> f[k]] /\ f[0] = Read(1, Empty)
                         /\ \A k \in 1 .. n : f[k] = NextField(t, f[k - 1])
           T == {n \in 0 .. b : \E f : Upto(n, f)}
<1>1. b \in Nat
    BY HalfTheTokens
<1>2. 0 \in T
    <2> DEFINE f == [k \in 0 .. 0 |-> Read(1, Empty)]
    <2>1. Upto(0, f)
        OBVIOUS
    <2> HIDE DEF f
    <2> QED
        BY <1>1, <2>1
<1>3. ASSUME NEW n \in 0 .. b, n < b, n \in T PROVE n + 1 \in T
    <2>1. PICK f : Upto(n, f)
        BY <1>3
    <2> DEFINE g == [k \in 0 .. n + 1 |-> IF k = n + 1 THEN NextField(t, f[n]) ELSE f[k]]
    <2>2. n \in Nat /\ n + 1 \in 0 .. b
        BY <1>1, <1>3
    <2>3. g = [k \in 0 .. n + 1 |-> g[k]] /\ g[0] = Read(1, Empty)
        BY <2>1, <2>2
    <2>4. ASSUME NEW k \in 1 .. n + 1 PROVE g[k] = NextField(t, g[k - 1])
        <3>1. k \in 0 .. n + 1 /\ k - 1 \in 0 .. n + 1 /\ k - 1 # n + 1
            BY <2>2
        <3>2. g[k - 1] = f[k - 1]
            BY <3>1
        <3>3. CASE k = n + 1
            BY <2>2, <3>2, <3>3
        <3>4. CASE k # n + 1
            <4>1. k \in 1 .. n /\ g[k] = f[k]
                BY <2>2, <3>1, <3>4
            <4> QED
                BY <2>1, <3>2, <4>1
        <3> QED
            BY <3>3, <3>4
    <2> HIDE DEF g
    <2>5. Upto(n + 1, g)
        BY <2>3, <2>4
    <2> HIDE DEF Upto
    <2> QED
        BY <2>2, <2>5
<1>4. b \in T
    <2> HIDE DEF T, b
    <2>1. \A n \in 0 .. b : n \in T
        BY <1>1, <1>2, <1>3, InductionTo
    <2> QED
        BY <1>1, <2>1
<1>5. PICK f : Upto(b, f)
    BY <1>4
<1>6. Reads(f, t)
    <2>1. \A n \in 0 .. b : f[n] = IF n = 0 THEN Read(1, Empty) ELSE NextField(t, f[n - 1])
        <3>1. \A n \in 0 .. b : n # 0 => n \in 1 .. b
            BY <1>1
        <3> QED
            BY <1>5, <3>1
    <2> QED
        BY <1>5, <2>1 DEF Reads
<1>7. Reads(Reading(t), t)
    BY <1>6 DEF Reading
<1> DEFINE g == Reading(t)
<1>8. g = [n \in 0 .. b |-> IF n = 0 THEN Read(1, Empty) ELSE NextField(t, g[n - 1])]
    BY <1>7 DEF Reads
<1> HIDE DEF g, b
<1>9. g[0] = Read(1, Empty)
    BY <1>1, <1>8
<1>10. ASSUME NEW n \in 1 .. b PROVE g[n] = NextField(t, g[n - 1])
    <2>1. n \in 0 .. b /\ n # 0
        BY <1>1
    <2> QED
        BY <1>8, <2>1
<1>11. ReadSdp(t) = g[b]
    BY DEF ReadSdp, Reading, Reads, Fields, g, b
<1> QED
    BY <1>9, <1>10, <1>11 DEF g, b

\* The parser comes to a place, having read d.
Comes(t, at, d) == \E n \in Nat : 2 * n < at /\ Reading(t)[n] = Read(at, d)

\* The parser starts at the first token, with nothing.
LEMMA ComesFirst == ASSUME NEW t \in Tokens PROVE Comes(t, 1, Empty)
<1>1. Reading(t)[0] = Read(1, Empty)
    BY ReadingSteps
<1>2. 0 \in Nat /\ 2 * 0 < 1
    OBVIOUS
<1> QED
    BY <1>1, <1>2 DEF Comes

\* One field more.
LEMMA ComesStep ==
    ASSUME NEW t \in Tokens, NEW at \in 1 .. Len(t), NEW d, Comes(t, at, d)
    PROVE  \E n \in Nat : /\ 2 * n < at /\ n + 1 \in 1 .. Fields(t)
                          /\ Reading(t)[n + 1] = ReadField(t, at, d)
<1>1. PICK n \in Nat : 2 * n < at /\ Reading(t)[n] = Read(at, d)
    BY DEF Comes
<1>2. Len(t) \in Nat /\ Fields(t) \in Nat /\ n < Fields(t)
    <2>1. Len(t) \in Nat /\ Fields(t) \in Nat
        BY HalfTheTokens
    <2>2. 2 * n <= Len(t)
        BY <1>1, <2>1
    <2> QED
        BY <2>1, <2>2, HalfTheTokens
<1>3. n + 1 \in 1 .. Fields(t) /\ n + 1 - 1 = n
    BY <1>2
<1>4. Reading(t)[n + 1] = NextField(t, Read(at, d))
    BY <1>1, <1>3, ReadingSteps
<1>5. At(t, at) # "end"
    BY <1>2, EndIsEnd
<1>6. NextField(t, Read(at, d)) = ReadField(t, at, d)
    BY <1>5 DEF NextField, Read
<1> QED
    BY <1>1, <1>3, <1>4, <1>6

\* A field takes the parser on.
LEMMA ComesNext ==
    ASSUME NEW t \in Tokens, NEW at \in 1 .. Len(t), NEW d, Comes(t, at, d),
           NEW to \in Nat, NEW e, at + 2 <= to, ReadField(t, at, d) = Read(to, e)
    PROVE  Comes(t, to, e)
<1>1. PICK n \in Nat : 2 * n < at /\ Reading(t)[n + 1] = ReadField(t, at, d)
    BY ComesStep
<1>2. n + 1 \in Nat /\ 2 * (n + 1) < to
    <2>1. Len(t) \in Nat
        BY DEF Tokens
    <2> QED
        BY <1>1, <2>1
<1> QED
    BY <1>1, <1>2 DEF Comes

\* Nothing follows an end or an error.
LEMMA NothingFollows ==
    ASSUME NEW t \in Tokens, NEW n \in 0 .. Fields(t), NEW so, Reading(t)[n] = so,
           NextField(t, so) = so
    PROVE  ReadSdp(t) = so
<1> DEFINE b == Fields(t)
           T == {k \in Nat : Reading(t)[k] = so}
<1>1. b \in Nat /\ n \in Nat
    BY HalfTheTokens
<1>2. ASSUME NEW k \in n .. b, k < b, k \in T PROVE k + 1 \in T
    <2>1. k + 1 \in 1 .. b /\ k + 1 - 1 = k /\ k + 1 \in Nat
        BY <1>1, <1>2
    <2>2. Reading(t)[k + 1] = NextField(t, Reading(t)[k])
        BY <2>1, ReadingSteps
    <2> QED
        BY <1>2, <2>1, <2>2
<1>3. n \in T
    BY <1>1
<1>4. b \in T
    <2> HIDE DEF T, b
    <2>1. \A k \in n .. b : k \in T
        BY <1>1, <1>2, <1>3, InductionTo
    <2>2. n <= b
        BY DEF b
    <2> QED
        BY <1>1, <2>1, <2>2
<1> QED
    BY <1>4, ReadingSteps

\* At the end of the text the parser is done.
LEMMA ComesLast ==
    ASSUME NEW t \in Tokens, NEW d, Comes(t, Len(t) + 1, d)
    PROVE  ReadSdp(t) = Read(Len(t) + 1, d)
<1>1. PICK n \in Nat : 2 * n < Len(t) + 1 /\ Reading(t)[n] = Read(Len(t) + 1, d)
    BY DEF Comes
<1>2. Len(t) \in Nat /\ Fields(t) \in Nat /\ n < Fields(t)
    <2>1. Len(t) \in Nat /\ Fields(t) \in Nat
        BY HalfTheTokens
    <2>2. 2 * n <= Len(t)
        BY <1>1, <2>1
    <2> QED
        BY <2>1, <2>2, HalfTheTokens
<1>3. At(t, Len(t) + 1) = "end"
    BY <1>2 DEF At
<1> DEFINE so == Read(Len(t) + 1, d)
<1>4. NextField(t, so) = so
    BY <1>3 DEF NextField, Read
<1>5. n \in 0 .. Fields(t)
    BY <1>2
<1> HIDE DEF so
<1>6. Reading(t)[n] = so
    BY <1>1 DEF so
<1> QED
    BY <1>4, <1>5, <1>6, NothingFollows DEF so

\* A field that cannot be read ends it.
LEMMA ComesToError ==
    ASSUME NEW t \in Tokens, NEW at \in 1 .. Len(t), NEW d, Comes(t, at, d),
           ReadField(t, at, d) = Error
    PROVE  ReadSdp(t) = Error
<1>1. PICK n \in Nat : n + 1 \in 1 .. Fields(t) /\ Reading(t)[n + 1] = Error
    BY ComesStep
<1>2. NextField(t, Error) = Error
    BY DEF NextField, Error
<1>3. n + 1 \in 0 .. Fields(t)
    BY <1>1
<1> QED
    BY <1>1, <1>2, <1>3, NothingFollows

-----------------------------------------------------------------------------
(* What stands in a line is read as it was meant. *)

\* Values are texts, and so are their parts.
LEMMA ValueParts ==
    /\ \A v \in Value : v \in Tokens /\ Len(v) \in Nat /\ \A k \in 1 .. Len(v) : v[k] # NL
    /\ \A v \in Free({SP, NL}) : v \in Value /\ \A k \in 1 .. Len(v) : v[k] # SP
    /\ \A v \in Free(Delimiters) : v \in Value /\ \A k \in 1 .. Len(v) : v[k] \notin Delimiters
    /\ \A x \in Words \ {NL} : <<x>> \in Value /\ Len(<<x>>) = 1
    /\ \A u, v \in Value : u \o v \in Value /\ Len(u \o v) = Len(u) + Len(v)
    /\ <<>> \in Value
<1>1. ASSUME NEW v \in Value
      PROVE  v \in Tokens /\ Len(v) \in Nat /\ \A k \in 1 .. Len(v) : v[k] # NL
    BY ValueTokens
<1>2. ASSUME NEW v \in Free({SP, NL})
      PROVE  v \in Value /\ \A k \in 1 .. Len(v) : v[k] # SP
    BY DEF Free, Value
<1>3. ASSUME NEW v \in Free(Delimiters)
      PROVE  v \in Value /\ \A k \in 1 .. Len(v) : v[k] \notin Delimiters
    BY DEF Free, Value, Delimiters
<1>4. ASSUME NEW x \in Words \ {NL}
      PROVE  <<x>> \in Value /\ Len(<<x>>) = 1
    BY DEF Free, Value
<1>5. ASSUME NEW u \in Value, NEW v \in Value
      PROVE  u \o v \in Value /\ Len(u \o v) = Len(u) + Len(v)
    BY DEF Free, Value
<1>6. <<>> \in Value
    BY DEF Free, Value
<1> QED
    BY <1>1, <1>2, <1>3, <1>4, <1>5, <1>6

\* Values can be joined to a value.
LEMMA ValueJoin ==
    ASSUME NEW u \in Value, NEW v \in Value
    PROVE  /\ u \o v \in Value /\ Len(u \o v) = Len(u) + Len(v)
           /\ u \in Tokens /\ v \in Tokens /\ Len(u) \in Nat /\ Len(v) \in Nat
BY ValueParts

\* A value up to the end of its line.
LEMMA LineValueRead ==
    ASSUME NEW t \in Tokens, NEW at, NEW v \in Value, Closed(t, at, v)
    PROVE  ReadLine(t, at) = Read(at + Len(v), v)
<1>1. v \in Tokens /\ \A k \in 1 .. Len(v) : v[k] \notin {NL}
    BY ValueParts
<1>2. Stands(t, at, v) /\ at + Len(v) <= Len(t) /\ t[at + Len(v)] \in {NL}
    BY DEF Closed, Tokens
<1> QED
    BY <1>1, <1>2, ScanStops DEF ReadLine

\* A space is skipped before what is none.
LEMMA SpaceSkipped ==
    ASSUME NEW t \in Tokens, NEW p, NEW x, x # SP, Stands(t, p, <<SP>>), Stands(t, p + 1, <<x>>)
    PROVE  SkipWs(t, p) = p + 1
<1>1. p \in 1 .. Len(t) /\ At(t, p) = SP /\ At(t, p + 1) = x
    BY StandsToken
<1> QED
    BY <1>1, SkipOne DEF SkipWs

\* A value of one word is that word.
LEMMA OneWord ==
    ASSUME NEW v \in Tokens, NEW S, OneOf(v, S)
    PROVE  v = <<v[1]>> /\ Len(v) = 1 /\ v[1] \in S
BY DEF OneOf, Tokens

\* A number behind a space.
LEMMA SpacedNumber ==
    ASSUME NEW t \in Tokens, NEW p, NEW v \in Tokens, NEW bits, OneOf(v, Fitting(bits)),
           Stands(t, p, <<SP>>), Stands(t, p + 1, v)
    PROVE  ScanNumber(t, SkipWs(t, p), bits) = Read(p + 2, v)
<1>1. v = <<v[1]>> /\ v[1] \in Fitting(bits) /\ Len(v) = 1
    BY OneWord
<1>2. v[1] # SP
    BY <1>1, OwnWords
<1>3. SkipWs(t, p) = p + 1
    BY <1>1, <1>2, SpaceSkipped
<1>4. ScanNumber(t, p + 1, bits) = Read(p + 1 + 1, v)
    BY NumberStands
<1>5. p \in Nat
    BY StandsToken
<1>6. p + 1 + 1 = p + 2
    BY <1>5
<1> QED
    BY <1>3, <1>4, <1>6

\* A value up to a space.
LEMMA SpaceEnds ==
    ASSUME NEW t \in Tokens, NEW at, NEW v \in Tokens, NEW stops, SP \in stops,
           \A k \in 1 .. Len(v) : v[k] \notin stops,
           Stands(t, at, v), Stands(t, at + Len(v), <<SP>>)
    PROVE  ScanUntil(t, at, stops) = Read(at + Len(v), v)
<1>1. at + Len(v) \in 1 .. Len(t) /\ t[at + Len(v)] = SP
    BY StandsToken
<1>2. at + Len(v) <= Len(t)
    BY <1>1 DEF Tokens
<1> QED
    BY <1>1, <1>2, ScanStops

\* The places of an address.
LEMMA AddressPlaces ==
    ASSUME NEW t \in Tokens, NEW at, NEW c,
           c.net \in Free({SP, NL}), c.addr \in Word, c.ip \in Value,
           Stands(t, at, ConnectionText(c))
    PROVE  LET n == Len(c.net)
           IN /\ ConnectionText(c) \in Value /\ Len(ConnectionText(c)) = n + 3 + Len(c.ip)
              /\ n \in Nat /\ at \in Nat
              /\ Stands(t, at, c.net) /\ Stands(t, at + n, <<SP>>)
              /\ Stands(t, at + n + 1, <<c.addr>>) /\ Stands(t, at + n + 2, <<SP>>)
              /\ Stands(t, at + n + 3, c.ip)
<1> DEFINE n == Len(c.net)
           w1 == <<SP>> \o <<c.addr>>
           w2 == w1 \o <<SP>>
           w3 == c.net \o w2
           w4 == w3 \o c.ip
<1>1. /\ <<SP>> \in Value /\ <<c.addr>> \in Value /\ Len(<<SP>>) = 1 /\ Len(<<c.addr>>) = 1
      /\ c.net \in Value /\ n \in Nat /\ Len(c.ip) \in Nat
    <2>1. SP \in Words \ {NL} /\ c.addr \in Words \ {NL}
        BY OwnWords DEF Word, Delimiters, SP, NL
    <2> QED
        BY <2>1, ValueParts
<1>2. /\ w1 \in Value /\ Len(w1) = 2
      /\ w2 \in Value /\ Len(w2) = 3
    <2>1. w1 \in Value /\ Len(w1) = Len(<<SP>>) + Len(<<c.addr>>)
        BY <1>1, ValueJoin
    <2>2. Len(w1) = 2
        BY <1>1, <2>1
    <2> HIDE DEF w1
    <2>3. w2 \in Value /\ Len(w2) = Len(w1) + Len(<<SP>>)
        BY <1>1, <2>1, ValueJoin
    <2> QED
        BY <1>1, <2>1, <2>2, <2>3
<1>3. <<SP, c.addr, SP>> = w2
    BY DEF Tokens
<1> HIDE DEF w1, w2
<1>4. w3 \in Value /\ Len(w3) = n + 3
    <2>1. w3 \in Value /\ Len(w3) = Len(c.net) + Len(w2)
        BY <1>1, <1>2, ValueJoin
    <2> QED
        BY <1>2, <2>1
<1> HIDE DEF w3
<1>5. w4 \in Value /\ Len(w4) = n + 3 + Len(c.ip)
    <2>1. w4 \in Value /\ Len(w4) = Len(w3) + Len(c.ip)
        BY <1>1, <1>4, ValueJoin
    <2> QED
        BY <1>4, <2>1
<1>6. ConnectionText(c) = w4
    BY <1>3 DEF ConnectionText, w3
<1>7. Stands(t, at, w3) /\ Stands(t, at + (n + 3), c.ip)
    <2>1. w3 \in Tokens /\ c.ip \in Tokens
        BY <1>4, ValueParts
    <2>2. Stands(t, at, w3 \o c.ip)
        BY <1>6
    <2> QED
        BY <1>4, <2>1, <2>2, StandsConcat
<1>8. Stands(t, at, c.net) /\ Stands(t, at + n, w2)
    BY <1>1, <1>2, <1>7, ValueParts, StandsConcat DEF w3
<1>9. Stands(t, at + n, w1) /\ Stands(t, at + n + 2, <<SP>>)
    <2>1. w1 \in Tokens /\ <<SP>> \in Tokens
        BY <1>1, <1>2, ValueParts
    <2>2. Stands(t, at + n, w1 \o <<SP>>)
        BY <1>8 DEF w2
    <2>3. Stands(t, at + n, w1) /\ Stands(t, at + n + Len(w1), <<SP>>)
        BY <2>1, <2>2, StandsConcat
    <2> QED
        BY <1>2, <2>3
<1>10. Stands(t, at + n, <<SP>>) /\ Stands(t, at + n + 1, <<c.addr>>)
    BY <1>1, <1>9, ValueParts, StandsConcat DEF w1
<1>11. at \in Nat /\ at + (n + 3) = at + n + 3
    BY <1>1, <1>8 DEF Stands
<1> QED
    BY <1>1, <1>5, <1>6, <1>7, <1>8, <1>9, <1>10, <1>11

-----------------------------------------------------------------------------
(* Lists of values, each behind a space. *)

\* f[at] is the list that starts at a place.
Lists(f, t, read) ==
    f = [at \in Nat |->
            IF At(t, at) # SP THEN Read(at, <<>>)
            ELSE IF ~read[at + 1].ok THEN Error
            ELSE Then(f[read[at + 1].at], LAMBDA rest :
                      Read(rest.at, <<read[at + 1].val>> \o rest.val))]

Listing(t, read) == CHOOSE f : Lists(f, t, read)

\* What is read at a place is behind it, and in V.
Forward(t, read, V) ==
    \A at \in 1 .. Len(t) + 1 : read[at].ok =>
        read[at].at \in at .. Len(t) + 1 /\ read[at].val \in V

Listed(V) == {Error} \cup {Read(at, s) : at \in Nat, s \in Seq(V)}

\* What lists are.
LEMMA ListedAre ==
    ASSUME NEW V, NEW at \in Nat, NEW s \in Seq(V)
    PROVE  Read(at, s) \in Listed(V) /\ Error \in Listed(V) /\ Read(at, <<>>) \in Listed(V)
<1>1. \A z \in Seq(V) : Read(at, z) \in Listed(V)
    BY DEF Listed
<1>2. <<>> \in Seq(V)
    OBVIOUS
<1>3. Error \in Listed(V)
    BY DEF Listed
<1> QED
    BY <1>1, <1>2, <1>3

\* What a list can be.
LEMMA ListedParts ==
    ASSUME NEW V, NEW r \in Listed(V), r.ok
    PROVE  r.at \in Nat /\ r.val \in Seq(V) /\ r = Read(r.at, r.val)
<1>1. r # Error
    BY DEF Error
<1>2. PICK at \in Nat, s \in Seq(V) : r = Read(at, s)
    BY <1>1 DEF Listed
<1> QED
    BY <1>2 DEF Read

\* The lists of a text are what the parser says they are.
LEMMA ListSteps ==
    ASSUME NEW t \in Tokens, NEW V, NEW read, Forward(t, read, V)
    PROVE  /\ \A at \in Nat : ReadList(t, at, read) = Listing(t, read)[at]
           /\ Lists(Listing(t, read), t, read)
<1> DEFINE stop == {n \in Nat : At(t, n) # SP \/ ~read[n + 1].ok}
           base == [n \in Nat |-> IF At(t, n) # SP THEN Read(n, <<>>) ELSE Error]
           to == [n \in Nat |-> IF n \in stop THEN n ELSE read[n + 1].at]
           D == Listed(V)
           G == [p \in Nat \X D |->
                    IF p[1] \in stop \/ ~p[2].ok THEN Error
                    ELSE Read(p[2].at, <<read[p[1] + 1].val>> \o p[2].val)]
<1>1. Len(t) \in Nat
    BY DEF Tokens
<1>2. ASSUME NEW n \in Nat, n \notin stop
      PROVE  n <= Len(t) /\ n < read[n + 1].at /\ read[n + 1].at \in Nat /\ read[n + 1].val \in V
    <2>1. n <= Len(t)
        <3>1. SUFFICES ASSUME n > Len(t) PROVE FALSE
            BY <1>1
        <3>2. At(t, n) = "end"
            BY <1>1, <3>1 DEF At
        <3>3. SP # "end"
            BY DEF SP
        <3> QED
            BY <1>2, <3>2, <3>3
    <2>2. n + 1 \in 1 .. Len(t) + 1
        BY <1>1, <2>1
    <2>3. read[n + 1].at \in n + 1 .. Len(t) + 1 /\ read[n + 1].val \in V
        BY <1>2, <2>2 DEF Forward
    <2> QED
        BY <1>1, <2>1, <2>3
<1>3. base \in [Nat -> D]
    <2>1. \A n \in Nat : Read(n, <<>>) \in D /\ Error \in D
        <3>1. <<>> \in Seq(V)
            OBVIOUS
        <3> QED
            BY <3>1, ListedAre
    <2> HIDE DEF D
    <2> QED
        BY <2>1
<1>4. to \in [Nat -> Nat]
    BY <1>2
<1>5. G \in [Nat \X D -> D]
    <2>1. ASSUME NEW n \in Nat, NEW r \in D, n \notin stop, r.ok
          PROVE  Read(r.at, <<read[n + 1].val>> \o r.val) \in D
        <3>1. r.at \in Nat /\ r.val \in Seq(V)
            BY <2>1, ListedParts
        <3>2. <<read[n + 1].val>> \o r.val \in Seq(V)
            BY <1>2, <2>1, <3>1
        <3> QED
            BY <3>1, <3>2, ListedAre
    <2>2. Error \in D
        BY DEF Listed
    <2> HIDE DEF D, stop
    <2> QED
        BY <2>1, <2>2
<1>6. \A n \in Nat : n \notin stop => n < to[n] /\ n <= Len(t)
    BY <1>2
<1>7. DefinableUp(Nat, stop, D, base, to, G)
    <2> HIDE DEF stop, D, base, to, G
    <2> QED
        BY <1>1, <1>3, <1>4, <1>5, <1>6, RecursionUp
<1>8. PICK f \in [Nat -> D] : \A n \in Nat : f[n] = IF n \in stop THEN base[n] ELSE G[<<n, f[to[n]]>>]
    BY <1>7 DEF DefinableUp
<1>9. ASSUME NEW at \in Nat
      PROVE  f[at] = IF At(t, at) # SP THEN Read(at, <<>>)
                     ELSE IF ~read[at + 1].ok THEN Error
                     ELSE Then(f[read[at + 1].at], LAMBDA rest :
                               Read(rest.at, <<read[at + 1].val>> \o rest.val))
    <2>1. CASE At(t, at) # SP
        <3>1. at \in stop /\ base[at] = Read(at, <<>>)
            BY <2>1
        <3> HIDE DEF stop, base
        <3> QED
            BY <1>8, <2>1, <3>1
    <2>2. CASE At(t, at) = SP /\ ~read[at + 1].ok
        <3>1. at \in stop /\ base[at] = Error
            BY <2>2
        <3> HIDE DEF stop, base
        <3> QED
            BY <1>8, <2>2, <3>1
    <2>3. CASE At(t, at) = SP /\ read[at + 1].ok
        <3>1. at \notin stop
            BY <2>3
        <3>2. to[at] = read[at + 1].at /\ to[at] \in Nat
            BY <1>4, <3>1
        <3> DEFINE rest == f[to[at]]
        <3>3. rest \in D /\ <<at, rest>> \in Nat \X D
            BY <1>8, <3>2
        <3>4. f[at] = G[<<at, rest>>]
            <4> HIDE DEF G, to, stop
            <4> QED
                BY <1>8, <3>1
        <3> HIDE DEF rest, to
        <3>5. f[at] = IF ~rest.ok THEN Error
                      ELSE Read(rest.at, <<read[at + 1].val>> \o rest.val)
            <4> HIDE DEF stop, D
            <4> QED
                BY <3>1, <3>3, <3>4
        <3>6. f[at] = Then(rest, LAMBDA x : Read(x.at, <<read[at + 1].val>> \o x.val))
            BY <3>5 DEF Then
        <3> QED
            BY <2>3, <3>2, <3>6 DEF rest
    <2> QED
        BY <2>1, <2>2, <2>3
<1>10. Lists(f, t, read)
    <2> HIDE DEF D
    <2>1. f = [at \in Nat |-> f[at]]
        BY <1>8
    <2> QED
        BY <1>9, <2>1 DEF Lists
<1>11. Lists(Listing(t, read), t, read)
    BY <1>10 DEF Listing
<1>12. \A at \in Nat : ReadList(t, at, read) = Listing(t, read)[at]
    BY DEF ReadList, Listing, Lists
<1> QED
    BY <1>11, <1>12

\* One value of a list, and the rest of it.
LEMMA ListStep ==
    ASSUME NEW t \in Tokens, NEW V, NEW read, Forward(t, read, V), NEW at \in Nat
    PROVE  LET list(n) == Listing(t, read)[n]
           IN /\ At(t, at) # SP => list(at) = Read(at, <<>>)
              /\ At(t, at) = SP /\ ~read[at + 1].ok => list(at) = Error
              /\ At(t, at) = SP /\ read[at + 1].ok =>
                     list(at) = IF ~list(read[at + 1].at).ok THEN Error
                                ELSE Read(list(read[at + 1].at).at,
                                          <<read[at + 1].val>> \o list(read[at + 1].at).val)
<1> DEFINE f == Listing(t, read)
<1>1. f = [n \in Nat |->
              IF At(t, n) # SP THEN Read(n, <<>>)
              ELSE IF ~read[n + 1].ok THEN Error
              ELSE Then(f[read[n + 1].at], LAMBDA rest :
                        Read(rest.at, <<read[n + 1].val>> \o rest.val))]
    <2>1. Lists(f, t, read)
        BY ListSteps
    <2> HIDE DEF f
    <2> QED
        BY <2>1 DEF Lists
<1> HIDE DEF f
<1>2. f[at] = IF At(t, at) # SP THEN Read(at, <<>>)
              ELSE IF ~read[at + 1].ok THEN Error
              ELSE Then(f[read[at + 1].at], LAMBDA rest :
                        Read(rest.at, <<read[at + 1].val>> \o rest.val))
    BY <1>1
<1>3. At(t, at) = SP /\ read[at + 1].ok =>
          f[at] = IF ~f[read[at + 1].at].ok THEN Error
                  ELSE Read(f[read[at + 1].at].at, <<read[at + 1].val>> \o f[read[at + 1].at].val)
    BY <1>2 DEF Then
<1>4. At(t, at) # SP => f[at] = Read(at, <<>>)
    BY <1>2
<1>5. At(t, at) = SP /\ ~read[at + 1].ok => f[at] = Error
    BY <1>2
<1> QED
    BY <1>3, <1>4, <1>5 DEF f

\* What is listed lies between the place and the end of the text, and what
\* starts with a space is not empty.
LEMMA ListRange ==
    ASSUME NEW t \in Tokens, NEW V, NEW read, Forward(t, read, V), NEW from \in 1 .. Len(t) + 1,
           ReadList(t, from, read).ok
    PROVE  /\ ReadList(t, from, read).at \in from .. Len(t) + 1
           /\ ReadList(t, from, read).val \in Seq(V)
           /\ At(t, from) = SP => ReadList(t, from, read).val # <<>>
<1> DEFINE f == Listing(t, read)
           P == 1 .. Len(t) + 1
           T == {n \in P : f[n].ok => /\ f[n].at \in n .. Len(t) + 1 /\ f[n].val \in Seq(V)
                                      /\ At(t, n) = SP => f[n].val # <<>>}
<1>1. Len(t) \in Nat /\ P \in SUBSET Nat
    BY DEF Tokens
<1>2. ASSUME NEW n \in P, \A m \in P : n < m => m \in T PROVE n \in T
    <2>1. CASE At(t, n) # SP
        <3>1. f[n] = Read(n, <<>>)
            BY <1>1, <2>1, ListStep
        <3>2. <<>> \in Seq(V)
            OBVIOUS
        <3>3. f[n].at = n /\ f[n].val = <<>>
            BY <3>1 DEF Read
        <3> HIDE DEF f
        <3>4. n \in n .. Len(t) + 1
            BY <1>1
        <3> QED
            BY <2>1, <3>2, <3>3, <3>4
    <2>2. CASE At(t, n) = SP /\ ~read[n + 1].ok
        <3>1. f[n] = Error
            BY <1>1, <2>2, ListStep
        <3> QED
            BY <3>1 DEF Error
    <2>3. CASE At(t, n) = SP /\ read[n + 1].ok
        <3> DEFINE to == read[n + 1].at
        <3>1. n <= Len(t)
            <4>1. SUFFICES ASSUME n > Len(t) PROVE FALSE
                BY <1>1
            <4>2. At(t, n) = "end"
                BY <1>1, <4>1 DEF At
            <4> QED
                BY <2>3, <4>2 DEF SP
        <3>2. to \in P /\ n < to /\ read[n + 1].val \in V
            <4>1. n + 1 \in 1 .. Len(t) + 1
                BY <1>1, <3>1
            <4>2. to \in n + 1 .. Len(t) + 1 /\ read[n + 1].val \in V
                BY <2>3, <4>1 DEF Forward
            <4> QED
                BY <1>1, <4>1, <4>2
        <3>3. to \in T
            <4> HIDE DEF P, T, to
            <4> QED
                BY <1>2, <3>2
        <3>4. f[n] = IF ~f[to].ok THEN Error ELSE Read(f[to].at, <<read[n + 1].val>> \o f[to].val)
            BY <1>1, <2>3, ListStep
        <3>5. CASE ~f[to].ok
            BY <3>4, <3>5 DEF Error
        <3>6. CASE f[to].ok
            <4>1. f[to].at \in to .. Len(t) + 1 /\ f[to].val \in Seq(V)
                BY <3>3, <3>6
            <4> HIDE DEF to, f
            <4>2. <<read[n + 1].val>> \o f[to].val \in Seq(V) /\ <<read[n + 1].val>> \o f[to].val # <<>>
                BY <3>2, <4>1
            <4>3. f[n].at = f[to].at /\ f[n].val = <<read[n + 1].val>> \o f[to].val
                BY <3>4, <3>6 DEF Read
            <4>4. f[n].at \in n .. Len(t) + 1
                BY <1>1, <3>2, <4>1, <4>3
            <4> QED
                BY <4>2, <4>3, <4>4
        <3> QED
            BY <3>5, <3>6
    <2> QED
        BY <2>1, <2>2, <2>3
<1>3. \A n \in P : n > Len(t) + 1 => n \in T
    BY <1>1
<1>4. P \subseteq T
    <2> HIDE DEF P, T
    <2>1. Len(t) + 1 \in Nat
        BY <1>1
    <2> QED
        BY <1>1, <1>2, <1>3, <2>1, InductionDown
<1>5. ReadList(t, from, read) = f[from]
    BY <1>1, ListSteps
<1> HIDE DEF f
<1> QED
    BY <1>4, <1>5

\* A function on the first numbers is a sequence.
LEMMA FunctionSeq ==
    ASSUME NEW n \in Nat, NEW E, NEW g \in [1 .. n -> E]
    PROVE  g \in Seq(E) /\ Len(g) = n /\ DOMAIN g = 1 .. n
OBVIOUS

\* The text of a list of values stands in the text of its line.
LEMMA SpacedValue ==
    ASSUME NEW values \in Seq(Value)
    PROVE  /\ Spaced(values) \in Value
           /\ [k \in DOMAIN values |-> <<SP>> \o values[k]] \in Seq(Value)
<1> DEFINE ss == [k \in DOMAIN values |-> <<SP>> \o values[k]]
<1>1. <<SP>> \in Value
    BY ValueParts, OwnWords DEF SP, NL
<1>2. ASSUME NEW k \in DOMAIN values PROVE <<SP>> \o values[k] \in Value
    BY <1>1, ValueJoin
<1>3. ss \in Seq(Value)
    <2>1. Len(values) \in Nat /\ DOMAIN values = 1 .. Len(values)
        OBVIOUS
    <2>2. ss \in [1 .. Len(values) -> Value]
        BY <1>2, <2>1
    <2> HIDE DEF ss
    <2> QED
        BY <2>1, <2>2, FunctionSeq
<1>4. /\ Value \in SUBSET Tokens /\ <<>> \in Value
      /\ \A u \in Value, v \in Value : u \o v \in Value
    BY ValueParts
<1> HIDE DEF ss
<1>5. FlattenSeq(ss) \in Value
    BY <1>3, <1>4, FlattenClosed
<1> QED
    BY <1>3, <1>5 DEF Spaced, ss

\* The values of such a list are read one by one, up to the end of the line.
LEMMA SpacedRead ==
    ASSUME NEW t \in Tokens, NEW V, NEW read, Forward(t, read, V),
           NEW at, NEW values \in Seq(Value), Closed(t, at, Spaced(values)),
           \A q \in Nat, k \in DOMAIN values :
               /\ Stands(t, q, values[k])
               /\ q + Len(values[k]) \in 1 .. Len(t) /\ t[q + Len(values[k])] \in {SP, NL}
               => read[q] = Read(q + Len(values[k]), values[k])
    PROVE  ReadList(t, at, read) = Read(at + Len(Spaced(values)), values)
<1> DEFINE n == Len(values)
           ss == [k \in DOMAIN values |-> <<SP>> \o values[k]]
           f == Listing(t, read)
<1>1. n \in Nat /\ DOMAIN values = 1 .. n /\ Len(t) \in Nat
    BY DEF Tokens
<1>2. ss \in Seq(Tokens) /\ Len(ss) = n
    <2>1. \A v \in Value : v \in Tokens
        BY ValueParts
    <2>2. ss \in Seq(Value)
        BY SpacedValue
    <2> QED
        BY <2>1, <2>2
<1>3. Stands(t, at, FlattenSeq(ss)) /\ at \in Nat
    BY DEF Closed, Spaced, Stands
<1>4. PICK p : Standing(p, t, at, ss)
    <2> HIDE DEF ss
    <2> QED
        BY <1>2, <1>3, FlattenStands
<1>5. p \in [0 .. n -> Nat] /\ p[0] = at /\ p[n] = at + Len(Spaced(values))
    <2> HIDE DEF ss
    <2>1. FlattenSeq(ss) = Spaced(values)
        BY DEF Spaced, ss
    <2> QED
        BY <1>2, <1>4, <2>1 DEF Standing
<1>6. ASSUME NEW k \in 1 .. n
      PROVE  /\ At(t, p[k - 1]) = SP /\ Stands(t, p[k - 1] + 1, values[k])
             /\ p[k] = p[k - 1] + 1 + Len(values[k])
    <2>1. values[k] \in Value /\ ss[k] = <<SP>> \o values[k]
        BY <1>1
    <2>2. Stands(t, p[k - 1], ss[k]) /\ p[k] = p[k - 1] + Len(ss[k])
        <3> HIDE DEF ss
        <3> QED
            BY <1>2, <1>4 DEF Standing
    <2>3. <<SP>> \in Value /\ Len(<<SP>>) = 1
        BY ValueParts, OwnWords DEF SP, NL
    <2>4. Len(ss[k]) = 1 + Len(values[k]) /\ <<SP>> \in Tokens /\ values[k] \in Tokens /\ Len(values[k]) \in Nat
        <3>1. Len(<<SP>> \o values[k]) = Len(<<SP>>) + Len(values[k])
            BY <2>1, <2>3, ValueJoin
        <3> QED
            BY <2>1, <2>3, <3>1, ValueJoin
    <2> HIDE DEF ss
    <2>5. Stands(t, p[k - 1], <<SP>>) /\ Stands(t, p[k - 1] + 1, values[k])
        <3>1. Stands(t, p[k - 1], <<SP>> \o values[k])
            BY <2>1, <2>2
        <3> QED
            BY <2>3, <2>4, <3>1, StandsConcat
    <2>6. At(t, p[k - 1]) = SP
        BY <2>5, StandsToken
    <2>7. k - 1 \in 0 .. n
        BY <1>1
    <2>8. p[k - 1] \in Nat
        BY <1>5, <2>7
    <2>9. p[k] = p[k - 1] + (1 + Len(values[k]))
        BY <2>2, <2>4
    <2> QED
        BY <2>4, <2>5, <2>6, <2>8, <2>9
<1>7. p[n] \in 1 .. Len(t) /\ t[p[n]] = NL /\ At(t, p[n]) = NL
    BY <1>5 DEF Closed
<1>8. ASSUME NEW k \in 1 .. n
      PROVE  p[k] \in 1 .. Len(t) /\ t[p[k]] \in {SP, NL}
    <2>1. CASE k = n
        BY <1>7, <2>1
    <2>2. CASE k # n
        <3>1. k + 1 \in 1 .. n /\ (k + 1) - 1 = k
            <4> HIDE DEF n
            <4> QED
                BY <1>1, <2>2
        <3>2. At(t, p[k]) = SP /\ Stands(t, p[k] + 1, values[k + 1])
            BY <1>6, <3>1
        <3>3. p[k] \in Nat
            BY <1>1, <1>5
        <3>4. values[k + 1] \in Value
            BY <1>1, <3>1
        <3>5. Len(values[k + 1]) \in Nat
            BY <3>4, ValueJoin
        <3>6. p[k] + 1 <= Len(t) + 1
            BY <1>1, <3>2, <3>3, <3>5 DEF Stands
        <3>7. p[k] >= 1
            <4>1. p[k] = p[k - 1] + 1 + Len(values[k]) /\ k - 1 \in 0 .. n /\ values[k] \in Value
                BY <1>1, <1>6
            <4>2. p[k - 1] \in Nat /\ Len(values[k]) \in Nat
                BY <1>5, <4>1, ValueJoin
            <4> QED
                BY <4>1, <4>2
        <3> QED
            BY <1>1, <3>2, <3>3, <3>6, <3>7 DEF At
    <2> QED
        BY <2>1, <2>2
<1>9. ASSUME NEW k \in 1 .. n
      PROVE  read[p[k - 1] + 1] = Read(p[k], values[k])
    <2>1. p[k - 1] \in Nat
        <3>1. k - 1 \in 0 .. n
            BY <1>1
        <3> QED
            BY <1>5, <3>1
    <2>2. p[k - 1] + 1 \in Nat /\ k \in DOMAIN values
        BY <1>1, <2>1
    <2> QED
        BY <1>6, <1>8, <2>2
<1> DEFINE R(j) == SubSeq(values, n - j + 1, n)
           T == {j \in 0 .. n : f[p[n - j]] = Read(p[n], R(j))}
<1>10. 0 \in T
    <2>1. f[p[n]] = Read(p[n], <<>>)
        <3>1. At(t, p[n]) # SP /\ p[n] \in Nat
            BY <1>7 DEF SP, NL
        <3> DEFINE q == p[n]
        <3> HIDE DEF q
        <3>2. q \in Nat /\ At(t, q) # SP
            BY <3>1 DEF q
        <3>3. f[q] = Read(q, <<>>)
            BY <3>2, ListStep
        <3> QED
            BY <3>3 DEF q
    <2>2. R(0) = <<>> /\ n - 0 = n /\ 0 \in 0 .. n
        BY <1>1
    <2> HIDE DEF R, f, n
    <2> QED
        BY <2>1, <2>2
<1>11. ASSUME NEW j \in 0 .. n, j < n, j \in T PROVE j + 1 \in T
    <2> DEFINE k == n - j
    <2>1. k \in 1 .. n /\ k - 1 = n - (j + 1) /\ j + 1 \in 0 .. n
        BY <1>1, <1>11
    <2>2. f[p[k]] = Read(p[n], R(j))
        BY <1>11
    <2>3. R(j + 1) = <<values[k]>> \o R(j)
        <3>1. R(j + 1) = SubSeq(values, k, n) /\ R(j) = SubSeq(values, k + 1, n)
            <4>1. n - (j + 1) + 1 = k /\ n - j + 1 = k + 1
                <5> HIDE DEF n
                <5> QED
                    BY <1>1
            <4> QED
                BY <4>1
        <3>2. SubSeq(values, k, n) = <<values[k]>> \o SubSeq(values, k + 1, n)
            <4>1. n \in 1 .. Len(values) /\ k \in 1 .. n
                BY <1>1, <2>1
            <4> HIDE DEF k, n
            <4> QED
                BY <1>1, <4>1, SubSeqRecursiveFirst
        <3> QED
            BY <3>1, <3>2
    <2> HIDE DEF R, k
    <2>4. At(t, p[k - 1]) = SP /\ p[k - 1] \in Nat
        <3>1. k - 1 \in 0 .. n
            BY <1>1, <2>1
        <3> HIDE DEF n
        <3> QED
            BY <1>5, <1>6, <2>1, <3>1
    <2> DEFINE q == p[k - 1]
               r == read[q + 1]
    <2>5. r.ok /\ r.at = p[k] /\ r.val = values[k]
        <3>1. r = Read(p[k], values[k])
            BY <1>9, <2>1
        <3> HIDE DEF r
        <3> QED
            BY <3>1 DEF Read
    <2>6. f[p[k]].ok /\ f[p[k]].at = p[n] /\ f[p[k]].val = R(j)
        BY <2>2 DEF Read
    <2>7. f[q] = Read(p[n], <<values[k]>> \o R(j))
        <3> HIDE DEF q
        <3>1. f[q] = IF ~f[r.at].ok THEN Error ELSE Read(f[r.at].at, <<r.val>> \o f[r.at].val)
            BY <2>4, <2>5, ListStep DEF q
        <3> HIDE DEF r, f
        <3> QED
            BY <2>5, <2>6, <3>1
    <2> HIDE DEF f
    <2> QED
        BY <2>1, <2>3, <2>7
<1>12. n \in T
    <2> HIDE DEF T, n
    <2>1. \A j \in 0 .. n : j \in T
        BY <1>1, <1>10, <1>11, InductionTo
    <2> QED
        BY <1>1, <2>1
<1>13. R(n) = values /\ n - n = 0
    BY <1>1, SubSeqFull
<1> HIDE DEF R
<1>14. f[at] = Read(p[n], values)
    BY <1>5, <1>12, <1>13
<1> QED
    BY <1>3, <1>5, <1>14, ListSteps

-----------------------------------------------------------------------------
(* What the scanner reads, whatever the text. *)

\* A value ends where one of the stops is, or the text.
LEMMA ScanRange ==
    ASSUME NEW t \in Tokens, NEW at \in 1 .. Len(t) + 1, NEW stops
    PROVE  LET r == ScanUntil(t, at, stops)
           IN /\ r.ok /\ r = Read(r.at, r.val) /\ r.at \in at .. Len(t) + 1
              /\ r.val = SubSeq(t, at, r.at - 1)
              /\ r.val \in Tokens /\ Len(r.val) = r.at - at
              /\ r.at <= Len(t) => t[r.at] \in stops
<1> DEFINE r == ScanUntil(t, at, stops)
           ends == {k \in at .. Len(t) : t[k] \in stops}
           end == IF ends = {} THEN Len(t) + 1 ELSE CHOOSE k \in ends : \A j \in ends : k <= j
<1>1. Len(t) \in Nat /\ at \in Nat
    BY DEF Tokens
<1>2. end \in at .. Len(t) + 1 /\ (end <= Len(t) => t[end] \in stops)
    <2>1. CASE ends = {}
        BY <1>1, <2>1
    <2>2. CASE ends # {}
        <3>1. ends \in SUBSET Nat
            BY <1>1
        <3>2. \E k \in ends : \A j \in ends : k <= j
            <4> HIDE DEF ends
            <4> QED
                BY <2>2, <3>1, Least
        <3>3. end \in ends
            <4> HIDE DEF ends
            <4> QED
                BY <2>2, <3>2
        <3> HIDE DEF end
        <3> QED
            BY <1>1, <3>3
    <2> QED
        BY <2>1, <2>2
<1>3. r = Read(end, SubSeq(t, at, end - 1))
    BY DEF ScanUntil
<1> HIDE DEF end, r
<1>4. r.ok /\ r.at = end /\ r.val = SubSeq(t, at, end - 1) /\ r = Read(r.at, r.val)
    BY <1>3 DEF Read
<1>5. SubSeq(t, at, end - 1) \in Seq(Words) /\ Len(SubSeq(t, at, end - 1)) = end - at
    BY <1>1, <1>2 DEF Tokens
<1> QED
    BY <1>2, <1>4, <1>5 DEF r, Tokens

\* Skipping does not go beyond the end.
LEMMA SkipRange ==
    ASSUME NEW t \in Tokens, NEW at \in 1 .. Len(t) + 1, NEW token \in Words
    PROVE  Skip(t, at, token) \in at .. Len(t) + 1
<1> DEFINE ends == {k \in at .. (Len(t) + 1) : At(t, k) # token}
<1>1. Len(t) \in Nat
    BY DEF Tokens
<1>2. At(t, Len(t) + 1) = "end"
    BY <1>1 DEF At
<1>3. Len(t) + 1 \in ends
    BY <1>1, <1>2, OwnWords
<1>4. \E k \in ends : \A j \in ends : k <= j
    <2>1. ends \in SUBSET Nat
        BY <1>1
    <2> HIDE DEF ends
    <2> QED
        BY <1>3, <2>1, Least
<1>5. Skip(t, at, token) \in ends
    BY <1>4 DEF Skip
<1> QED
    BY <1>5

\* Numbers as they are read.
Digits(bits) == {v \in Tokens : OneOf(v, Fitting(bits))}

\* A number is one word.
LEMMA NumberRange ==
    ASSUME NEW t \in Tokens, NEW at \in Nat \ {0}, NEW bits, ScanNumber(t, at, bits).ok
    PROVE  LET r == ScanNumber(t, at, bits)
           IN /\ at \in 1 .. Len(t) /\ r.at = at + 1 /\ r.val \in Digits(bits)
              /\ r = Read(r.at, r.val)
<1>1. Len(t) \in Nat
    BY DEF Tokens
<1>2. At(t, at) \in Fitting(bits) /\ Fitting(bits) \subseteq Numbers
    BY OwnWords DEF ScanNumber, Error
<1>3. at <= Len(t)
    <2>1. "end" \notin Numbers
        BY OwnWords
    <2> QED
        BY <1>1, <1>2, <2>1 DEF At
<1>4. ScanNumber(t, at, bits) = Read(at + 1, <<t[at]>>) /\ t[at] \in Fitting(bits)
    BY <1>2, <1>3 DEF ScanNumber, At
<1>5. <<t[at]>> \in Digits(bits)
    <2>1. t[at] \in Words
        BY <1>1, <1>3 DEF Tokens
    <2>2. <<t[at]>> \in Seq(Words) /\ Len(<<t[at]>>) = 1 /\ <<t[at]>>[1] = t[at]
        BY <2>1
    <2> QED
        BY <1>4, <2>2 DEF Digits, OneOf, Tokens
<1>6. LET r == Read(at + 1, <<t[at]>>) IN r.at = at + 1 /\ r.val = <<t[at]>>
    BY DEF Read
<1> QED
    BY <1>1, <1>3, <1>4, <1>5, <1>6

\* The two readers of lists.
Number(t) == [k \in Nat |-> ScanNumber(t, k, 63)]
Token(t) == [k \in Nat |-> ReadToken(t, k)]

\* They go forward.
LEMMA ReadersForward ==
    ASSUME NEW t \in Tokens
    PROVE  Forward(t, Number(t), Digits(63)) /\ Forward(t, Token(t), Tokens)
<1>1. Len(t) \in Nat
    BY DEF Tokens
<1>2. ASSUME NEW at \in 1 .. Len(t) + 1, Number(t)[at].ok
      PROVE  Number(t)[at].at \in at .. Len(t) + 1 /\ Number(t)[at].val \in Digits(63)
    <2>1. Number(t)[at] = ScanNumber(t, at, 63) /\ at \in Nat \ {0}
        BY <1>1 DEF Number
    <2>2. /\ at \in 1 .. Len(t) /\ ScanNumber(t, at, 63).at = at + 1
          /\ ScanNumber(t, at, 63).val \in Digits(63)
        BY <1>2, <2>1, NumberRange
    <2> QED
        BY <1>1, <2>1, <2>2
<1>3. ASSUME NEW at \in 1 .. Len(t) + 1
      PROVE  Token(t)[at].at \in at .. Len(t) + 1 /\ Token(t)[at].val \in Tokens
    <2>1. Token(t)[at] = ScanUntil(t, at, Delimiters)
        BY <1>1 DEF Token, ReadToken
    <2> QED
        BY <2>1, ScanRange
<1> QED
    BY <1>2, <1>3 DEF Forward

-----------------------------------------------------------------------------
(* Values are read as they were meant. *)

\* A value of two parts.
LEMMA ClosedParts ==
    ASSUME NEW t \in Tokens, NEW at, NEW u \in Value, NEW v \in Value, Closed(t, at, u \o v)
    PROVE  /\ Stands(t, at, u) /\ Closed(t, at + Len(u), v)
           /\ at \in Nat /\ Len(u) \in Nat /\ Len(v) \in Nat
           /\ at + Len(u \o v) = at + Len(u) + Len(v)
<1> DEFINE x == Len(u)
           y == Len(v)
           z == Len(u \o v)
<1>1. z = x + y /\ x \in Nat /\ y \in Nat /\ u \in Tokens /\ v \in Tokens
    BY ValueJoin
<1>2. Stands(t, at, u) /\ Stands(t, at + x, v)
    BY <1>1, StandsConcat DEF Closed
<1>3. at \in Nat
    BY <1>2 DEF Stands
<1>4. at + z \in 1 .. Len(t) /\ t[at + z] = NL /\ At(t, at + z) = NL
    BY DEF Closed
<1>5. at + z = at + x + y
    <2> HIDE DEF x, y, z
    <2> QED
        BY <1>1, <1>3
<1>6. at + x + y \in 1 .. Len(t) /\ t[at + x + y] = NL /\ At(t, at + x + y) = NL
    BY <1>4, <1>5
<1> QED
    BY <1>1, <1>2, <1>3, <1>5, <1>6 DEF Closed

\* The rest of an address: what is between its parts.
LEMMA ConnectionRead ==
    ASSUME NEW t \in Tokens, NEW at, NEW c \in ConnectionType, ConnectionBack(c),
           Closed(t, at, ConnectionText(c))
    PROVE  ReadConnection(t, at) = Read(at + Len(ConnectionText(c)), c)
<1> DEFINE n == Len(c.net)
           p == at + n
           net == IF At(t, at) = "IN" THEN Read(at + 1, <<"IN">>) ELSE ScanUntil(t, at, {SP})
           addr == SkipWs(t, net.at)
           ip == ReadLine(t, SkipWs(t, addr + 1))
<1>1. /\ c.net \in Free({SP, NL}) /\ c.net # <<>> /\ c.addr \in Word /\ c.ip \in Value
      /\ c = [net |-> c.net, addr |-> c.addr, ip |-> c.ip]
    BY DEF ConnectionType
<1>2. c.addr \in AddrTypes /\ c.ip \in Ip4 \cup Ip6 /\ (c.net[1] = "IN" => c.net = <<"IN">>)
    BY DEF ConnectionBack, AddressBack
<1>3. c.ip \in Tokens /\ Len(c.ip) \in Nat \ {0} /\ c.ip[1] # SP
    BY <1>2, AddressWords
<1>4. Stands(t, at, ConnectionText(c))
    BY DEF Closed
<1>5. /\ Len(ConnectionText(c)) = n + 3 + Len(c.ip) /\ n \in Nat /\ at \in Nat
      /\ Stands(t, at, c.net) /\ Stands(t, at + n, <<SP>>)
      /\ Stands(t, at + n + 1, <<c.addr>>) /\ Stands(t, at + n + 2, <<SP>>)
      /\ Stands(t, at + n + 3, c.ip)
    BY <1>1, <1>4, AddressPlaces
<1>6. net = Read(p, c.net)
    <2>1. c.net \in Tokens /\ \A k \in 1 .. Len(c.net) : c.net[k] \notin {SP}
        BY <1>1, ValueParts
    <2>2. At(t, at) = c.net[1]
        <3>1. Stands(t, at, <<c.net[1]>>)
            BY <1>1, <1>5, <2>1, HeadStands
        <3> QED
            BY <3>1, StandsToken
    <2>3. ScanUntil(t, at, {SP}) = Read(at + Len(c.net), c.net)
        BY <1>5, <2>1, SpaceEnds
    <2>4. CASE c.net[1] = "IN"
        <3>1. c.net = <<"IN">> /\ Len(c.net) = 1
            BY <1>2, <2>4
        <3> QED
            BY <2>2, <2>4, <3>1
    <2>5. CASE c.net[1] # "IN"
        BY <2>2, <2>3, <2>5
    <2> QED
        BY <2>4, <2>5
<1> HIDE DEF n, net
<1>7. p \in Nat /\ p + 1 = at + n + 1 /\ p + 2 = at + n + 2 /\ p + 3 = at + n + 3
      /\ at + Len(ConnectionText(c)) = p + 3 + Len(c.ip) /\ p + 1 + 1 = p + 2 /\ p + 2 + 1 = p + 3
    <2> DEFINE all == Len(ConnectionText(c))
               ipn == Len(c.ip)
    <2>1. all = n + 3 + ipn /\ n \in Nat /\ at \in Nat /\ ipn \in Nat
        BY <1>3, <1>5
    <2> HIDE DEF all, ipn
    <2>2. at + all = p + 3 + ipn
        BY <2>1
    <2>3. p \in Nat /\ p + 1 = at + n + 1 /\ p + 2 = at + n + 2 /\ p + 3 = at + n + 3
          /\ p + 1 + 1 = p + 2 /\ p + 2 + 1 = p + 3
        BY <2>1
    <2> HIDE DEF p
    <2> QED
        BY <2>2, <2>3 DEF all, ipn
<1>8. Stands(t, p, <<SP>>) /\ Stands(t, p + 1, <<c.addr>>) /\ Stands(t, p + 2, <<SP>>)
      /\ Stands(t, p + 2 + 1, c.ip)
    BY <1>5, <1>7 DEF n
<1> HIDE DEF p
<1>9. addr = p + 1
    <2>1. c.addr # SP
        BY <1>2, OwnWords
    <2>2. net.at = p
        BY <1>6 DEF Read
    <2> QED
        BY <1>8, <2>1, <2>2, SpaceSkipped
<1>10. At(t, addr) = c.addr /\ t[addr] = c.addr
    BY <1>8, <1>9, StandsToken
<1>11. SkipWs(t, addr + 1) = p + 3
    <2>1. c.ip[1] # SP
        BY <1>3
    <2>2. Stands(t, p + 2 + 1, <<c.ip[1]>>)
        BY <1>3, <1>8, HeadStands
    <2>3. SkipWs(t, p + 2) = p + 2 + 1
        BY <1>8, <2>1, <2>2, SpaceSkipped
    <2> QED
        BY <1>7, <1>9, <2>3
<1>12. ip = Read(p + 3 + Len(c.ip), c.ip)
    <2>1. Stands(t, p + 3, c.ip)
        BY <1>7, <1>8
    <2>2. Closed(t, p + 3, c.ip)
        BY <1>7, <2>1 DEF Closed
    <2>3. ReadLine(t, p + 3) = Read(p + 3 + Len(c.ip), c.ip)
        BY <1>1, <2>2, LineValueRead
    <2> QED
        BY <1>11, <2>3
<1>13. ReadConnection(t, at) =
           IF At(t, addr) \notin AddrTypes THEN Error
           ELSE IpOf(ip, [net |-> net.val, addr |-> t[addr], ip |-> ip.val])
    BY DEF ReadConnection, net
<1> HIDE DEF addr, ip
<1>14. net.val = c.net /\ ip.val = c.ip /\ ip.at = p + 3 + Len(c.ip)
    BY <1>6, <1>12 DEF Read
<1>15. ReadConnection(t, at) = IpOf(ip, c)
    BY <1>1, <1>2, <1>10, <1>13, <1>14
<1> QED
    BY <1>2, <1>7, <1>14, <1>15 DEF IpOf

\* A space is a value, and so is a number.
LEMMA SpaceValue ==
    <<SP>> \in Value /\ <<SP>> \in Tokens /\ Len(<<SP>>) = 1
BY ValueParts, OwnWords DEF SP, NL

\* Tokens joined one by one.
LEMMA JoinThree ==
    ASSUME NEW S, NEW x \in S, NEW y \in S, NEW z \in S
    PROVE  (<<x>> \o <<y>>) \o <<z>> = <<x, y, z>>
<1> DEFINE a == <<x>> \o <<y>>
           b == a \o <<z>>
           c == <<x, y, z>>
<1>1. /\ <<x>> \in Seq(S) /\ <<y>> \in Seq(S) /\ <<z>> \in Seq(S)
      /\ Len(<<x>>) = 1 /\ Len(<<y>>) = 1 /\ Len(<<z>>) = 1
      /\ <<x>>[1] = x /\ <<y>>[1] = y /\ <<z>>[1] = z
    OBVIOUS
<1>2. a \in Seq(S) /\ Len(a) = 2 /\ a[1] = x /\ a[2] = y
    BY <1>1
<1> HIDE DEF a
<1>3. b \in Seq(S) /\ Len(b) = 3 /\ b[1] = x /\ b[2] = y /\ b[3] = z
    <2> DEFINE w == <<z>>
    <2>1. w \in Seq(S) /\ Len(w) = 1 /\ w[1] = z
        BY <1>1
    <2> HIDE DEF w
    <2>2. /\ a \o w \in Seq(S) /\ Len(a \o w) = Len(a) + Len(w)
          /\ \A i \in 1 .. Len(a) + Len(w) :
                 (a \o w)[i] = IF i <= Len(a) THEN a[i] ELSE w[i - Len(a)]
        BY <1>2, <2>1, ConcatProperties
    <2>3. Len(a) + Len(w) = 3 /\ 3 - Len(a) = 1
        BY <1>2, <2>1
    <2>4. (a \o w)[1] = a[1] /\ (a \o w)[2] = a[2] /\ (a \o w)[3] = w[1]
        BY <1>2, <2>2, <2>3
    <2> QED
        BY <1>2, <2>1, <2>2, <2>3, <2>4 DEF w
<1>4. c \in Seq(S) /\ Len(c) = 3 /\ c[1] = x /\ c[2] = y /\ c[3] = z
    OBVIOUS
<1> HIDE DEF b, c
<1>5. \A k \in 1 .. 3 : b[k] = c[k]
    BY <1>3, <1>4
<1>6. b = c
    BY <1>3, <1>4, <1>5, SeqEqual
<1> QED
    BY <1>6 DEF a, b, c

\* A value and a space behind it.
LEMMA Behind ==
    ASSUME NEW t \in Tokens, NEW at, NEW u \in Value, NEW v \in Value, Stands(t, at, u \o v)
    PROVE  Stands(t, at, u) /\ Stands(t, at + Len(u), v)
BY ValueJoin, StandsConcat

\* The places of an origin.
LEMMA OriginPlaces ==
    ASSUME NEW t \in Tokens, NEW at, NEW o,
           o.user \in Value, o.id \in Digits(64), o.id \in Value,
           o.version \in Digits(64), o.version \in Value,
           ConnectionText(o) \in Value, Closed(t, at, OriginText(o))
    PROVE  LET p == at + Len(o.user)
           IN /\ p \in Nat /\ OriginText(o) \in Value
              /\ at + Len(OriginText(o)) = p + 5 + Len(ConnectionText(o))
              /\ Stands(t, at, o.user) /\ Stands(t, p, <<SP>>) /\ Stands(t, p + 1, o.id)
              /\ Stands(t, p + 2, <<SP>>) /\ Stands(t, p + 3, o.version) /\ Stands(t, p + 4, <<SP>>)
              /\ Closed(t, p + 5, ConnectionText(o))
<1> DEFINE u == Len(o.user)
           p == at + u
           c == ConnectionText(o)
           w1 == o.user \o <<SP>>
           w2 == w1 \o o.id
           w3 == w2 \o <<SP>>
           w4 == w3 \o o.version
           w5 == w4 \o <<SP>>
           w6 == w5 \o c
<1>1. /\ <<SP>> \in Value /\ Len(<<SP>>) = 1 /\ Len(o.id) = 1 /\ Len(o.version) = 1 /\ u \in Nat
      /\ Len(c) \in Nat
    BY SpaceValue, ValueParts DEF Digits, OneOf
<1>2. w6 = OriginText(o)
    BY DEF OriginText
<1>3. w1 \in Value /\ Len(w1) = u + 1
    BY <1>1, ValueJoin
<1> HIDE DEF w1
<1>4. w2 \in Value /\ Len(w2) = u + 2
    <2>1. w2 \in Value /\ Len(w2) = Len(w1) + Len(o.id)
        BY <1>3, ValueJoin
    <2> HIDE DEF u, w2
    <2> QED
        BY <1>1, <1>3, <2>1
<1> HIDE DEF w2
<1>5. w3 \in Value /\ Len(w3) = u + 3
    <2>1. w3 \in Value /\ Len(w3) = Len(w2) + Len(<<SP>>)
        BY <1>1, <1>4, ValueJoin
    <2> HIDE DEF u, w3
    <2> QED
        BY <1>1, <1>4, <2>1
<1> HIDE DEF w3
<1>6. w4 \in Value /\ Len(w4) = u + 4
    <2>1. w4 \in Value /\ Len(w4) = Len(w3) + Len(o.version)
        BY <1>5, ValueJoin
    <2> HIDE DEF u, w4
    <2> QED
        BY <1>1, <1>5, <2>1
<1> HIDE DEF w4
<1>7. w5 \in Value /\ Len(w5) = u + 5
    <2>1. w5 \in Value /\ Len(w5) = Len(w4) + Len(<<SP>>)
        BY <1>1, <1>6, ValueJoin
    <2> HIDE DEF u, w5
    <2> QED
        BY <1>1, <1>6, <2>1
<1> HIDE DEF w5
<1>8. w6 \in Value /\ Len(w6) = u + 5 + Len(c)
    <2>1. w6 \in Value /\ Len(w6) = Len(w5) + Len(c)
        BY <1>7, ValueJoin
    <2> HIDE DEF u, w6
    <2> QED
        BY <1>7, <2>1
<1>9. Stands(t, at, w5) /\ Closed(t, at + (u + 5), c) /\ at \in Nat
    <2>1. Closed(t, at, w5 \o c)
        BY <1>2
    <2> HIDE DEF c
    <2>2. c \in Value
        BY DEF c
    <2>3. Stands(t, at, w5) /\ Closed(t, at + Len(w5), c) /\ at \in Nat
        BY <1>7, <2>1, <2>2, ClosedParts
    <2> QED
        BY <1>7, <2>3
<1>10. Stands(t, at, w4) /\ Stands(t, at + (u + 4), <<SP>>)
    <2>1. Stands(t, at, w4) /\ Stands(t, at + Len(w4), <<SP>>)
        BY <1>1, <1>6, <1>9, Behind DEF w5
    <2> QED
        BY <1>6, <2>1
<1>11. Stands(t, at, w3) /\ Stands(t, at + (u + 3), o.version)
    <2>1. Stands(t, at, w3) /\ Stands(t, at + Len(w3), o.version)
        BY <1>5, <1>10, Behind DEF w4
    <2> QED
        BY <1>5, <2>1
<1>12. Stands(t, at, w2) /\ Stands(t, at + (u + 2), <<SP>>)
    <2>1. Stands(t, at, w2) /\ Stands(t, at + Len(w2), <<SP>>)
        BY <1>1, <1>4, <1>11, Behind DEF w3
    <2> QED
        BY <1>4, <2>1
<1>13. Stands(t, at, w1) /\ Stands(t, at + (u + 1), o.id)
    <2>1. Stands(t, at, w1) /\ Stands(t, at + Len(w1), o.id)
        BY <1>3, <1>12, Behind DEF w2
    <2> QED
        BY <1>3, <2>1
<1>14. Stands(t, at, o.user) /\ Stands(t, p, <<SP>>)
    BY <1>1, <1>13, Behind DEF w1
<1> HIDE DEF u
<1>15. /\ p \in Nat /\ at + (u + 1) = p + 1 /\ at + (u + 2) = p + 2 /\ at + (u + 3) = p + 3
       /\ at + (u + 4) = p + 4 /\ at + (u + 5) = p + 5
    BY <1>1, <1>9
<1>16. at + Len(w6) = p + 5 + Len(c)
    <2> HIDE DEF w6, c
    <2> QED
        BY <1>1, <1>8, <1>9
<1> HIDE DEF w6
<1>17. OriginText(o) \in Value /\ at + Len(OriginText(o)) = p + 5 + Len(c)
    BY <1>2, <1>8, <1>16
<1> HIDE DEF c
<1>18. /\ Stands(t, at, o.user) /\ Stands(t, p, <<SP>>) /\ Stands(t, p + 1, o.id)
       /\ Stands(t, p + 2, <<SP>>) /\ Stands(t, p + 3, o.version) /\ Stands(t, p + 4, <<SP>>)
       /\ Closed(t, p + 5, c)
    <2> HIDE DEF p
    <2> QED
        BY <1>9, <1>10, <1>11, <1>12, <1>13, <1>14, <1>15
<1> QED
    BY <1>15, <1>17, <1>18 DEF c, u

\* An address as an origin has it.
LEMMA OriginAddressRead ==
    ASSUME NEW t \in Tokens, NEW p, NEW o,
           o.net \in Free({SP, NL}) \ {<<>>}, o.addr \in Word, o.ip \in Value, AddressBack(o),
           Stands(t, p, <<SP>>), Closed(t, p + 1, ConnectionText(o))
    PROVE  LET net == ScanUntil(t, SkipWs(t, p), {SP})
               addr == ScanUntil(t, SkipWs(t, net.at), {SP})
               ip == ScanUntil(t, SkipWs(t, addr.at), {SP, NL})
           IN /\ net.val = o.net /\ addr.val = <<o.addr>>
              /\ ip = Read(p + 1 + Len(ConnectionText(o)), o.ip)
<1> DEFINE n == Len(o.net)
           q == p + 1 + n
           net == ScanUntil(t, SkipWs(t, p), {SP})
           addr == ScanUntil(t, SkipWs(t, net.at), {SP})
           ip == ScanUntil(t, SkipWs(t, addr.at), {SP, NL})
<1>1. o.addr \in AddrTypes /\ o.ip \in Ip4 \cup Ip6
    BY DEF AddressBack
<1>2. /\ o.ip \in Tokens /\ Len(o.ip) \in Nat \ {0} /\ o.ip[1] \notin {SP, NL}
      /\ \A k \in 1 .. Len(o.ip) : o.ip[k] \notin {SP, NL}
    BY <1>1, AddressWords
<1>3. Stands(t, p + 1, ConnectionText(o))
    BY DEF Closed
<1>4. /\ Len(ConnectionText(o)) = n + 3 + Len(o.ip) /\ n \in Nat /\ p \in Nat
      /\ Stands(t, p + 1, o.net) /\ Stands(t, p + 1 + n, <<SP>>)
      /\ Stands(t, p + 1 + n + 1, <<o.addr>>) /\ Stands(t, p + 1 + n + 2, <<SP>>)
      /\ Stands(t, p + 1 + n + 3, o.ip)
    <2>1. o.net \in Free({SP, NL})
        OBVIOUS
    <2>2. p \in Nat
        BY StandsToken
    <2> QED
        BY <1>3, <2>1, <2>2, AddressPlaces
<1>5. SkipWs(t, p) = p + 1
    <2>1. n > 0 /\ o.net[1] # SP
        <3>1. o.net \in Seq(Words \ {SP, NL}) /\ o.net # <<>>
            BY DEF Free
        <3> QED
            BY <3>1
    <2>2. t[p + 1] = o.net[1] /\ p + 1 \in 1 .. Len(t)
        <3>1. p + 1 + 1 - 1 = p + 1 /\ 1 \in 1 .. Len(o.net) /\ Len(t) \in Nat
            BY <1>4, <2>1 DEF Tokens
        <3>2. p + 1 + Len(o.net) <= Len(t) + 1
            BY <1>4 DEF Stands
        <3>3. t[p + 1 + 1 - 1] = o.net[1]
            BY <1>4, <3>1 DEF Stands
        <3> HIDE DEF n
        <3>4. p + 1 + n <= Len(t) + 1
            BY <3>2 DEF n
        <3>5. t[p + 1] = o.net[1]
            BY <3>1, <3>3
        <3>6. n \in Nat /\ n > 0 /\ p \in Nat /\ Len(t) \in Nat
            BY <1>4, <2>1, <3>1
        <3>7. p + 1 \in 1 .. Len(t)
            BY <3>4, <3>6
        <3> QED
            BY <3>5, <3>7
    <2>3. At(t, p) = SP /\ p \in 1 .. Len(t)
        BY StandsToken
    <2>4. At(t, p + 1) # SP
        BY <2>1, <2>2 DEF At
    <2> QED
        BY <2>3, <2>4, SkipOne DEF SkipWs
<1>6. net = Read(q, o.net)
    <2>1. o.net \in Tokens /\ \A k \in 1 .. Len(o.net) : o.net[k] \notin {SP}
        <3>1. o.net \in Free({SP, NL})
            OBVIOUS
        <3> QED
            BY <3>1, ValueParts
    <2>2. Stands(t, p + 1, o.net) /\ Stands(t, p + 1 + Len(o.net), <<SP>>)
        BY <1>4
    <2>3. ScanUntil(t, p + 1, {SP}) = Read(p + 1 + Len(o.net), o.net)
        BY <2>1, <2>2, SpaceEnds
    <2> QED
        BY <1>5, <2>3
<1> HIDE DEF n, net
<1>7. /\ q \in Nat /\ q + 1 = p + 1 + n + 1 /\ q + 2 = p + 1 + n + 2 /\ q + 3 = p + 1 + n + 3
      /\ p + 1 + Len(ConnectionText(o)) = q + 3 + Len(o.ip) /\ q + 1 + 1 = q + 2 /\ q + 2 + 1 = q + 3
    <2> DEFINE all == Len(ConnectionText(o))
               ipn == Len(o.ip)
    <2>1. all = n + 3 + ipn /\ n \in Nat /\ p \in Nat /\ ipn \in Nat
        BY <1>2, <1>4
    <2> HIDE DEF all, ipn
    <2>2. p + 1 + all = q + 3 + ipn
        BY <2>1
    <2>3. q \in Nat /\ q + 1 = p + 1 + n + 1 /\ q + 2 = p + 1 + n + 2 /\ q + 3 = p + 1 + n + 3
          /\ q + 1 + 1 = q + 2 /\ q + 2 + 1 = q + 3
        BY <2>1
    <2> HIDE DEF q
    <2> QED
        BY <2>2, <2>3 DEF all, ipn
<1>8. /\ Stands(t, q, <<SP>>) /\ Stands(t, q + 1, <<o.addr>>) /\ Stands(t, q + 2, <<SP>>)
      /\ Stands(t, q + 2 + 1, o.ip) /\ Stands(t, q + 3, o.ip)
    BY <1>4, <1>7 DEF n
<1> HIDE DEF q
<1>9. addr = Read(q + 2, <<o.addr>>)
    <2>1. o.addr # SP /\ <<o.addr>> \in Tokens /\ Len(<<o.addr>>) = 1
        BY <1>1, OwnWords DEF Word, Tokens
    <2>2. net.at = q
        BY <1>6 DEF Read
    <2>3. SkipWs(t, net.at) = q + 1
        BY <1>8, <2>1, <2>2, SpaceSkipped
    <2>4. q + 1 + Len(<<o.addr>>) = q + 2
        BY <1>7, <2>1
    <2>5. \A k \in 1 .. Len(<<o.addr>>) : <<o.addr>>[k] \notin {SP}
        BY <2>1
    <2>6. ScanUntil(t, q + 1, {SP}) = Read(q + 1 + Len(<<o.addr>>), <<o.addr>>)
        <3> DEFINE u == <<o.addr>>
        <3>1. u \in Tokens /\ \A k \in 1 .. Len(u) : u[k] \notin {SP}
            BY <2>1, <2>5
        <3>2. Stands(t, q + 1, u) /\ Stands(t, q + 1 + Len(u), <<SP>>)
            BY <1>8, <2>4
        <3> HIDE DEF u
        <3>3. ScanUntil(t, q + 1, {SP}) = Read(q + 1 + Len(u), u)
            BY <3>1, <3>2, SpaceEnds
        <3> QED BY <3>3 DEF u
    <2> QED
        BY <2>3, <2>4, <2>6
<1> HIDE DEF addr
<1>10. ip = Read(q + 3 + Len(o.ip), o.ip)
    <2>1. addr.at = q + 2
        BY <1>9 DEF Read
    <2>2. SkipWs(t, q + 2) = q + 3
        <3>1. Stands(t, q + 2 + 1, <<o.ip[1]>>) /\ o.ip[1] # SP
            BY <1>2, <1>8, HeadStands
        <3> QED
            BY <1>7, <1>8, <3>1, SpaceSkipped
    <2>3. q + 3 + Len(o.ip) \in 1 .. Len(t) /\ t[q + 3 + Len(o.ip)] = NL
        BY <1>7 DEF Closed
    <2>4. q + 3 + Len(o.ip) <= Len(t) /\ t[q + 3 + Len(o.ip)] \in {SP, NL}
        BY <2>3 DEF Tokens
    <2>5. ScanUntil(t, q + 3, {SP, NL}) = Read(q + 3 + Len(o.ip), o.ip)
        BY <1>2, <1>8, <2>4, ScanStops
    <2> QED
        BY <2>1, <2>2, <2>5
<1>11. net.val = o.net /\ addr.val = <<o.addr>>
    BY <1>6, <1>9 DEF Read
<1> QED
    BY <1>7, <1>10, <1>11 DEF net, addr

\* An origin is read as it was meant.
LEMMA OriginRead ==
    ASSUME NEW t \in Tokens, NEW at, NEW o \in OriginType, AddressBack(o),
           OneOf(o.id, Fitting(64)), OneOf(o.version, Fitting(64)), Closed(t, at, OriginText(o))
    PROVE  ReadOrigin(t, at) = Read(at + Len(OriginText(o)), o)
<1> DEFINE p == at + Len(o.user)
           user == ScanUntil(t, at, {SP, NL})
           id == ScanNumber(t, SkipWs(t, user.at), 64)
           version == ScanNumber(t, SkipWs(t, id.at), 64)
           net == ScanUntil(t, SkipWs(t, version.at), {SP})
           addr == ScanUntil(t, SkipWs(t, net.at), {SP})
           ip == ScanUntil(t, SkipWs(t, addr.at), {SP, NL})
<1>1. /\ o.user \in Free({SP, NL}) /\ o.user \in Value /\ o.id \in Value /\ o.version \in Value
      /\ o.net \in Free({SP, NL}) \ {<<>>} /\ o.addr \in Word /\ o.ip \in Value
      /\ o = [user |-> o.user, id |-> o.id, version |-> o.version,
              net |-> o.net, addr |-> o.addr, ip |-> o.ip]
    BY ValueParts DEF OriginType
<1>2. o.id \in Digits(64) /\ o.version \in Digits(64)
    BY <1>1, ValueParts DEF Digits
<1>3. ConnectionText(o) \in Value
    <2>1. /\ <<SP>> \in Value /\ <<o.addr>> \in Value /\ o.net \in Value
        <3>1. o.addr \in Words \ {NL} /\ o.net \in Free({SP, NL})
            BY <1>1 DEF Word, Delimiters
        <3> QED
            BY <3>1, SpaceValue, ValueParts
    <2>2. <<SP, o.addr, SP>> \in Value
        <3>1. (<<SP>> \o <<o.addr>>) \o <<SP>> \in Value
            BY <2>1, ValueParts
        <3>2. (<<SP>> \o <<o.addr>>) \o <<SP>> = <<SP, o.addr, SP>>
            <4>1. SP \in Words /\ o.addr \in Words
                BY <1>1, OwnWords DEF Word
            <4> QED
                BY <4>1, JoinThree
        <3> QED
            BY <3>1, <3>2
    <2>3. o.net \o <<SP, o.addr, SP>> \in Value
        BY <2>1, <2>2, ValueParts
    <2> QED
        BY <1>1, <2>3, ValueParts DEF ConnectionText
<1>4. /\ p \in Nat /\ at + Len(OriginText(o)) = p + 5 + Len(ConnectionText(o))
      /\ Stands(t, at, o.user) /\ Stands(t, p, <<SP>>) /\ Stands(t, p + 1, o.id)
      /\ Stands(t, p + 2, <<SP>>) /\ Stands(t, p + 3, o.version) /\ Stands(t, p + 4, <<SP>>)
      /\ Closed(t, p + 5, ConnectionText(o))
    BY <1>1, <1>2, <1>3, OriginPlaces
<1>5. user = Read(p, o.user)
    <2>1. o.user \in Tokens /\ \A k \in 1 .. Len(o.user) : o.user[k] \notin {SP, NL}
        BY <1>1, ValueParts
    <2> QED
        BY <1>4, <2>1, SpaceEnds
<1> HIDE DEF p, user
<1>6. /\ p + 2 + 1 = p + 3 /\ p + 2 + 2 = p + 4 /\ p + 4 + 1 = p + 5
    BY <1>4
<1>7. user.ok /\ user.at = p /\ user.val = o.user
    BY <1>5 DEF Read
<1>8. id = Read(p + 2, o.id)
    <2>1. o.id \in Tokens
        BY <1>2 DEF Digits
    <2>2. ScanNumber(t, SkipWs(t, p), 64) = Read(p + 2, o.id)
        BY <1>4, <2>1, SpacedNumber
    <2> QED
        BY <1>7, <2>2
<1> HIDE DEF id
<1>9. id.ok /\ id.at = p + 2 /\ id.val = o.id
    BY <1>8 DEF Read
<1>10. version = Read(p + 4, o.version)
    <2>1. o.version \in Tokens
        BY <1>2 DEF Digits
    <2>2. Stands(t, p + 2 + 1, o.version)
        BY <1>4, <1>6
    <2>3. ScanNumber(t, SkipWs(t, p + 2), 64) = Read(p + 2 + 2, o.version)
        BY <1>4, <2>1, <2>2, SpacedNumber
    <2> QED
        BY <1>6, <1>9, <2>3
<1> HIDE DEF version
<1>11. version.ok /\ version.at = p + 4 /\ version.val = o.version
    BY <1>10 DEF Read
<1>12. /\ net.val = o.net /\ addr.val = <<o.addr>>
       /\ ip = Read(p + 5 + Len(ConnectionText(o)), o.ip)
    <2> DEFINE q == p + 4
    <2>1. q + 1 = p + 5 /\ Stands(t, q, <<SP>>) /\ version.at = q
        BY <1>4, <1>6, <1>11
    <2>2. Closed(t, q + 1, ConnectionText(o))
        BY <1>4, <2>1
    <2> HIDE DEF q
    <2>3. /\ net.val = o.net /\ addr.val = <<o.addr>>
          /\ ip = Read(q + 1 + Len(ConnectionText(o)), o.ip)
        BY <1>1, <2>1, <2>2, OriginAddressRead
    <2> QED
        BY <2>1, <2>3
<1>13. ReadOrigin(t, at) =
           IF ~OneOf(addr.val, AddrTypes) THEN Error
           ELSE IpOf(ip, [user |-> user.val, id |-> id.val, version |-> version.val,
                          net |-> net.val, addr |-> addr.val[1], ip |-> ip.val])
    BY <1>7, <1>9, <1>11 DEF ReadOrigin, Then, user, id, version
<1> HIDE DEF net, addr, ip
<1>14. OneOf(addr.val, AddrTypes) /\ addr.val[1] = o.addr
    BY <1>12 DEF OneOf, AddressBack
<1>15. ip.val = o.ip /\ ip.at = p + 5 + Len(ConnectionText(o))
    BY <1>12 DEF Read
<1>16. ReadOrigin(t, at) = IpOf(ip, o)
    BY <1>1, <1>7, <1>9, <1>11, <1>12, <1>13, <1>14, <1>15
<1> QED
    BY <1>4, <1>15, <1>16 DEF IpOf, AddressBack

\* A number that has been written.
LEMMA Written ==
    ASSUME NEW v \in Value, NEW bits, OneOf(v, Fitting(bits))
    PROVE  v \in Digits(bits) /\ v \in Tokens /\ Len(v) = 1
BY ValueParts DEF Digits, OneOf

\* Two numbers with a space between.
Pair(u, v) == u \o <<SP>> \o v

\* Their places.
LEMMA PairPlaces ==
    ASSUME NEW t \in Tokens, NEW at, NEW u \in Value, NEW v \in Value, NEW bits,
           OneOf(u, Fitting(bits)), OneOf(v, Fitting(bits)), Stands(t, at, Pair(u, v))
    PROVE  /\ Pair(u, v) \in Value /\ Len(Pair(u, v)) = 3 /\ at \in Nat
           /\ Stands(t, at, u) /\ Stands(t, at + 1, <<SP>>) /\ Stands(t, at + 2, v)
<1> DEFINE w == u \o <<SP>>
<1>1. Len(u) = 1 /\ Len(v) = 1 /\ <<SP>> \in Value /\ Len(<<SP>>) = 1
    BY Written, SpaceValue
<1>2. w \in Value /\ Len(w) = Len(u) + Len(<<SP>>)
    BY <1>1, ValueJoin
<1>3. Len(w) = 2
    BY <1>1, <1>2
<1> HIDE DEF w
<1>4. w \o v \in Value /\ Len(w \o v) = Len(w) + Len(v)
    BY <1>2, ValueJoin
<1>5. Len(w \o v) = 3
    BY <1>1, <1>3, <1>4
<1>6. Pair(u, v) = w \o v
    BY DEF Pair, w
<1>7. Stands(t, at, w) /\ Stands(t, at + Len(w), v)
    BY <1>2, <1>6, Behind
<1>8. Stands(t, at, u) /\ Stands(t, at + Len(u), <<SP>>)
    BY <1>1, <1>7, Behind DEF w
<1>9. at \in Nat
    BY <1>8 DEF Stands
<1> QED
    BY <1>1, <1>3, <1>4, <1>5, <1>6, <1>7, <1>8, <1>9

\* And what is read of them.
LEMMA PairRead ==
    ASSUME NEW t \in Tokens, NEW at, NEW u \in Value, NEW v \in Value, NEW bits,
           OneOf(u, Fitting(bits)), OneOf(v, Fitting(bits)), Stands(t, at, Pair(u, v))
    PROVE  /\ ScanNumber(t, at, bits) = Read(at + 1, u)
           /\ MustRead(t, at + 1, SP) = Read(at + 2, <<>>)
           /\ ScanNumber(t, at + 2, bits) = Read(at + 3, v)
           /\ ScanNumber(t, SkipWs(t, at + 1), bits) = Read(at + 3, v)
<1>1. /\ at \in Nat
      /\ Stands(t, at, u) /\ Stands(t, at + 1, <<SP>>) /\ Stands(t, at + 2, v)
    BY PairPlaces
<1>2. at + 1 + 1 = at + 2 /\ at + 2 + 1 = at + 3 /\ at + 1 + 2 = at + 3
    BY <1>1
<1>3. u \in Tokens /\ v \in Tokens
    BY Written
<1>4. ScanNumber(t, at, bits) = Read(at + 1, u)
    BY <1>1, <1>3, NumberStands
<1>5. ScanNumber(t, at + 2, bits) = Read(at + 3, v)
    BY <1>1, <1>2, <1>3, NumberStands
<1>6. MustRead(t, at + 1, SP) = Read(at + 2, <<>>)
    <2>1. At(t, at + 1) = SP
        BY <1>1, StandsToken
    <2> QED
        BY <1>2, <2>1 DEF MustRead
<1>7. ScanNumber(t, SkipWs(t, at + 1), bits) = Read(at + 3, v)
    <2> DEFINE p == at + 1
    <2>1. Stands(t, p, <<SP>>) /\ Stands(t, p + 1, v) /\ p + 2 = at + 3
        BY <1>1, <1>2
    <2> HIDE DEF p
    <2>2. ScanNumber(t, SkipWs(t, p), bits) = Read(p + 2, v)
        BY <1>3, <2>1, SpacedNumber
    <2> QED
        BY <2>1, <2>2 DEF p
<1> QED
    BY <1>4, <1>5, <1>6, <1>7

\* A time is read as it was meant, but for its repetitions.
LEMMA TimeRead ==
    ASSUME NEW t \in Tokens, NEW at, NEW u \in Value, NEW v \in Value,
           OneOf(u, Fitting(64)), OneOf(v, Fitting(64)), Stands(t, at, Pair(u, v))
    PROVE  ReadTime(t, at) = Read(at + Len(Pair(u, v)), [start |-> u, stop |-> v, repeats |-> <<>>])
<1>1. /\ ScanNumber(t, at, 64) = Read(at + 1, u)
      /\ MustRead(t, at + 1, SP) = Read(at + 2, <<>>)
      /\ ScanNumber(t, at + 2, 64) = Read(at + 3, v)
    BY PairRead
<1>2. Len(Pair(u, v)) = 3
    BY PairPlaces
<1> DEFINE start == ScanNumber(t, at, 64)
           ws == MustRead(t, at + 1, SP)
           stop == ScanNumber(t, at + 2, 64)
<1>3. start.ok /\ start.at = at + 1 /\ start.val = u
    BY <1>1 DEF Read
<1>4. ws.ok /\ ws.at = at + 2
    BY <1>1 DEF Read
<1>5. stop.ok /\ stop.at = at + 3 /\ stop.val = v
    BY <1>1 DEF Read
<1>6. ReadTime(t, at) = Read(stop.at, [start |-> start.val, stop |-> stop.val, repeats |-> <<>>])
    BY <1>3, <1>4, <1>5 DEF ReadTime, Then
<1> HIDE DEF start, stop
<1> QED
    BY <1>2, <1>3, <1>5, <1>6

\* A repetition is read as it was meant.
LEMMA RepeatRead ==
    ASSUME NEW t \in Tokens, NEW at, NEW r \in RepeatType, RepeatBack(r), Closed(t, at, RepeatText(r))
    PROVE  /\ RepeatText(r) \in Value
           /\ ReadRepeat(t, at) = Read(at + Len(RepeatText(r)), r)
<1> DEFINE w == Pair(r.interval, r.duration)
           s == Spaced(r.offsets)
<1>1. /\ r.interval \in Value /\ r.duration \in Value /\ r.offsets \in Seq(Value)
      /\ r = [interval |-> r.interval, duration |-> r.duration, offsets |-> r.offsets]
    BY DEF RepeatType
<1>2. OneOf(r.interval, Fitting(63)) /\ OneOf(r.duration, Fitting(63))
    BY DEF RepeatBack
<1>3. \A k \in DOMAIN r.offsets : OneOf(r.offsets[k], Fitting(63)) /\ r.offsets[k] \in Value
    <2>1. \A k \in DOMAIN r.offsets : r.offsets[k] \in ToSet(r.offsets)
        BY DEF ToSet
    <2> QED
        BY <1>1, <2>1 DEF RepeatBack
<1>4. RepeatText(r) = w \o s
    BY DEF RepeatText, Pair
<1>5. s \in Value
    BY <1>1, SpacedValue
<1>6. w \in Value
    <2>1. r.interval \o <<SP>> \in Value
        BY <1>1, SpaceValue, ValueJoin
    <2> QED
        BY <1>1, <2>1, ValueJoin DEF Pair
<1> HIDE DEF w, s
<1>7. /\ Stands(t, at, w) /\ Closed(t, at + Len(w), s) /\ at \in Nat
      /\ at + Len(w \o s) = at + Len(w) + Len(s)
    BY <1>4, <1>5, <1>6, ClosedParts
<1>8. Len(w) = 3
    <2>1. Stands(t, at, Pair(r.interval, r.duration))
        BY <1>7 DEF w
    <2>2. Len(Pair(r.interval, r.duration)) = 3
        <3> DEFINE u == r.interval
                   v == r.duration
        <3>1. u \in Value /\ v \in Value /\ OneOf(u, Fitting(63)) /\ OneOf(v, Fitting(63))
            BY <1>1, <1>2
        <3>2. Stands(t, at, Pair(u, v))
            BY <2>1
        <3> HIDE DEF u, v
        <3>3. Len(Pair(u, v)) = 3
            BY <3>1, <3>2, PairPlaces
        <3> QED
            BY <3>3 DEF u, v
    <2> QED
        BY <2>2 DEF w
<1>9. /\ ScanNumber(t, at, 63) = Read(at + 1, r.interval)
      /\ ScanNumber(t, SkipWs(t, at + 1), 63) = Read(at + 3, r.duration)
    BY <1>1, <1>2, <1>7, PairRead DEF w
<1>10. ReadList(t, at + 3, Number(t)) = Read(at + 3 + Len(s), r.offsets)
    <2>1. ASSUME NEW q \in Nat, NEW k \in DOMAIN r.offsets, Stands(t, q, r.offsets[k])
          PROVE  Number(t)[q] = Read(q + Len(r.offsets[k]), r.offsets[k])
        <3>1. Number(t)[q] = ScanNumber(t, q, 63)
            BY DEF Number
        <3>2. r.offsets[k] \in Tokens /\ OneOf(r.offsets[k], Fitting(63))
            BY <1>3, Written
        <3>3. ScanNumber(t, q, 63) = Read(q + 1, r.offsets[k]) /\ q + 1 = q + Len(r.offsets[k])
            BY <2>1, <3>2, NumberStands
        <3> QED
            BY <3>1, <3>3
    <2>2. Closed(t, at + 3, Spaced(r.offsets))
        BY <1>7, <1>8 DEF s
    <2>3. ReadList(t, at + 3, Number(t)) = Read(at + 3 + Len(Spaced(r.offsets)), r.offsets)
        BY <1>1, <2>1, <2>2, ReadersForward, SpacedRead
    <2> QED
        BY <2>3 DEF s
<1>11. at + Len(RepeatText(r)) = at + 3 + Len(s)
    BY <1>4, <1>7, <1>8
<1>12. ReadRepeat(t, at) = Read(at + 3 + Len(s), r)
    <2> DEFINE list == ReadList(t, at + 3, Number(t))
    <2>1. list.ok /\ list.at = at + 3 + Len(s) /\ list.val = r.offsets
        BY <1>10 DEF Read
    <2> DEFINE interval == ScanNumber(t, at, 63)
               duration == ScanNumber(t, SkipWs(t, at + 1), 63)
    <2>2. interval.ok /\ interval.at = at + 1 /\ interval.val = r.interval
        BY <1>9 DEF Read
    <2>3. duration.ok /\ duration.at = at + 3 /\ duration.val = r.duration
        BY <1>9 DEF Read
    <2>4. ReadRepeat(t, at) =
              Read(list.at, [interval |-> interval.val, duration |-> duration.val,
                             offsets |-> list.val])
        BY <2>1, <2>2, <2>3 DEF ReadRepeat, Then, Number
    <2> HIDE DEF list, interval, duration
    <2> QED
        BY <1>1, <2>1, <2>2, <2>3, <2>4
<1>13. RepeatText(r) \in Value
    BY <1>4, <1>5, <1>6, ValueJoin
<1> QED
    BY <1>11, <1>12, <1>13

\* An optional value.
LEMMA OptionallyParts ==
    ASSUME NEW S, NEW value \in Optionally(S)
    PROVE  value = <<>> \/ (value = <<value[1]>> /\ value[1] \in S)
<1>1. value \in Seq(S) /\ Len(value) \in {0, 1}
    <2>1. value \in Seq(S) /\ Len(value) <= 1
        BY DEF Optionally
    <2> DEFINE n == Len(value)
    <2>2. n \in Nat /\ n <= 1
        BY <2>1
    <2> HIDE DEF n
    <2>3. n \in {0, 1}
        BY <2>2
    <2> QED
        BY <2>1, <2>3 DEF n
<1>2. CASE Len(value) = 0
    BY <1>1, <1>2
<1>3. CASE Len(value) = 1
    BY <1>1, <1>3
<1> QED
    BY <1>1, <1>2, <1>3

\* A token is read up to the newline.
LEMMA TokenRead ==
    ASSUME NEW t \in Tokens, NEW at, NEW v \in Free(Delimiters), Stands(t, at, v),
           at + Len(v) \in 1 .. Len(t), t[at + Len(v)] \in Delimiters
    PROVE  ReadToken(t, at) = Read(at + Len(v), v)
<1>1. v \in Tokens /\ \A k \in 1 .. Len(v) : v[k] \notin Delimiters
    BY ValueParts
<1>2. at + Len(v) <= Len(t)
    BY DEF Tokens
<1> QED
    BY <1>1, <1>2, ScanStops DEF ReadToken

\* An attribute is read as it was meant.
LEMMA AttributeRead ==
    ASSUME NEW t \in Tokens, NEW at, NEW a \in AttributeType,
           Closed(t, at, a.name \o Opt(<<":">>, a.value))
    PROVE  LET text == a.name \o Opt(<<":">>, a.value)
           IN text \in Value /\ ReadAttribute(t, at) = Read(at + Len(text), a)
<1> DEFINE text == a.name \o Opt(<<":">>, a.value)
           p == at + Len(a.name)
           name == ReadToken(t, at)
           value == ReadLine(t, name.at + 1)
<1>1. /\ a.name \in Free(Delimiters) /\ a.value \in Optionally(Value) /\ a.name \in Value
      /\ a = [name |-> a.name, value |-> a.value]
    BY ValueParts DEF AttributeType
<1>2. CASE a.value = <<>>
    <2>1. text = a.name
        <3>1. a.name \in Tokens /\ Opt(<<":">>, a.value) = <<>>
            BY <1>1, <1>2, ValueParts DEF Opt
        <3> QED
            BY <3>1, ConcatEmptySeq DEF Tokens
    <2>2. Stands(t, at, a.name) /\ p \in 1 .. Len(t) /\ t[p] = NL /\ At(t, p) = NL
        BY <2>1 DEF Closed
    <2>3. name = Read(p, a.name)
        BY <1>1, <2>2, TokenRead DEF Delimiters
    <2>4. name.at = p /\ name.val = a.name
        BY <2>3 DEF Read
    <2>5. ReadAttribute(t, at) =
              IF At(t, name.at) = ":" THEN Read(value.at, [name |-> name.val, value |-> <<value.val>>])
              ELSE Read(name.at, [name |-> name.val, value |-> <<>>])
        BY DEF ReadAttribute
    <2> HIDE DEF p, name, value
    <2>6. ReadAttribute(t, at) = Read(p, a)
        BY <1>1, <1>2, <2>2, <2>4, <2>5 DEF NL
    <2> QED
        BY <1>1, <2>1, <2>6 DEF p
<1>3. CASE a.value # <<>>
    <2> DEFINE v == a.value[1]
    <2>1. a.value = <<v>> /\ v \in Value
        BY <1>1, <1>3, OptionallyParts
    <2>2. <<":">> \in Value /\ Len(<<":">>) = 1 /\ <<":">> \in Tokens
        BY OwnWords, ValueParts DEF NL
    <2>3. text = a.name \o (<<":">> \o v)
        BY <1>3 DEF Opt
    <2> HIDE DEF v
    <2> DEFINE w == <<":">> \o v
    <2>4. w \in Value /\ Len(w) = 1 + Len(v) /\ Len(v) \in Nat
        <3>1. w \in Value /\ Len(w) = Len(<<":">>) + Len(v) /\ Len(v) \in Nat
            BY <2>1, <2>2, ValueJoin
        <3> QED
            BY <2>2, <3>1
    <2> HIDE DEF w
    <2>5. /\ Stands(t, at, a.name) /\ Closed(t, p, w) /\ at \in Nat /\ Len(a.name) \in Nat
          /\ at + Len(text) = p + Len(w)
        <3>1. Closed(t, at, a.name \o w)
            BY <2>3 DEF w
        <3>2. text = a.name \o w
            BY <2>3 DEF w
        <3> HIDE DEF text
        <3> QED
            BY <1>1, <2>4, <3>1, <3>2, ClosedParts
    <2>6. Stands(t, p, <<":">>) /\ Closed(t, p + 1, v) /\ p + Len(w) = p + 1 + Len(v)
        <3> HIDE DEF p
        <3>1. /\ Stands(t, p, <<":">>) /\ Closed(t, p + Len(<<":">>), v)
              /\ p + Len(<<":">> \o v) = p + Len(<<":">>) + Len(v)
            <4>1. Closed(t, p, <<":">> \o v)
                BY <2>5 DEF w
            <4> QED
                <5> DEFINE colon == <<":">>
                <5>1. colon \in Value /\ v \in Value /\ Closed(t, p, colon \o v)
                    BY <2>1, <2>2, <4>1
                <5> HIDE DEF colon
                <5>2. /\ Stands(t, p, colon) /\ Closed(t, p + Len(colon), v)
                      /\ p + Len(colon \o v) = p + Len(colon) + Len(v)
                    BY <5>1, ClosedParts
                <5> QED
                    BY <5>2 DEF colon
        <3> QED
            BY <2>2, <3>1 DEF w
    <2>7. p \in 1 .. Len(t) /\ t[p] = ":" /\ At(t, p) = ":"
        BY <2>6, StandsToken
    <2>8. name = Read(p, a.name)
        BY <1>1, <2>5, <2>7, TokenRead DEF Delimiters
    <2>9. name.at = p /\ name.val = a.name
        BY <2>8 DEF Read
    <2>10. value = Read(p + 1 + Len(v), v)
        BY <2>1, <2>6, <2>9, LineValueRead
    <2>11. value.at = p + 1 + Len(v) /\ value.val = v
        BY <2>10 DEF Read
    <2>12. ReadAttribute(t, at) =
              IF At(t, name.at) = ":" THEN Read(value.at, [name |-> name.val, value |-> <<value.val>>])
              ELSE Read(name.at, [name |-> name.val, value |-> <<>>])
        BY DEF ReadAttribute
    <2>13. text \in Value
        BY <1>1, <2>3, <2>4, ValueJoin DEF w
    <2> HIDE DEF text, p, name, value
    <2>14. ReadAttribute(t, at) = Read(at + Len(text), a)
        BY <1>1, <2>1, <2>5, <2>6, <2>7, <2>9, <2>11, <2>12
    <2> QED
        BY <2>13, <2>14 DEF text
<1> QED
    BY <1>2, <1>3

\* Two tokens joined.
LEMMA JoinTwo ==
    ASSUME NEW S, NEW x \in S, NEW y \in S
    PROVE  <<x>> \o <<y>> = <<x, y>>
<1> DEFINE u == <<x>>
           v == <<y>>
           b == <<x, y>>
<1>1. /\ u \in Seq(S) /\ v \in Seq(S) /\ Len(u) = 1 /\ Len(v) = 1 /\ u[1] = x /\ v[1] = y
    OBVIOUS
<1>2. b \in Seq(S) /\ Len(b) = 2 /\ b[1] = x /\ b[2] = y
    OBVIOUS
<1> HIDE DEF u, v, b
<1>3. /\ u \o v \in Seq(S) /\ Len(u \o v) = Len(u) + Len(v)
      /\ \A i \in 1 .. Len(u) + Len(v) : (u \o v)[i] = IF i <= Len(u) THEN u[i] ELSE v[i - Len(u)]
    BY <1>1, ConcatProperties
<1>4. Len(u) + Len(v) = 2 /\ 2 - Len(u) = 1
    BY <1>1
<1>5. (u \o v)[1] = x /\ (u \o v)[2] = y
    BY <1>1, <1>3, <1>4
<1>6. \A k \in 1 .. 2 : (u \o v)[k] = b[k]
    <2> DEFINE c == u \o v
    <2>1. c[1] = x /\ c[2] = y
        BY <1>5
    <2> HIDE DEF c
    <2>2. \A k \in 1 .. 2 : c[k] = b[k]
        BY <1>2, <2>1
    <2> QED
        BY <2>2 DEF c
<1>7. u \o v = b
    BY <1>2, <1>3, <1>4, <1>6, SeqEqual
<1> QED
    BY <1>7 DEF u, v, b

\* Nothing is added by a value that is not there.
LEMMA JoinNothing == ASSUME NEW v \in Value PROVE v \o <<>> = v
BY ConcatEmptySeq DEF Value, Free

\* Two tokens are a value.
LEMMA TwoTokens ==
    ASSUME NEW x \in Words \ {NL}, NEW y \in Words \ {NL}
    PROVE  /\ <<x, y>> = <<x>> \o <<y>> /\ <<x, y>> \in Value /\ Len(<<x, y>>) = 2
           /\ <<x>> \in Value /\ <<y>> \in Value /\ Len(<<x>>) = 1 /\ Len(<<y>>) = 1
<1>1. <<x, y>> = <<x>> \o <<y>>
    <2>1. x \in Words /\ y \in Words
        OBVIOUS
    <2> QED
        BY <2>1, JoinTwo
<1>2. <<x>> \in Value /\ <<y>> \in Value /\ Len(<<x>>) = 1 /\ Len(<<y>>) = 1
    BY ValueParts
<1>3. <<x>> \o <<y>> \in Value
    BY <1>2, ValueJoin
<1> QED
    BY <1>1, <1>2, <1>3

\* A description of a media is a value.
LEMMA MediaTextValue ==
    ASSUME NEW m \in MediaType
    PROVE  MediaText(m) \in Value
<1> DEFINE w1 == <<m.type, SP>> \o m.port
           ports == Opt(<<"/">>, m.ports)
           w2 == w1 \o ports
           w3 == w2 \o <<SP>>
           w4 == w3 \o m.proto
<1>1. /\ m.type \in Word /\ m.port \in Value /\ m.ports \in Optionally(Value)
      /\ m.proto \in Free({SP, NL}) /\ m.formats \in Seq(Free(Delimiters))
    BY DEF MediaType
<1>2. {m.type, SP, "/"} \subseteq Words \ {NL}
    BY <1>1, OwnWords DEF Word, Delimiters, SP, NL
<1>3. <<m.type, SP>> \in Value /\ <<SP>> \in Value /\ <<"/">> \in Value /\ m.proto \in Value
    BY <1>1, <1>2, TwoTokens, ValueParts
<1>4. ports \in Value
    <2>1. CASE m.ports = <<>>
        BY <2>1, ValueParts DEF Opt
    <2>2. CASE m.ports # <<>>
        <3>1. m.ports[1] \in Value
            BY <1>1, <2>2, OptionallyParts
        <3> QED
            BY <1>3, <2>2, <3>1, ValueJoin DEF Opt
    <2> QED
        BY <2>1, <2>2
<1> HIDE DEF ports
<1>5. w1 \in Value
    BY <1>1, <1>3, ValueJoin
<1>6. w2 \in Value
    BY <1>4, <1>5, ValueJoin
<1>7. w3 \in Value
    BY <1>3, <1>6, ValueJoin
<1>8. w4 \in Value
    BY <1>3, <1>7, ValueJoin
<1>9. Spaced(m.formats) \in Value
    <2>1. m.formats \in Seq(Value)
        BY <1>1, ValueParts
    <2> QED
        BY <2>1, SpacedValue
<1>10. MediaText(m) = w4 \o Spaced(m.formats)
    BY DEF MediaText, ports
<1> QED
    BY <1>8, <1>9, <1>10, ValueJoin

\* The places of a media with one port.
LEMMA MediaPlaces ==
    ASSUME NEW t \in Tokens, NEW at, NEW m \in MediaType, m.ports = <<>>, OneOf(m.port, Fitting(16)),
           Closed(t, at, MediaText(m))
    PROVE  LET end == at + 4 + Len(m.proto)
           IN /\ at \in Nat /\ Len(m.proto) \in Nat
              /\ at + Len(MediaText(m)) = end + Len(Spaced(m.formats))
              /\ Stands(t, at, <<m.type>>) /\ Stands(t, at + 1, <<SP>>) /\ Stands(t, at + 2, m.port)
              /\ Stands(t, at + 3, <<SP>>) /\ Stands(t, at + 4, m.proto)
              /\ Closed(t, end, Spaced(m.formats))
<1> DEFINE n == Len(m.proto)
           w1 == <<m.type, SP>> \o m.port
           w2 == w1 \o <<SP>>
           w3 == w2 \o m.proto
           s == Spaced(m.formats)
<1>1. /\ m.type \in Word /\ m.port \in Value /\ m.proto \in Free({SP, NL})
      /\ m.formats \in Seq(Free(Delimiters))
    BY DEF MediaType
<1>2. {m.type, SP} \subseteq Words \ {NL}
    BY <1>1, OwnWords DEF Word, Delimiters, SP, NL
<1>3. /\ <<m.type, SP>> = <<m.type>> \o <<SP>> /\ <<m.type, SP>> \in Value /\ Len(<<m.type, SP>>) = 2
      /\ <<m.type>> \in Value /\ <<SP>> \in Value /\ Len(<<m.type>>) = 1 /\ Len(<<SP>>) = 1
    BY <1>2, TwoTokens
<1>4. m.proto \in Value /\ n \in Nat
    BY <1>1, ValueParts
<1>5. Len(m.port) = 1
    BY <1>1, Written
<1>6. s \in Value
    <2>1. m.formats \in Seq(Value)
        BY <1>1, ValueParts
    <2> QED
        BY <2>1, SpacedValue
<1> HIDE DEF s
<1>7. w1 \in Value /\ Len(w1) = 3
    <2>1. w1 \in Value /\ Len(w1) = Len(<<m.type, SP>>) + Len(m.port)
        BY <1>1, <1>3, ValueJoin
    <2> QED
        BY <1>3, <1>5, <2>1
<1>8. MediaText(m) = w3 \o s
    <2>1. Opt(<<"/">>, m.ports) = <<>>
        BY DEF Opt
    <2>2. w1 \o <<>> = w1
        BY <1>7, JoinNothing
    <2> QED
        BY <2>1, <2>2 DEF MediaText, s
<1> HIDE DEF w1
<1>9. w2 \in Value /\ Len(w2) = 4
    <2>1. w2 \in Value /\ Len(w2) = Len(w1) + Len(<<SP>>)
        BY <1>3, <1>7, ValueJoin
    <2> QED
        BY <1>3, <1>7, <2>1
<1> HIDE DEF w2
<1>10. w3 \in Value /\ Len(w3) = 4 + n
    <2>1. w3 \in Value /\ Len(w3) = Len(w2) + n
        BY <1>4, <1>9, ValueJoin
    <2> QED
        BY <1>9, <2>1
<1> HIDE DEF w3, n
<1>11. /\ Stands(t, at, w3) /\ Closed(t, at + 4 + n, s) /\ at \in Nat
       /\ at + Len(MediaText(m)) = at + 4 + n + Len(s)
    <2>1. Closed(t, at, w3 \o s)
        BY <1>8
    <2>2. /\ Stands(t, at, w3) /\ Closed(t, at + Len(w3), s) /\ at \in Nat
          /\ at + Len(w3 \o s) = at + Len(w3) + Len(s)
        BY <1>6, <1>10, <2>1, ClosedParts
    <2>3. at + Len(w3) = at + 4 + n
        BY <1>4, <1>10, <2>2
    <2> QED
        BY <1>8, <2>2, <2>3
<1>12. Stands(t, at, w2) /\ Stands(t, at + 4, m.proto)
    BY <1>4, <1>9, <1>11, Behind DEF w3
<1>13. Stands(t, at, w1) /\ Stands(t, at + 3, <<SP>>)
    BY <1>3, <1>7, <1>12, Behind DEF w2
<1>14. Stands(t, at, <<m.type, SP>>) /\ Stands(t, at + 2, m.port)
    BY <1>1, <1>3, <1>13, Behind DEF w1
<1>15. Stands(t, at, <<m.type>>) /\ Stands(t, at + 1, <<SP>>)
    <2>1. Stands(t, at, <<m.type>> \o <<SP>>)
        BY <1>3, <1>14
    <2> QED
        BY <1>3, <2>1, Behind
<1> QED
    BY <1>4, <1>11, <1>12, <1>13, <1>14, <1>15 DEF s, n

\* What an "m=" line says.
Bare(m) ==
    [type |-> m.type, port |-> m.port, ports |-> <<>>, proto |-> m.proto, formats |-> m.formats,
     title |-> <<>>, conn |-> <<>>, bandwidth |-> <<>>, attributes |-> <<>>]

\* The type and the port of a media are found.
LEMMA MediaStart ==
    ASSUME NEW t \in Tokens, NEW at, NEW m \in MediaType, m.ports = <<>>, OneOf(m.port, Fitting(16)),
           Closed(t, at, MediaText(m))
    PROVE  LET type == ReadToken(t, at)
           IN /\ type = Read(at + 1, <<m.type>>)
              /\ ScanNumber(t, SkipWs(t, type.at), 16) = Read(at + 3, m.port)
              /\ SkipWs(t, at + 3) = at + 4
<1>1. /\ at \in Nat
      /\ Stands(t, at, <<m.type>>) /\ Stands(t, at + 1, <<SP>>) /\ Stands(t, at + 2, m.port)
      /\ Stands(t, at + 3, <<SP>>) /\ Stands(t, at + 4, m.proto)
    BY MediaPlaces
<1>2. m.type \in Word /\ m.port \in Value
    BY DEF MediaType
<1>3. <<m.type>> \in Free(Delimiters) /\ Len(<<m.type>>) = 1
    BY <1>2 DEF Word, Free
<1>4. ReadToken(t, at) = Read(at + 1, <<m.type>>)
    <2>1. at + 1 \in 1 .. Len(t) /\ t[at + 1] \in Delimiters
        BY <1>1, StandsToken DEF Delimiters
    <2> QED
        BY <1>1, <1>3, <2>1, TokenRead
<1>5. ScanNumber(t, SkipWs(t, at + 1), 16) = Read(at + 3, m.port)
    <2> DEFINE p == at + 1
    <2>1. Stands(t, p, <<SP>>) /\ Stands(t, p + 1, m.port) /\ p + 2 = at + 3
        <3>1. at + 1 + 1 = at + 2 /\ at + 1 + 2 = at + 3
            BY <1>1
        <3> QED
            BY <1>1, <3>1
    <2>2. m.port \in Tokens
        BY <1>2, Written
    <2> HIDE DEF p
    <2>3. ScanNumber(t, SkipWs(t, p), 16) = Read(p + 2, m.port)
        BY <2>1, <2>2, SpacedNumber
    <2> QED
        BY <2>1, <2>3 DEF p
<1>6. SkipWs(t, at + 3) = at + 4
    <2>1. at + 3 + 1 = at + 4
        BY <1>1
    <2>2. m.proto \in Free({SP, NL}) /\ m.proto # <<>>
        BY DEF MediaType
    <2>3. m.proto \in Tokens /\ m.proto[1] # SP
        <3>1. m.proto \in Seq(Words \ {SP, NL})
            BY <2>2 DEF Free
        <3>2. 1 \in 1 .. Len(m.proto) /\ m.proto[1] \in Words \ {SP, NL}
            BY <2>2, <3>1
        <3> QED
            BY <2>2, <3>2, ValueParts
    <2>4. Stands(t, at + 3 + 1, <<m.proto[1]>>)
        BY <1>1, <2>1, <2>2, <2>3, HeadStands
    <2> QED
        BY <1>1, <2>1, <2>3, <2>4, SpaceSkipped
<1>7. Read(at + 1, <<m.type>>).at = at + 1
    BY DEF Read
<1> QED
    BY <1>4, <1>5, <1>6, <1>7

\* No protocol this code knows contains a newline.
LEMMA TransportParts ==
    ASSUME NEW proto \in Transports \cup {<<"UDP">>}
    PROVE  \A k \in 1 .. Len(proto) : proto[k] # NL
<1>1. CASE proto \in {<<"udp">>, <<"UDP">>}
    BY <1>1 DEF NL
<1>2. CASE proto \in {<<"RTP", "/", profile>> : profile \in Profiles}
    <2>1. PICK profile \in Profiles : proto = <<"RTP", "/", profile>>
        BY <1>2
    <2>2. profile # NL
        BY DEF Profiles, NL
    <2> QED
        BY <2>1, <2>2 DEF NL
<1> QED
    BY <1>1, <1>2 DEF Transports

\* A media is read as it was meant, if it is of this code's kind.
LEMMA MediaRead ==
    ASSUME NEW t \in Tokens, NEW at, NEW m \in MediaType, m.ports = <<>>, OneOf(m.port, Fitting(16)),
           m.type \in MediaTypes, m.proto \in Transports, m.formats # <<>>,
           Closed(t, at, MediaText(m))
    PROVE  ReadMedia(t, at) = Read(at + Len(MediaText(m)), Bare(m))
<1> DEFINE type == ReadToken(t, at)
           port == ScanNumber(t, SkipWs(t, type.at), 16)
           proto == ScanUntil(t, SkipWs(t, port.at), {SP})
           formats == ReadList(t, proto.at, Token(t))
           s == Spaced(m.formats)
           end == at + 4 + Len(m.proto)
<1>1. /\ end \in Nat /\ at + Len(MediaText(m)) = end + Len(s)
      /\ Stands(t, at + 4, m.proto) /\ Closed(t, end, s)
    <2>1. /\ at \in Nat /\ Len(m.proto) \in Nat /\ at + Len(MediaText(m)) = end + Len(s)
          /\ Stands(t, at + 4, m.proto) /\ Closed(t, end, s)
        BY MediaPlaces
    <2>2. end \in Nat
        <3> DEFINE n == Len(m.proto)
        <3>1. at \in Nat /\ n \in Nat
            BY <2>1
        <3> HIDE DEF n
        <3>2. at + 4 + n \in Nat
            BY <3>1
        <3> QED
            BY <3>2 DEF n
    <2> HIDE DEF end, s
    <2> QED
        BY <2>1, <2>2
<1>2. m.proto \in Tokens /\ \A k \in 1 .. Len(m.proto) : m.proto[k] \notin {SP}
    <2>1. m.proto \in Free({SP, NL})
        BY DEF MediaType
    <2> QED
        BY <2>1, ValueParts
<1> HIDE DEF end
<1>3. type.ok /\ type.at = at + 1 /\ type.val = <<m.type>>
    <2>1. type = Read(at + 1, <<m.type>>)
        BY MediaStart
    <2> HIDE DEF type
    <2> QED
        BY <2>1 DEF Read
<1>4. port.ok /\ port.at = at + 3 /\ port.val = m.port
    <2>1. port = Read(at + 3, m.port)
        BY MediaStart
    <2> HIDE DEF port
    <2> QED
        BY <2>1 DEF Read
<1>5. SkipWs(t, port.at) = at + 4
    <2>1. SkipWs(t, at + 3) = at + 4
        BY MediaStart
    <2> HIDE DEF port
    <2> QED
        BY <1>4, <2>1
<1> HIDE DEF type, port
<1>6. m.formats \in Seq(Free(Delimiters)) /\ m.formats \in Seq(Value) /\ Len(m.formats) \in Nat \ {0}
    <2>1. m.formats \in Seq(Free(Delimiters))
        BY DEF MediaType
    <2> QED
        BY <2>1, ValueParts
<1>7. Stands(t, end, <<SP>>)
    <2> DEFINE ss == [k \in DOMAIN m.formats |-> <<SP>> \o m.formats[k]]
               n == Len(m.formats)
    <2>1. ss \in Seq(Value)
        BY <1>6, SpacedValue
    <2>2. Len(ss) = n /\ 1 \in 1 .. n /\ DOMAIN m.formats = 1 .. n
        BY <1>6
    <2>3. ss[1] = <<SP>> \o m.formats[1] /\ m.formats[1] \in Value
        BY <1>6, <2>2
    <2>4. \A v \in Value : v \in Tokens
        BY ValueParts
    <2>5. s = FlattenSeq(ss)
        BY DEF Spaced
    <2> HIDE DEF ss, n
    <2>6. ss \in Seq(Tokens)
        BY <2>1, <2>4
    <2>7. end \in Nat /\ Stands(t, end, FlattenSeq(ss))
        BY <1>1, <2>5 DEF Closed
    <2>8. PICK p : Standing(p, t, end, ss)
        BY <2>6, <2>7, FlattenStands
    <2>9. Stands(t, end, ss[1])
        BY <2>2, <2>8 DEF Standing
    <2> QED
        BY <2>3, <2>9, SpaceValue, Behind
<1>8. proto.ok /\ proto.at = end /\ proto.val = m.proto
    <2>1. ScanUntil(t, at + 4, {SP}) = Read(at + 4 + Len(m.proto), m.proto)
        BY <1>1, <1>2, <1>7, SpaceEnds DEF end
    <2>2. proto = Read(end, m.proto)
        BY <1>5, <2>1 DEF end
    <2> HIDE DEF proto
    <2> QED
        BY <2>2 DEF Read
<1> HIDE DEF proto
<1>9. formats = Read(end + Len(s), m.formats)
    <2>1. ASSUME NEW q \in Nat, NEW k \in DOMAIN m.formats, Stands(t, q, m.formats[k]),
                 q + Len(m.formats[k]) \in 1 .. Len(t), t[q + Len(m.formats[k])] \in {SP, NL}
          PROVE  Token(t)[q] = Read(q + Len(m.formats[k]), m.formats[k])
        <3>1. Token(t)[q] = ReadToken(t, q)
            BY DEF Token
        <3>2. m.formats[k] \in Free(Delimiters)
            BY <1>6
        <3>3. t[q + Len(m.formats[k])] \in Delimiters
            BY <2>1 DEF Delimiters
        <3> QED
            BY <2>1, <3>1, <3>2, <3>3, TokenRead
    <2>2. \A q \in Nat, k \in DOMAIN m.formats :
              /\ Stands(t, q, m.formats[k])
              /\ q + Len(m.formats[k]) \in 1 .. Len(t) /\ t[q + Len(m.formats[k])] \in {SP, NL}
              => Token(t)[q] = Read(q + Len(m.formats[k]), m.formats[k])
        BY <2>1
    <2>3. Closed(t, end, Spaced(m.formats))
        BY <1>1
    <2> DEFINE read == Token(t)
    <2>4. Forward(t, read, Tokens)
        BY ReadersForward
    <2>5. \A q \in Nat, k \in DOMAIN m.formats :
              /\ Stands(t, q, m.formats[k])
              /\ q + Len(m.formats[k]) \in 1 .. Len(t) /\ t[q + Len(m.formats[k])] \in {SP, NL}
              => read[q] = Read(q + Len(m.formats[k]), m.formats[k])
        BY <2>2
    <2> HIDE DEF read
    <2>6. ReadList(t, end, read) = Read(end + Len(Spaced(m.formats)), m.formats)
        <3> DEFINE values == m.formats
        <3>1. values \in Seq(Value) /\ Closed(t, end, Spaced(values))
            BY <1>6, <2>3
        <3>2. \A q \in Nat, k \in DOMAIN values :
                  /\ Stands(t, q, values[k])
                  /\ q + Len(values[k]) \in 1 .. Len(t) /\ t[q + Len(values[k])] \in {SP, NL}
                  => read[q] = Read(q + Len(values[k]), values[k])
            BY <2>5
        <3> HIDE DEF values
        <3>3. ReadList(t, end, read) = Read(end + Len(Spaced(values)), values)
            BY <2>4, <3>1, <3>2, SpacedRead
        <3> QED
            BY <3>3 DEF values
    <2>7. ReadList(t, end, Token(t)) = Read(end + Len(s), m.formats)
        BY <2>6 DEF read
    <2> QED
        BY <1>8, <2>7
<1>10. formats.ok /\ formats.at = end + Len(s) /\ formats.val = m.formats
    BY <1>9 DEF Read
<1>11. OneOf(type.val, MediaTypes) /\ type.val[1] = m.type
    BY <1>3 DEF OneOf
<1>12. proto.val \in Transports \cup {<<"UDP">>} /\ proto.val = m.proto
    BY <1>8
<1>13. m.proto # <<"UDP">>
    BY DEF Transports
<1>14. ReadMedia(t, at) =
           Read(formats.at,
                [type |-> type.val[1], port |-> port.val, ports |-> <<>>,
                 proto |-> IF proto.val = <<"UDP">> THEN <<"udp">> ELSE proto.val,
                 formats |-> formats.val, title |-> <<>>, conn |-> <<>>,
                 bandwidth |-> <<>>, attributes |-> <<>>])
    BY <1>4, <1>10, <1>11, <1>12 DEF ReadMedia, Then, Token, type, port, proto
<1> HIDE DEF formats, s
<1>15. ReadMedia(t, at) = Read(end + Len(s), Bare(m))
    BY <1>4, <1>10, <1>11, <1>12, <1>13, <1>14 DEF Bare
<1> QED
    BY <1>1, <1>15

\* A media of another kind, or without formats, is not read.
LEMMA MediaFails ==
    ASSUME NEW t \in Tokens, NEW at, NEW m \in MediaType, m.ports = <<>>, OneOf(m.port, Fitting(16)),
           m.proto \in Transports, m.type \notin MediaTypes \/ m.formats = <<>>,
           Closed(t, at, MediaText(m))
    PROVE  ReadMedia(t, at) = Error
<1> DEFINE type == ReadToken(t, at)
           port == ScanNumber(t, SkipWs(t, type.at), 16)
           proto == ScanUntil(t, SkipWs(t, port.at), {SP})
<1>1. type.ok /\ type.at = at + 1 /\ type.val = <<m.type>>
    <2>1. type = Read(at + 1, <<m.type>>)
        BY MediaStart
    <2> HIDE DEF type
    <2> QED
        BY <2>1 DEF Read
<1>2. port.ok /\ port.at = at + 3 /\ port.val = m.port
    <2>1. port = Read(at + 3, m.port)
        BY MediaStart
    <2> HIDE DEF port
    <2> QED
        BY <2>1 DEF Read
<1>3. CASE m.type \notin MediaTypes
    <2>1. ~OneOf(type.val, MediaTypes)
        BY <1>1, <1>3 DEF OneOf
    <2> HIDE DEF type
    <2> QED
        BY <2>1 DEF ReadMedia, type
<1>4. CASE m.formats = <<>>
    <2> DEFINE n == Len(m.proto)
               end == at + 4 + n
    <2>1. /\ at \in Nat /\ n \in Nat /\ Stands(t, at + 4, m.proto) /\ Closed(t, end, <<>>)
        <3>1. Spaced(m.formats) = <<>>
            BY <1>4 DEF Spaced, FlattenSeq
        <3> QED
            BY <3>1, MediaPlaces
    <2>2. \A k \in 1 .. n : t[at + 4 + k - 1] # SP
        <3>1. m.proto \in Free({SP, NL})
            BY DEF MediaType
        <3>2. \A k \in 1 .. Len(m.proto) : m.proto[k] # SP
            BY <3>1, ValueParts
        <3> QED
            BY <2>1, <3>2 DEF Stands
    <2>3. SkipWs(t, port.at) = at + 4
        <3>1. SkipWs(t, at + 3) = at + 4
            BY MediaStart
        <3> HIDE DEF port
        <3> QED
            BY <1>2, <3>1
    <2> HIDE DEF n
    <2>4. end \in 1 .. Len(t) /\ t[end] = NL /\ end \in Nat /\ Len(t) \in Nat
        <3>1. end + Len(<<>>) = end
            BY <2>1
        <3> QED
            BY <2>1, <3>1 DEF Closed, Tokens
    <2> DEFINE r == ScanUntil(t, at + 4, {SP})
    <2>5. /\ r.at \in at + 4 .. Len(t) + 1 /\ Len(r.val) = r.at - (at + 4)
          /\ r.val = SubSeq(t, at + 4, r.at - 1)
          /\ r.at <= Len(t) => t[r.at] = SP
        <3>1. at + 4 \in 1 .. Len(t) + 1
            BY <2>1, <2>4
        <3> QED
            BY <3>1, ScanRange
    <2> HIDE DEF r
    <2>6. r.at > end
        <3>1. SUFFICES ASSUME r.at <= end PROVE FALSE
            BY <2>4, <2>5
        <3>2. r.at <= Len(t) /\ t[r.at] = SP
            BY <2>4, <2>5, <3>1
        <3>3. CASE r.at = end
            BY <2>4, <3>2, <3>3 DEF SP, NL
        <3>4. CASE r.at < end
            <4> DEFINE k == r.at - (at + 4) + 1
            <4>1. k \in 1 .. n /\ at + 4 + k - 1 = r.at
                <5> DEFINE a == r.at
                <5>1. at \in Nat /\ n \in Nat /\ a \in Nat /\ a >= at + 4 /\ a < at + 4 + n
                    BY <2>1, <2>4, <2>5, <3>4
                <5> HIDE DEF a
                <5>2. a - (at + 4) + 1 \in 1 .. n /\ at + 4 + (a - (at + 4) + 1) - 1 = a
                    BY <5>1
                <5> QED
                    BY <5>2 DEF a
            <4> HIDE DEF k
            <4> QED
                BY <2>2, <3>2, <4>1
        <3> QED
            BY <2>4, <2>5, <3>1, <3>3, <3>4
    <2>7. n + 1 \in 1 .. Len(r.val) /\ r.val[n + 1] = NL
        <3>1. n + 1 \in 1 .. Len(r.val)
            BY <2>1, <2>4, <2>5, <2>6
        <3>2. SubSeq(t, at + 4, r.at - 1)[n + 1] = t[at + 4 + n]
            BY <2>1, <2>4, <2>5, <2>6 DEF Tokens
        <3> QED
            BY <2>4, <2>5, <3>1, <3>2
    <2>8. proto.val \notin Transports \cup {<<"UDP">>}
        BY <2>3, <2>7, TransportParts DEF r
    <2> QED
        BY <1>2, <2>8 DEF ReadMedia, Then
<1> QED
    BY <1>3, <1>4

-----------------------------------------------------------------------------
(* What lines do to what was read before them. *)

\* Wherever these lines stand, they take the parser from d to e.
Carries(t, lines, d, e) ==
    \A at \in Nat : Stands(t, at, lines) /\ Comes(t, at, d) => Comes(t, at + Len(lines), e)

\* Wherever these lines stand, the text is not read.
Fails(t, lines, d) ==
    \A at \in Nat : Stands(t, at, lines) /\ Comes(t, at, d) => ReadSdp(t) = Error

\* No lines, no change.
LEMMA NoLines == ASSUME NEW t, NEW d PROVE Carries(t, <<>>, d, d)
BY DEF Carries

\* Lines behind lines.
LEMMA MoreLines ==
    ASSUME NEW t \in Tokens, NEW u \in Tokens, NEW v \in Tokens, NEW d, NEW e, NEW f,
           Carries(t, u, d, e), Carries(t, v, e, f)
    PROVE  Carries(t, u \o v, d, f)
<1> SUFFICES ASSUME NEW at \in Nat, Stands(t, at, u \o v), Comes(t, at, d)
             PROVE  Comes(t, at + Len(u \o v), f)
    BY DEF Carries
<1>1. Len(u \o v) = Len(u) + Len(v) /\ Len(u) \in Nat /\ Len(v) \in Nat
    BY JoinedTokens
<1>2. Stands(t, at, u) /\ Stands(t, at + Len(u), v)
    BY StandsConcat
<1>3. at + Len(u) \in Nat /\ at + Len(u \o v) = at + Len(u) + Len(v)
    <2> DEFINE x == Len(u)
               y == Len(v)
               z == Len(u \o v)
    <2>1. z = x + y /\ x \in Nat /\ y \in Nat
        BY <1>1
    <2> HIDE DEF x, y, z
    <2>2. at + x \in Nat /\ at + z = at + x + y
        BY <2>1
    <2> QED
        BY <2>2 DEF x, y, z
<1>4. Comes(t, at + Len(u), e)
    BY <1>2 DEF Carries
<1> QED
    BY <1>2, <1>3, <1>4 DEF Carries

\* Lines that fail, and lines behind them.
LEMMA FailsBefore ==
    ASSUME NEW t \in Tokens, NEW u \in Tokens, NEW v \in Tokens, NEW d, Fails(t, u, d)
    PROVE  Fails(t, u \o v, d)
BY StandsConcat DEF Fails

\* Lines that fail also fail behind lines that can be read.
LEMMA FailsBehind ==
    ASSUME NEW t \in Tokens, NEW u \in Tokens, NEW v \in Tokens, NEW d, NEW e,
           Carries(t, u, d, e), Fails(t, v, e)
    PROVE  Fails(t, u \o v, d)
<1> SUFFICES ASSUME NEW at \in Nat, Stands(t, at, u \o v), Comes(t, at, d)
             PROVE  ReadSdp(t) = Error
    BY DEF Fails
<1>1. Len(u) \in Nat
    BY JoinedTokens
<1>2. Stands(t, at, u) /\ Stands(t, at + Len(u), v)
    BY StandsConcat
<1>3. at + Len(u) \in Nat /\ Comes(t, at + Len(u), e)
    BY <1>1, <1>2 DEF Carries
<1> QED
    BY <1>2, <1>3 DEF Fails

\* The lines of a list, up to the first that fails, if one does.
LEMMA ListCarries ==
    ASSUME NEW t \in Tokens, NEW ss \in Seq(Tokens), NEW es, NEW n \in 0 .. Len(ss),
           \A k \in 1 .. n : Carries(t, ss[k], es[k - 1], es[k])
    PROVE  /\ n = Len(ss) => Carries(t, FlattenSeq(ss), es[0], es[n])
           /\ n < Len(ss) /\ Fails(t, ss[n + 1], es[n]) => Fails(t, FlattenSeq(ss), es[0])
<1>1. Len(ss) \in Nat /\ n \in Nat
    OBVIOUS
<1>2. ASSUME NEW at \in Nat, Stands(t, at, FlattenSeq(ss)), Comes(t, at, es[0])
      PROVE  /\ n = Len(ss) => Comes(t, at + Len(FlattenSeq(ss)), es[n])
             /\ n < Len(ss) /\ Fails(t, ss[n + 1], es[n]) => ReadSdp(t) = Error
    <2>1. PICK p : Standing(p, t, at, ss)
        BY <1>2, FlattenStands
    <2>2. /\ p \in [0 .. Len(ss) -> Nat] /\ p[0] = at /\ p[Len(ss)] = at + Len(FlattenSeq(ss))
          /\ \A k \in 1 .. Len(ss) : Stands(t, p[k - 1], ss[k]) /\ p[k] = p[k - 1] + Len(ss[k])
        BY <2>1 DEF Standing
    <2> DEFINE T == {k \in 0 .. n : Comes(t, p[k], es[k])}
    <2>3. 0 \in T
        BY <1>1, <1>2, <2>2
    <2>4. ASSUME NEW k \in 0 .. n, k < n, k \in T PROVE k + 1 \in T
        <3>1. k + 1 \in 1 .. n /\ k + 1 \in 1 .. Len(ss) /\ k + 1 - 1 = k /\ k \in 0 .. Len(ss)
            BY <1>1, <2>4
        <3>2. Stands(t, p[k], ss[k + 1]) /\ p[k + 1] = p[k] + Len(ss[k + 1]) /\ p[k] \in Nat
            <4> DEFINE j == k + 1
            <4>1. j \in 1 .. Len(ss) /\ j - 1 = k
                BY <3>1
            <4> HIDE DEF j
            <4>2. Stands(t, p[j - 1], ss[j]) /\ p[j] = p[j - 1] + Len(ss[j])
                BY <2>2, <4>1
            <4>3. p[k] \in Nat
                BY <2>2, <3>1
            <4> QED
                BY <4>1, <4>2, <4>3 DEF j
        <3>3. Carries(t, ss[k + 1], es[k], es[k + 1])
            BY <3>1
        <3>4. Comes(t, p[k + 1], es[k + 1])
            BY <2>4, <3>2, <3>3 DEF Carries
        <3> QED
            BY <3>1, <3>4
    <2>5. Comes(t, p[n], es[n])
        <3>1. \A k \in 0 .. n : k \in T
            <4> HIDE DEF T
            <4> QED
                BY <1>1, <2>3, <2>4, InductionTo
        <3> QED
            BY <1>1, <3>1
    <2>6. n < Len(ss) => p[n] \in Nat /\ Stands(t, p[n], ss[n + 1])
        <3>1. SUFFICES ASSUME n < Len(ss) PROVE p[n] \in Nat /\ Stands(t, p[n], ss[n + 1])
            OBVIOUS
        <3>2. n + 1 \in 1 .. Len(ss) /\ n + 1 - 1 = n /\ n \in 0 .. Len(ss)
            BY <1>1, <3>1
        <3>3. Stands(t, p[n + 1 - 1], ss[n + 1])
            BY <2>2, <3>2
        <3> QED
            BY <2>2, <3>2, <3>3
    <2> QED
        BY <2>2, <2>5, <2>6 DEF Fails
<1> QED
    BY <1>2 DEF Carries, Fails

\* A line takes the parser on if its value is read as it was meant.
LEMMA LineCarries ==
    ASSUME NEW t \in TidyTexts, NEW letter \in Letters, NEW v \in Value, NEW d, NEW val,
           \A at : Closed(t, at, v) => ReadValue(letter, t, at) = Read(at + Len(v), val),
           letter = "r" => d.time # <<>>
    PROVE  Carries(t, Line(letter, v), d, Set(d, letter, val))
<1> SUFFICES ASSUME NEW at \in Nat, Stands(t, at, Line(letter, v)), Comes(t, at, d)
             PROVE  Comes(t, at + Len(Line(letter, v)), Set(d, letter, val))
    BY DEF Carries
<1>1. t \in Tokens /\ letter \in Words \ {NL}
    BY OwnWords DEF TidyTexts
<1>2. at \in 1 .. Len(t) /\ Closed(t, at + 2, v)
    BY <1>1, LineStands
<1> DEFINE end == at + 2 + Len(v)
<1>3. ReadValue(letter, t, at + 2) = Read(end, val)
    BY <1>2
<1> HIDE DEF end
<1>4. ReadField(t, at, d) = Read(end + 1, Set(d, letter, val))
    <2>1. end = at + 2 + Len(v)
        BY DEF end
    <2>2. end \in Nat
        BY <2>1, ValueTokens
    <2> QED
        BY <1>3, <2>1, <2>2, LineRead
<1>5. Len(Line(letter, v)) = Len(v) + 3 /\ Len(v) \in Nat
    BY <1>1, LineTidy, ValueTokens
<1>6. at + Len(Line(letter, v)) = end + 1 /\ end + 1 \in Nat /\ at + 2 <= end + 1
    <2> DEFINE x == Len(v)
               y == Len(Line(letter, v))
    <2>1. y = x + 3 /\ x \in Nat
        BY <1>5
    <2> HIDE DEF x, y
    <2>2. at + y = at + 2 + x + 1 /\ at + 2 + x + 1 \in Nat /\ at + 2 <= at + 2 + x + 1
        BY <2>1
    <2> QED
        BY <2>2 DEF x, y, end
<1> QED
    BY <1>1, <1>2, <1>4, <1>6, ComesNext

\* And the text is not read if its value is not.
LEMMA LineStops ==
    ASSUME NEW t \in TidyTexts, NEW letter \in Letters, NEW v \in Value, NEW d,
           \A at : Closed(t, at, v) => ReadValue(letter, t, at) = Error
    PROVE  Fails(t, Line(letter, v), d)
<1> SUFFICES ASSUME NEW at \in Nat, Stands(t, at, Line(letter, v)), Comes(t, at, d)
             PROVE  ReadSdp(t) = Error
    BY DEF Fails
<1>1. t \in Tokens /\ letter \in Words \ {NL}
    BY OwnWords DEF TidyTexts
<1>2. at \in 1 .. Len(t) /\ Closed(t, at + 2, v)
    BY <1>1, LineStands
<1>3. ReadField(t, at, d) = Error
    BY <1>2, LineFails
<1> QED
    BY <1>1, <1>2, <1>3, ComesToError

-----------------------------------------------------------------------------
(* The texts of descriptions. *)

\* Texts of whole lines, none of them empty.
Whole == {u \in TidyTexts : u # <<>> => u[Len(u)] = NL}

\* They can be joined.
LEMMA WholeConcat ==
    ASSUME NEW u \in Whole, NEW v \in Whole
    PROVE  u \o v \in Whole
<1>1. u \in TidyTexts /\ v \in TidyTexts /\ u \in Seq(Words) /\ v \in Seq(Words)
    BY DEF Whole, TidyTexts, Tokens
<1>2. u \o v \in TidyTexts
    BY <1>1, TidyConcat
<1>3. CASE v = <<>>
    BY <1>1, <1>3, ConcatEmptySeq
<1>4. CASE v # <<>>
    <2> DEFINE n == Len(v)
               m == Len(u)
    <2>1. n \in Nat /\ n > 0 /\ m \in Nat
        BY <1>1, <1>4
    <2>2. v[n] = NL
        BY <1>4 DEF Whole
    <2>3. Len(u \o v) = m + n /\ (u \o v)[m + n] = v[n]
        BY <1>1, <2>1
    <2> HIDE DEF m, n
    <2> QED
        BY <1>2, <2>2, <2>3 DEF Whole
<1> QED
    BY <1>3, <1>4

\* A text without lines.
LEMMA WholeNothing == <<>> \in Whole /\ Whole \in SUBSET Tokens /\ Whole \in SUBSET TidyTexts
BY DEF Whole, TidyTexts, Tokens

\* And so can those of a list.
LEMMA WholeLines ==
    ASSUME NEW ss \in Seq(Whole)
    PROVE  FlattenSeq(ss) \in Whole
<1>1. \A u \in Whole, v \in Whole : u \o v \in Whole
    BY WholeConcat
<1> QED
    BY <1>1, WholeNothing, FlattenClosed

\* A line is whole.
LEMMA WholeLine ==
    ASSUME NEW letter \in Letters, NEW v \in Value
    PROVE  Line(letter, v) \in Whole
<1> DEFINE w == <<letter, "=">> \o v
           n == Len(w)
<1>1. letter \in Words \ {NL} /\ v \in Seq(Words)
    BY OwnWords, ValueTokens DEF Tokens
<1>2. Line(letter, v) \in TidyTexts
    BY <1>1, LineTidy
<1>3. w \in Seq(Words) /\ <<NL>> \in Seq(Words) /\ Len(<<NL>>) = 1
    <2>1. letter \in Words /\ "=" \in Words /\ NL \in Words
        BY <1>1, OwnWords
    <2>2. <<letter, "=">> \in Seq(Words)
        BY <2>1
    <2> QED
        BY <1>1, <2>1, <2>2
<1> HIDE DEF w
<1>4. Len(w \o <<NL>>) = n + 1 /\ (w \o <<NL>>)[n + 1] = NL
    BY <1>3
<1>5. Line(letter, v) = w \o <<NL>>
    BY DEF Line, w
<1> QED
    BY <1>2, <1>4, <1>5 DEF Whole

\* The letters of the lines.
LEMMA TheLetters ==
    {"v", "o", "s", "i", "u", "e", "p", "c", "b", "t", "r", "z", "a", "m"} \subseteq Letters
BY DEF Letters

\* Optional lines are whole.
LEMMA WholeOptional ==
    ASSUME NEW letter \in Letters, NEW value \in Optionally(Value)
    PROVE  Optional(letter, value) \in Whole
<1>1. CASE value = <<>>
    BY <1>1, WholeNothing DEF Optional
<1>2. CASE value # <<>>
    BY <1>2, OptionallyParts, WholeLine DEF Optional
<1> QED
    BY <1>1, <1>2

\* An address is a value.
LEMMA ConnectionValue ==
    ASSUME NEW c, c.net \in Free({SP, NL}), c.addr \in Word, c.ip \in Value
    PROVE  ConnectionText(c) \in Value
<1>1. c.addr \in Words \ {NL} /\ c.addr \in Words /\ SP \in Words
    BY OwnWords DEF Word, Delimiters
<1>2. <<SP>> \in Value /\ <<c.addr>> \in Value /\ c.net \in Value
    BY <1>1, SpaceValue, ValueParts
<1>3. (<<SP>> \o <<c.addr>>) \o <<SP>> = <<SP, c.addr, SP>>
    BY <1>1, JoinThree
<1>4. <<SP>> \o <<c.addr>> \in Value
    BY <1>2, ValueJoin
<1>5. <<SP, c.addr, SP>> \in Value
    BY <1>2, <1>3, <1>4, ValueJoin
<1>6. c.net \o <<SP, c.addr, SP>> \in Value
    BY <1>2, <1>5, ValueJoin
<1> QED
    BY <1>6, ValueJoin DEF ConnectionText

\* The line for an address is whole.
LEMMA WholeConnection ==
    ASSUME NEW conn \in Optionally(ConnectionType)
    PROVE  ConnectionLine(conn) \in Whole
<1>1. CASE conn = <<>>
    BY <1>1, WholeNothing DEF ConnectionLine
<1>2. CASE conn # <<>>
    <2>1. conn[1] \in ConnectionType
        BY <1>2, OptionallyParts
    <2>2. conn[1].net \in Free({SP, NL}) /\ conn[1].addr \in Word /\ conn[1].ip \in Value
        BY <2>1 DEF ConnectionType
    <2>3. ConnectionText(conn[1]) \in Value
        BY <2>2, ConnectionValue
    <2> QED
        BY <1>2, <2>3, WholeLine, TheLetters DEF ConnectionLine
<1> QED
    BY <1>1, <1>2

\* The lines of a list, each of them whole.
LEMMA WholeList ==
    ASSUME NEW n \in Nat, NEW s, DOMAIN s = 1 .. n, NEW ss, ss = [k \in DOMAIN s |-> ss[k]],
           \A k \in 1 .. n : ss[k] \in Whole
    PROVE  ss \in Seq(Whole) /\ Len(ss) = n /\ FlattenSeq(ss) \in Whole
<1>1. ss \in [1 .. n -> Whole]
    OBVIOUS
<1>2. ss \in Seq(Whole) /\ Len(ss) = n
    BY <1>1, FunctionSeq
<1> QED
    BY <1>2, WholeLines

\* The lines for bandwidths, attributes and times are whole.
LEMMA WholeBandwidths ==
    ASSUME NEW bandwidth \in Seq(BandwidthType)
    PROVE  BandwidthLines(bandwidth) \in Whole
<1> DEFINE ss == [k \in DOMAIN bandwidth |-> BandwidthLine(bandwidth[k])]
<1>1. Len(bandwidth) \in Nat /\ DOMAIN bandwidth = 1 .. Len(bandwidth)
    OBVIOUS
<1>2. ASSUME NEW k \in 1 .. Len(bandwidth) PROVE ss[k] \in Whole
    <2>1. bandwidth[k].type \in Value /\ bandwidth[k].n \in Value
        <3>1. bandwidth[k] \in BandwidthType
            BY <1>1
        <3> QED
            BY <3>1 DEF BandwidthType
    <2>2. <<":">> \in Value
        BY OwnWords, ValueParts DEF NL
    <2>3. bandwidth[k].type \o <<":">> \in Value
        BY <2>1, <2>2, ValueJoin
    <2>4. bandwidth[k].type \o <<":">> \o bandwidth[k].n \in Value
        BY <2>1, <2>3, ValueJoin
    <2> QED
        BY <1>1, <2>4, WholeLine, TheLetters DEF BandwidthLine
<1>3. ss = [k \in DOMAIN bandwidth |-> ss[k]]
    OBVIOUS
<1> HIDE DEF ss
<1>4. FlattenSeq(ss) \in Whole
    BY <1>1, <1>2, <1>3, WholeList
<1> QED
    BY <1>4 DEF BandwidthLines, Lines, ss

\* An attribute is a value, its line a whole text.
LEMMA AttributeValue ==
    ASSUME NEW a \in AttributeType
    PROVE  a.name \o Opt(<<":">>, a.value) \in Value
<1>1. a.name \in Value /\ a.value \in Optionally(Value)
    <2>1. a.name \in Free(Delimiters) /\ a.value \in Optionally(Value)
        BY DEF AttributeType
    <2> QED
        BY <2>1, ValueParts
<1>2. <<":">> \in Value
    BY OwnWords, ValueParts DEF NL
<1>3. Opt(<<":">>, a.value) \in Value
    <2>1. CASE a.value = <<>>
        BY <2>1, ValueParts DEF Opt
    <2>2. CASE a.value # <<>>
        <3>1. a.value[1] \in Value
            BY <1>1, <2>2, OptionallyParts
        <3> QED
            BY <1>2, <2>2, <3>1, ValueJoin DEF Opt
    <2> QED
        BY <2>1, <2>2
<1> QED
    BY <1>1, <1>3, ValueJoin

\* So are the lines of all attributes.
LEMMA WholeAttributes ==
    ASSUME NEW attributes \in Seq(AttributeType)
    PROVE  /\ AttributeLines(attributes) \in Whole
           /\ [k \in DOMAIN attributes |-> AttributeLine(attributes[k])] \in Seq(Whole)
           /\ Len([k \in DOMAIN attributes |-> AttributeLine(attributes[k])]) = Len(attributes)
<1> DEFINE ss == [k \in DOMAIN attributes |-> AttributeLine(attributes[k])]
<1>1. Len(attributes) \in Nat /\ DOMAIN attributes = 1 .. Len(attributes)
    OBVIOUS
<1>2. ASSUME NEW k \in 1 .. Len(attributes) PROVE ss[k] \in Whole
    <2> DEFINE a == attributes[k]
    <2>1. a \in AttributeType
        BY <1>1
    <2> HIDE DEF a
    <2>2. a.name \o Opt(<<":">>, a.value) \in Value
        BY <2>1, AttributeValue
    <2>3. AttributeLine(a) \in Whole
        BY <2>2, WholeLine, TheLetters DEF AttributeLine
    <2> QED
        BY <1>1, <2>3 DEF a
<1>3. ss = [k \in DOMAIN attributes |-> ss[k]]
    OBVIOUS
<1> HIDE DEF ss
<1>4. ss \in Seq(Whole) /\ Len(ss) = Len(attributes) /\ FlattenSeq(ss) \in Whole
    BY <1>1, <1>2, <1>3, WholeList
<1> QED
    BY <1>4 DEF AttributeLines, Lines, ss

\* A repetition and a pair are values.
LEMMA PairValue ==
    ASSUME NEW u \in Value, NEW v \in Value
    PROVE  Pair(u, v) \in Value
<1>1. u \o <<SP>> \in Value
    BY SpaceValue, ValueJoin
<1> QED
    BY <1>1, ValueJoin DEF Pair

\* The text of a repeat is a value.
LEMMA RepeatValue ==
    ASSUME NEW r \in RepeatType
    PROVE  RepeatText(r) \in Value
<1>1. r.interval \in Value /\ r.duration \in Value /\ r.offsets \in Seq(Value)
    BY DEF RepeatType
<1>2. Pair(r.interval, r.duration) \in Value /\ Spaced(r.offsets) \in Value
    BY <1>1, PairValue, SpacedValue
<1> QED
    BY <1>2, ValueJoin DEF RepeatText, Pair

\* The lines of repeats are whole.
LEMMA WholeRepeats ==
    ASSUME NEW repeats \in Seq(RepeatType)
    PROVE  Lines(repeats, RepeatLine) \in Whole
<1> DEFINE ss == [k \in DOMAIN repeats |-> RepeatLine(repeats[k])]
<1>1. Len(repeats) \in Nat /\ DOMAIN repeats = 1 .. Len(repeats)
    OBVIOUS
<1>2. ASSUME NEW k \in 1 .. Len(repeats) PROVE ss[k] \in Whole
    BY <1>1, RepeatValue, WholeLine, TheLetters DEF RepeatLine
<1>3. ss = [k \in DOMAIN repeats |-> ss[k]]
    OBVIOUS
<1> HIDE DEF ss
<1>4. FlattenSeq(ss) \in Whole
    BY <1>1, <1>2, <1>3, WholeList
<1> QED
    BY <1>4 DEF Lines, ss

\* The lines of a time are whole.
LEMMA WholeTime ==
    ASSUME NEW x \in TimeType
    PROVE  TimeLines(x) \in Whole
<1>1. x.start \in Value /\ x.stop \in Value /\ x.repeats \in Seq(RepeatType)
    BY DEF TimeType
<1>2. Line("t", Pair(x.start, x.stop)) \in Whole
    BY <1>1, PairValue, WholeLine, TheLetters
<1>3. Lines(x.repeats, RepeatLine) \in Whole
    BY <1>1, WholeRepeats
<1>4. TimeLines(x) = Line("t", Pair(x.start, x.stop)) \o Lines(x.repeats, RepeatLine)
    BY DEF TimeLines, Pair
<1> QED
    BY <1>2, <1>3, <1>4, WholeConcat

\* The lines of a media are whole.
LEMMA WholeMedia ==
    ASSUME NEW m \in MediaType
    PROVE  MediaLines(m, "i") \in Whole
<1>1. /\ m.title \in Optionally(Value) /\ m.conn \in Optionally(ConnectionType)
      /\ m.bandwidth \in Seq(BandwidthType) /\ m.attributes \in Seq(AttributeType)
    BY DEF MediaType
<1> DEFINE w1 == Line("m", MediaText(m))
           w2 == Optional("i", m.title)
           w3 == ConnectionLine(m.conn)
           w4 == BandwidthLines(m.bandwidth)
           w5 == AttributeLines(m.attributes)
<1>2. w1 \in Whole
    BY MediaTextValue, WholeLine, TheLetters
<1>3. w2 \in Whole
    BY <1>1, WholeOptional, TheLetters
<1>4. w3 \in Whole /\ w4 \in Whole /\ w5 \in Whole
    BY <1>1, WholeConnection, WholeBandwidths, WholeAttributes
<1>5. MediaLines(m, "i") = (((w1 \o w2) \o w3) \o w4) \o w5
    BY DEF MediaLines
<1> HIDE DEF w1, w2, w3, w4, w5
<1>6. w1 \o w2 \in Whole
    BY <1>2, <1>3, WholeConcat
<1>7. (w1 \o w2) \o w3 \in Whole
    BY <1>4, <1>6, WholeConcat
<1>8. ((w1 \o w2) \o w3) \o w4 \in Whole
    BY <1>4, <1>7, WholeConcat
<1> QED
    BY <1>4, <1>5, <1>8, WholeConcat

\* The lines before those for times, with none for a bandwidth.
HeadText(d) ==
    Line("v", <<"0">>) \o Line("o", OriginText(d.origin)) \o Line("s", d.name)
    \o Optional("i", d.info) \o Optional("u", d.uri) \o Optional("e", d.email)
    \o Optional("p", d.phone) \o ConnectionLine(d.conn)

TimesText(d) == Lines(d.time, TimeLines)
MediasText(d) == FlattenSeq([k \in DOMAIN d.media |-> MediaLines(d.media[k], "i")])

\* The parts of a description.
LEMMA SdpParts ==
    ASSUME NEW d \in SdpType
    PROVE  /\ d.origin \in OriginType /\ d.name \in Value
           /\ d.info \in Optionally(Value) /\ d.uri \in Optionally(Value)
           /\ d.email \in Optionally(Value) /\ d.phone \in Optionally(Value)
           /\ d.conn \in Optionally(ConnectionType) /\ d.bandwidth \in Seq(BandwidthType)
           /\ d.time \in Seq(TimeType) /\ d.zone \in Optionally(Value)
           /\ d.attributes \in Seq(AttributeType) /\ d.media \in Seq(MediaType)
BY DEF SdpType

\* An origin is a value.
LEMMA OriginValue ==
    ASSUME NEW o \in OriginType
    PROVE  OriginText(o) \in Value
<1>1. /\ o.user \in Free({SP, NL}) /\ o.id \in Value /\ o.version \in Value
      /\ o.net \in Free({SP, NL}) /\ o.addr \in Word /\ o.ip \in Value
    BY DEF OriginType
<1>2. ConnectionText(o) \in Value
    BY <1>1, ConnectionValue
<1>3. o.user \in Value /\ <<SP>> \in Value
    BY <1>1, ValueParts, SpaceValue
<1> DEFINE c == ConnectionText(o)
           w1 == o.user \o <<SP>>
           w2 == w1 \o o.id
           w3 == w2 \o <<SP>>
           w4 == w3 \o o.version
           w5 == w4 \o <<SP>>
<1>4. w2 \in Value
    BY <1>1, <1>3, ValueJoin
<1>5. w4 \in Value
    BY <1>1, <1>3, <1>4, ValueJoin
<1>6. w5 \in Value
    BY <1>3, <1>5, ValueJoin
<1>7. w5 \o c \in Value
    BY <1>2, <1>6, ValueJoin
<1> QED
    BY <1>7 DEF OriginText

\* The text of a description is whole.
LEMMA WholeHead ==
    ASSUME NEW d \in SdpType
    PROVE  HeadText(d) \in Whole
<1> DEFINE w1 == Line("v", <<"0">>)
           w2 == Line("o", OriginText(d.origin))
           w3 == Line("s", d.name)
           w4 == Optional("i", d.info)
           w5 == Optional("u", d.uri)
           w6 == Optional("e", d.email)
           w7 == Optional("p", d.phone)
           w8 == ConnectionLine(d.conn)
<1>1. w1 \in Whole /\ w2 \in Whole /\ w3 \in Whole
    <2>1. <<"0">> \in Value /\ OriginText(d.origin) \in Value /\ d.name \in Value
        <3>1. "0" \in Words \ {NL}
            BY OwnWords DEF NL
        <3> QED
            BY <3>1, ValueParts, SdpParts, OriginValue
    <2> QED
        BY <2>1, WholeLine, TheLetters
<1>2. w4 \in Whole /\ w5 \in Whole /\ w6 \in Whole /\ w7 \in Whole
    BY SdpParts, WholeOptional, TheLetters
<1>3. w8 \in Whole
    BY SdpParts, WholeConnection
<1>4. HeadText(d) = ((((((w1 \o w2) \o w3) \o w4) \o w5) \o w6) \o w7) \o w8
    BY DEF HeadText
<1> HIDE DEF w1, w2, w3, w4, w5, w6, w7, w8
<1>5. (w1 \o w2) \o w3 \in Whole
    BY <1>1, WholeConcat
<1>6. (((w1 \o w2) \o w3) \o w4) \o w5 \in Whole
    BY <1>2, <1>5, WholeConcat
<1>7. (((((w1 \o w2) \o w3) \o w4) \o w5) \o w6) \o w7 \in Whole
    BY <1>2, <1>6, WholeConcat
<1> QED
    BY <1>3, <1>4, <1>7, WholeConcat

\* The text of the times is the texts of each.
LEMMA WholeTimes ==
    ASSUME NEW d \in SdpType
    PROVE  /\ [k \in DOMAIN d.time |-> TimeLines(d.time[k])] \in Seq(Whole)
           /\ Len([k \in DOMAIN d.time |-> TimeLines(d.time[k])]) = Len(d.time)
           /\ TimesText(d) \in Whole
           /\ TimesText(d) = FlattenSeq([k \in DOMAIN d.time |-> TimeLines(d.time[k])])
<1> DEFINE s == d.time
           ss == [k \in DOMAIN s |-> TimeLines(s[k])]
<1>1. s \in Seq(TimeType)
    BY SdpParts
<1>2. Len(s) \in Nat /\ DOMAIN s = 1 .. Len(s)
    BY <1>1
<1>3. ASSUME NEW k \in 1 .. Len(s) PROVE ss[k] \in Whole
    <2>1. s[k] \in TimeType
        BY <1>1, <1>2
    <2> QED
        BY <1>2, <2>1, WholeTime
<1>4. ss = [k \in DOMAIN s |-> ss[k]]
    OBVIOUS
<1>5. FlattenSeq(ss) = TimesText(d)
    BY DEF TimesText, Lines
<1> HIDE DEF ss, s
<1>6. ss \in Seq(Whole) /\ Len(ss) = Len(s) /\ FlattenSeq(ss) \in Whole
    BY <1>2, <1>3, <1>4, WholeList
<1> QED
    BY <1>5, <1>6 DEF ss, s

\* The text of the medias is the texts of each.
LEMMA WholeMedias ==
    ASSUME NEW d \in SdpType
    PROVE  /\ [k \in DOMAIN d.media |-> MediaLines(d.media[k], "i")] \in Seq(Whole)
           /\ Len([k \in DOMAIN d.media |-> MediaLines(d.media[k], "i")]) = Len(d.media)
           /\ MediasText(d) \in Whole
<1> DEFINE s == d.media
           ss == [k \in DOMAIN s |-> MediaLines(s[k], "i")]
<1>1. s \in Seq(MediaType)
    BY SdpParts
<1>2. Len(s) \in Nat /\ DOMAIN s = 1 .. Len(s)
    BY <1>1
<1>3. ASSUME NEW k \in 1 .. Len(s) PROVE ss[k] \in Whole
    <2>1. s[k] \in MediaType
        BY <1>1, <1>2
    <2> QED
        BY <1>2, <2>1, WholeMedia
<1>4. ss = [k \in DOMAIN s |-> ss[k]]
    OBVIOUS
<1>5. FlattenSeq(ss) = MediasText(d)
    BY DEF MediasText
<1> HIDE DEF ss, s
<1>6. ss \in Seq(Whole) /\ Len(ss) = Len(s) /\ FlattenSeq(ss) \in Whole
    BY <1>2, <1>3, <1>4, WholeList
<1> QED
    BY <1>5, <1>6 DEF ss, s

\* The text in its parts.
LEMMA TextParts ==
    ASSUME NEW d \in SdpType
    PROVE  LET head == HeadText(d)
               bandwidth == BandwidthLines(d.bandwidth)
               times == TimesText(d)
               zone == Optional("z", d.zone)
               attributes == AttributeLines(d.attributes)
               medias == MediasText(d)
           IN /\ SdpTextOf(d, "i") = ((((head \o bandwidth) \o times) \o zone) \o attributes) \o medias
              /\ SdpTextOf(d, "i") \in Whole
              /\ {head, bandwidth, times, zone, attributes, medias} \subseteq Whole
<1> DEFINE head == HeadText(d)
           bandwidth == BandwidthLines(d.bandwidth)
           times == TimesText(d)
           zone == Optional("z", d.zone)
           attributes == AttributeLines(d.attributes)
           medias == MediasText(d)
<1>1. head \in Whole /\ times \in Whole /\ medias \in Whole
    BY WholeHead, WholeTimes, WholeMedias
<1>2. bandwidth \in Whole /\ zone \in Whole /\ attributes \in Whole
    BY SdpParts, WholeBandwidths, WholeAttributes, WholeOptional, TheLetters
<1>3. SdpTextOf(d, "i") = ((((head \o bandwidth) \o times) \o zone) \o attributes) \o medias
    BY DEF SdpTextOf, HeadText, TimesText, MediasText, Lines
<1> HIDE DEF head, bandwidth, times, zone, attributes, medias
<1>4. (head \o bandwidth) \o times \in Whole
    BY <1>1, <1>2, WholeConcat
<1>5. (((head \o bandwidth) \o times) \o zone) \o attributes \in Whole
    BY <1>2, <1>4, WholeConcat
<1>6. ((((head \o bandwidth) \o times) \o zone) \o attributes) \o medias \in Whole
    BY <1>1, <1>5, WholeConcat
<1> QED
    BY <1>1, <1>2, <1>3, <1>6 DEF head, bandwidth, times, zone, attributes, medias

\* Descriptions with all that the parser can read, part by part.
SdpOf(o, n, i, u, e, p, c, time, attributes, media) ==
    [origin |-> o, name |-> n, info |-> i, uri |-> u, email |-> e, phone |-> p, conn |-> c,
     bandwidth |-> <<>>, time |-> time, zone |-> <<>>, attributes |-> attributes, media |-> media]
MediaOf(m, title, conn, attributes) ==
    [type |-> m.type, port |-> m.port, ports |-> <<>>, proto |-> m.proto, formats |-> m.formats,
     title |-> title, conn |-> conn, bandwidth |-> <<>>, attributes |-> attributes]

\* A line before the first media changes the part of the description it is for.
LEMMA SetHead ==
    /\ \A o, n, i, u, e, p, c, time, attributes, val :
           Set(SdpOf(o, n, i, u, e, p, c, time, attributes, <<>>), "v", val)
               = SdpOf(o, n, i, u, e, p, c, time, attributes, <<>>)
    /\ \A o, n, i, u, e, p, c, time, attributes, val :
           Set(SdpOf(o, n, i, u, e, p, c, time, attributes, <<>>), "o", val)
               = SdpOf(val, n, i, u, e, p, c, time, attributes, <<>>)
    /\ \A o, n, i, u, e, p, c, time, attributes, val :
           Set(SdpOf(o, n, i, u, e, p, c, time, attributes, <<>>), "s", val)
               = SdpOf(o, val, i, u, e, p, c, time, attributes, <<>>)
    /\ \A o, n, i, u, e, p, c, time, attributes, val :
           Set(SdpOf(o, n, i, u, e, p, c, time, attributes, <<>>), "i", val)
               = SdpOf(o, n, <<val>>, u, e, p, c, time, attributes, <<>>)
    /\ \A o, n, i, u, e, p, c, time, attributes, val :
           Set(SdpOf(o, n, i, u, e, p, c, time, attributes, <<>>), "u", val)
               = SdpOf(o, n, i, <<val>>, e, p, c, time, attributes, <<>>)
    /\ \A o, n, i, u, e, p, c, time, attributes, val :
           Set(SdpOf(o, n, i, u, e, p, c, time, attributes, <<>>), "e", val)
               = SdpOf(o, n, i, u, <<val>>, p, c, time, attributes, <<>>)
    /\ \A o, n, i, u, e, p, c, time, attributes, val :
           Set(SdpOf(o, n, i, u, e, p, c, time, attributes, <<>>), "p", val)
               = SdpOf(o, n, i, u, e, <<val>>, c, time, attributes, <<>>)
    /\ \A o, n, i, u, e, p, c, time, attributes, val :
           Set(SdpOf(o, n, i, u, e, p, c, time, attributes, <<>>), "c", val)
               = SdpOf(o, n, i, u, e, p, <<val>>, time, attributes, <<>>)
    /\ \A o, n, i, u, e, p, c, time, attributes, val :
           Set(SdpOf(o, n, i, u, e, p, c, time, attributes, <<>>), "t", val)
               = SdpOf(o, n, i, u, e, p, c, Append(time, val), attributes, <<>>)
    /\ \A o, n, i, u, e, p, c, time, attributes, val :
           Set(SdpOf(o, n, i, u, e, p, c, time, attributes, <<>>), "a", val)
               = SdpOf(o, n, i, u, e, p, c, time, Append(attributes, val), <<>>)
<1>1. ~(Len(<<>>) > 0) OBVIOUS
<1>2. \A o, n, i, u, e, p, c, time, attributes :
          SdpOf(o, n, i, u, e, p, c, time, attributes, <<>>).media = <<>> BY DEF SdpOf
<1>3. \A o, n, i, u, e, p, c, time, attributes, val :
             Set(SdpOf(o, n, i, u, e, p, c, time, attributes, <<>>), "v", val)
                 = SdpOf(o, n, i, u, e, p, c, time, attributes, <<>>)
    BY <1>1, <1>2 DEF Set, SdpOf
<1>4. \A o, n, i, u, e, p, c, time, attributes, val :
             Set(SdpOf(o, n, i, u, e, p, c, time, attributes, <<>>), "o", val)
                 = SdpOf(val, n, i, u, e, p, c, time, attributes, <<>>)
    BY <1>1, <1>2 DEF Set, SdpOf
<1>5. \A o, n, i, u, e, p, c, time, attributes, val :
             Set(SdpOf(o, n, i, u, e, p, c, time, attributes, <<>>), "s", val)
                 = SdpOf(o, val, i, u, e, p, c, time, attributes, <<>>)
    BY <1>1, <1>2 DEF Set, SdpOf
<1>6. \A o, n, i, u, e, p, c, time, attributes, val :
             Set(SdpOf(o, n, i, u, e, p, c, time, attributes, <<>>), "i", val)
                 = SdpOf(o, n, <<val>>, u, e, p, c, time, attributes, <<>>)
    BY <1>1, <1>2 DEF Set, SdpOf
<1>7. \A o, n, i, u, e, p, c, time, attributes, val :
             Set(SdpOf(o, n, i, u, e, p, c, time, attributes, <<>>), "u", val)
                 = SdpOf(o, n, i, <<val>>, e, p, c, time, attributes, <<>>)
    BY <1>1, <1>2 DEF Set, SdpOf
<1>8. \A o, n, i, u, e, p, c, time, attributes, val :
             Set(SdpOf(o, n, i, u, e, p, c, time, attributes, <<>>), "e", val)
                 = SdpOf(o, n, i, u, <<val>>, p, c, time, attributes, <<>>)
    BY <1>1, <1>2 DEF Set, SdpOf
<1>9. \A o, n, i, u, e, p, c, time, attributes, val :
             Set(SdpOf(o, n, i, u, e, p, c, time, attributes, <<>>), "p", val)
                 = SdpOf(o, n, i, u, e, <<val>>, c, time, attributes, <<>>)
    BY <1>1, <1>2 DEF Set, SdpOf
<1>10. \A o, n, i, u, e, p, c, time, attributes, val :
             Set(SdpOf(o, n, i, u, e, p, c, time, attributes, <<>>), "c", val)
                 = SdpOf(o, n, i, u, e, p, <<val>>, time, attributes, <<>>)
    BY <1>1, <1>2 DEF Set, SdpOf
<1>11. \A o, n, i, u, e, p, c, time, attributes, val :
             Set(SdpOf(o, n, i, u, e, p, c, time, attributes, <<>>), "t", val)
                 = SdpOf(o, n, i, u, e, p, c, Append(time, val), attributes, <<>>)
    BY <1>1, <1>2 DEF Set, SdpOf
<1>12. \A o, n, i, u, e, p, c, time, attributes, val :
             Set(SdpOf(o, n, i, u, e, p, c, time, attributes, <<>>), "a", val)
                 = SdpOf(o, n, i, u, e, p, c, time, Append(attributes, val), <<>>)
    BY <1>1, <1>2 DEF Set, SdpOf
<1> QED BY <1>3, <1>4, <1>5, <1>6, <1>7, <1>8, <1>9, <1>10, <1>11, <1>12

\* A line behind a media changes the last media, or is the next media.
LEMMA SetLast ==
    ASSUME NEW D, NEW s \in Seq(D), NEW x \in D, NEW y \in D
    PROVE  /\ Len(Append(s, x)) = Len(s) + 1 /\ Len(s) \in Nat /\ Append(s, x)[Len(s) + 1] = x
           /\ [Append(s, x) EXCEPT ![Len(s) + 1] = y] = Append(s, y)
<1>1. Append(s, x) \in Seq(D) /\ Append(s, y) \in Seq(D) BY AppendProperties
<1>2. Len(Append(s, x)) = Len(s) + 1 /\ Len(Append(s, y)) = Len(s) + 1 /\ Len(s) \in Nat
      /\ Append(s, x)[Len(s) + 1] = x /\ Append(s, y)[Len(s) + 1] = y
      /\ \A k \in 1 .. Len(s) : Append(s, x)[k] = s[k] /\ Append(s, y)[k] = s[k]
    BY AppendProperties
<1> DEFINE r == Append(s, x)
           w == Append(s, y)
           n == Len(s) + 1
           z == [r EXCEPT ![n] = y]
<1> HIDE DEF r
<1>3. DOMAIN r = 1 .. n /\ r = [k \in 1 .. n |-> r[k]] /\ \A k \in 1 .. n : r[k] \in D
    BY <1>1, <1>2, ElementOfSeq, LenProperties DEF r
<1>4. z \in Seq(D) /\ Len(z) = Len(s) + 1
    <2>1. z \in [1 .. n -> D]
        <3> HIDE DEF n
        <3> QED BY <1>3
    <2>2. n \in Nat BY <1>2
    <2> HIDE DEF z, n
    <2>3. z \in Seq(D) /\ Len(z) = n BY <2>1, <2>2, FunctionSeq
    <2> QED BY <2>3 DEF n
<1>5. \A k \in 1 .. Len(s) + 1 : z[k] = w[k]
    <2> TAKE k \in 1 .. Len(s) + 1
    <2>1. z[k] = IF k = n THEN y ELSE r[k]
        <3> HIDE DEF n
        <3> QED BY <1>3
    <2>2. CASE k = n BY <2>1, <2>2, <1>2
    <2>3. CASE k # n
        <3>1. k \in 1 .. Len(s) BY <2>3, <1>2
        <3> QED BY <2>1, <2>3, <3>1, <1>2 DEF r
    <2> QED BY <2>2, <2>3
<1>6. z = w
    <2>1. Len(w) = Len(s) + 1 /\ w \in Seq(D) BY <1>1, <1>2
    <2> HIDE DEF z, w
    <2> QED BY <2>1, <1>4, <1>5, SeqEqual
<1> QED BY <1>2, <1>6 DEF r

WithTitle(m, z) == [m EXCEPT !.title = z]
WithConn(m, z) == [m EXCEPT !.conn = z]
WithAttributes(m, z) == [m EXCEPT !.attributes = z]

\* What changes in a media when one of its parts does.
LEMMA MediaChanges ==
    ASSUME NEW m, NEW title, NEW conn, NEW own, NEW z
    PROVE  /\ WithTitle(MediaOf(m, title, conn, own), z) = MediaOf(m, z, conn, own)
           /\ WithConn(MediaOf(m, title, conn, own), z) = MediaOf(m, title, z, own)
           /\ WithAttributes(MediaOf(m, title, conn, own), z) = MediaOf(m, title, conn, z)
<1> DEFINE F == {"type", "port", "ports", "proto", "formats", "title", "conn", "bandwidth",
                 "attributes"}
           d == MediaOf(m, title, conn, own)
           With(e, f) ==
               /\ e = [k \in F |-> e[k]]
               /\ \A k \in F \ {f} : e[k] = d[k]
               /\ e[f] = z
<1>1. d = [k \in F |-> d[k]] BY DEF MediaOf
<1>2. With(MediaOf(m, z, conn, own), "title")
    <2> DEFINE e == MediaOf(m, z, conn, own)
    <2>1. e = [k \in F |-> e[k]] BY DEF MediaOf
    <2>2. e.type = d.type /\ e.port = d.port /\ e.ports = d.ports /\ e.proto = d.proto
          /\ e.formats = d.formats /\ e.conn = d.conn /\ e.bandwidth = d.bandwidth
          /\ e.attributes = d.attributes /\ e.title = z BY DEF MediaOf
    <2> HIDE DEF d, e
    <2> QED BY <2>1, <2>2 DEF e
<1>3. With(MediaOf(m, title, z, own), "conn")
    <2> DEFINE e == MediaOf(m, title, z, own)
    <2>1. e = [k \in F |-> e[k]] BY DEF MediaOf
    <2>2. e.type = d.type /\ e.port = d.port /\ e.ports = d.ports /\ e.proto = d.proto
          /\ e.formats = d.formats /\ e.title = d.title /\ e.bandwidth = d.bandwidth
          /\ e.attributes = d.attributes /\ e.conn = z BY DEF MediaOf
    <2> HIDE DEF d, e
    <2> QED BY <2>1, <2>2 DEF e
<1>4. With(MediaOf(m, title, conn, z), "attributes")
    <2> DEFINE e == MediaOf(m, title, conn, z)
    <2>1. e = [k \in F |-> e[k]] BY DEF MediaOf
    <2>2. e.type = d.type /\ e.port = d.port /\ e.ports = d.ports /\ e.proto = d.proto
          /\ e.formats = d.formats /\ e.title = d.title /\ e.bandwidth = d.bandwidth
          /\ e.conn = d.conn /\ e.attributes = z BY DEF MediaOf
    <2> HIDE DEF d, e
    <2> QED BY <2>1, <2>2 DEF e
<1> HIDE DEF d
<1>5. \A f \in F : \A e : With(e, f) => [d EXCEPT ![f] = z] = e
    <2> TAKE f \in F
    <2> TAKE e
    <2> HAVE With(e, f)
    <2>1. e = [k \in F |-> IF k = f THEN z ELSE d[k]] OBVIOUS
    <2>2. [d EXCEPT ![f] = z] = [k \in F |-> IF k = f THEN z ELSE d[k]]
        <3> HIDE DEF F
        <3> QED BY <1>1
    <2> QED BY <2>1, <2>2
<1> HIDE DEF With
<1>6. {"title", "conn", "attributes"} \subseteq F OBVIOUS
<1> HIDE DEF F
<1>7. /\ [d EXCEPT !["title"] = z] = MediaOf(m, z, conn, own)
      /\ [d EXCEPT !["conn"] = z] = MediaOf(m, title, z, own)
      /\ [d EXCEPT !["attributes"] = z] = MediaOf(m, title, conn, z)
    BY <1>2, <1>3, <1>4, <1>5, <1>6
<1> QED BY <1>7 DEF d, WithTitle, WithConn, WithAttributes

WithLast(d, m) == [d EXCEPT !.media[Len(d.media)] = m]

\* The last media is the one a line behind it changes.
LEMMA SetMedia ==
    ASSUME NEW o, NEW n, NEW i, NEW u, NEW e, NEW p, NEW c, NEW time, NEW attributes,
           NEW ms \in Seq(MediaType), NEW old \in MediaType, NEW y \in MediaType
    PROVE  LET d == SdpOf(o, n, i, u, e, p, c, time, attributes, Append(ms, old))
           IN /\ Len(d.media) > 0 /\ d.media[Len(d.media)] = old
              /\ WithLast(d, y) = SdpOf(o, n, i, u, e, p, c, time, attributes, Append(ms, y))
<1> DEFINE d == SdpOf(o, n, i, u, e, p, c, time, attributes, Append(ms, old))
           to(z) == SdpOf(o, n, i, u, e, p, c, time, attributes, z)
<1>1. d.media = Append(ms, old) /\ Len(d.media) = Len(ms) + 1 /\ Len(d.media) > 0
      /\ d.media[Len(d.media)] = old
    <2>1. d.media = Append(ms, old) BY DEF SdpOf
    <2> HIDE DEF d
    <2>3. Len(Append(ms, old)) = Len(ms) + 1 /\ Len(ms) \in Nat /\ Append(ms, old)[Len(ms) + 1] = old
        BY SetLast
    <2> QED BY <2>1, <2>3
<1>2. [d EXCEPT !.media[Len(d.media)] = y] = to(Append(ms, y))
    <2>1. [Append(ms, old) EXCEPT ![Len(ms) + 1] = y] = Append(ms, y)
        BY SetLast
    <2>2. [d EXCEPT !.media[Len(d.media)] = y] = [d EXCEPT !.media = [Append(ms, old) EXCEPT ![Len(ms) + 1] = y]]
        <3> HIDE DEF d
        <3> QED BY <1>1
    <2>3. \A z : [d EXCEPT !.media = z] = to(z)
        BY DEF SdpOf
    <2> QED BY <2>1, <2>2, <2>3
<1> HIDE DEF d
<1>3. WithLast(d, y) = to(Append(ms, y))
    BY <1>2 DEF WithLast
<1> QED BY <1>1, <1>3 DEF d

\* A title line behind a media.
LEMMA SetTitle ==
    ASSUME NEW o, NEW n, NEW i, NEW u, NEW e, NEW p, NEW c, NEW time, NEW attributes, NEW val,
           NEW ms \in Seq(MediaType), NEW m, NEW title, NEW conn, NEW own,
           MediaOf(m, title, conn, own) \in MediaType, MediaOf(m, <<val>>, conn, own) \in MediaType
    PROVE  Set(SdpOf(o, n, i, u, e, p, c, time, attributes, Append(ms, MediaOf(m, title, conn, own))), "i", val)
             = SdpOf(o, n, i, u, e, p, c, time, attributes, Append(ms, MediaOf(m, <<val>>, conn, own)))
<1> DEFINE old == MediaOf(m, title, conn, own)
           y == MediaOf(m, <<val>>, conn, own)
           d == SdpOf(o, n, i, u, e, p, c, time, attributes, Append(ms, old))
<1>1. y = WithTitle(old, <<val>>) /\ old \in MediaType /\ y \in MediaType /\ old.attributes = own
    <2>1. y = WithTitle(old, <<val>>) BY MediaChanges
    <2>2. old.attributes = own BY DEF MediaOf
    <2> QED BY <2>1, <2>2
<1> HIDE DEF old, y
<1>2. Len(d.media) > 0 /\ d.media[Len(d.media)] = old
      /\ WithLast(d, y) = SdpOf(o, n, i, u, e, p, c, time, attributes, Append(ms, y))
    BY <1>1, SetMedia
<1> HIDE DEF d
<1>3. Set(d, "i", val) = WithLast(d, y)
    BY <1>1, <1>2 DEF Set, WithLast, WithTitle
<1>4. Set(d, "i", val) = SdpOf(o, n, i, u, e, p, c, time, attributes, Append(ms, y))
    BY <1>2, <1>3
<1> QED BY <1>4 DEF d, old, y

\* A connection line behind a media.
LEMMA SetConn ==
    ASSUME NEW o, NEW n, NEW i, NEW u, NEW e, NEW p, NEW c, NEW time, NEW attributes, NEW val,
           NEW ms \in Seq(MediaType), NEW m, NEW title, NEW conn, NEW own,
           MediaOf(m, title, conn, own) \in MediaType, MediaOf(m, title, <<val>>, own) \in MediaType
    PROVE  Set(SdpOf(o, n, i, u, e, p, c, time, attributes, Append(ms, MediaOf(m, title, conn, own))), "c", val)
             = SdpOf(o, n, i, u, e, p, c, time, attributes, Append(ms, MediaOf(m, title, <<val>>, own)))
<1> DEFINE old == MediaOf(m, title, conn, own)
           y == MediaOf(m, title, <<val>>, own)
           d == SdpOf(o, n, i, u, e, p, c, time, attributes, Append(ms, old))
<1>1. y = WithConn(old, <<val>>) /\ old \in MediaType /\ y \in MediaType /\ old.attributes = own
    <2>1. y = WithConn(old, <<val>>) BY MediaChanges
    <2>2. old.attributes = own BY DEF MediaOf
    <2> QED BY <2>1, <2>2
<1> HIDE DEF old, y
<1>2. Len(d.media) > 0 /\ d.media[Len(d.media)] = old
      /\ WithLast(d, y) = SdpOf(o, n, i, u, e, p, c, time, attributes, Append(ms, y))
    BY <1>1, SetMedia
<1> HIDE DEF d
<1>3. Set(d, "c", val) = WithLast(d, y)
    BY <1>1, <1>2 DEF Set, WithLast, WithConn
<1>4. Set(d, "c", val) = SdpOf(o, n, i, u, e, p, c, time, attributes, Append(ms, y))
    BY <1>2, <1>3
<1> QED BY <1>4 DEF d, old, y

\* An attribute line behind a media.
LEMMA SetAttribute ==
    ASSUME NEW o, NEW n, NEW i, NEW u, NEW e, NEW p, NEW c, NEW time, NEW attributes, NEW val,
           NEW ms \in Seq(MediaType), NEW m, NEW title, NEW conn, NEW own,
           MediaOf(m, title, conn, own) \in MediaType, MediaOf(m, title, conn, Append(own, val)) \in MediaType
    PROVE  Set(SdpOf(o, n, i, u, e, p, c, time, attributes, Append(ms, MediaOf(m, title, conn, own))), "a", val)
             = SdpOf(o, n, i, u, e, p, c, time, attributes, Append(ms, MediaOf(m, title, conn, Append(own, val))))
<1> DEFINE old == MediaOf(m, title, conn, own)
           y == MediaOf(m, title, conn, Append(own, val))
           d == SdpOf(o, n, i, u, e, p, c, time, attributes, Append(ms, old))
<1>1. y = WithAttributes(old, Append(own, val)) /\ old \in MediaType /\ y \in MediaType /\ old.attributes = own
    <2>1. y = WithAttributes(old, Append(own, val)) BY MediaChanges
    <2>2. old.attributes = own BY DEF MediaOf
    <2> QED BY <2>1, <2>2
<1> HIDE DEF old, y
<1>2. Len(d.media) > 0 /\ d.media[Len(d.media)] = old
      /\ WithLast(d, y) = SdpOf(o, n, i, u, e, p, c, time, attributes, Append(ms, y))
    BY <1>1, SetMedia
<1> HIDE DEF d
<1>3. Set(d, "a", val) = WithLast(d, y)
    BY <1>1, <1>2 DEF Set, WithLast, WithAttributes
<1>4. Set(d, "a", val) = SdpOf(o, n, i, u, e, p, c, time, attributes, Append(ms, y))
    BY <1>2, <1>3
<1> QED BY <1>4 DEF d, old, y

\* What is said so far of a sequence: one more with each line.
LEMMA Prefix ==
    ASSUME NEW D, NEW s \in Seq(D)
    PROVE  /\ \A k \in 1 .. Len(s) : /\ SubSeq(s, 1, k) = Append(SubSeq(s, 1, k - 1), s[k])
                                     /\ SubSeq(s, 1, k - 1) \in Seq(D) /\ s[k] \in D
           /\ SubSeq(s, 1, 0) = <<>> /\ SubSeq(s, 1, Len(s)) = s /\ Len(s) \in Nat
<1>1. Len(s) \in Nat /\ \A k \in 1 .. Len(s) : s[k] \in D
    BY ElementOfSeq, LenProperties
<1>2. SubSeq(s, 1, 0) = <<>>
    BY SubSeqEmpty
<1>3. SubSeq(s, 1, Len(s)) = s
    BY SubSeqFull
<1>4. ASSUME NEW k \in 1 .. Len(s)
      PROVE  /\ SubSeq(s, 1, k) = Append(SubSeq(s, 1, k - 1), s[k])
             /\ SubSeq(s, 1, k - 1) \in Seq(D)
    <2>1. k - 1 \in Int /\ k \in Int /\ 1 \in Int /\ k - 1 - 1 + 1 = k - 1 /\ k - 1 + 1 = k /\ k - 1 \in Nat
        BY <1>1
    <2>2. \A i \in 1 .. k : s[i] \in D /\ 1 + i - 1 = i
        BY <1>1
    <2> DEFINE u == SubSeq(s, 1, k)
               v == SubSeq(s, 1, k - 1)
    <2>3. u \in Seq(D) /\ Len(u) = k /\ \A i \in 1 .. k : u[i] = s[i]
        <3>1. /\ u \in Seq(D) /\ Len(u) = (IF 1 <= k THEN k - 1 + 1 ELSE 0)
              /\ \A i \in 1 .. k - 1 + 1 : u[i] = s[1 + i - 1]
            BY <2>1, <2>2, SubSeqProperties
        <3> HIDE DEF u
        <3> QED BY <3>1, <2>1, <2>2
    <2>4. v \in Seq(D) /\ Len(v) = k - 1 /\ \A i \in 1 .. k - 1 : v[i] = s[i]
        <3>0. \A i \in 1 .. k - 1 : s[i] \in D BY <2>2
        <3>1. /\ v \in Seq(D) /\ Len(v) = (IF 1 <= k - 1 THEN k - 1 - 1 + 1 ELSE 0)
              /\ \A i \in 1 .. k - 1 - 1 + 1 : v[i] = s[1 + i - 1]
            BY <2>1, <3>0, SubSeqProperties
        <3> HIDE DEF v
        <3>2. CASE k = 1 BY <3>1, <3>2
        <3>3. CASE k # 1 BY <3>1, <3>3, <2>1, <2>2
        <3> QED BY <3>2, <3>3
    <2> HIDE DEF u, v
    <2>5. /\ Append(v, s[k]) \in Seq(D) /\ Len(Append(v, s[k])) = k /\ Append(v, s[k])[k] = s[k]
          /\ \A i \in 1 .. k - 1 : Append(v, s[k])[i] = s[i]
        BY <1>1, <2>1, <2>4, AppendProperties
    <2>6. \A i \in 1 .. k : u[i] = Append(v, s[k])[i]
        <3> TAKE i \in 1 .. k
        <3>1. i = k \/ i \in 1 .. k - 1 BY <1>1
        <3> QED BY <3>1, <2>3, <2>5
    <2>7. u = Append(v, s[k])
        BY <2>3, <2>5, <2>6, SeqEqual
    <2> QED BY <2>4, <2>7 DEF u, v
<1> QED BY <1>1, <1>2, <1>3, <1>4

\* Whole texts are texts.
LEMMA WholeSequences == Seq(Whole) \subseteq Seq(Tokens)
<1> SUFFICES ASSUME NEW s \in Seq(Whole) PROVE s \in Seq(Tokens)
    OBVIOUS
<1>1. Len(s) \in Nat /\ s \in [1 .. Len(s) -> Whole]
    BY LenProperties
<1>2. s \in [1 .. Len(s) -> Tokens]
    BY <1>1, WholeNothing
<1> DEFINE n == Len(s)
<1>3. n \in Nat /\ s \in [1 .. n -> Tokens]
    BY <1>1, <1>2
<1> HIDE DEF n
<1> QED BY <1>3, FunctionSeq

\* Lines that say one element each take the parser from none to all of them,
\* or it fails at the first that it cannot read.
LEMMA PrefixesCarry ==
    ASSUME NEW t \in Tokens, NEW D, NEW s \in Seq(D), NEW ss \in Seq(Tokens), Len(ss) = Len(s),
           NEW S, NEW n \in 0 .. Len(s),
           \A k \in 1 .. n, x \in Seq(D) : Carries(t, ss[k], S[x], S[Append(x, s[k])])
    PROVE  /\ n = Len(s) => Carries(t, FlattenSeq(ss), S[<<>>], S[s])
           /\ n < Len(s) /\ (\A x \in Seq(D) : Fails(t, ss[n + 1], S[x]))
                  => Fails(t, FlattenSeq(ss), S[<<>>])
<1> DEFINE es == [k \in 0 .. Len(s) |-> S[SubSeq(s, 1, k)]]
<1>1. Len(s) \in Nat /\ es[0] = S[<<>>] /\ es[Len(s)] = S[s]
    <2>1. Len(s) \in Nat /\ SubSeq(s, 1, 0) = <<>> /\ SubSeq(s, 1, Len(s)) = s
        BY Prefix
    <2>2. 0 \in 0 .. Len(s) /\ Len(s) \in 0 .. Len(s)
        BY <2>1
    <2> QED BY <2>1, <2>2
<1>2. ASSUME NEW k \in 1 .. n PROVE Carries(t, ss[k], es[k - 1], es[k])
    <2>1. k \in 1 .. Len(s) /\ k \in 0 .. Len(s) /\ k - 1 \in 0 .. Len(s)
        BY <1>1
    <2>2. /\ SubSeq(s, 1, k) = Append(SubSeq(s, 1, k - 1), s[k])
          /\ SubSeq(s, 1, k - 1) \in Seq(D)
        BY <2>1, Prefix
    <2>3. es[k - 1] = S[SubSeq(s, 1, k - 1)] /\ es[k] = S[SubSeq(s, 1, k)]
        BY <2>1
    <2> HIDE DEF es
    <2> QED BY <2>2, <2>3
<1>3. es[n] = S[SubSeq(s, 1, n)] /\ SubSeq(s, 1, n) \in Seq(D)
    <2>1. es[n] = S[SubSeq(s, 1, n)]
        OBVIOUS
    <2>2. SubSeq(s, 1, n) \in Seq(D)
        <3>1. n = Len(s) \/ (n + 1 \in 1 .. Len(s) /\ n + 1 - 1 = n)
            BY <1>1
        <3> QED BY <3>1, Prefix
    <2> QED BY <2>1, <2>2
<1> HIDE DEF es
<1>4. n \in 0 .. Len(ss)
    OBVIOUS
<1>5. /\ n = Len(ss) => Carries(t, FlattenSeq(ss), es[0], es[n])
      /\ n < Len(ss) /\ Fails(t, ss[n + 1], es[n]) => Fails(t, FlattenSeq(ss), es[0])
    BY <1>2, <1>4, ListCarries
<1> QED BY <1>1, <1>3, <1>5

\* A line that may be missing.
LEMMA OptionalCarries ==
    ASSUME NEW t \in TidyTexts, NEW letter \in {"i", "u", "e", "p"},
           NEW value \in Optionally(Value), NEW d, NEW e,
           value = <<>> => e = d, value # <<>> => e = Set(d, letter, value[1])
    PROVE  Carries(t, Optional(letter, value), d, e)
<1>1. CASE value = <<>>
    BY <1>1, NoLines DEF Optional
<1>2. CASE value # <<>>
    <2>1. value[1] \in Value
        BY <1>2, OptionallyParts
    <2>2. letter \in Letters /\ letter # "r"
        BY DEF Letters
    <2>3. ASSUME NEW at, Closed(t, at, value[1])
          PROVE  ReadValue(letter, t, at) = Read(at + Len(value[1]), value[1])
        <3>1. ReadLine(t, at) = Read(at + Len(value[1]), value[1])
            BY <2>1, <2>3, LineValueRead DEF TidyTexts
        <3>2. ReadValue(letter, t, at) = ReadLine(t, at)
            BY DEF ReadValue
        <3> QED BY <3>1, <3>2
    <2>4. Carries(t, Line(letter, value[1]), d, Set(d, letter, value[1]))
        BY <2>1, <2>2, <2>3, LineCarries
    <2> QED BY <1>2, <2>4 DEF Optional
<1> QED BY <1>1, <1>2

\* The line for a connection, where there is one.
LEMMA ConnectionCarries ==
    ASSUME NEW t \in TidyTexts, NEW conn \in Optionally(ConnectionType),
           \A k \in DOMAIN conn : ConnectionBack(conn[k]), NEW d, NEW e,
           conn = <<>> => e = d, conn # <<>> => e = Set(d, "c", conn[1])
    PROVE  Carries(t, ConnectionLine(conn), d, e)
<1>1. CASE conn = <<>>
    BY <1>1, NoLines DEF ConnectionLine
<1>2. CASE conn # <<>>
    <2>1. conn = <<conn[1]>> /\ conn[1] \in ConnectionType
        BY <1>2, OptionallyParts
    <2>2. ConnectionBack(conn[1])
        <3>1. 1 \in DOMAIN conn BY <2>1
        <3> QED BY <3>1
    <2> DEFINE c == conn[1]
    <2> HIDE DEF c
    <2>3. c \in ConnectionType /\ ConnectionBack(c)
        BY <2>1, <2>2 DEF c
    <2>4. ConnectionText(c) \in Value
        BY <2>3, ConnectionValue DEF ConnectionType
    <2>5. ASSUME NEW at, Closed(t, at, ConnectionText(c))
          PROVE  ReadValue("c", t, at) = Read(at + Len(ConnectionText(c)), c)
        <3>1. ReadConnection(t, at) = Read(at + Len(ConnectionText(c)), c)
            BY <2>3, <2>5, ConnectionRead DEF TidyTexts
        <3>2. ReadValue("c", t, at) = ReadConnection(t, at)
            BY DEF ReadValue
        <3> QED BY <3>1, <3>2
    <2>6. Carries(t, Line("c", ConnectionText(c)), d, Set(d, "c", c))
        <3>1. "c" \in Letters /\ "c" # "r" BY TheLetters
        <3> QED BY <2>4, <2>5, <3>1, LineCarries
    <2> QED BY <1>2, <2>6 DEF ConnectionLine, c
<1> QED BY <1>1, <1>2

\* The lines for attributes.
LEMMA AttributesCarry ==
    ASSUME NEW t \in TidyTexts, NEW attributes \in Seq(AttributeType), NEW S,
           \A x \in Seq(AttributeType), a \in AttributeType : S[Append(x, a)] = Set(S[x], "a", a)
    PROVE  Carries(t, AttributeLines(attributes), S[<<>>], S[attributes])
<1> DEFINE ss == [k \in DOMAIN attributes |-> AttributeLine(attributes[k])]
           text(a) == a.name \o Opt(<<":">>, a.value)
<1>1. t \in Tokens
    BY DEF TidyTexts
<1>2. DOMAIN attributes = 1 .. Len(attributes) /\ Len(attributes) \in Nat
    BY LenProperties
<1>3. ASSUME NEW a \in AttributeType, NEW x \in Seq(AttributeType)
      PROVE  Carries(t, AttributeLine(a), S[x], S[Append(x, a)])
    <2>1. text(a) \in Value
        BY AttributeValue
    <2>2. ASSUME NEW at, Closed(t, at, text(a))
          PROVE  ReadValue("a", t, at) = Read(at + Len(text(a)), a)
        <3>1. ReadAttribute(t, at) = Read(at + Len(text(a)), a)
            BY <1>1, <2>2, AttributeRead
        <3>2. ReadValue("a", t, at) = ReadAttribute(t, at)
            BY DEF ReadValue
        <3> HIDE DEF text
        <3> QED BY <3>1, <3>2
    <2>3. "a" \in Letters /\ "a" # "r"
        BY TheLetters
    <2> HIDE DEF text
    <2>4. Carries(t, Line("a", text(a)), S[x], Set(S[x], "a", a))
        BY <2>1, <2>2, <2>3, LineCarries
    <2> QED BY <2>4 DEF AttributeLine, text
<1>4. ss \in Seq(Tokens) /\ Len(ss) = Len(attributes)
    <2>1. ss \in Seq(Whole) /\ Len(ss) = Len(attributes)
        BY WholeAttributes
    <2> HIDE DEF ss
    <2>2. Seq(Whole) \subseteq Seq(Tokens)
        BY WholeSequences
    <2> QED BY <2>1, <2>2
<1>5. ASSUME NEW k \in 1 .. Len(attributes), NEW x \in Seq(AttributeType)
      PROVE  Carries(t, ss[k], S[x], S[Append(x, attributes[k])])
    <2>1. attributes[k] \in AttributeType
        BY ElementOfSeq
    <2>2. ss[k] = AttributeLine(attributes[k])
        BY <1>2
    <2> HIDE DEF ss
    <2> QED BY <1>3, <2>1, <2>2
<1>6. AttributeLines(attributes) = FlattenSeq(ss)
    BY DEF AttributeLines, Lines
<1>7. Len(attributes) \in 0 .. Len(attributes)
    BY <1>2
<1> HIDE DEF ss
<1> QED BY <1>1, <1>4, <1>5, <1>6, <1>7, PrefixesCarry

\* A time with the repetitions read so far.
TimeOf(x, repeats) == [start |-> x.start, stop |-> x.stop, repeats |-> repeats]
WithRepeats(x, z) == [x EXCEPT !.repeats = z]

\* A time with other repeats.
LEMMA TimeChanges ==
    ASSUME NEW x, NEW repeats, NEW z
    PROVE  WithRepeats(TimeOf(x, repeats), z) = TimeOf(x, z) /\ TimeOf(x, repeats).repeats = repeats
<1>1. TimeOf(x, repeats).repeats = repeats BY DEF TimeOf
<1>2. [TimeOf(x, repeats) EXCEPT !.repeats = z] = TimeOf(x, z) BY DEF TimeOf
<1> QED BY <1>1, <1>2 DEF WithRepeats

\* A repeat goes to the last time.
LEMMA SetRepeat ==
    ASSUME NEW o, NEW n, NEW i, NEW u, NEW e, NEW p, NEW c, NEW attributes, NEW media, NEW val,
           NEW D, NEW times \in Seq(D), NEW x, NEW repeats,
           TimeOf(x, repeats) \in D, TimeOf(x, Append(repeats, val)) \in D
    PROVE  Set(SdpOf(o, n, i, u, e, p, c, Append(times, TimeOf(x, repeats)), attributes, media), "r", val)
             = SdpOf(o, n, i, u, e, p, c, Append(times, TimeOf(x, Append(repeats, val))), attributes, media)
<1> DEFINE old == TimeOf(x, repeats)
           d == SdpOf(o, n, i, u, e, p, c, Append(times, old), attributes, media)
           to(y) == SdpOf(o, n, i, u, e, p, c, y, attributes, media)
<1>1. d.time = Append(times, old) /\ Len(d.time) = Len(times) + 1
      /\ d.time[Len(d.time)] = old
    <2>1. d.time = Append(times, old) BY DEF SdpOf
    <2>2. old \in D OBVIOUS
    <2> HIDE DEF old, d
    <2>3. Len(Append(times, old)) = Len(times) + 1 /\ Len(times) \in Nat
          /\ Append(times, old)[Len(times) + 1] = old
        BY <2>2, SetLast
    <2> QED BY <2>1, <2>3
<1>2. \A y \in D : [d EXCEPT !.time[Len(d.time)] = y] = to(Append(times, y))
    <2> TAKE y \in D
    <2>1. [Append(times, old) EXCEPT ![Len(times) + 1] = y] = Append(times, y)
        <3>1. old \in D OBVIOUS
        <3> HIDE DEF old
        <3> QED BY <3>1, SetLast
    <2>2. [d EXCEPT !.time[Len(d.time)] = y] = [d EXCEPT !.time = [Append(times, old) EXCEPT ![Len(times) + 1] = y]]
        <3> HIDE DEF d, old
        <3> QED BY <1>1
    <2>3. \A z : [d EXCEPT !.time = z] = to(z)
        <3> DEFINE now == Append(times, old)
        <3> HIDE DEF now, old
        <3> QED BY DEF SdpOf
    <2> QED BY <2>1, <2>2, <2>3
<1>3. WithRepeats(old, Append(old.repeats, val)) = TimeOf(x, Append(repeats, val))
    <2>1. old.repeats = repeats BY TimeChanges
    <2>2. WithRepeats(old, Append(repeats, val)) = TimeOf(x, Append(repeats, val)) BY TimeChanges
    <2> HIDE DEF old
    <2> QED BY <2>1, <2>2
<1>4. Set(d, "r", val) = [d EXCEPT !.time[Len(d.time)] = WithRepeats(old, Append(old.repeats, val))]
    <2> HIDE DEF d, old
    <2> QED BY <1>1 DEF Set, WithRepeats
<1> HIDE DEF d, old
<1>5. Set(d, "r", val) = to(Append(times, TimeOf(x, Append(repeats, val))))
    <2>1. TimeOf(x, Append(repeats, val)) \in D
        OBVIOUS
    <2> QED BY <2>1, <1>2, <1>3, <1>4
<1> QED BY <1>5 DEF d, old

\* The texts of the repetitions.
LEMMA WholeRepeatTexts ==
    ASSUME NEW repeats \in Seq(RepeatType)
    PROVE  /\ [k \in DOMAIN repeats |-> RepeatLine(repeats[k])] \in Seq(Tokens)
           /\ Len([k \in DOMAIN repeats |-> RepeatLine(repeats[k])]) = Len(repeats)
<1> DEFINE ss == [k \in DOMAIN repeats |-> RepeatLine(repeats[k])]
<1>1. Len(repeats) \in Nat /\ DOMAIN repeats = 1 .. Len(repeats)
    BY LenProperties
<1>2. ASSUME NEW k \in 1 .. Len(repeats) PROVE ss[k] \in Tokens
    <2>1. repeats[k] \in RepeatType
        BY ElementOfSeq
    <2>2. RepeatLine(repeats[k]) \in Tokens
        BY <2>1, RepeatValue, WholeLine, WholeNothing, TheLetters DEF RepeatLine
    <2> QED BY <1>1, <2>2
<1>3. ss \in [1 .. Len(repeats) -> Tokens]
    BY <1>1, <1>2
<1> HIDE DEF ss
<1>4. ss \in Seq(Tokens) /\ Len(ss) = Len(repeats)
    BY <1>1, <1>3, FunctionSeq
<1> QED BY <1>4 DEF ss

\* The lines for a time.
LEMMA TimeCarries ==
    ASSUME NEW t \in TidyTexts, NEW o, NEW n, NEW i, NEW u, NEW e, NEW p, NEW c,
           NEW times \in Seq(TimeType), NEW x \in TimeType, TimeBack(x)
    PROVE  Carries(t, TimeLines(x), SdpOf(o, n, i, u, e, p, c, times, <<>>, <<>>),
                   SdpOf(o, n, i, u, e, p, c, Append(times, x), <<>>, <<>>))
<1> DEFINE S == [y \in Seq(TimeType) |-> SdpOf(o, n, i, u, e, p, c, y, <<>>, <<>>)]
           R == [y \in Seq(RepeatType) |-> S[Append(times, TimeOf(x, y))]]
           ss == [k \in DOMAIN x.repeats |-> RepeatLine(x.repeats[k])]
           pair == Pair(x.start, x.stop)
<1>1. /\ x.start \in Value /\ x.stop \in Value /\ x.repeats \in Seq(RepeatType)
      /\ OneOf(x.start, Fitting(64)) /\ OneOf(x.stop, Fitting(64))
      /\ \A k \in DOMAIN x.repeats : RepeatBack(x.repeats[k])
    BY DEF TimeType, TimeBack
<1>2. t \in Tokens
    BY DEF TidyTexts
<1>3. \A y \in Seq(RepeatType) : TimeOf(x, y) \in TimeType /\ Append(times, TimeOf(x, y)) \in Seq(TimeType)
    <2> TAKE y \in Seq(RepeatType)
    <2>1. TimeOf(x, y) \in TimeType
        BY <1>1 DEF TimeOf, TimeType
    <2> QED BY <2>1, AppendProperties
<1>4. TimeOf(x, x.repeats) = x
    BY DEF TimeOf, TimeType
<1>5. Carries(t, Line("t", pair), S[times], R[<<>>])
    <2>1. pair \in Value
        BY <1>1, PairValue
    <2>2. ASSUME NEW at, Closed(t, at, pair)
          PROVE  ReadValue("t", t, at) = Read(at + Len(pair), TimeOf(x, <<>>))
        <3>1. ReadTime(t, at) = Read(at + Len(pair), [start |-> x.start, stop |-> x.stop, repeats |-> <<>>])
            BY <1>1, <1>2, <2>2, TimeRead DEF Closed
        <3>2. ReadValue("t", t, at) = ReadTime(t, at)
            BY DEF ReadValue
        <3> HIDE DEF pair
        <3> QED BY <3>1, <3>2 DEF TimeOf
    <2>3. "t" \in Letters /\ "t" # "r"
        BY TheLetters
    <2>4. Set(S[times], "t", TimeOf(x, <<>>)) = R[<<>>]
        <3>1. <<>> \in Seq(RepeatType)
            OBVIOUS
        <3>2. R[<<>>] = SdpOf(o, n, i, u, e, p, c, Append(times, TimeOf(x, <<>>)), <<>>, <<>>)
            BY <1>3, <3>1
        <3>3. S[times] = SdpOf(o, n, i, u, e, p, c, times, <<>>, <<>>)
            OBVIOUS
        <3>4. Set(SdpOf(o, n, i, u, e, p, c, times, <<>>, <<>>), "t", TimeOf(x, <<>>))
                = SdpOf(o, n, i, u, e, p, c, Append(times, TimeOf(x, <<>>)), <<>>, <<>>)
            BY SetHead
        <3> HIDE DEF R, S
        <3> QED BY <3>2, <3>3, <3>4
    <2> HIDE DEF pair, R, S
    <2>5. Carries(t, Line("t", pair), S[times], Set(S[times], "t", TimeOf(x, <<>>)))
        BY <2>1, <2>2, <2>3, LineCarries
    <2> QED BY <2>4, <2>5
<1>6. ASSUME NEW r \in RepeatType, RepeatBack(r), NEW y \in Seq(RepeatType)
      PROVE  Carries(t, RepeatLine(r), R[y], R[Append(y, r)])
    <2>1. RepeatText(r) \in Value
        BY RepeatValue
    <2>2. ASSUME NEW at, Closed(t, at, RepeatText(r))
          PROVE  ReadValue("r", t, at) = Read(at + Len(RepeatText(r)), r)
        <3>1. ReadRepeat(t, at) = Read(at + Len(RepeatText(r)), r)
            BY <1>2, <1>6, <2>2, RepeatRead
        <3>2. ReadValue("r", t, at) = ReadRepeat(t, at)
            BY DEF ReadValue
        <3> QED BY <3>1, <3>2
    <2>3. Append(y, r) \in Seq(RepeatType)
        BY AppendProperties
    <2>4. R[y] = SdpOf(o, n, i, u, e, p, c, Append(times, TimeOf(x, y)), <<>>, <<>>)
          /\ R[Append(y, r)] = SdpOf(o, n, i, u, e, p, c, Append(times, TimeOf(x, Append(y, r))), <<>>, <<>>)
        BY <1>3, <2>3
    <2>5. R[y].time # <<>>
        <3>1. R[y].time = Append(times, TimeOf(x, y))
            <4> HIDE DEF R
            <4> QED BY <2>4 DEF SdpOf
        <3>2. TimeOf(x, y) \in TimeType
            BY <1>3
        <3>3. Append(times, TimeOf(x, y)) # <<>>
            BY <3>2, AppendProperties
        <3> HIDE DEF R
        <3> QED BY <3>1, <3>3
    <2>6. Set(R[y], "r", r) = R[Append(y, r)]
        <3>1. TimeOf(x, y) \in TimeType /\ TimeOf(x, Append(y, r)) \in TimeType
            BY <1>3, <2>3
        <3> HIDE DEF R
        <3> QED BY <2>4, <3>1, SetRepeat
    <2> HIDE DEF R
    <2> QED BY <2>1, <2>2, <2>5, <2>6, LineCarries, TheLetters DEF RepeatLine
<1>7. Carries(t, FlattenSeq(ss), R[<<>>], R[x.repeats])
    <2>1. ss \in Seq(Tokens) /\ Len(ss) = Len(x.repeats)
        BY <1>1, WholeRepeatTexts
    <2>2. Len(x.repeats) \in Nat /\ DOMAIN x.repeats = 1 .. Len(x.repeats)
        BY <1>1, LenProperties
    <2>3. ASSUME NEW k \in 1 .. Len(x.repeats), NEW y \in Seq(RepeatType)
          PROVE  Carries(t, ss[k], R[y], R[Append(y, x.repeats[k])])
        <3>1. x.repeats[k] \in RepeatType /\ RepeatBack(x.repeats[k])
            BY <1>1, <2>2, ElementOfSeq
        <3>2. ss[k] = RepeatLine(x.repeats[k])
            BY <2>2
        <3> HIDE DEF ss, R
        <3> QED BY <1>6, <3>1, <3>2
    <2> DEFINE reps == x.repeats
    <2>4. reps \in Seq(RepeatType) /\ Len(reps) \in 0 .. Len(reps)
        BY <1>1, <2>2
    <2> HIDE DEF ss, R
    <2>5. \A k \in 1 .. Len(reps), y \in Seq(RepeatType) :
                 Carries(t, ss[k], R[y], R[Append(y, reps[k])])
        BY <2>3
    <2>6. Len(ss) = Len(reps)
        BY <2>1
    <2> HIDE DEF reps
    <2>7. Carries(t, FlattenSeq(ss), R[<<>>], R[reps])
        BY <1>2, <2>1, <2>4, <2>5, <2>6, PrefixesCarry
    <2> QED BY <2>7 DEF reps
<1>8. R[x.repeats] = S[Append(times, x)]
    <2>1. R[x.repeats] = S[Append(times, TimeOf(x, x.repeats))]
        BY <1>1
    <2> HIDE DEF R, S
    <2> QED BY <1>4, <2>1
<1>9. TimeLines(x) = Line("t", pair) \o FlattenSeq(ss)
    BY DEF TimeLines, Pair, Lines
<1>10. Line("t", pair) \in Tokens /\ FlattenSeq(ss) \in Tokens
    <2>1. Line("t", pair) \in Tokens
        BY <1>1, PairValue, WholeLine, WholeNothing, TheLetters
    <2>2. Lines(x.repeats, RepeatLine) \in Tokens
        BY <1>1, WholeRepeats, WholeNothing
    <2> QED BY <2>1, <2>2 DEF Lines
<1>11. S[times] = SdpOf(o, n, i, u, e, p, c, times, <<>>, <<>>)
       /\ S[Append(times, x)] = SdpOf(o, n, i, u, e, p, c, Append(times, x), <<>>, <<>>)
    BY AppendProperties
<1> HIDE DEF S, R, ss, pair
<1>12. Carries(t, TimeLines(x), S[times], S[Append(times, x)])
    BY <1>2, <1>5, <1>7, <1>8, <1>9, <1>10, MoreLines
<1> QED BY <1>11, <1>12

\* Media that the parser can read.
Legible(m) ==
    /\ m.type \in MediaTypes /\ m.proto \in Transports /\ OneOf(m.port, Fitting(16))
    /\ m.formats # <<>> /\ m.ports = <<>> /\ m.bandwidth = <<>>
    /\ \A k \in DOMAIN m.conn : ConnectionBack(m.conn[k])

\* A media is what was read of it, in the end.
LEMMA MediaParts ==
    ASSUME NEW m \in MediaType
    PROVE  /\ m.title \in Optionally(Value) /\ m.conn \in Optionally(ConnectionType)
           /\ m.attributes \in Seq(AttributeType)
           /\ \A x \in Optionally(Value), y \in Optionally(ConnectionType), z \in Seq(AttributeType) :
                  MediaOf(m, x, y, z) \in MediaType
           /\ m.ports = <<>> /\ m.bandwidth = <<>> => m = MediaOf(m, m.title, m.conn, m.attributes)
           /\ Bare(m) = MediaOf(m, <<>>, <<>>, <<>>)
<1>1. /\ m.type \in Word /\ m.port \in Value /\ m.ports \in Optionally(Value)
      /\ m.proto \in Free({SP, NL}) \ {<<>>}
      /\ m.formats \in Seq(Free(Delimiters)) /\ m.title \in Optionally(Value)
      /\ m.conn \in Optionally(ConnectionType) /\ m.bandwidth \in Seq(BandwidthType)
      /\ m.attributes \in Seq(AttributeType)
    BY DEF MediaType
<1>2. <<>> \in Optionally(Value) /\ <<>> \in Seq(BandwidthType)
    BY DEF Optionally
<1>3. ASSUME NEW x \in Optionally(Value), NEW y \in Optionally(ConnectionType), NEW z \in Seq(AttributeType)
      PROVE  MediaOf(m, x, y, z) \in MediaType
    BY <1>1, <1>2 DEF MediaOf, MediaType
<1>4. m.ports = <<>> /\ m.bandwidth = <<>> => m = MediaOf(m, m.title, m.conn, m.attributes)
    BY DEF MediaOf, MediaType
<1>5. Bare(m) = MediaOf(m, <<>>, <<>>, <<>>)
    BY DEF Bare, MediaOf
<1> QED BY <1>1, <1>3, <1>4, <1>5

\* A media line adds a media.
LEMMA SetMore ==
    \A o, n, i, u, e, p, c, time, attributes, media, val :
        Set(SdpOf(o, n, i, u, e, p, c, time, attributes, media), "m", val)
            = SdpOf(o, n, i, u, e, p, c, time, attributes, Append(media, val))
BY DEF Set, SdpOf

\* No values, no lines.
LEMMA NoValues ==
    BandwidthLines(<<>>) = <<>>
<1> DEFINE ss == [k \in DOMAIN <<>> |-> BandwidthLine(<<>>[k])]
<1>1. ss \in [1 .. 0 -> Tokens] /\ 0 \in Nat
    <2>1. DOMAIN <<>> = 1 .. 0
        OBVIOUS
    <2> QED BY <2>1
<1>2. BandwidthLines(<<>>) = FlattenSeq(ss)
    BY DEF BandwidthLines, Lines
<1> HIDE DEF ss
<1>3. ss = <<>>
    <2>1. ss \in Seq(Tokens) /\ Len(ss) = 0
        BY <1>1, FunctionSeq
    <2> QED BY <2>1, EmptySeq
<1>4. FlattenSeq(<<>>) = <<>>
    <2> DEFINE D == {<<>>}
    <2>1. D \in SUBSET Tokens /\ <<>> \in D /\ <<>> \in Seq(D)
        BY WholeNothing
    <2>2. \A v \in D, w \in D : v \o w \in D
        BY JoinNothing, ValueParts
    <2>3. FlattenSeq(<<>>) \in D
        <3> HIDE DEF D
        <3> QED BY <2>1, <2>2, FlattenClosed
    <2> QED BY <2>3
<1> QED BY <1>2, <1>3, <1>4

\* The lines of a media.
LEMMA MediaCarries ==
    ASSUME NEW t \in TidyTexts, NEW o, NEW n, NEW i, NEW u, NEW e, NEW p, NEW c, NEW time,
           NEW attributes, NEW ms \in Seq(MediaType), NEW m \in MediaType, Legible(m)
    PROVE  Carries(t, MediaLines(m, "i"), SdpOf(o, n, i, u, e, p, c, time, attributes, ms),
                   SdpOf(o, n, i, u, e, p, c, time, attributes, Append(ms, m)))
<1> DEFINE S(y) == SdpOf(o, n, i, u, e, p, c, time, attributes, y)
           R == [y \in Seq(AttributeType) |-> S(Append(ms, MediaOf(m, m.title, m.conn, y)))]
           w1 == Line("m", MediaText(m))
           w2 == Optional("i", m.title)
           w3 == ConnectionLine(m.conn)
           w4 == BandwidthLines(m.bandwidth)
           w5 == AttributeLines(m.attributes)
<1>1. t \in Tokens
    BY DEF TidyTexts
<1>2. /\ m.title \in Optionally(Value) /\ m.conn \in Optionally(ConnectionType)
      /\ m.attributes \in Seq(AttributeType)
      /\ \A x \in Optionally(Value), y \in Optionally(ConnectionType), z \in Seq(AttributeType) :
             MediaOf(m, x, y, z) \in MediaType
      /\ m = MediaOf(m, m.title, m.conn, m.attributes)
      /\ Bare(m) = MediaOf(m, <<>>, <<>>, <<>>)
      /\ <<>> \in Optionally(Value) /\ <<>> \in Optionally(ConnectionType) /\ <<>> \in Seq(AttributeType)
    BY MediaParts DEF Legible, Optionally
<1>3. Carries(t, w1, S(ms), S(Append(ms, MediaOf(m, <<>>, <<>>, <<>>))))
    <2>1. MediaText(m) \in Value
        BY MediaTextValue
    <2>2. ASSUME NEW at, Closed(t, at, MediaText(m))
          PROVE  ReadValue("m", t, at) = Read(at + Len(MediaText(m)), Bare(m))
        <3>1. ReadMedia(t, at) = Read(at + Len(MediaText(m)), Bare(m))
            BY <1>1, <2>2, MediaRead DEF Legible
        <3>2. ReadValue("m", t, at) = ReadMedia(t, at)
            BY DEF ReadValue
        <3> QED BY <3>1, <3>2
    <2>3. Carries(t, w1, S(ms), Set(S(ms), "m", Bare(m)))
        <3>1. "m" \in Letters /\ "m" # "r" BY TheLetters
        <3> HIDE DEF S
        <3> QED BY <2>1, <2>2, <3>1, LineCarries
    <2>4. Set(S(ms), "m", Bare(m)) = S(Append(ms, Bare(m)))
        BY SetMore
    <2> HIDE DEF S, w1
    <2> QED BY <1>2, <2>3, <2>4
<1>4. Carries(t, w2, S(Append(ms, MediaOf(m, <<>>, <<>>, <<>>))), S(Append(ms, MediaOf(m, m.title, <<>>, <<>>))))
    <2>1. ASSUME m.title # <<>>
          PROVE  S(Append(ms, MediaOf(m, m.title, <<>>, <<>>)))
                    = Set(S(Append(ms, MediaOf(m, <<>>, <<>>, <<>>))), "i", m.title[1])
        <3>1. m.title = <<m.title[1]>>
            BY <1>2, <2>1, OptionallyParts
        <3> DEFINE val == m.title[1]
        <3> HIDE DEF val
        <3>2. MediaOf(m, <<>>, <<>>, <<>>) \in MediaType /\ MediaOf(m, <<val>>, <<>>, <<>>) \in MediaType
            BY <1>2, <3>1 DEF val
        <3>3. Set(S(Append(ms, MediaOf(m, <<>>, <<>>, <<>>))), "i", val) = S(Append(ms, MediaOf(m, <<val>>, <<>>, <<>>)))
            BY <3>2, SetTitle
        <3> HIDE DEF S
        <3> QED BY <3>1, <3>3 DEF val
    <2> HIDE DEF S
    <2> QED BY <1>2, <2>1, OptionalCarries
<1>5. Carries(t, w3, S(Append(ms, MediaOf(m, m.title, <<>>, <<>>))), S(Append(ms, MediaOf(m, m.title, m.conn, <<>>))))
    <2>1. ASSUME m.conn # <<>>
          PROVE  S(Append(ms, MediaOf(m, m.title, m.conn, <<>>)))
                    = Set(S(Append(ms, MediaOf(m, m.title, <<>>, <<>>))), "c", m.conn[1])
        <3>1. m.conn = <<m.conn[1]>>
            BY <1>2, <2>1, OptionallyParts
        <3> DEFINE val == m.conn[1]
                   title == m.title
        <3> HIDE DEF val, title
        <3>2. MediaOf(m, title, <<>>, <<>>) \in MediaType /\ MediaOf(m, title, <<val>>, <<>>) \in MediaType
            BY <1>2, <3>1 DEF val, title
        <3>3. Set(S(Append(ms, MediaOf(m, title, <<>>, <<>>))), "c", val) = S(Append(ms, MediaOf(m, title, <<val>>, <<>>)))
            BY <3>2, SetConn
        <3> HIDE DEF S
        <3> QED BY <3>1, <3>3 DEF val, title
    <2> HIDE DEF S
    <2>2. \A k \in DOMAIN m.conn : ConnectionBack(m.conn[k])
        BY DEF Legible
    <2> QED BY <1>2, <2>1, <2>2, ConnectionCarries
<1>6. Carries(t, w4, S(Append(ms, MediaOf(m, m.title, m.conn, <<>>))), S(Append(ms, MediaOf(m, m.title, m.conn, <<>>))))
    <2>1. w4 = <<>>
        BY NoValues DEF Legible
    <2> HIDE DEF S, w4
    <2> QED BY <2>1, NoLines
<1>7. Carries(t, w5, R[<<>>], R[m.attributes])
    <2>1. ASSUME NEW x \in Seq(AttributeType), NEW a \in AttributeType
          PROVE  R[Append(x, a)] = Set(R[x], "a", a)
        <3>1. Append(x, a) \in Seq(AttributeType)
            BY AppendProperties
        <3>2. R[x] = S(Append(ms, MediaOf(m, m.title, m.conn, x)))
              /\ R[Append(x, a)] = S(Append(ms, MediaOf(m, m.title, m.conn, Append(x, a))))
            BY <3>1
        <3> DEFINE conn == m.conn
                   title == m.title
        <3> HIDE DEF conn, title
        <3>3. MediaOf(m, title, conn, x) \in MediaType /\ MediaOf(m, title, conn, Append(x, a)) \in MediaType
            BY <1>2, <3>1 DEF conn, title
        <3>4. Set(S(Append(ms, MediaOf(m, title, conn, x))), "a", a) = S(Append(ms, MediaOf(m, title, conn, Append(x, a))))
            BY <3>3, SetAttribute
        <3> HIDE DEF S, R
        <3> QED BY <3>2, <3>4 DEF conn, title
    <2> HIDE DEF R
    <2> QED BY <1>2, <2>1, AttributesCarry
<1>8. R[<<>>] = S(Append(ms, MediaOf(m, m.title, m.conn, <<>>)))
      /\ R[m.attributes] = S(Append(ms, MediaOf(m, m.title, m.conn, m.attributes)))
    <2>1. <<>> \in Seq(AttributeType) /\ m.attributes \in Seq(AttributeType)
        BY <1>2
    <2> HIDE DEF S
    <2> QED BY <2>1
<1>9. w1 \in Tokens /\ w2 \in Tokens /\ w3 \in Tokens /\ w4 \in Tokens /\ w5 \in Tokens
    <2>1. m.bandwidth \in Seq(BandwidthType)
        BY DEF MediaType
    <2>2. w1 \in Whole
        BY MediaTextValue, WholeLine, TheLetters
    <2>3. w2 \in Whole
        BY <1>2, WholeOptional, TheLetters
    <2>4. w3 \in Whole /\ w4 \in Whole /\ w5 \in Whole
        BY <1>2, <2>1, WholeConnection, WholeBandwidths, WholeAttributes
    <2> HIDE DEF w1, w2, w3, w4, w5
    <2> QED BY <2>2, <2>3, <2>4, WholeNothing
<1>10. MediaLines(m, "i") = (((w1 \o w2) \o w3) \o w4) \o w5
    BY DEF MediaLines
<1> DEFINE d0 == S(ms)
           d1 == S(Append(ms, MediaOf(m, <<>>, <<>>, <<>>)))
           d2 == S(Append(ms, MediaOf(m, m.title, <<>>, <<>>)))
           d3 == S(Append(ms, MediaOf(m, m.title, m.conn, <<>>)))
           d5 == S(Append(ms, MediaOf(m, m.title, m.conn, m.attributes)))
<1>11. Carries(t, w1, d0, d1) /\ Carries(t, w2, d1, d2) /\ Carries(t, w3, d2, d3)
       /\ Carries(t, w4, d3, d3) /\ Carries(t, w5, d3, d5)
    <2> HIDE DEF S, R
    <2> QED BY <1>3, <1>4, <1>5, <1>6, <1>7, <1>8
<1>12. d5 = S(Append(ms, m))
    <2> HIDE DEF S
    <2> QED BY <1>2
<1> HIDE DEF w1, w2, w3, w4, w5, d0, d1, d2, d3, d5, R
<1>13. Carries(t, w1 \o w2, d0, d2) /\ w1 \o w2 \in Tokens
    BY <1>1, <1>9, <1>11, MoreLines, JoinedTokens
<1>14. Carries(t, (w1 \o w2) \o w3, d0, d3) /\ (w1 \o w2) \o w3 \in Tokens
    BY <1>1, <1>9, <1>11, <1>13, MoreLines, JoinedTokens
<1>15. Carries(t, ((w1 \o w2) \o w3) \o w4, d0, d3) /\ ((w1 \o w2) \o w3) \o w4 \in Tokens
    BY <1>1, <1>9, <1>11, <1>14, MoreLines, JoinedTokens
<1>16. Carries(t, (((w1 \o w2) \o w3) \o w4) \o w5, d0, d5)
    BY <1>1, <1>9, <1>11, <1>15, MoreLines
<1>17. Carries(t, MediaLines(m, "i"), d0, S(Append(ms, m)))
    <2> HIDE DEF S
    <2> QED BY <1>10, <1>12, <1>16
<1> QED BY <1>17 DEF d0

\* The lines for all times.
LEMMA TimesCarry ==
    ASSUME NEW t \in TidyTexts, NEW o, NEW n, NEW i, NEW u, NEW e, NEW p, NEW c,
           NEW d \in SdpType, \A k \in DOMAIN d.time : TimeBack(d.time[k])
    PROVE  Carries(t, TimesText(d), SdpOf(o, n, i, u, e, p, c, <<>>, <<>>, <<>>),
                   SdpOf(o, n, i, u, e, p, c, d.time, <<>>, <<>>))
<1> DEFINE S == [y \in Seq(TimeType) |-> SdpOf(o, n, i, u, e, p, c, y, <<>>, <<>>)]
           s == d.time
           ss == [k \in DOMAIN s |-> TimeLines(s[k])]
<1>1. t \in Tokens
    BY DEF TidyTexts
<1>2. s \in Seq(TimeType) /\ Len(s) \in Nat /\ DOMAIN s = 1 .. Len(s)
    BY SdpParts, LenProperties
<1>3. ss \in Seq(Tokens) /\ Len(ss) = Len(s) /\ TimesText(d) = FlattenSeq(ss)
    <2>1. ss \in Seq(Whole) /\ Len(ss) = Len(s) /\ TimesText(d) = FlattenSeq(ss)
        BY WholeTimes
    <2> HIDE DEF ss
    <2> QED BY <2>1, WholeSequences
<1>4. ASSUME NEW k \in 1 .. Len(s), NEW y \in Seq(TimeType)
      PROVE  Carries(t, ss[k], S[y], S[Append(y, s[k])])
    <2>1. s[k] \in TimeType /\ TimeBack(s[k]) /\ ss[k] = TimeLines(s[k])
        BY <1>2, ElementOfSeq
    <2>2. Append(y, s[k]) \in Seq(TimeType)
        BY <2>1, AppendProperties
    <2>3. S[y] = SdpOf(o, n, i, u, e, p, c, y, <<>>, <<>>)
          /\ S[Append(y, s[k])] = SdpOf(o, n, i, u, e, p, c, Append(y, s[k]), <<>>, <<>>)
        BY <2>2
    <2> HIDE DEF S, ss, s
    <2>4. Carries(t, TimeLines(s[k]), SdpOf(o, n, i, u, e, p, c, y, <<>>, <<>>),
                  SdpOf(o, n, i, u, e, p, c, Append(y, s[k]), <<>>, <<>>))
        BY <2>1, TimeCarries
    <2> QED BY <2>1, <2>3, <2>4
<1>5. S[<<>>] = SdpOf(o, n, i, u, e, p, c, <<>>, <<>>, <<>>) /\ S[s] = SdpOf(o, n, i, u, e, p, c, s, <<>>, <<>>)
    BY <1>2
<1>6. Len(s) \in 0 .. Len(s)
    BY <1>2
<1> HIDE DEF S, ss, s
<1>7. Carries(t, FlattenSeq(ss), S[<<>>], S[s])
    BY <1>1, <1>2, <1>3, <1>4, <1>6, PrefixesCarry
<1> QED BY <1>3, <1>5, <1>7 DEF s

\* A media that the parser refuses, though this code describes it.
Illegible(m) ==
    /\ m.proto \in Transports /\ OneOf(m.port, Fitting(16)) /\ m.ports = <<>> /\ m.bandwidth = <<>>
    /\ m.type \notin MediaTypes \/ m.formats = <<>>

\* A media that this code writes but cannot read ends the reading.
LEMMA MediaStops ==
    ASSUME NEW t \in TidyTexts, NEW m \in MediaType, Illegible(m), NEW d
    PROVE  Fails(t, MediaLines(m, "i"), d)
<1> DEFINE w1 == Line("m", MediaText(m))
           w2 == Optional("i", m.title)
           w3 == ConnectionLine(m.conn)
           w4 == BandwidthLines(m.bandwidth)
           w5 == AttributeLines(m.attributes)
<1>1. t \in Tokens
    BY DEF TidyTexts
<1>2. ASSUME NEW at, Closed(t, at, MediaText(m)) PROVE ReadValue("m", t, at) = Error
    <2>1. ReadMedia(t, at) = Error
        BY <1>1, <1>2, MediaFails DEF Illegible
    <2> QED BY <2>1 DEF ReadValue
<1>3. Fails(t, w1, d)
    BY <1>2, MediaTextValue, LineStops, TheLetters
<1>4. w1 \in Tokens /\ w2 \in Tokens /\ w3 \in Tokens /\ w4 \in Tokens /\ w5 \in Tokens
    <2>1. m.bandwidth \in Seq(BandwidthType) /\ m.title \in Optionally(Value)
          /\ m.conn \in Optionally(ConnectionType) /\ m.attributes \in Seq(AttributeType)
        BY DEF MediaType
    <2>2. w1 \in Whole
        BY MediaTextValue, WholeLine, TheLetters
    <2>3. w2 \in Whole
        BY <2>1, WholeOptional, TheLetters
    <2>4. w3 \in Whole /\ w4 \in Whole /\ w5 \in Whole
        BY <2>1, WholeConnection, WholeBandwidths, WholeAttributes
    <2> HIDE DEF w1, w2, w3, w4, w5
    <2> QED BY <2>2, <2>3, <2>4, WholeNothing
<1>5. MediaLines(m, "i") = (((w1 \o w2) \o w3) \o w4) \o w5
    BY DEF MediaLines
<1> HIDE DEF w1, w2, w3, w4, w5
<1>6. Fails(t, w1 \o w2, d) /\ w1 \o w2 \in Tokens
    BY <1>1, <1>3, <1>4, FailsBefore, JoinedTokens
<1>7. Fails(t, (w1 \o w2) \o w3, d) /\ (w1 \o w2) \o w3 \in Tokens
    BY <1>1, <1>4, <1>6, FailsBefore, JoinedTokens
<1>8. Fails(t, ((w1 \o w2) \o w3) \o w4, d) /\ ((w1 \o w2) \o w3) \o w4 \in Tokens
    BY <1>1, <1>4, <1>7, FailsBefore, JoinedTokens
<1>9. Fails(t, (((w1 \o w2) \o w3) \o w4) \o w5, d)
    BY <1>1, <1>4, <1>8, FailsBefore
<1> QED BY <1>5, <1>9

\* The lines of all media, or up to the first that is refused.
LEMMA MediasCarry ==
    ASSUME NEW t \in TidyTexts, NEW o, NEW n, NEW i, NEW u, NEW e, NEW p, NEW c, NEW time,
           NEW attributes, NEW d \in SdpType, NEW last \in 0 .. Len(d.media),
           \A k \in 1 .. last : Legible(d.media[k])
    PROVE  /\ last = Len(d.media) =>
                  Carries(t, MediasText(d), SdpOf(o, n, i, u, e, p, c, time, attributes, <<>>),
                          SdpOf(o, n, i, u, e, p, c, time, attributes, d.media))
           /\ last < Len(d.media) /\ Illegible(d.media[last + 1]) =>
                  Fails(t, MediasText(d), SdpOf(o, n, i, u, e, p, c, time, attributes, <<>>))
<1> DEFINE S == [y \in Seq(MediaType) |-> SdpOf(o, n, i, u, e, p, c, time, attributes, y)]
           s == d.media
           ss == [k \in DOMAIN s |-> MediaLines(s[k], "i")]
<1>1. t \in Tokens
    BY DEF TidyTexts
<1>2. s \in Seq(MediaType) /\ Len(s) \in Nat /\ DOMAIN s = 1 .. Len(s)
    BY SdpParts, LenProperties
<1>3. ss \in Seq(Tokens) /\ Len(ss) = Len(s) /\ MediasText(d) = FlattenSeq(ss)
    <2>1. ss \in Seq(Whole) /\ Len(ss) = Len(s)
        BY WholeMedias
    <2>2. MediasText(d) = FlattenSeq(ss)
        BY DEF MediasText
    <2> HIDE DEF ss
    <2> QED BY <2>1, <2>2, WholeSequences
<1>4. ASSUME NEW k \in 1 .. last, NEW y \in Seq(MediaType)
      PROVE  Carries(t, ss[k], S[y], S[Append(y, s[k])])
    <2>1. s[k] \in MediaType /\ Legible(s[k]) /\ ss[k] = MediaLines(s[k], "i")
        <3>1. k \in 1 .. Len(s)
            BY <1>2
        <3> QED BY <1>2, <3>1, ElementOfSeq
    <2>2. Append(y, s[k]) \in Seq(MediaType)
        BY <2>1, AppendProperties
    <2>3. S[y] = SdpOf(o, n, i, u, e, p, c, time, attributes, y)
          /\ S[Append(y, s[k])] = SdpOf(o, n, i, u, e, p, c, time, attributes, Append(y, s[k]))
        BY <2>2
    <2> HIDE DEF S, ss, s
    <2>4. Carries(t, MediaLines(s[k], "i"), SdpOf(o, n, i, u, e, p, c, time, attributes, y),
                  SdpOf(o, n, i, u, e, p, c, time, attributes, Append(y, s[k])))
        BY <2>1, MediaCarries
    <2> QED BY <2>1, <2>3, <2>4
<1>5. S[<<>>] = SdpOf(o, n, i, u, e, p, c, time, attributes, <<>>)
      /\ S[s] = SdpOf(o, n, i, u, e, p, c, time, attributes, s)
    BY <1>2
<1>6. ASSUME last < Len(s), Illegible(s[last + 1]), NEW y \in Seq(MediaType)
      PROVE  Fails(t, ss[last + 1], S[y])
    <2>1. last + 1 \in 1 .. Len(s)
        BY <1>2, <1>6
    <2>2. s[last + 1] \in MediaType /\ ss[last + 1] = MediaLines(s[last + 1], "i")
        BY <1>2, <2>1, ElementOfSeq
    <2> HIDE DEF S, ss, s
    <2> QED BY <1>6, <2>2, MediaStops
<1>7. last \in 0 .. Len(s)
    OBVIOUS
<1> HIDE DEF S, ss, s
<1>8. /\ last = Len(s) => Carries(t, FlattenSeq(ss), S[<<>>], S[s])
      /\ last < Len(s) /\ (\A y \in Seq(MediaType) : Fails(t, ss[last + 1], S[y]))
            => Fails(t, FlattenSeq(ss), S[<<>>])
    BY <1>1, <1>2, <1>3, <1>4, <1>7, PrefixesCarry
<1> QED BY <1>3, <1>5, <1>6, <1>8 DEF s

\* The line before the first that says something.
LEMMA VersionCarries ==
    ASSUME NEW t \in TidyTexts
    PROVE  Carries(t, Line("v", <<"0">>), Empty, Empty) /\ Line("v", <<"0">>) \in Whole
           /\ 1 + Len(Line("v", <<"0">>)) = 5
<1> DEFINE d0 == SdpOf(LocalOrigin, <<>>, <<>>, <<>>, <<>>, <<>>, <<>>, <<>>, <<>>, <<>>)
           w1 == Line("v", <<"0">>)
<1>1. t \in Tokens /\ Empty = d0
    BY DEF TidyTexts, Empty, SdpOf
<1>2. <<"0">> \in Value /\ Len(<<"0">>) = 1
    BY OwnWords, ValueParts DEF NL
<1>3. ASSUME NEW at, Closed(t, at, <<"0">>)
      PROVE  ReadValue("v", t, at) = Read(at + Len(<<"0">>), <<>>)
    <2>1. At(t, at) = "0"
        BY <1>1, <1>3, StandsToken DEF Closed
    <2>2. ReadValue("v", t, at) = Read(at + 1, <<>>)
        BY <2>1 DEF ReadValue, MustRead
    <2> QED BY <1>2, <2>2
<1>4. Carries(t, w1, d0, Set(d0, "v", <<>>))
    <2> HIDE DEF d0
    <2> QED BY <1>2, <1>3, LineCarries, TheLetters
<1>5. Set(d0, "v", <<>>) = d0
    BY SetHead
<1>6. w1 \in Whole
    BY <1>2, WholeLine, TheLetters
<1>8. 1 + Len(w1) = 5
    <2> DEFINE v == <<"0">>
    <2>1. v \in Value /\ Len(v) = 1 /\ w1 = Line("v", v)
        BY <1>2
    <2>2. "v" \in Words \ {NL}
        BY OwnWords, TheLetters
    <2> HIDE DEF v, w1
    <2>3. Len(w1) = Len(v) + 3
        BY <2>1, <2>2, LineTidy
    <2>4. Len(v) = 1
        BY <2>1
    <2>5. Len(w1) = 4
        BY <2>3, <2>4
    <2> QED BY <2>5
<1> HIDE DEF d0, w1
<1>7. Carries(t, w1, Empty, Empty)
    BY <1>1, <1>4, <1>5
<1> QED BY <1>6, <1>7, <1>8 DEF w1

\* The lines before those for times.
LEMMA HeadCarries ==
    ASSUME NEW t \in TidyTexts, NEW d \in SdpType, HeadBack(d)
    PROVE  Carries(t, HeadText(d), Empty,
                   SdpOf(d.origin, d.name, d.info, d.uri, d.email, d.phone, d.conn, <<>>, <<>>, <<>>))
<1> DEFINE o == d.origin
           w1 == Line("v", <<"0">>)
           w2 == Line("o", OriginText(o))
           w3 == Line("s", d.name)
           w4 == Optional("i", d.info)
           w5 == Optional("u", d.uri)
           w6 == Optional("e", d.email)
           w7 == Optional("p", d.phone)
           w8 == ConnectionLine(d.conn)
           n == d.name
           i == d.info
           u == d.uri
           e == d.email
           p == d.phone
           c == d.conn
           d0 == SdpOf(LocalOrigin, <<>>, <<>>, <<>>, <<>>, <<>>, <<>>, <<>>, <<>>, <<>>)
           d2 == SdpOf(o, <<>>, <<>>, <<>>, <<>>, <<>>, <<>>, <<>>, <<>>, <<>>)
           d3 == SdpOf(o, n, <<>>, <<>>, <<>>, <<>>, <<>>, <<>>, <<>>, <<>>)
           d4 == SdpOf(o, n, i, <<>>, <<>>, <<>>, <<>>, <<>>, <<>>, <<>>)
           d5 == SdpOf(o, n, i, u, <<>>, <<>>, <<>>, <<>>, <<>>, <<>>)
           d6 == SdpOf(o, n, i, u, e, <<>>, <<>>, <<>>, <<>>, <<>>)
           d7 == SdpOf(o, n, i, u, e, p, <<>>, <<>>, <<>>, <<>>)
           d8 == SdpOf(o, n, i, u, e, p, c, <<>>, <<>>, <<>>)
<1>1. t \in Tokens /\ Empty = d0
    BY DEF TidyTexts, Empty, SdpOf
<1>2. /\ o \in OriginType /\ n \in Value /\ i \in Optionally(Value) /\ u \in Optionally(Value)
      /\ e \in Optionally(Value) /\ p \in Optionally(Value) /\ c \in Optionally(ConnectionType)
    BY SdpParts
<1>3. /\ AddressBack(o) /\ OneOf(o.id, Fitting(64)) /\ OneOf(o.version, Fitting(64))
      /\ \A k \in DOMAIN c : ConnectionBack(c[k])
    BY DEF HeadBack
<1> HIDE DEF o, n, i, u, e, p, c
<1>4. Carries(t, w1, d0, d0)
    BY <1>1, VersionCarries
<1>5. Carries(t, w2, d0, d2)
    <2>1. OriginText(o) \in Value
        BY <1>2, OriginValue
    <2>2. ASSUME NEW at, Closed(t, at, OriginText(o))
          PROVE  ReadValue("o", t, at) = Read(at + Len(OriginText(o)), o)
        <3>1. ReadOrigin(t, at) = Read(at + Len(OriginText(o)), o)
            BY <1>1, <1>2, <1>3, <2>2, OriginRead
        <3>2. ReadValue("o", t, at) = ReadOrigin(t, at)
            BY DEF ReadValue
        <3> QED BY <3>1, <3>2
    <2>3. Carries(t, w2, d0, Set(d0, "o", o))
        <3> HIDE DEF d0
        <3> QED BY <2>1, <2>2, LineCarries, TheLetters
    <2>4. Set(d0, "o", o) = d2
        BY SetHead
    <2> HIDE DEF d0, d2, w2
    <2> QED BY <2>3, <2>4
<1>6. Carries(t, w3, d2, d3)
    <2>2. ASSUME NEW at, Closed(t, at, n)
          PROVE  ReadValue("s", t, at) = Read(at + Len(n), n)
        <3>1. ReadLine(t, at) = Read(at + Len(n), n)
            BY <1>1, <1>2, <2>2, LineValueRead
        <3>2. ReadValue("s", t, at) = ReadLine(t, at)
            BY DEF ReadValue
        <3> QED BY <3>1, <3>2
    <2>3. Carries(t, Line("s", n), d2, Set(d2, "s", n))
        <3> HIDE DEF d2
        <3> QED BY <1>2, <2>2, LineCarries, TheLetters
    <2>4. Set(d2, "s", n) = d3
        BY SetHead
    <2>5. w3 = Line("s", n)
        BY DEF n
    <2> HIDE DEF d2, d3, w3
    <2> QED BY <2>3, <2>4, <2>5
<1>7. Carries(t, w4, d3, d4)
    <2>1. ASSUME i = <<>> PROVE d4 = d3
        BY <2>1
    <2>2. ASSUME i # <<>> PROVE d4 = Set(d3, "i", i[1])
        <3>1. i = <<i[1]>> BY <1>2, <2>2, OptionallyParts
        <3> DEFINE x == i[1]
        <3> HIDE DEF x
        <3>2. Set(d3, "i", x) = SdpOf(o, n, <<x>>, <<>>, <<>>, <<>>, <<>>, <<>>, <<>>, <<>>) BY SetHead
        <3> QED BY <3>1, <3>2 DEF x
    <2> HIDE DEF d3, d4
    <2> QED BY <1>2, <2>1, <2>2, OptionalCarries DEF i
<1>8. Carries(t, w5, d4, d5)
    <2>1. ASSUME u = <<>> PROVE d5 = d4
        BY <2>1
    <2>2. ASSUME u # <<>> PROVE d5 = Set(d4, "u", u[1])
        <3>1. u = <<u[1]>> BY <1>2, <2>2, OptionallyParts
        <3> DEFINE x == u[1]
        <3> HIDE DEF x
        <3>2. Set(d4, "u", x) = SdpOf(o, n, i, <<x>>, <<>>, <<>>, <<>>, <<>>, <<>>, <<>>) BY SetHead
        <3> QED BY <3>1, <3>2 DEF x
    <2> HIDE DEF d4, d5
    <2> QED BY <1>2, <2>1, <2>2, OptionalCarries DEF u
<1>9. Carries(t, w6, d5, d6)
    <2>1. ASSUME e = <<>> PROVE d6 = d5
        BY <2>1
    <2>2. ASSUME e # <<>> PROVE d6 = Set(d5, "e", e[1])
        <3>1. e = <<e[1]>> BY <1>2, <2>2, OptionallyParts
        <3> DEFINE x == e[1]
        <3> HIDE DEF x
        <3>2. Set(d5, "e", x) = SdpOf(o, n, i, u, <<x>>, <<>>, <<>>, <<>>, <<>>, <<>>) BY SetHead
        <3> QED BY <3>1, <3>2 DEF x
    <2> HIDE DEF d5, d6
    <2> QED BY <1>2, <2>1, <2>2, OptionalCarries DEF e
<1>10. Carries(t, w7, d6, d7)
    <2>1. ASSUME p = <<>> PROVE d7 = d6
        BY <2>1
    <2>2. ASSUME p # <<>> PROVE d7 = Set(d6, "p", p[1])
        <3>1. p = <<p[1]>> BY <1>2, <2>2, OptionallyParts
        <3> DEFINE x == p[1]
        <3> HIDE DEF x
        <3>2. Set(d6, "p", x) = SdpOf(o, n, i, u, e, <<x>>, <<>>, <<>>, <<>>, <<>>) BY SetHead
        <3> QED BY <3>1, <3>2 DEF x
    <2> HIDE DEF d6, d7
    <2> QED BY <1>2, <2>1, <2>2, OptionalCarries DEF p
<1>11. Carries(t, w8, d7, d8)
    <2>1. ASSUME c = <<>> PROVE d8 = d7
        BY <2>1
    <2>2. ASSUME c # <<>> PROVE d8 = Set(d7, "c", c[1])
        <3>1. c = <<c[1]>> BY <1>2, <2>2, OptionallyParts
        <3> DEFINE x == c[1]
        <3> HIDE DEF x
        <3>2. Set(d7, "c", x) = SdpOf(o, n, i, u, e, p, <<x>>, <<>>, <<>>, <<>>) BY SetHead
        <3> QED BY <3>1, <3>2 DEF x
    <2> HIDE DEF d7, d8
    <2>3. Carries(t, ConnectionLine(c), d7, d8)
        BY <1>2, <1>3, <2>1, <2>2, ConnectionCarries
    <2> QED BY <2>3 DEF c
<1>12. w1 \in Tokens /\ w2 \in Tokens /\ w3 \in Tokens /\ w4 \in Tokens /\ w5 \in Tokens
       /\ w6 \in Tokens /\ w7 \in Tokens /\ w8 \in Tokens
    <2>1. <<"0">> \in Value /\ OriginText(o) \in Value
        BY <1>2, OwnWords, ValueParts, OriginValue DEF NL
    <2>2. w1 \in Whole /\ w2 \in Whole
        BY <2>1, WholeLine, TheLetters
    <2>3. w3 \in Whole
        BY <1>2, WholeLine, TheLetters DEF n
    <2>4. w4 \in Whole /\ w5 \in Whole /\ w6 \in Whole /\ w7 \in Whole
        BY <1>2, WholeOptional, TheLetters DEF i, u, e, p
    <2>5. w8 \in Whole
        BY <1>2, WholeConnection DEF c
    <2> HIDE DEF w1, w2, w3, w4, w5, w6, w7, w8
    <2> QED BY <2>2, <2>3, <2>4, <2>5, WholeNothing
<1>13. HeadText(d) = ((((((w1 \o w2) \o w3) \o w4) \o w5) \o w6) \o w7) \o w8
    BY DEF HeadText, o
<1> HIDE DEF w1, w2, w3, w4, w5, w6, w7, w8, d0, d2, d3, d4, d5, d6, d7, d8
<1>14. Carries(t, w1 \o w2, d0, d2) /\ w1 \o w2 \in Tokens
    BY <1>1, <1>4, <1>5, <1>12, MoreLines, JoinedTokens
<1> DEFINE v2 == w1 \o w2
           v3 == v2 \o w3
           v4 == v3 \o w4
           v5 == v4 \o w5
           v6 == v5 \o w6
           v7 == v6 \o w7
<1> HIDE DEF v2
<1>15. Carries(t, v3, d0, d3) /\ v3 \in Tokens
    BY <1>1, <1>6, <1>12, <1>14, MoreLines, JoinedTokens DEF v2
<1> HIDE DEF v3
<1>16. Carries(t, v4, d0, d4) /\ v4 \in Tokens
    BY <1>1, <1>7, <1>12, <1>15, MoreLines, JoinedTokens
<1> HIDE DEF v4
<1>17. Carries(t, v5, d0, d5) /\ v5 \in Tokens
    BY <1>1, <1>8, <1>12, <1>16, MoreLines, JoinedTokens
<1> HIDE DEF v5
<1>18. Carries(t, v6, d0, d6) /\ v6 \in Tokens
    BY <1>1, <1>9, <1>12, <1>17, MoreLines, JoinedTokens
<1> HIDE DEF v6
<1>19. Carries(t, v7, d0, d7) /\ v7 \in Tokens
    BY <1>1, <1>10, <1>12, <1>18, MoreLines, JoinedTokens
<1> HIDE DEF v7
<1>20. Carries(t, v7 \o w8, d0, d8)
    BY <1>1, <1>11, <1>12, <1>19, MoreLines
<1>21. HeadText(d) = v7 \o w8
    BY <1>13 DEF v2, v3, v4, v5, v6, v7
<1>22. Carries(t, HeadText(d), Empty, d8)
    BY <1>1, <1>20, <1>21
<1> QED BY <1>22 DEF d8, o, n, i, u, e, p, c

\* A text stands where it begins.
LEMMA StandsSelf ==
    ASSUME NEW t \in Tokens
    PROVE  Stands(t, 1, t) /\ 1 + Len(t) = Len(t) + 1 /\ Len(t) \in Nat
<1>1. Len(t) \in Nat
    BY LenProperties
<1> QED BY <1>1 DEF Stands

\* A description that this code could have written is read as it was meant,
\* unless one of its media is refused.
LEMMA TextRead ==
    ASSUME NEW d \in SdpType, HeadBack(d), NEW last \in 0 .. Len(d.media),
           \A k \in 1 .. last : Legible(d.media[k])
    PROVE  LET t == SdpTextOf(d, "i")
           IN /\ last = Len(d.media) => ReadSdp(t) = Read(Len(t) + 1, d)
              /\ last < Len(d.media) /\ Illegible(d.media[last + 1]) => ReadSdp(t) = Error
<1> DEFINE t == SdpTextOf(d, "i")
           head == HeadText(d)
           bandwidth == BandwidthLines(d.bandwidth)
           times == TimesText(d)
           zone == Optional("z", d.zone)
           attributes == AttributeLines(d.attributes)
           medias == MediasText(d)
           o == d.origin
           n == d.name
           i == d.info
           u == d.uri
           e == d.email
           p == d.phone
           c == d.conn
           d1 == SdpOf(o, n, i, u, e, p, c, <<>>, <<>>, <<>>)
           d2 == SdpOf(o, n, i, u, e, p, c, d.time, <<>>, <<>>)
           d3 == SdpOf(o, n, i, u, e, p, c, d.time, d.attributes, <<>>)
           d4 == SdpOf(o, n, i, u, e, p, c, d.time, d.attributes, d.media)
<1>1. /\ t = ((((head \o bandwidth) \o times) \o zone) \o attributes) \o medias
      /\ t \in Whole /\ {head, bandwidth, times, zone, attributes, medias} \subseteq Whole
    BY TextParts
<1>2. d = d4
    <2>1. d.bandwidth = <<>> /\ d.zone = <<>>
        BY DEF HeadBack
    <2> QED BY <2>1 DEF SdpOf, SdpType
<1> HIDE DEF t
<1>3. t \in TidyTexts /\ t \in Tokens
    BY <1>1, WholeNothing
<1>4. Carries(t, head, Empty, d1)
    BY <1>3, HeadCarries
<1>5. Carries(t, bandwidth, d1, d1) /\ Carries(t, zone, d2, d2)
    <2>1. bandwidth = <<>> /\ zone = <<>>
        BY NoValues DEF HeadBack, Optional
    <2> HIDE DEF bandwidth, zone, d1, d2
    <2> QED BY <2>1, NoLines
<1>6. Carries(t, times, d1, d2)
    <2>1. \A k \in DOMAIN d.time : TimeBack(d.time[k])
        BY DEF HeadBack
    <2> QED BY <1>3, <2>1, TimesCarry
<1>7. Carries(t, attributes, d2, d3)
    <2> DEFINE S == [y \in Seq(AttributeType) |-> SdpOf(o, n, i, u, e, p, c, d.time, y, <<>>)]
               own == d.attributes
    <2>1. own \in Seq(AttributeType) /\ <<>> \in Seq(AttributeType)
        BY SdpParts
    <2>2. ASSUME NEW x \in Seq(AttributeType), NEW a \in AttributeType
          PROVE  S[Append(x, a)] = Set(S[x], "a", a)
        <3>1. Append(x, a) \in Seq(AttributeType)
            BY AppendProperties
        <3>2. S[x] = SdpOf(o, n, i, u, e, p, c, d.time, x, <<>>)
              /\ S[Append(x, a)] = SdpOf(o, n, i, u, e, p, c, d.time, Append(x, a), <<>>)
            BY <3>1
        <3>3. Set(SdpOf(o, n, i, u, e, p, c, d.time, x, <<>>), "a", a)
                = SdpOf(o, n, i, u, e, p, c, d.time, Append(x, a), <<>>)
            BY SetHead
        <3> HIDE DEF S
        <3> QED BY <3>2, <3>3
    <2>3. S[<<>>] = d2 /\ S[own] = d3
        BY <2>1
    <2> HIDE DEF S, d2, d3, own
    <2>4. Carries(t, AttributeLines(own), S[<<>>], S[own])
        BY <1>3, <2>1, <2>2, AttributesCarry
    <2> QED BY <2>3, <2>4 DEF own
<1>8. /\ last = Len(d.media) => Carries(t, medias, d3, d4)
      /\ last < Len(d.media) /\ Illegible(d.media[last + 1]) => Fails(t, medias, d3)
    BY <1>3, MediasCarry
<1>9. head \in Tokens /\ bandwidth \in Tokens /\ times \in Tokens /\ zone \in Tokens
      /\ attributes \in Tokens /\ medias \in Tokens
    <2> HIDE DEF head, bandwidth, times, zone, attributes, medias
    <2> QED BY <1>1, WholeNothing
<1> HIDE DEF head, bandwidth, times, zone, attributes, medias, d1, d2, d3, d4
<1> DEFINE v1 == head \o bandwidth
           v2 == v1 \o times
           v3 == v2 \o zone
           v4 == v3 \o attributes
<1>10. Carries(t, v1, Empty, d1) /\ v1 \in Tokens
    BY <1>3, <1>4, <1>5, <1>9, MoreLines, JoinedTokens
<1> HIDE DEF v1
<1>11. Carries(t, v2, Empty, d2) /\ v2 \in Tokens
    BY <1>3, <1>6, <1>9, <1>10, MoreLines, JoinedTokens
<1> HIDE DEF v2
<1>12. Carries(t, v3, Empty, d2) /\ v3 \in Tokens
    BY <1>3, <1>5, <1>9, <1>11, MoreLines, JoinedTokens
<1> HIDE DEF v3
<1>13. Carries(t, v4, Empty, d3) /\ v4 \in Tokens
    BY <1>3, <1>7, <1>9, <1>12, MoreLines, JoinedTokens
<1> HIDE DEF v4
<1>14. t = v4 \o medias
    BY <1>1 DEF v1, v2, v3, v4
<1>15. Stands(t, 1, t) /\ 1 + Len(t) = Len(t) + 1 /\ Comes(t, 1, Empty)
    BY <1>3, StandsSelf, ComesFirst
<1>16. ASSUME last = Len(d.media) PROVE ReadSdp(t) = Read(Len(t) + 1, d)
    <2>1. Carries(t, v4 \o medias, Empty, d4)
        BY <1>3, <1>8, <1>9, <1>13, <1>16, MoreLines
    <2>2. Carries(t, t, Empty, d4)
        BY <1>14, <2>1
    <2>3. Comes(t, Len(t) + 1, d4)
        BY <1>15, <2>2 DEF Carries
    <2>4. ReadSdp(t) = Read(Len(t) + 1, d4)
        BY <1>3, <2>3, ComesLast
    <2> QED BY <1>2, <2>4
<1>17. ASSUME last < Len(d.media) /\ Illegible(d.media[last + 1]) PROVE ReadSdp(t) = Error
    <2>1. Fails(t, v4 \o medias, Empty)
        BY <1>3, <1>8, <1>9, <1>13, <1>17, FailsBehind
    <2>2. Fails(t, t, Empty)
        BY <1>14, <2>1
    <2> QED BY <1>15, <2>2 DEF Fails
<1> QED BY <1>16, <1>17 DEF t

-----------------------------------------------------------------------------
(* What the parser can have read of a text, whatever the text is.          *)

Spots(t) == 1 .. Len(t) + 1
Addresses == Ip4 \cup Ip6
OriginsRead ==
    [user : Tokens, id : Digits(64), version : Digits(64), net : Tokens, addr : AddrTypes,
     ip : Addresses]
Network(net) == net # <<>> /\ net[1] = "IN" => net = <<"IN">>
NetworksRead == {net \in Tokens : Network(net)}
ConnectionsRead == [net : NetworksRead, addr : AddrTypes, ip : Addresses]
RepeatsRead == [interval : Digits(63), duration : Digits(63), offsets : Seq(Digits(63))]
TimesRead == [start : Digits(64), stop : Digits(64), repeats : Seq(RepeatsRead)]
AttributesRead == [name : Tokens, value : Optionally(Tokens)]
MediasRead ==
    [type : MediaTypes, port : Digits(16), ports : {<<>>}, proto : Transports,
     formats : Seq(Tokens) \ {<<>>}, title : Optionally(Tokens), conn : Optionally(ConnectionsRead),
     bandwidth : {<<>>}, attributes : Seq(AttributesRead)]
SdpsRead ==
    [origin : OriginsRead, name : Tokens, info : Optionally(Tokens), uri : Optionally(Tokens),
     email : Optionally(Tokens), phone : Optionally(Tokens), conn : Optionally(ConnectionsRead),
     bandwidth : {<<>>}, time : Seq(TimesRead), zone : {<<>>}, attributes : Seq(AttributesRead),
     media : Seq(MediasRead)]

\* A reader stays in the text.
LEMMA Scanned ==
    ASSUME NEW t \in Tokens, NEW at \in Spots(t), NEW stops
    PROVE  /\ ScanUntil(t, at, stops).at \in Spots(t) /\ ScanUntil(t, at, stops).val \in Tokens
           /\ ScanUntil(t, at, stops).ok
           /\ SkipWs(t, at) \in Spots(t) /\ SkipNewline(t, at) \in Spots(t)
<1>1. Len(t) \in Nat /\ at \in 1 .. Len(t) + 1
    BY LenProperties DEF Spots
<1>2. ScanUntil(t, at, stops).at \in at .. Len(t) + 1 /\ ScanUntil(t, at, stops).val \in Tokens
      /\ ScanUntil(t, at, stops).ok
    BY <1>1, ScanRange
<1>3. SkipWs(t, at) \in at .. Len(t) + 1 /\ SkipNewline(t, at) \in at .. Len(t) + 1
    BY <1>1, SkipRange, OwnWords DEF SkipWs, SkipNewline
<1> QED BY <1>1, <1>2, <1>3 DEF Spots

\* Where a number was read there is one.
LEMMA Numbered ==
    ASSUME NEW t \in Tokens, NEW at \in Spots(t), NEW bits, ScanNumber(t, at, bits).ok
    PROVE  ScanNumber(t, at, bits).at \in Spots(t) /\ ScanNumber(t, at, bits).val \in Digits(bits)
<1>1. Len(t) \in Nat /\ at \in Nat \ {0}
    BY LenProperties DEF Spots
<1>2. /\ at \in 1 .. Len(t) /\ ScanNumber(t, at, bits).at = at + 1
      /\ ScanNumber(t, at, bits).val \in Digits(bits)
    BY <1>1, NumberRange
<1> QED BY <1>1, <1>2 DEF Spots

\* The one word of a value.
LEMMA OneOfIs ==
    ASSUME NEW v \in Tokens, NEW S, OneOf(v, S)
    PROVE  v[1] \in S
BY OneWord

\* What is read of an "o=" line.
LEMMA OriginOut ==
    ASSUME NEW t \in Tokens, NEW at \in Spots(t), ReadOrigin(t, at).ok
    PROVE  ReadOrigin(t, at).at \in Spots(t) /\ ReadOrigin(t, at).val \in OriginsRead
<1> DEFINE user == ScanUntil(t, at, {SP, NL})
           id == ScanNumber(t, SkipWs(t, user.at), 64)
           version == ScanNumber(t, SkipWs(t, id.at), 64)
           net == ScanUntil(t, SkipWs(t, version.at), {SP})
           addr == ScanUntil(t, SkipWs(t, net.at), {SP})
           ip == ScanUntil(t, SkipWs(t, addr.at), {SP, NL})
           o == [user |-> user.val, id |-> id.val, version |-> version.val,
                 net |-> net.val, addr |-> addr.val[1], ip |-> ip.val]
<1>1. ReadOrigin(t, at) =
          IF ~id.ok THEN Error ELSE IF ~version.ok THEN Error
          ELSE IF ~OneOf(addr.val, AddrTypes) THEN Error
          ELSE IF ip.val \in Ip4 \cup Ip6 THEN Read(ip.at, o) ELSE Error
    BY DEF ReadOrigin, Then, IpOf
<1>2. ~Error.ok
    BY DEF Error
<1>3. user.at \in Spots(t) /\ user.val \in Tokens
    BY Scanned
<1> HIDE DEF user
<1>4. ASSUME id.ok PROVE id.at \in Spots(t) /\ id.val \in Digits(64)
    BY <1>3, <1>4, Scanned, Numbered
<1> HIDE DEF id
<1>5. ASSUME id.ok, version.ok PROVE version.at \in Spots(t) /\ version.val \in Digits(64)
    BY <1>4, <1>5, Scanned, Numbered
<1> HIDE DEF version
<1>6. ASSUME id.ok, version.ok PROVE net.at \in Spots(t) /\ net.val \in Tokens
    BY <1>5, <1>6, Scanned
<1> HIDE DEF net
<1>7. ASSUME id.ok, version.ok PROVE addr.at \in Spots(t) /\ addr.val \in Tokens
    BY <1>6, <1>7, Scanned
<1> HIDE DEF addr
<1>8. ASSUME id.ok, version.ok PROVE ip.at \in Spots(t) /\ ip.val \in Tokens
    BY <1>7, <1>8, Scanned
<1> HIDE DEF ip
<1>9. id.ok /\ version.ok /\ OneOf(addr.val, AddrTypes) /\ ip.val \in Ip4 \cup Ip6
      /\ ReadOrigin(t, at) = Read(ip.at, o)
    <2> HIDE DEF o
    <2> QED BY <1>1, <1>2
<1>10. o \in OriginsRead
    <2>1. user.val \in Tokens /\ id.val \in Digits(64) /\ version.val \in Digits(64)
          /\ net.val \in Tokens /\ addr.val[1] \in AddrTypes /\ ip.val \in Addresses
        BY <1>3, <1>4, <1>5, <1>6, <1>7, <1>8, <1>9, OneOfIs DEF Addresses
    <2> QED BY <2>1 DEF OriginsRead
<1>11. ip.at \in Spots(t)
    BY <1>8, <1>9
<1> HIDE DEF o
<1> QED BY <1>9, <1>10, <1>11 DEF Read

\* What is read of a "c=" line.
LEMMA ConnectionOut ==
    ASSUME NEW t \in Tokens, NEW at \in Spots(t), ReadConnection(t, at).ok
    PROVE  ReadConnection(t, at).at \in Spots(t) /\ ReadConnection(t, at).val \in ConnectionsRead
<1> DEFINE scan == ScanUntil(t, at, {SP})
           net == IF At(t, at) = "IN" THEN Read(at + 1, <<"IN">>) ELSE scan
           addr == SkipWs(t, net.at)
           ip == ReadLine(t, SkipWs(t, addr + 1))
           c == [net |-> net.val, addr |-> t[addr], ip |-> ip.val]
<1>1. ReadConnection(t, at) =
          IF At(t, addr) \notin AddrTypes THEN Error
          ELSE IF ip.val \in Ip4 \cup Ip6 THEN Read(ip.at, c) ELSE Error
    BY DEF ReadConnection, IpOf
<1>2. ~Error.ok
    BY DEF Error
<1>3. net.at \in Spots(t) /\ net.val \in NetworksRead
    <2>1. Len(t) \in Nat /\ at \in 1 .. Len(t) + 1
        BY LenProperties DEF Spots
    <2>2. CASE At(t, at) = "IN"
        <3>1. "IN" # "end" /\ "IN" \in Words
            BY OwnWords
        <3>2. at + 1 \in Spots(t)
            BY <2>1, <2>2, <3>1 DEF At, Spots
        <3>3. <<"IN">> \in NetworksRead
            BY <3>1 DEF NetworksRead, Network, Tokens
        <3> QED BY <2>2, <3>2, <3>3 DEF Read
    <2>3. CASE At(t, at) # "IN"
        <3>1. /\ scan.at \in at .. Len(t) + 1 /\ scan.val \in Tokens
              /\ scan.val = SubSeq(t, at, scan.at - 1) /\ Len(scan.val) = scan.at - at
            BY <2>1, ScanRange
        <3> HIDE DEF scan
        <3>2. ASSUME scan.val # <<>> PROVE scan.val[1] # "IN"
            <4>1. Len(scan.val) \in Nat \ {0}
                BY <3>1, <3>2 DEF Tokens
            <4>2. at < scan.at /\ at \in 1 .. Len(t) /\ scan.at - 1 \in Int
                BY <2>1, <3>1, <4>1
            <4>3. \A i \in at .. scan.at - 1 : t[i] \in Words
                <5>1. t \in [1 .. Len(t) -> Words]
                    BY DEF Tokens
                <5>2. \A i \in at .. scan.at - 1 : i \in 1 .. Len(t)
                    BY <2>1, <3>1, <4>2
                <5> QED BY <5>1, <5>2
            <4>4. \A i \in 1 .. scan.at - 1 - at + 1 : SubSeq(t, at, scan.at - 1)[i] = t[at + i - 1]
                <5>1. at \in Int
                    BY <2>1
                <5> QED BY <4>2, <4>3, <5>1, SubSeqProperties
            <4>5. 1 \in 1 .. scan.at - 1 - at + 1 /\ at + 1 - 1 = at
                <5> DEFINE e == scan.at
                <5>1. at \in Nat /\ e \in Nat /\ at < e
                    BY <2>1, <3>1, <4>2
                <5> HIDE DEF e
                <5>2. 1 \in 1 .. e - 1 - at + 1 /\ at + 1 - 1 = at
                    BY <5>1
                <5> QED BY <5>2 DEF e
            <4>6. scan.val[1] = t[at]
                BY <3>1, <4>4, <4>5
            <4>7. At(t, at) = t[at]
                BY <4>2 DEF At
            <4> QED BY <2>3, <4>6, <4>7
        <3>3. scan.val \in NetworksRead
            BY <3>1, <3>2 DEF NetworksRead, Network
        <3>4. scan.at \in Spots(t)
            BY <2>1, <3>1 DEF Spots
        <3> QED BY <2>3, <3>3, <3>4
    <2> QED BY <2>2, <2>3
<1> HIDE DEF scan, net
<1>4. addr \in Spots(t)
    BY <1>3, Scanned
<1> HIDE DEF addr
<1>5. At(t, addr) \in AddrTypes /\ ip.val \in Ip4 \cup Ip6 /\ ReadConnection(t, at) = Read(ip.at, c)
    <2> HIDE DEF c, ip
    <2> QED BY <1>1, <1>2
<1>6. addr \in 1 .. Len(t) /\ t[addr] \in AddrTypes /\ addr + 1 \in Spots(t)
    <2>1. "end" \notin AddrTypes /\ Len(t) \in Nat
        BY OwnWords, LenProperties
    <2> QED BY <1>4, <1>5, <2>1 DEF At, Spots
<1>7. ip.at \in Spots(t) /\ ip.val \in Tokens
    BY <1>6, Scanned DEF ReadLine
<1> HIDE DEF ip
<1>8. c \in ConnectionsRead
    BY <1>3, <1>5, <1>6, <1>7 DEF ConnectionsRead, Addresses
<1> HIDE DEF c
<1> QED BY <1>5, <1>7, <1>8 DEF Read

\* A bandwidth is never read: its colon is no number.
LEMMA BandwidthOut ==
    ASSUME NEW t \in Tokens, NEW at \in Spots(t)
    PROVE  ReadBandwidth(t, at) = Error
<1> DEFINE type == ScanUntil(t, at, {":"})
           n == ScanNumber(t, type.at, 64)
<1>1. ReadBandwidth(t, at) = IF n.ok THEN Read(n.at, [type |-> type.val, n |-> n.val]) ELSE Error
    BY DEF ReadBandwidth, Then
<1>2. Len(t) \in Nat /\ at \in 1 .. Len(t) + 1
    BY LenProperties DEF Spots
<1>3. type.at \in at .. Len(t) + 1 /\ (type.at <= Len(t) => t[type.at] \in {":"})
    BY <1>2, ScanRange
<1> HIDE DEF type
<1>4. At(t, type.at) \notin Numbers
    BY <1>2, <1>3, OwnWords DEF At
<1>5. ~n.ok
    <2>1. At(t, type.at) \notin Fitting(64)
        BY <1>4, OwnWords
    <2> QED BY <2>1 DEF ScanNumber, Error
<1> QED BY <1>1, <1>5

\* What is read of a "t=" line.
LEMMA TimeOut ==
    ASSUME NEW t \in Tokens, NEW at \in Spots(t), ReadTime(t, at).ok
    PROVE  ReadTime(t, at).at \in Spots(t) /\ ReadTime(t, at).val \in TimesRead
<1> DEFINE start == ScanNumber(t, at, 64)
           ws == MustRead(t, start.at, SP)
           stop == ScanNumber(t, ws.at, 64)
           x == [start |-> start.val, stop |-> stop.val, repeats |-> <<>>]
<1>1. ReadTime(t, at) = IF ~start.ok THEN Error ELSE IF ~ws.ok THEN Error
                        ELSE IF ~stop.ok THEN Error ELSE Read(stop.at, x)
    BY DEF ReadTime, Then
<1>2. ~Error.ok
    BY DEF Error
<1>3. start.ok /\ ws.ok /\ stop.ok /\ ReadTime(t, at) = Read(stop.at, x)
    <2> HIDE DEF start, ws, stop, x
    <2> QED BY <1>1, <1>2
<1>4. start.at \in Spots(t) /\ start.val \in Digits(64)
    BY <1>3, Numbered
<1>5. ws.at \in Spots(t)
    <2> HIDE DEF start
    <2>1. At(t, start.at) = SP /\ ws.at = start.at + 1
        BY <1>3 DEF MustRead, Error, Read
    <2>2. SP # "end" /\ Len(t) \in Nat
        BY LenProperties DEF SP
    <2> HIDE DEF ws
    <2> QED BY <1>4, <2>1, <2>2 DEF At, Spots
<1> HIDE DEF ws
<1>6. stop.at \in Spots(t) /\ stop.val \in Digits(64)
    BY <1>3, <1>5, Numbered
<1> HIDE DEF start, stop
<1>7. x \in TimesRead
    BY <1>4, <1>6 DEF TimesRead
<1> HIDE DEF x
<1> QED BY <1>3, <1>6, <1>7 DEF Read

\* What is read of an "r=" line.
LEMMA RepeatOut ==
    ASSUME NEW t \in Tokens, NEW at \in Spots(t), ReadRepeat(t, at).ok
    PROVE  ReadRepeat(t, at).at \in Spots(t) /\ ReadRepeat(t, at).val \in RepeatsRead
<1> DEFINE interval == ScanNumber(t, at, 63)
           duration == ScanNumber(t, SkipWs(t, interval.at), 63)
           offsets == ReadList(t, duration.at, Number(t))
           x == [interval |-> interval.val, duration |-> duration.val, offsets |-> offsets.val]
<1>1. ReadRepeat(t, at) = IF ~interval.ok THEN Error ELSE IF ~duration.ok THEN Error
                          ELSE IF ~offsets.ok THEN Error ELSE Read(offsets.at, x)
    BY DEF ReadRepeat, Then, Number
<1>2. ~Error.ok
    BY DEF Error
<1>3. interval.ok /\ duration.ok /\ offsets.ok /\ ReadRepeat(t, at) = Read(offsets.at, x)
    <2> HIDE DEF interval, duration, offsets, x
    <2> QED BY <1>1, <1>2
<1>4. interval.at \in Spots(t) /\ interval.val \in Digits(63)
    BY <1>3, Numbered
<1> HIDE DEF interval
<1>5. duration.at \in Spots(t) /\ duration.val \in Digits(63)
    BY <1>3, <1>4, Scanned, Numbered
<1> HIDE DEF duration
<1>6. offsets.at \in Spots(t) /\ offsets.val \in Seq(Digits(63))
    <2>1. Len(t) \in Nat /\ duration.at \in 1 .. Len(t) + 1
        BY <1>5, LenProperties DEF Spots
    <2>2. offsets.at \in duration.at .. Len(t) + 1 /\ offsets.val \in Seq(Digits(63))
        BY <1>3, <2>1, ReadersForward, ListRange
    <2> QED BY <2>1, <2>2 DEF Spots
<1> HIDE DEF offsets
<1>7. x \in RepeatsRead
    BY <1>4, <1>5, <1>6 DEF RepeatsRead
<1> HIDE DEF x
<1> QED BY <1>3, <1>6, <1>7 DEF Read

\* What is read of an "a=" line.
LEMMA AttributeOut ==
    ASSUME NEW t \in Tokens, NEW at \in Spots(t), ReadAttribute(t, at).ok
    PROVE  ReadAttribute(t, at).at \in Spots(t) /\ ReadAttribute(t, at).val \in AttributesRead
<1> DEFINE name == ReadToken(t, at)
           value == ReadLine(t, name.at + 1)
           x == [name |-> name.val, value |-> <<value.val>>]
           y == [name |-> name.val, value |-> <<>>]
<1>1. ReadAttribute(t, at) = IF At(t, name.at) = ":" THEN Read(value.at, x) ELSE Read(name.at, y)
    BY DEF ReadAttribute
<1>2. name.at \in Spots(t) /\ name.val \in Tokens
    BY Scanned DEF ReadToken
<1> HIDE DEF name
<1>3. CASE At(t, name.at) = ":"
    <2>1. name.at + 1 \in Spots(t)
        <3>1. ":" # "end" /\ Len(t) \in Nat
            BY LenProperties
        <3> QED BY <1>2, <1>3, <3>1 DEF At, Spots
    <2>2. value.at \in Spots(t) /\ value.val \in Tokens
        BY <2>1, Scanned DEF ReadLine
    <2> HIDE DEF value
    <2>3. <<value.val>> \in Optionally(Tokens)
        BY <2>2 DEF Optionally
    <2>4. x \in AttributesRead
        BY <1>2, <2>3 DEF AttributesRead
    <2> HIDE DEF x
    <2> QED BY <1>1, <1>3, <2>2, <2>4 DEF Read
<1>4. CASE At(t, name.at) # ":"
    <2>1. <<>> \in Optionally(Tokens)
        BY DEF Optionally
    <2>2. y \in AttributesRead
        BY <1>2, <2>1 DEF AttributesRead
    <2> HIDE DEF x, y, value
    <2> QED BY <1>1, <1>2, <1>4, <2>2 DEF Read
<1> QED BY <1>3, <1>4

\* What is read of an "m=" line.
LEMMA MediaOut ==
    ASSUME NEW t \in Whole, NEW at \in Spots(t), ReadMedia(t, at).ok
    PROVE  ReadMedia(t, at).at \in Spots(t) /\ ReadMedia(t, at).val \in MediasRead
<1> DEFINE type == ReadToken(t, at)
           port == ScanNumber(t, SkipWs(t, type.at), 16)
           proto == ScanUntil(t, SkipWs(t, port.at), {SP})
           formats == ReadList(t, proto.at, Token(t))
           name == IF proto.val = <<"UDP">> THEN <<"udp">> ELSE proto.val
           m == [type |-> type.val[1], port |-> port.val, ports |-> <<>>, proto |-> name,
                 formats |-> formats.val, title |-> <<>>, conn |-> <<>>,
                 bandwidth |-> <<>>, attributes |-> <<>>]
<1>1. ReadMedia(t, at) = IF ~OneOf(type.val, MediaTypes) THEN Error
                         ELSE IF ~port.ok THEN Error
                         ELSE IF proto.val \notin Transports \cup {<<"UDP">>} THEN Error
                         ELSE IF ~formats.ok THEN Error ELSE Read(formats.at, m)
    BY DEF ReadMedia, Then, Token
<1>2. ~Error.ok
    BY DEF Error
<1>3. t \in Tokens
    BY WholeNothing
<1>4. /\ OneOf(type.val, MediaTypes) /\ port.ok /\ proto.val \in Transports \cup {<<"UDP">>}
      /\ formats.ok /\ ReadMedia(t, at) = Read(formats.at, m)
    <2> HIDE DEF type, port, proto, formats, m
    <2> QED BY <1>1, <1>2
<1>5. type.at \in Spots(t) /\ type.val \in Tokens
    BY <1>3, Scanned DEF ReadToken
<1> HIDE DEF type
<1>6. port.at \in Spots(t) /\ port.val \in Digits(16)
    BY <1>3, <1>4, <1>5, Scanned, Numbered
<1> HIDE DEF port
<1>7. Len(t) \in Nat /\ t # <<>> => t[Len(t)] = NL
    BY <1>3, LenProperties DEF Whole
<1> DEFINE from == SkipWs(t, port.at)
<1>8. from \in 1 .. Len(t) + 1
    BY <1>3, <1>6, Scanned DEF Spots
<1> HIDE DEF from
<1>9. /\ proto.at \in from .. Len(t) + 1 /\ proto.val = SubSeq(t, from, proto.at - 1)
      /\ proto.val \in Tokens /\ Len(proto.val) = proto.at - from
      /\ proto.at <= Len(t) => t[proto.at] \in {SP}
    BY <1>3, <1>8, ScanRange DEF from
<1>10. Len(proto.val) > 0 /\ \A k \in 1 .. Len(proto.val) : proto.val[k] # NL
    <2> HIDE DEF proto
    <2>1. <<>> \notin Transports \cup {<<"UDP">>}
        BY DEF Transports
    <2>2. proto.val # <<>>
        BY <1>4, <2>1
    <2>3. Len(proto.val) > 0
        BY <1>9, <2>2 DEF Tokens
    <2> QED BY <1>4, <2>3, TransportParts
<1>11. At(t, proto.at) = SP
    <2> HIDE DEF proto, formats
    <2>1. ASSUME proto.at = Len(t) + 1 PROVE FALSE
        <3> DEFINE n == Len(t)
                   k == n - from + 1
        <3>1. from \in 1 .. n /\ proto.at - 1 = n /\ n \in Nat \ {0} /\ k \in 1 .. Len(proto.val)
            BY <1>7, <1>8, <1>9, <1>10, <2>1
        <3>2. t # <<>>
            BY <3>1
        <3>3. t[n] = NL
            BY <1>7, <3>2
        <3>4. proto.val[k] = t[n]
            <4>1. proto.val = SubSeq(t, from, n)
                BY <1>9, <3>1
            <4>2. \A i \in from .. n : t[i] \in Words
                <5>1. t \in [1 .. n -> Words]
                    BY <1>3 DEF Tokens
                <5> HIDE DEF n
                <5> QED BY <3>1, <5>1
            <4> HIDE DEF n, k
            <4>3. \A i \in 1 .. n - from + 1 : SubSeq(t, from, n)[i] = t[from + i - 1]
                <5>1. from \in Int /\ n \in Int
                    BY <3>1
                <5> QED BY <4>2, <5>1, SubSeqProperties
            <4>4. k \in 1 .. n - from + 1 /\ from + k - 1 = n
                BY <3>1 DEF k
            <4>5. SubSeq(t, from, n)[k] = t[from + k - 1]
                BY <4>3, <4>4
            <4> QED BY <4>1, <4>4, <4>5
        <3> QED BY <1>10, <3>1, <3>3, <3>4
    <2>2. proto.at <= Len(t)
        BY <1>7, <1>8, <1>9, <2>1
    <2> QED BY <1>9, <2>2 DEF At
<1>12. formats.at \in Spots(t) /\ formats.val \in Seq(Tokens) /\ formats.val # <<>>
    <2> HIDE DEF proto
    <2>1. proto.at \in 1 .. Len(t) + 1
        BY <1>7, <1>8, <1>9
    <2>2. formats.at \in proto.at .. Len(t) + 1 /\ formats.val \in Seq(Tokens) /\ formats.val # <<>>
        BY <1>3, <1>4, <1>11, <2>1, ReadersForward, ListRange
    <2> HIDE DEF formats
    <2> QED BY <1>7, <2>1, <2>2 DEF Spots
<1>13. type.val[1] \in MediaTypes
    BY <1>4, <1>5, OneOfIs
<1> HIDE DEF proto, formats
<1>14. name \in Transports
    BY <1>4 DEF Transports
<1>15. <<>> \in Optionally(Tokens) /\ <<>> \in Optionally(ConnectionsRead) /\ <<>> \in Seq(AttributesRead)
    BY DEF Optionally
<1> HIDE DEF name
<1>16. m \in MediasRead
    BY <1>6, <1>12, <1>13, <1>14, <1>15 DEF MediasRead
<1> HIDE DEF m
<1> QED BY <1>4, <1>12, <1>16 DEF Read

\* What the lines say.
ValuesRead(letter) ==
    CASE letter = "o" -> OriginsRead
      [] letter \in {"s", "i", "u", "e", "p"} -> Tokens
      [] letter = "c" -> ConnectionsRead
      [] letter = "t" -> TimesRead
      [] letter = "r" -> RepeatsRead
      [] letter = "a" -> AttributesRead
      [] letter = "m" -> MediasRead
      [] OTHER -> {<<>>}

\* What is read of any line.
LEMMA ValueOut ==
    ASSUME NEW t \in Whole, NEW at \in Spots(t), NEW letter \in Chars, ReadValue(letter, t, at).ok
    PROVE  /\ letter # "b"
           /\ ReadValue(letter, t, at).at \in Spots(t)
           /\ ReadValue(letter, t, at).val \in ValuesRead(letter)
<1>1. t \in Tokens
    BY WholeNothing
<1>2. CASE letter = "v"
    <2>1. ReadValue(letter, t, at) = MustRead(t, at, "0")
        BY <1>2 DEF ReadValue
    <2>2. At(t, at) = "0" /\ MustRead(t, at, "0") = Read(at + 1, <<>>)
        BY <2>1 DEF MustRead, Error
    <2>3. at + 1 \in Spots(t)
        <3>1. Len(t) \in Nat /\ "0" # "end"
            BY <1>1, LenProperties
        <3> QED BY <2>2, <3>1 DEF At, Spots
    <2>4. ValuesRead(letter) = {<<>>}
        BY <1>2 DEF ValuesRead
    <2> QED BY <1>2, <2>1, <2>2, <2>3, <2>4 DEF Read
<1>3. CASE letter = "o"
    BY <1>1, <1>3, OriginOut DEF ReadValue, ValuesRead
<1>4. CASE letter \in {"s", "i", "u", "e", "p"}
    <2>1. ReadValue(letter, t, at) = ReadLine(t, at)
        BY <1>4 DEF ReadValue
    <2>2. ReadLine(t, at).at \in Spots(t) /\ ReadLine(t, at).val \in Tokens
        BY <1>1, Scanned DEF ReadLine
    <2>3. ValuesRead(letter) = Tokens
        BY <1>4 DEF ValuesRead
    <2> QED BY <1>4, <2>1, <2>2, <2>3
<1>5. CASE letter = "c"
    BY <1>1, <1>5, ConnectionOut DEF ReadValue, ValuesRead
<1>6. CASE letter = "b"
    <2>1. ReadValue(letter, t, at) = Error
        BY <1>1, <1>6, BandwidthOut DEF ReadValue
    <2> QED BY <2>1 DEF Error
<1>7. CASE letter = "t"
    BY <1>1, <1>7, TimeOut DEF ReadValue, ValuesRead
<1>8. CASE letter = "r"
    BY <1>1, <1>8, RepeatOut DEF ReadValue, ValuesRead
<1>9. CASE letter = "a"
    BY <1>1, <1>9, AttributeOut DEF ReadValue, ValuesRead
<1>10. CASE letter = "m"
    BY <1>10, MediaOut DEF ReadValue, ValuesRead
<1>11. CASE letter \notin Letters \ {"z"}
    <2>1. ReadValue(letter, t, at) = Read(at, <<>>) /\ ValuesRead(letter) = {<<>>}
        BY <1>11 DEF ReadValue, ValuesRead, Letters
    <2>2. letter # "b"
        BY <1>11 DEF Letters
    <2> QED BY <2>1, <2>2 DEF Read
<1> QED BY <1>2, <1>3, <1>4, <1>5, <1>6, <1>7, <1>8, <1>9, <1>10, <1>11 DEF Letters

\* A part of a description read replaced by another one read.
LEMMA SdpReadChanges ==
    ASSUME NEW d \in SdpsRead
    PROVE  /\ \A val \in OriginsRead : [d EXCEPT !.origin = val] \in SdpsRead
           /\ \A val \in Tokens : [d EXCEPT !.name = val] \in SdpsRead
           /\ \A val \in Optionally(Tokens) : [d EXCEPT !.info = val] \in SdpsRead
           /\ \A val \in Optionally(Tokens) : [d EXCEPT !.uri = val] \in SdpsRead
           /\ \A val \in Optionally(Tokens) : [d EXCEPT !.email = val] \in SdpsRead
           /\ \A val \in Optionally(Tokens) : [d EXCEPT !.phone = val] \in SdpsRead
           /\ \A val \in Optionally(ConnectionsRead) : [d EXCEPT !.conn = val] \in SdpsRead
           /\ \A val \in Seq(TimesRead) : [d EXCEPT !.time = val] \in SdpsRead
           /\ \A val \in Seq(AttributesRead) : [d EXCEPT !.attributes = val] \in SdpsRead
           /\ \A val \in Seq(MediasRead) : [d EXCEPT !.media = val] \in SdpsRead
BY DEF SdpsRead

\* The same for a part of a media.
LEMMA MediaReadChanges ==
    ASSUME NEW m \in MediasRead
    PROVE  /\ \A val \in Optionally(Tokens) : [m EXCEPT !.title = val] \in MediasRead
           /\ \A val \in Optionally(ConnectionsRead) : [m EXCEPT !.conn = val] \in MediasRead
           /\ \A val \in Seq(AttributesRead) : [m EXCEPT !.attributes = val] \in MediasRead
BY DEF MediasRead

\* A sequence of one value, of what can be read.
LEMMA Given ==
    ASSUME NEW S, NEW val \in S
    PROVE  <<val>> \in Optionally(S)
BY DEF Optionally

\* The last member of a sequence can be replaced.
LEMMA LastReplaced ==
    ASSUME NEW S, NEW s \in Seq(S), Len(s) > 0
    PROVE  s[Len(s)] \in S /\ \A x \in S : [s EXCEPT ![Len(s)] = x] \in Seq(S)
OBVIOUS

\* What a line adds is again a description that can have been read.
LEMMA SetOut ==
    ASSUME NEW d \in SdpsRead, NEW letter \in Chars \ {"b"}, NEW val \in ValuesRead(letter),
           letter = "r" => d.time # <<>>
    PROVE  Set(d, letter, val) \in SdpsRead
<1> DEFINE last == Len(d.media)
           m == d.media[last]
<1>1. /\ d.media \in Seq(MediasRead) /\ d.time \in Seq(TimesRead) /\ d.attributes \in Seq(AttributesRead)
    BY DEF SdpsRead
<1>2. ASSUME last > 0, NEW x \in MediasRead
      PROVE  [d EXCEPT !.media[last] = x] \in SdpsRead
    <2>1. [d.media EXCEPT ![last] = x] \in Seq(MediasRead)
        BY <1>1, <1>2, LastReplaced
    <2>2. [d EXCEPT !.media = [d.media EXCEPT ![last] = x]] \in SdpsRead
        BY <2>1, SdpReadChanges
    <2>3. [d EXCEPT !.media[last] = x] = [d EXCEPT !.media = [d.media EXCEPT ![last] = x]]
        OBVIOUS
    <2> QED BY <2>2, <2>3
<1>3. last > 0 => m \in MediasRead
    BY <1>1, LastReplaced
<1>4. CASE letter = "v" \/ letter \notin Letters \ {"z"}
    BY <1>4 DEF Set, Letters
<1>5. CASE letter = "o"
    BY <1>5, SdpReadChanges DEF Set, ValuesRead
<1>6. CASE letter = "s"
    BY <1>6, SdpReadChanges DEF Set, ValuesRead
<1>7. CASE letter = "i"
    <2>1. val \in Tokens /\ <<val>> \in Optionally(Tokens)
        BY <1>7, Given DEF ValuesRead
    <2>2. CASE last > 0
        <3>1. [m EXCEPT !.title = <<val>>] \in MediasRead
            BY <1>3, <2>1, <2>2, MediaReadChanges
        <3> DEFINE x == [m EXCEPT !.title = <<val>>]
        <3>2. [d EXCEPT !.media[last].title = <<val>>] = [d EXCEPT !.media[last] = x]
            OBVIOUS
        <3>3. Set(d, letter, val) = [d EXCEPT !.media[last].title = <<val>>]
            BY <1>7, <2>2 DEF Set
        <3> QED BY <1>2, <2>2, <3>1, <3>2, <3>3
    <2>3. CASE ~(last > 0)
        <3>1. Set(d, letter, val) = [d EXCEPT !.info = <<val>>]
            BY <1>7, <2>3 DEF Set
        <3> QED BY <2>1, <3>1, SdpReadChanges
    <2> QED BY <2>2, <2>3
<1>8. CASE letter = "u"
    <2>1. val \in Tokens /\ <<val>> \in Optionally(Tokens)
        BY <1>8, Given DEF ValuesRead
    <2> QED BY <1>8, <2>1, SdpReadChanges DEF Set
<1>9. CASE letter = "e"
    <2>1. val \in Tokens /\ <<val>> \in Optionally(Tokens)
        BY <1>9, Given DEF ValuesRead
    <2> QED BY <1>9, <2>1, SdpReadChanges DEF Set
<1>10. CASE letter = "p"
    <2>1. val \in Tokens /\ <<val>> \in Optionally(Tokens)
        BY <1>10, Given DEF ValuesRead
    <2> QED BY <1>10, <2>1, SdpReadChanges DEF Set
<1>11. CASE letter = "c"
    <2>1. val \in ConnectionsRead /\ <<val>> \in Optionally(ConnectionsRead)
        BY <1>11, Given DEF ValuesRead
    <2>2. CASE last > 0
        <3>1. [m EXCEPT !.conn = <<val>>] \in MediasRead
            BY <1>3, <2>1, <2>2, MediaReadChanges
        <3> DEFINE x == [m EXCEPT !.conn = <<val>>]
        <3>2. [d EXCEPT !.media[last].conn = <<val>>] = [d EXCEPT !.media[last] = x]
            OBVIOUS
        <3>3. Set(d, letter, val) = [d EXCEPT !.media[last].conn = <<val>>]
            BY <1>11, <2>2 DEF Set
        <3> QED BY <1>2, <2>2, <3>1, <3>2, <3>3
    <2>3. CASE ~(last > 0)
        <3>1. Set(d, letter, val) = [d EXCEPT !.conn = <<val>>]
            BY <1>11, <2>3 DEF Set
        <3> QED BY <2>1, <3>1, SdpReadChanges
    <2> QED BY <2>2, <2>3
<1>12. CASE letter = "t"
    <2>1. val \in TimesRead
        BY <1>12 DEF ValuesRead
    <2>2. Append(d.time, val) \in Seq(TimesRead)
        BY <1>1, <2>1, AppendProperties
    <2>3. Set(d, letter, val) = [d EXCEPT !.time = Append(d.time, val)]
        BY <1>12 DEF Set
    <2> QED BY <2>2, <2>3, SdpReadChanges
<1>13. CASE letter = "r"
    <2> DEFINE n == Len(d.time)
               x == d.time[n]
               y == [x EXCEPT !.repeats = Append(x.repeats, val)]
    <2>1. val \in RepeatsRead
        BY <1>13 DEF ValuesRead
    <2>2. n > 0
        BY <1>1, <1>13, EmptySeq
    <2>3. x \in TimesRead
        BY <1>1, <2>2, LastReplaced
    <2>4. x.repeats \in Seq(RepeatsRead)
        BY <2>3 DEF TimesRead
    <2>5. Append(x.repeats, val) \in Seq(RepeatsRead)
        BY <2>1, <2>4, AppendProperties
    <2>6. y \in TimesRead
        <3> DEFINE rs == Append(x.repeats, val)
        <3> HIDE DEF x, rs
        <3> QED BY <2>3, <2>5 DEF TimesRead, rs
    <2>7. [d.time EXCEPT ![n] = y] \in Seq(TimesRead)
        BY <1>1, <2>2, <2>6, LastReplaced
    <2>8. [d EXCEPT !.time = [d.time EXCEPT ![n] = y]] \in SdpsRead
        BY <2>7, SdpReadChanges
    <2>9. Set(d, letter, val) = [d EXCEPT !.time = [d.time EXCEPT ![n] = y]]
        BY <1>13 DEF Set
    <2> QED BY <2>8, <2>9
<1>14. CASE letter = "a"
    <2>1. val \in AttributesRead
        BY <1>14 DEF ValuesRead
    <2>2. CASE last > 0
        <3> DEFINE own == Append(m.attributes, val)
                   x == [m EXCEPT !.attributes = own]
        <3>1. m.attributes \in Seq(AttributesRead)
            BY <1>3, <2>2 DEF MediasRead
        <3>2. own \in Seq(AttributesRead)
            BY <2>1, <3>1, AppendProperties
        <3>3. x \in MediasRead
            <4> HIDE DEF own, m
            <4> QED BY <1>3, <2>2, <3>2, MediaReadChanges
        <3>4. Set(d, letter, val) = [d EXCEPT !.media[last] = x]
            BY <1>14, <2>2 DEF Set
        <3> QED BY <1>2, <2>2, <3>3, <3>4
    <2>3. CASE ~(last > 0)
        <3>1. Set(d, letter, val) = [d EXCEPT !.attributes = Append(d.attributes, val)]
            BY <1>14, <2>3 DEF Set
        <3>2. Append(d.attributes, val) \in Seq(AttributesRead)
            BY <1>1, <2>1, AppendProperties
        <3> QED BY <3>1, <3>2, SdpReadChanges
    <2> QED BY <2>2, <2>3
<1>15. CASE letter = "m"
    <2>1. val \in MediasRead
        BY <1>15 DEF ValuesRead
    <2>2. Append(d.media, val) \in Seq(MediasRead)
        BY <1>1, <2>1, AppendProperties
    <2>3. Set(d, letter, val) = [d EXCEPT !.media = Append(d.media, val)]
        BY <1>15 DEF Set
    <2> QED BY <2>2, <2>3, SdpReadChanges
<1> QED BY <1>4, <1>5, <1>6, <1>7, <1>8, <1>9, <1>10, <1>11, <1>12, <1>13, <1>14, <1>15 DEF Letters

\* A line that can be read leads to a place in the text, and to such a description.
LEMMA FieldOut ==
    ASSUME NEW t \in Whole, NEW at \in 1 .. Len(t), NEW d, ReadField(t, at, d).ok,
           \A val \in ValuesRead(t[at]) :
               t[at] \in Chars \ {"b"} /\ (t[at] = "r" => d.time # <<>>) => Set(d, t[at], val) \in SdpsRead
    PROVE  /\ ReadField(t, at, d).at \in Spots(t) /\ ReadField(t, at, d).val \in SdpsRead
           /\ ReadField(t, at, d) = Read(ReadField(t, at, d).at, ReadField(t, at, d).val)
<1> DEFINE letter == t[at]
           value == ReadValue(letter, t, at + 2)
<1>1. t \in Tokens /\ Len(t) \in Nat /\ at \in Nat
    BY WholeNothing, LenProperties
<1>2. At(t, at) = letter
    BY DEF At
<1>3. ~Error.ok
    BY DEF Error
<1>4. letter \in Chars /\ At(t, at + 1) = "=" /\ at + 2 \in Spots(t)
    <2>1. letter \in Chars /\ MustRead(t, at + 1, "=").ok
        BY <1>2, <1>3 DEF ReadField, Then
    <2>2. At(t, at + 1) = "="
        BY <1>3, <2>1 DEF MustRead
    <2>3. "=" # "end"
        OBVIOUS
    <2> QED BY <1>1, <2>1, <2>2, <2>3 DEF At, Spots
<1>5. ReadField(t, at, d) = IF ~value.ok THEN Error
                            ELSE IF letter = "r" /\ d.time = <<>> THEN Error
                            ELSE Read(SkipNewline(t, value.at), Set(d, letter, value.val))
    <2>1. MustRead(t, at + 1, "=") = Read(at + 2, <<>>)
        BY <1>1, <1>4 DEF MustRead
    <2> DEFINE equals == MustRead(t, at + 1, "=")
    <2>2. ReadField(t, at, d) =
              IF ~equals.ok THEN Error
              ELSE IF ~ReadValue(letter, t, equals.at).ok THEN Error
              ELSE IF letter = "r" /\ d.time = <<>> THEN Error
              ELSE Read(SkipNewline(t, ReadValue(letter, t, equals.at).at),
                        Set(d, letter, ReadValue(letter, t, equals.at).val))
        <3>1. At(t, at) \in Chars
            BY <1>2, <1>4
        <3> QED BY <3>1 DEF ReadField, Then
    <2>3. equals.ok /\ equals.at = at + 2
        BY <2>1 DEF Read
    <2> HIDE DEF equals, letter
    <2> QED BY <2>2, <2>3
<1>10. \A val \in ValuesRead(letter) :
           letter # "b" /\ (letter = "r" => d.time # <<>>) => Set(d, letter, val) \in SdpsRead
    BY <1>4
<1> HIDE DEF value, letter
<1>6. value.ok /\ (letter = "r" => d.time # <<>>)
      /\ ReadField(t, at, d) = Read(SkipNewline(t, value.at), Set(d, letter, value.val))
    BY <1>3, <1>5
<1>7. letter # "b" /\ value.at \in Spots(t) /\ value.val \in ValuesRead(letter)
    BY <1>4, <1>6, ValueOut DEF value
<1>8. Set(d, letter, value.val) \in SdpsRead
    BY <1>6, <1>7, <1>10
<1>9. SkipNewline(t, value.at) \in Spots(t)
    BY <1>1, <1>7, Scanned
<1> QED BY <1>6, <1>8, <1>9 DEF Read

\* The second line is the one of the origin.
LEMMA OriginStands ==
    ASSUME NEW d \in SdpType
    PROVE  LET t == SdpTextOf(d, "i")
           IN /\ Stands(t, 1, Line("v", <<"0">>)) /\ Stands(t, 5, Line("o", OriginText(d.origin)))
              /\ t \in Whole
<1> DEFINE t == SdpTextOf(d, "i")
           w1 == Line("v", <<"0">>)
           w2 == Line("o", OriginText(d.origin))
           w3 == Line("s", d.name)
           w4 == Optional("i", d.info)
           w5 == Optional("u", d.uri)
           w6 == Optional("e", d.email)
           w7 == Optional("p", d.phone)
           w8 == ConnectionLine(d.conn)
           u1 == BandwidthLines(d.bandwidth)
           u2 == TimesText(d)
           u3 == Optional("z", d.zone)
           u4 == AttributeLines(d.attributes)
           u5 == MediasText(d)
<1>1. /\ t = ((((HeadText(d) \o u1) \o u2) \o u3) \o u4) \o u5
      /\ t \in Whole /\ {u1, u2, u3, u4, u5} \subseteq Whole
    BY TextParts
<1>2. HeadText(d) = ((((((w1 \o w2) \o w3) \o w4) \o w5) \o w6) \o w7) \o w8
    BY DEF HeadText
<1>3. w1 \in Whole
    BY <1>1, VersionCarries, WholeNothing
<1>4. OriginText(d.origin) \in Value
    BY SdpParts, OriginValue
<1>5. w2 \in Whole /\ w3 \in Whole
    BY <1>4, SdpParts, WholeLine, TheLetters
<1>6. w4 \in Whole /\ w5 \in Whole /\ w6 \in Whole /\ w7 \in Whole
    BY SdpParts, WholeOptional, TheLetters
<1>7. w8 \in Whole
    BY SdpParts, WholeConnection
<1>8. 1 + Len(w1) = 5
    BY <1>1, VersionCarries, WholeNothing
<1>9. t \in Tokens
    BY <1>1, WholeNothing
<1>10. Stands(t, 1, t)
    BY <1>9, StandsSelf
<1> HIDE DEF t, w1, w2, w3, w4, w5, w6, w7, w8, u1, u2, u3, u4, u5
<1> DEFINE v2 == w1 \o w2
           v3 == v2 \o w3
           v4 == v3 \o w4
           v5 == v4 \o w5
           v6 == v5 \o w6
           v7 == v6 \o w7
           h == v7 \o w8
           h1 == h \o u1
           h2 == h1 \o u2
           h3 == h2 \o u3
           h4 == h3 \o u4
<1>11. t = h4 \o u5
    BY <1>1, <1>2
<1>12. /\ w1 \in Tokens /\ w2 \in Tokens /\ w3 \in Tokens /\ w4 \in Tokens /\ w5 \in Tokens
       /\ w6 \in Tokens /\ w7 \in Tokens /\ w8 \in Tokens
       /\ u1 \in Tokens /\ u2 \in Tokens /\ u3 \in Tokens /\ u4 \in Tokens /\ u5 \in Tokens
    BY <1>1, <1>3, <1>5, <1>6, <1>7, WholeNothing
<1>13. v2 \in Tokens BY <1>12, JoinedTokens
<1> HIDE DEF v2
<1>14. v3 \in Tokens BY <1>12, <1>13, JoinedTokens
<1> HIDE DEF v3
<1>15. v4 \in Tokens BY <1>12, <1>14, JoinedTokens
<1> HIDE DEF v4
<1>16. v5 \in Tokens BY <1>12, <1>15, JoinedTokens
<1> HIDE DEF v5
<1>17. v6 \in Tokens BY <1>12, <1>16, JoinedTokens
<1> HIDE DEF v6
<1>18. v7 \in Tokens BY <1>12, <1>17, JoinedTokens
<1> HIDE DEF v7
<1>19. h \in Tokens BY <1>12, <1>18, JoinedTokens
<1> HIDE DEF h
<1>20. h1 \in Tokens BY <1>12, <1>19, JoinedTokens
<1> HIDE DEF h1
<1>21. h2 \in Tokens BY <1>12, <1>20, JoinedTokens
<1> HIDE DEF h2
<1>22. h3 \in Tokens BY <1>12, <1>21, JoinedTokens
<1> HIDE DEF h3
<1>23. h4 \in Tokens BY <1>12, <1>22, JoinedTokens
<1> HIDE DEF h4
<1>24. Stands(t, 1, h4) BY <1>9, <1>10, <1>11, <1>12, <1>23, StandsConcat
<1>25. Stands(t, 1, h3) BY <1>9, <1>12, <1>22, <1>24, StandsConcat DEF h4
<1>26. Stands(t, 1, h2) BY <1>9, <1>12, <1>21, <1>25, StandsConcat DEF h3
<1>27. Stands(t, 1, h1) BY <1>9, <1>12, <1>20, <1>26, StandsConcat DEF h2
<1>28. Stands(t, 1, h) BY <1>9, <1>12, <1>19, <1>27, StandsConcat DEF h1
<1>29. Stands(t, 1, v7) BY <1>9, <1>12, <1>18, <1>28, StandsConcat DEF h
<1>30. Stands(t, 1, v6) BY <1>9, <1>12, <1>17, <1>29, StandsConcat DEF v7
<1>31. Stands(t, 1, v5) BY <1>9, <1>12, <1>16, <1>30, StandsConcat DEF v6
<1>32. Stands(t, 1, v4) BY <1>9, <1>12, <1>15, <1>31, StandsConcat DEF v5
<1>33. Stands(t, 1, v3) BY <1>9, <1>12, <1>14, <1>32, StandsConcat DEF v4
<1>34. Stands(t, 1, v2) BY <1>9, <1>12, <1>13, <1>33, StandsConcat DEF v3
<1>35. Stands(t, 1, w1) /\ Stands(t, 1 + Len(w1), w2)
    BY <1>9, <1>12, <1>34, StandsConcat DEF v2
<1>37. Stands(t, 1, w1) /\ Stands(t, 5, w2) /\ t \in Whole
    BY <1>1, <1>8, <1>35
<1> QED BY <1>37 DEF t, w1, w2

\* How far the parser is, in error or with what it can have read.
Sound(t, so) == so.ok => so = Read(so.at, so.val) /\ so.at \in Spots(t) /\ so.val \in SdpsRead

\* A field keeps it so.
LEMMA FieldSound ==
    ASSUME NEW t \in Whole, NEW so, Sound(t, so)
    PROVE  Sound(t, NextField(t, so))
<1>1. CASE ~so.ok \/ At(t, so.at) = "end"
    BY <1>1 DEF NextField
<1>2. CASE so.ok /\ At(t, so.at) # "end"
    <2>1. t \in Tokens /\ Len(t) \in Nat
        BY WholeNothing, LenProperties
    <2>2. so.at \in Spots(t) /\ so.val \in SdpsRead
        BY <1>2 DEF Sound
    <2>3. so.at \in 1 .. Len(t)
        <3>1. so.at \in Nat \ {0} /\ so.at <= Len(t) + 1
            BY <2>1, <2>2 DEF Spots
        <3>2. ~(so.at > Len(t))
            BY <1>2, <2>1, <3>1, EndIsEnd
        <3> QED BY <2>1, <3>1, <3>2
    <2>4. NextField(t, so) = ReadField(t, so.at, so.val)
        BY <1>2 DEF NextField
    <2>5. ASSUME NEW val \in ValuesRead(t[so.at]), t[so.at] \in Chars \ {"b"},
                 t[so.at] = "r" => so.val.time # <<>>
          PROVE  Set(so.val, t[so.at], val) \in SdpsRead
        BY <2>2, <2>5, SetOut
    <2>6. Sound(t, ReadField(t, so.at, so.val))
        BY <2>3, <2>5, FieldOut DEF Sound
    <2> QED BY <2>4, <2>6
<1> QED BY <1>1, <1>2

\* The line of the origin is read first.
LEMMA OriginSound ==
    ASSUME NEW d \in SdpType, ReadSdp(SdpTextOf(d, "i")).ok
    PROVE  \E n \in 1 .. Fields(SdpTextOf(d, "i")) :
               Sound(SdpTextOf(d, "i"), Reading(SdpTextOf(d, "i"))[n])
<1> DEFINE t == SdpTextOf(d, "i")
<1>1. Stands(t, 1, Line("v", <<"0">>)) /\ Stands(t, 5, Line("o", OriginText(d.origin))) /\ t \in Whole
    BY OriginStands
<1>2. ReadSdp(t).ok
    OBVIOUS
<1> HIDE DEF t
<1>3. t \in Tokens /\ t \in TidyTexts
    BY <1>1, WholeNothing
<1>4. Comes(t, 5, Empty)
    <2>1. Carries(t, Line("v", <<"0">>), Empty, Empty)
        BY <1>3, VersionCarries
    <2>2. Comes(t, 1, Empty)
        BY <1>3, ComesFirst
    <2>3. 1 + Len(Line("v", <<"0">>)) = 5
        BY <1>3, VersionCarries
    <2>4. Comes(t, 1 + Len(Line("v", <<"0">>)), Empty)
        BY <1>1, <2>1, <2>2 DEF Carries
    <2> QED BY <2>3, <2>4
<1>5. 5 \in 1 .. Len(t) /\ t[5] = "o"
    <2>1. OriginText(d.origin) \in Value /\ "o" \in Words \ {NL}
        BY SdpParts, OriginValue, OwnWords, TheLetters
    <2> QED BY <1>1, <1>3, <2>1, LineStands
<1>6. PICK n \in Nat : n + 1 \in 1 .. Fields(t) /\ Reading(t)[n + 1] = ReadField(t, 5, Empty)
    BY <1>3, <1>4, <1>5, ComesStep
<1>7. ASSUME NEW val \in ValuesRead(t[5])
      PROVE  Set(Empty, t[5], val) \in SdpsRead
    <2>1. val \in OriginsRead /\ t[5] = "o"
        BY <1>5, <1>7 DEF ValuesRead
    <2>2. Empty = SdpOf(LocalOrigin, <<>>, <<>>, <<>>, <<>>, <<>>, <<>>, <<>>, <<>>, <<>>)
        BY DEF Empty, SdpOf
    <2>3. Set(Empty, "o", val) = SdpOf(val, <<>>, <<>>, <<>>, <<>>, <<>>, <<>>, <<>>, <<>>, <<>>)
        <3>1. Set(SdpOf(LocalOrigin, <<>>, <<>>, <<>>, <<>>, <<>>, <<>>, <<>>, <<>>, <<>>), "o", val)
                = SdpOf(val, <<>>, <<>>, <<>>, <<>>, <<>>, <<>>, <<>>, <<>>, <<>>)
            BY SetHead
        <3> QED BY <2>2, <3>1
    <2>4. /\ <<>> \in Tokens /\ <<>> \in Optionally(Tokens) /\ <<>> \in Optionally(ConnectionsRead)
          /\ <<>> \in Seq(TimesRead) /\ <<>> \in Seq(AttributesRead) /\ <<>> \in Seq(MediasRead)
        BY DEF Tokens, Optionally
    <2>5. SdpOf(val, <<>>, <<>>, <<>>, <<>>, <<>>, <<>>, <<>>, <<>>, <<>>) \in SdpsRead
        BY <2>1, <2>4 DEF SdpOf, SdpsRead
    <2> QED BY <2>1, <2>3, <2>5
<1>8. Sound(t, ReadField(t, 5, Empty))
    BY <1>1, <1>5, <1>7, FieldOut DEF Sound
<1>9. n + 1 \in 1 .. Fields(t) /\ Sound(t, Reading(t)[n + 1])
    BY <1>6, <1>8
<1>10. \E k \in 1 .. Fields(t) : Sound(t, Reading(t)[k])
    BY <1>9
<1> QED BY <1>10 DEF t

\* Whatever the text of a description is read as, it is what can be read.
LEMMA TextOut ==
    ASSUME NEW d \in SdpType, ReadSdp(SdpTextOf(d, "i")).ok
    PROVE  ReadSdp(SdpTextOf(d, "i")).val \in SdpsRead
<1> DEFINE t == SdpTextOf(d, "i")
<1>1. t \in Whole
    BY OriginStands
<1>2. \E k \in 1 .. Fields(t) : Sound(t, Reading(t)[k])
    BY OriginSound
<1>3. ReadSdp(t).ok
    OBVIOUS
<1> HIDE DEF t
<1>4. t \in Tokens
    BY <1>1, WholeNothing
<1>5. PICK a \in 1 .. Fields(t) : Sound(t, Reading(t)[a])
    BY <1>2
<1> DEFINE b == Fields(t)
           T == {n \in 1 .. b : Sound(t, Reading(t)[n])}
<1>6. b \in Nat /\ a \in Nat /\ a \in 1 .. b
    BY <1>4, <1>5, HalfTheTokens
<1>7. \A n \in 1 .. b : Reading(t)[n] = NextField(t, Reading(t)[n - 1])
    BY <1>4, ReadingSteps
<1> HIDE DEF b
<1>8. \A n \in a .. b : n < b /\ n \in T => n + 1 \in T
    <2> TAKE n \in a .. b
    <2> HAVE n < b /\ n \in T
    <2>1. n + 1 \in 1 .. b /\ n + 1 - 1 = n
        BY <1>6
    <2>2. Reading(t)[n + 1] = NextField(t, Reading(t)[n])
        BY <1>7, <2>1
    <2>3. Sound(t, Reading(t)[n + 1])
        BY <1>1, <2>2, FieldSound
    <2> QED BY <2>1, <2>3
<1>9. a \in T
    BY <1>5, <1>6
<1> HIDE DEF T
<1>10. b \in T
    <2>1. \A n \in a .. b : n \in T
        BY <1>6, <1>8, <1>9, InductionTo
    <2>2. b \in a .. b
        BY <1>6
    <2> QED BY <2>1, <2>2
<1>11. Sound(t, ReadSdp(t))
    BY <1>4, <1>10, ReadingSteps DEF T, b
<1>12. ReadSdp(t).val \in SdpsRead
    BY <1>3, <1>11 DEF Sound
<1> QED BY <1>12 DEF t

\* Times that were read can be written again.
LEMMA TimesBackAgain ==
    ASSUME NEW d \in SdpsRead
    PROVE  \A k \in DOMAIN d.time : TimeBack(d.time[k])
<1>1. d.time \in Seq(TimesRead)
    BY DEF SdpsRead
<1>2. ASSUME NEW k \in DOMAIN d.time
      PROVE  TimeBack(d.time[k])
    <2> DEFINE x == d.time[k]
    <2>1. x \in TimesRead
        BY <1>1, ElementOfSeq
    <2> HIDE DEF x
    <2>2. OneOf(x.start, Fitting(64)) /\ OneOf(x.stop, Fitting(64)) 
          /\ x.repeats \in Seq(RepeatsRead)
        BY <2>1 DEF TimesRead, Digits
    <2>3. ASSUME NEW j \in DOMAIN x.repeats
          PROVE  RepeatBack(x.repeats[j])
        <3> DEFINE r == x.repeats[j]
        <3>1. r \in RepeatsRead
            BY <2>2, ElementOfSeq
        <3> HIDE DEF r
        <3>2. OneOf(r.interval, Fitting(63)) /\ OneOf(r.duration, Fitting(63)) 
              /\ r.offsets \in Seq(Digits(63))
            BY <3>1 DEF RepeatsRead, Digits
        <3>3. ASSUME NEW value \in ToSet(r.offsets)
              PROVE  OneOf(value, Fitting(63))
            <4>1. PICK n \in DOMAIN r.offsets : value = r.offsets[n]
                BY DEF ToSet
            <4>2. value \in Digits(63)
                BY <3>2, <4>1, ElementOfSeq
            <4> QED BY <4>2 DEF Digits
        <3>4. RepeatBack(r)
            BY <3>2, <3>3 DEF RepeatBack
        <3> QED BY <3>4 DEF r
    <2> QED BY <2>2, <2>3 DEF TimeBack, x
<1> QED BY <1>2

\* What can have been read, this code can also write.
LEMMA ReadBackAgain ==
    ASSUME NEW d \in SdpsRead, d \in SdpType
    PROVE  HeadBack(d) /\ \A k \in 1 .. Len(d.media) : Legible(d.media[k])
<1>1. /\ d.origin \in OriginsRead /\ d.conn \in Optionally(ConnectionsRead) /\ d.bandwidth = <<>>
      /\ d.time \in Seq(TimesRead) /\ d.zone = <<>> /\ d.media \in Seq(MediasRead)
    BY DEF SdpsRead
<1>2. \A conn \in Optionally(ConnectionsRead) \cap Optionally(ConnectionType) :
          \A k \in DOMAIN conn : ConnectionBack(conn[k])
    <2> TAKE conn \in Optionally(ConnectionsRead) \cap Optionally(ConnectionType)
    <2> TAKE k \in DOMAIN conn
    <2>1. conn \in Seq(ConnectionsRead) /\ conn \in Seq(ConnectionType)
        BY DEF Optionally
    <2>2. conn[k] \in ConnectionsRead /\ conn[k] \in ConnectionType
        BY <2>1, ElementOfSeq
    <2> DEFINE c == conn[k]
    <2> HIDE DEF c
    <2>3. ASSUME c \in ConnectionsRead, c \in ConnectionType
          PROVE  ConnectionBack(c)
        <3>1. c.addr \in AddrTypes /\ c.ip \in Ip4 \cup Ip6 /\ c.net \in NetworksRead
            BY <2>3 DEF ConnectionsRead, Addresses
        <3>2. c.net # <<>>
            BY <2>3 DEF ConnectionType
        <3> QED BY <3>1, <3>2 DEF NetworksRead, Network, ConnectionBack, AddressBack
    <2> QED BY <2>2, <2>3 DEF c
<1>3. /\ OneOf(d.origin.id, Fitting(64)) /\ OneOf(d.origin.version, Fitting(64))
      /\ AddressBack(d.origin)
    BY <1>1 DEF OriginsRead, Digits, Addresses, AddressBack
<1>7. d.conn \in Optionally(ConnectionType) /\ d.media \in Seq(MediaType)
    BY SdpParts
<1>4. \A k \in DOMAIN d.time : TimeBack(d.time[k])
    BY TimesBackAgain
<1>5. HeadBack(d)
    BY <1>1, <1>2, <1>3, <1>4, <1>7 DEF HeadBack
<1>6. ASSUME NEW k \in 1 .. Len(d.media)
      PROVE  Legible(d.media[k])
    <2> DEFINE m == d.media[k]
    <2>1. m \in MediasRead /\ m \in MediaType
        BY <1>1, <1>7, ElementOfSeq
    <2> HIDE DEF m
    <2>2. m.conn \in Optionally(ConnectionsRead) /\ m.conn \in Optionally(ConnectionType)
        BY <2>1 DEF MediasRead, MediaType
    <2>3. Legible(m)
        BY <1>2, <2>1, <2>2 DEF MediasRead, Digits, Legible
    <2> QED BY <2>3 DEF m
<1> QED BY <1>5, <1>6

\* A description is read as it was meant exactly if this code could have
\* read it: when it has a title line for media, or none is needed.
LEMMA ReadAsMeant ==
    ASSUME NEW d \in SdpType
    PROVE  ReadSdp(SdpTextOf(d, "i")) = Read(Len(SdpTextOf(d, "i")) + 1, d)
               <=> HeadBack(d) /\ \A k \in DOMAIN d.media : Legible(d.media[k])
<1> DEFINE t == SdpTextOf(d, "i")
<1>1. d.media \in Seq(MediaType)
    BY SdpParts
<1>2. DOMAIN d.media = 1 .. Len(d.media) /\ Len(d.media) \in Nat
    BY <1>1, LenProperties
<1>3. ASSUME ReadSdp(t) = Read(Len(t) + 1, d)
      PROVE  HeadBack(d) /\ \A k \in DOMAIN d.media : Legible(d.media[k])
    <2>1. ReadSdp(t).ok /\ ReadSdp(t).val = d
        <3> HIDE DEF t
        <3> QED BY <1>3 DEF Read
    <2>2. d \in SdpsRead
        BY <2>1, TextOut
    <2> QED BY <1>2, <2>2, ReadBackAgain
<1>4. ASSUME HeadBack(d), \A k \in DOMAIN d.media : Legible(d.media[k])
      PROVE  ReadSdp(t) = Read(Len(t) + 1, d)
    <2>1. Len(d.media) \in 0 .. Len(d.media)
        BY <1>2
    <2>2. \A k \in 1 .. Len(d.media) : Legible(d.media[k])
        BY <1>2, <1>4
    <2> QED BY <1>4, <2>1, <2>2, TextRead
<1> QED BY <1>3, <1>4

-----------------------------------------------------------------------------
(* What this code describes.                                               *)

Titleless(d) == \A k \in DOMAIN d.media : d.media[k].title = <<>>

\* The letter for titles does not matter where there is no title.
LEMMA TitlelessText ==
    ASSUME NEW d \in SdpType, Titleless(d)
    PROVE  SdpTextOf(d, "t") = SdpTextOf(d, "i")
<1>1. \A k \in DOMAIN d.media : MediaLines(d.media[k], "t") = MediaLines(d.media[k], "i")
    BY DEF Titleless, MediaLines, Optional
<1>2. [k \in DOMAIN d.media |-> MediaLines(d.media[k], "t")]
        = [k \in DOMAIN d.media |-> MediaLines(d.media[k], "i")]
    BY <1>1
<1>3. Lines(d.media, LAMBDA m : MediaLines(m, "t")) = Lines(d.media, LAMBDA m : MediaLines(m, "i"))
    BY <1>2 DEF Lines
<1> QED BY <1>3 DEF SdpTextOf

\* The media that this code describes: the format and type can be such that
\* its own parser refuses them.
OurMedia ==
    {m \in MediaType :
        /\ m.proto \in Transports /\ OneOf(m.port, Fitting(16))
        /\ m.ports = <<>> /\ m.title = <<>> /\ m.conn = <<>> /\ m.bandwidth = <<>>}

\* What this code cannot read of its own media lines.
LEMMA OurLegible ==
    ASSUME NEW m \in OurMedia
    PROVE  /\ Legible(m) <=> m.type \in MediaTypes /\ m.formats # <<>>
           /\ Illegible(m) <=> ~Legible(m)
<1>1. \A k \in DOMAIN m.conn : ConnectionBack(m.conn[k])
    BY DEF OurMedia
<1> QED BY <1>1 DEF OurMedia, Legible, Illegible

\* The words of our descriptions are values.
LEMMA OurValues ==
    /\ \A x \in OurWords : <<x>> \in Free(Delimiters) /\ <<x>> \in Value
    /\ \A x \in Numbers : <<x>> \in Free(Delimiters) /\ <<x>> \in Value
    /\ \A S : \A x \in S : OneOf(<<x>>, S)
    /\ \A x \in Word : <<x>> \in Free(Delimiters) /\ <<x>> \in Value
    /\ <<"IN">> \in Free({SP, NL}) \ {<<>>} /\ <<"-">> \in Free({SP, NL})
<1>1. OurWords \subseteq Word /\ Numbers \subseteq Word
    BY TalkAssumption, TextAssumption DEF Word
<1>2. Word \subseteq Words \ Delimiters /\ NL \in Delimiters /\ SP \in Delimiters
    BY DEF Word, Delimiters
<1>3. ASSUME NEW x \in Word PROVE <<x>> \in Free(Delimiters) /\ <<x>> \in Value /\ <<x>> \in Free({SP, NL})
    BY <1>2, <1>3 DEF Free, Value
<1>4. \A S : \A x \in S : OneOf(<<x>>, S)
    BY DEF OneOf
<1>5. "IN" \in OurWords /\ "-" \in OurWords
    BY DEF OurWords
<1>6. <<"IN">> # <<>>
    OBVIOUS
<1> QED BY <1>1, <1>3, <1>4, <1>5, <1>6

\* The attributes of a codec, and of all of them.
RtpMapOf(codec) ==
    IF OneOf(codec.name, Named) THEN RtpMap(codec.name[1])
    ELSE <<codec.pt, "/">> \o codec.name \o <<"/", codec.rate, "/", codec.channels, "/">>
Fmtp == Attribute("fmtp", << <<"101", SP, "0", "-16">> >>)

\* The attributes of a codec can be written down.
LEMMA CodecParts ==
    ASSUME NEW codec \in CodecType
    PROVE  /\ CodecAttributes(codec) = <<Attribute("rtpmap", <<RtpMapOf(codec)>>)>>
                  \o (IF codec.name = <<"telephone-event">> THEN <<Fmtp>> ELSE <<>>)
           /\ Attribute("rtpmap", <<RtpMapOf(codec)>>) \in AttributeType /\ Fmtp \in AttributeType
<1> DEFINE rtpmap == RtpMapOf(codec)
           fmtp == Fmtp
           first == Attribute("rtpmap", <<rtpmap>>)
<1>1. "rtpmap" \in OurWords /\ "fmtp" \in OurWords /\ "101" \in OurWords /\ "-16" \in OurWords
      /\ "96" \in OurWords /\ "8" \in OurWords /\ "3" \in OurWords /\ "2" \in OurWords
      /\ "PCMU" \in OurWords /\ "PCMA" \in OurWords /\ "GSM" \in OurWords
      /\ "opus" \in OurWords /\ "telephone-event" \in OurWords
    BY DEF OurWords, Named
<1>2. \A x \in OurWords : x \in Words \ {NL}
    BY TalkAssumption DEF Word, Delimiters
<1>3. {"0", "8000", "48000"} \subseteq Words \ {NL} /\ {SP, "/"} \subseteq Words \ {NL}
    BY TalkAssumption, OwnWords DEF NL, SP
<1>4. codec.pt \in Words \ {NL} /\ codec.rate \in Words \ {NL} /\ codec.channels \in Words \ {NL}
      /\ codec.name \in Seq(Words \ {NL})
    <2>1. codec.pt \in Numbers /\ codec.rate \in Numbers /\ codec.channels \in Numbers
          /\ codec.name \in Seq(Words \ Delimiters)
        BY OwnWords DEF CodecType, Free
    <2>2. Words \ Delimiters \subseteq Words \ {NL}
        BY DEF Delimiters
    <2>3. codec.name \in Seq(Words \ {NL})
        BY <2>1, <2>2
    <2> QED BY <2>1, <2>3, OwnWords
<1>5. Value = Seq(Words \ {NL})
    BY DEF Value, Free
<1>6. rtpmap \in Value
    <2>1. RtpMap(codec.name[1]) \in Value
        <3> DEFINE W == Words \ {NL}
        <3>1. /\ "0" \in W /\ SP \in W /\ "PCMU" \in W /\ "/" \in W /\ "8000" \in W /\ "8" \in W
              /\ "PCMA" \in W /\ "3" \in W /\ "GSM" \in W /\ "96" \in W /\ "opus" \in W
              /\ "48000" \in W /\ "2" \in W /\ "101" \in W /\ "telephone-event" \in W
            BY <1>1, <1>2, <1>3
        <3> HIDE DEF W
        <3>2. /\ <<"0", SP, "PCMU", "/", "8000">> \in Seq(W)
              /\ <<"8", SP, "PCMA", "/", "8000">> \in Seq(W)
              /\ <<"3", SP, "GSM", "/", "8000">> \in Seq(W)
              /\ <<"96", SP, "opus", "/", "48000", "/", "2">> \in Seq(W)
              /\ <<"101", SP, "telephone-event", "/", "8000">> \in Seq(W)
            BY <3>1
        <3>3. RtpMap(codec.name[1]) \in Seq(W)
            BY <3>2 DEF RtpMap
        <3> QED BY <1>5, <3>3 DEF W
    <2> DEFINE before == <<codec.pt, "/">>
               after == <<"/", codec.rate, "/", codec.channels, "/">>
    <2>2. before \in Value /\ after \in Value /\ codec.name \in Value
        BY <1>3, <1>4, <1>5
    <2> HIDE DEF before, after
    <2>4. before \o codec.name \o after \in Value
        BY <1>5, <2>2, ConcatProperties
    <2> HIDE DEF rtpmap
    <2>3. rtpmap = RtpMap(codec.name[1]) \/ rtpmap = before \o codec.name \o after
        BY DEF rtpmap, RtpMapOf, before, after
    <2> QED BY <2>1, <2>3, <2>4
<1>7. <<"101", SP, "0", "-16">> \in Value
    BY <1>1, <1>2, <1>3, <1>5
<1> HIDE DEF rtpmap
<1>8. first \in AttributeType /\ fmtp \in AttributeType
    <2>1. <<"rtpmap">> \in Free(Delimiters) /\ <<"fmtp">> \in Free(Delimiters)
        BY <1>1, OurValues
    <2>2. <<rtpmap>> \in Optionally(Value) /\ << <<"101", SP, "0", "-16">> >> \in Optionally(Value)
        BY <1>6, <1>7, Given
    <2> QED BY <2>1, <2>2 DEF Attribute, AttributeType, Fmtp
<1>9. CodecAttributes(codec) = <<first>> \o (IF codec.name = <<"telephone-event">> THEN <<fmtp>> ELSE <<>>)
    BY DEF CodecAttributes, rtpmap, RtpMapOf, Fmtp
<1> QED BY <1>8, <1>9 DEF rtpmap

\* The stream number i of an offer, by itself.
OfferedAttributes(params, i) ==
    Lines(params.streams[i].codecs, CodecAttributes)
    \o (IF i = Len(params.streams)
        THEN <<Attribute("ptime", << <<"20">> >>), Attribute("maxptime", << <<"150">> >>),
               Attribute(params.direction, <<>>)>>
        ELSE <<>>)
OfferedMedia(params, i) ==
    LET s == params.streams[i]
    IN [type |-> s.type, port |-> <<s.port>>, ports |-> <<>>, proto |-> s.proto,
        formats |-> [k \in DOMAIN s.codecs |-> <<s.codecs[k].pt>>],
        title |-> <<>>, conn |-> <<>>, bandwidth |-> <<>>,
        attributes |-> OfferedAttributes(params, i)]

\* One attribute or two.
LEMMA CodecAttributesType ==
    ASSUME NEW codec \in CodecType
    PROVE  CodecAttributes(codec) \in Seq(AttributeType)
<1> DEFINE first == Attribute("rtpmap", <<RtpMapOf(codec)>>)
           rest == IF codec.name = <<"telephone-event">> THEN <<Fmtp>> ELSE <<>>
<1>1. CodecAttributes(codec) = <<first>> \o rest /\ first \in AttributeType /\ Fmtp \in AttributeType
    BY CodecParts
<1> HIDE DEF first
<1>2. <<first>> \in Seq(AttributeType) /\ rest \in Seq(AttributeType)
    BY <1>1
<1> HIDE DEF rest
<1> QED BY <1>1, <1>2, ConcatProperties

\* What holds of the attributes of every codec holds of all.
LEMMA CodecsAttributes ==
    ASSUME NEW codecs \in Seq(CodecType), NEW A,
           \A codec \in CodecType : CodecAttributes(codec) \in Seq(A)
    PROVE  Lines(codecs, CodecAttributes) \in Seq(A)
<1> DEFINE D == Seq(A)
           ss == [k \in DOMAIN codecs |-> CodecAttributes(codecs[k])]
<1>1. \A k \in DOMAIN codecs : ss[k] \in D
    BY ElementOfSeq
<1>2. DOMAIN codecs = 1 .. Len(codecs) /\ Len(codecs) \in Nat
    BY LenProperties
<1>3. ss \in [1 .. Len(codecs) -> D]
    <2> HIDE DEF D
    <2> QED BY <1>1, <1>2
<1>4. Lines(codecs, CodecAttributes) = FlattenSeq(ss)
    BY DEF Lines
<1> HIDE DEF ss
<1>5. ss \in Seq(D)
    <2> HIDE DEF D
    <2> QED BY <1>2, <1>3, FunctionSeq
<1>6. <<>> \in D /\ \A u \in D, v \in D : u \o v \in D
    BY ConcatProperties
<1> HIDE DEF D
<1>7. FlattenSeq(ss) \in D
    BY <1>5, <1>6, FlattenClosed
<1> QED BY <1>4, <1>7 DEF D

\* A protocol can be written down.
LEMMA TransportValue ==
    ASSUME NEW proto \in Transports
    PROVE  proto \in Free({SP, NL}) \ {<<>>}
<1> DEFINE W == Words \ {SP, NL}
<1>1. "udp" \in W /\ "RTP" \in W /\ "/" \in W /\ Profiles \subseteq W
    BY TextAssumption DEF Delimiters, Profiles, SP, NL
<1> HIDE DEF W
<1>2. CASE proto = <<"udp">>
    BY <1>1, <1>2 DEF Free, W
<1>3. CASE proto \in {<<"RTP", "/", profile>> : profile \in Profiles}
    <2>1. PICK profile \in Profiles : proto = <<"RTP", "/", profile>>
        BY <1>3
    <2>2. proto \in Seq(W) /\ proto # <<>>
        BY <1>1, <2>1
    <2> QED BY <2>2 DEF Free, W
<1> QED BY <1>2, <1>3 DEF Transports

\* A media of an offer, and its formats.
LEMMA OfferedType ==
    ASSUME NEW params \in ParamsType, NEW i \in DOMAIN params.streams
    PROVE  /\ OfferedMedia(params, i) \in OurMedia
           /\ \A k \in DOMAIN OfferedMedia(params, i).formats :
                  \E pt \in DOMAIN PayloadType : OfferedMedia(params, i).formats[k] = <<pt>>
<1> DEFINE s == params.streams[i]
           formats == [k \in DOMAIN s.codecs |-> <<s.codecs[k].pt>>]
           attributes == OfferedAttributes(params, i)
           m == OfferedMedia(params, i)
<1>1. s \in StreamType
    BY ElementOfSeq DEF ParamsType
<1> DEFINE codecs == s.codecs
<1>2. s.type \in Word /\ s.proto \in Transports /\ s.port \in Fitting(16) /\ codecs \in Seq(CodecType)
    BY <1>1 DEF StreamType
<1>3. attributes \in Seq(AttributeType)
    <2> DEFINE more == <<Attribute("ptime", << <<"20">> >>), Attribute("maxptime", << <<"150">> >>),
                         Attribute(params.direction, <<>>)>>
    <2>1. "ptime" \in OurWords /\ "maxptime" \in OurWords /\ "20" \in OurWords /\ "150" \in OurWords
          /\ params.direction \in OurWords
        BY DEF OurWords, ParamsType
    <2>2. <<"ptime">> \in Free(Delimiters) /\ <<"maxptime">> \in Free(Delimiters)
          /\ <<"20">> \in Value /\ <<"150">> \in Value /\ <<params.direction>> \in Free(Delimiters)
        BY <2>1, OurValues
    <2>3. << <<"20">> >> \in Optionally(Value) /\ << <<"150">> >> \in Optionally(Value)
          /\ <<>> \in Optionally(Value)
        BY <2>2, Given DEF Optionally
    <2>4. /\ Attribute("ptime", << <<"20">> >>) \in AttributeType
          /\ Attribute("maxptime", << <<"150">> >>) \in AttributeType
          /\ Attribute(params.direction, <<>>) \in AttributeType
        BY <2>2, <2>3 DEF Attribute, AttributeType
    <2>5. more \in Seq(AttributeType) /\ <<>> \in Seq(AttributeType)
        BY <2>4
    <2> HIDE DEF more
    <2>6. Lines(codecs, CodecAttributes) \in Seq(AttributeType)
        BY <1>2, CodecAttributesType, CodecsAttributes
    <2>7. attributes = Lines(codecs, CodecAttributes) \o (IF i = Len(params.streams) THEN more ELSE <<>>)
        BY DEF OfferedAttributes, more
    <2> HIDE DEF attributes, codecs
    <2> QED BY <2>5, <2>6, <2>7, ConcatProperties
<1>4. m = [type |-> s.type, port |-> <<s.port>>, ports |-> <<>>, proto |-> s.proto,
           formats |-> formats, title |-> <<>>, conn |-> <<>>, bandwidth |-> <<>>,
           attributes |-> attributes]
    BY DEF OfferedMedia
<1>5. formats = [k \in DOMAIN codecs |-> <<codecs[k].pt>>]
    OBVIOUS
<1> HIDE DEF codecs
<1>6. \A k \in DOMAIN codecs : codecs[k].pt \in Numbers /\ codecs[k].pt \in DOMAIN PayloadType
    <2> TAKE k \in DOMAIN codecs
    <2>1. codecs[k] \in CodecType
        BY <1>2, ElementOfSeq
    <2> QED BY <2>1 DEF CodecType
<1>7. formats \in Seq(Free(Delimiters))
    <2>1. \A k \in DOMAIN codecs : <<codecs[k].pt>> \in Free(Delimiters)
        BY <1>6, OurValues
    <2>2. DOMAIN codecs = 1 .. Len(codecs) /\ Len(codecs) \in Nat
        BY <1>2, LenProperties
    <2>3. formats \in [1 .. Len(codecs) -> Free(Delimiters)]
        BY <1>5, <2>1, <2>2
    <2> HIDE DEF formats
    <2> QED BY <2>2, <2>3, FunctionSeq
<1>8. \A k \in DOMAIN formats : \E pt \in DOMAIN PayloadType : formats[k] = <<pt>>
    <2> TAKE k \in DOMAIN formats
    <2>1. k \in DOMAIN codecs /\ formats[k] = <<codecs[k].pt>>
        BY <1>5
    <2> QED BY <1>6, <2>1
<1>9. <<s.port>> \in Value /\ OneOf(<<s.port>>, Fitting(16))
    BY <1>2, OwnWords, OurValues
<1>10. s.proto \in Free({SP, NL}) \ {<<>>}
    BY <1>2, TransportValue
<1>11. <<>> \in Optionally(Value) /\ <<>> \in Optionally(ConnectionType) /\ <<>> \in Seq(BandwidthType)
    BY DEF Optionally
<1> HIDE DEF formats, attributes, s
<1>12. m.proto = s.proto /\ m.port = <<s.port>> /\ m.ports = <<>> /\ m.title = <<>> /\ m.conn = <<>>
       /\ m.bandwidth = <<>> /\ m.formats = formats
    BY <1>4
<1>13. m \in MediaType
    <2> HIDE DEF m
    <2> QED BY <1>2, <1>3, <1>4, <1>7, <1>9, <1>10, <1>11 DEF MediaType
<1> HIDE DEF m
<1>14. m \in OurMedia
    BY <1>2, <1>9, <1>12, <1>13 DEF OurMedia
<1> QED BY <1>8, <1>12, <1>14 DEF m

OfferOf(origin, name, conn, time, media) ==
    [Empty EXCEPT !.origin = origin, !.name = name, !.conn = conn, !.time = time, !.media = media]

\* An offer sets five fields of the empty description.
LEMMA OfferedFields ==
    ASSUME NEW origin, NEW name, NEW conn, NEW time, NEW media
    PROVE  OfferOf(origin, name, conn, time, media)
             = [origin |-> origin, name |-> name, info |-> <<>>, uri |-> <<>>, email |-> <<>>,
                phone |-> <<>>, conn |-> conn, bandwidth |-> <<>>, time |-> time, zone |-> <<>>,
                attributes |-> <<>>, media |-> media]
<1> DEFINE F == {"origin", "name", "info", "uri", "email", "phone", "conn", "bandwidth", "time",
                 "zone", "attributes", "media"}
           e == [origin |-> origin, name |-> name, info |-> <<>>, uri |-> <<>>, email |-> <<>>,
                 phone |-> <<>>, conn |-> conn, bandwidth |-> <<>>, time |-> time, zone |-> <<>>,
                 attributes |-> <<>>, media |-> media]
           d == Empty
           r == [d EXCEPT !.origin = origin, !.name = name, !.conn = conn, !.time = time,
                          !.media = media]
<1>1. e = [k \in F |-> e[k]] /\ d = [k \in F |-> d[k]]
    BY DEF Empty
<1>2. /\ d.info = <<>> /\ d.uri = <<>> /\ d.email = <<>> /\ d.phone = <<>> /\ d.bandwidth = <<>>
      /\ d.zone = <<>> /\ d.attributes = <<>>
    BY DEF Empty
<1>3. /\ e.info = <<>> /\ e.uri = <<>> /\ e.email = <<>> /\ e.phone = <<>> /\ e.bandwidth = <<>>
      /\ e.zone = <<>> /\ e.attributes = <<>> /\ e.origin = origin /\ e.name = name
      /\ e.conn = conn /\ e.time = time /\ e.media = media
    OBVIOUS
<1> HIDE DEF d, e
<1>4. r = [k \in F |-> IF k = "media" THEN media ELSE IF k = "time" THEN time
                       ELSE IF k = "conn" THEN conn ELSE IF k = "name" THEN name
                       ELSE IF k = "origin" THEN origin ELSE d[k]]
    <2> DEFINE G == F
    <2>1. d = [k \in G |-> d[k]] /\ {"origin", "name", "conn", "time", "media"} \subseteq G
        BY <1>1
    <2> HIDE DEF G
    <2>2. r = [k \in G |-> IF k = "media" THEN media ELSE IF k = "time" THEN time
                           ELSE IF k = "conn" THEN conn ELSE IF k = "name" THEN name
                           ELSE IF k = "origin" THEN origin ELSE d[k]]
        BY <2>1
    <2> QED BY <2>2 DEF G
<1>5. \A k \in F : e[k] = IF k = "media" THEN media ELSE IF k = "time" THEN time
                          ELSE IF k = "conn" THEN conn ELSE IF k = "name" THEN name
                          ELSE IF k = "origin" THEN origin ELSE d[k]
    BY <1>2, <1>3
<1>6. r = e
    <2> HIDE DEF F, r
    <2> QED BY <1>1, <1>4, <1>5
<1> QED BY <1>6 DEF d, e, OfferOf

\* An offer of this code has a head that can be read, and streams of its own.
LEMMA OfferParts ==
    ASSUME NEW params \in ParamsType
    PROVE  LET o == SdpOffer(params)
               n == Len(params.streams)
           IN /\ o \in SdpType /\ HeadBack(o) /\ n \in Nat
              /\ o.media = [i \in 1 .. n |-> OfferedMedia(params, i)]
              /\ o.media \in Seq(OurMedia) /\ Len(o.media) = n /\ DOMAIN o.media = 1 .. n
<1> DEFINE n == Len(params.streams)
           addr == IF params.ip \in Ip4 THEN "IP4" ELSE "IP6"
           origin == [user |-> <<"-">>, id |-> <<"7">>, version |-> <<"7">>,
                      net |-> <<"IN">>, addr |-> addr, ip |-> params.ip]
           c == [net |-> <<"IN">>, addr |-> addr, ip |-> params.ip]
           time == [start |-> <<"0">>, stop |-> <<"0">>, repeats |-> <<>>]
           media == [i \in 1 .. n |-> OfferedMedia(params, i)]
           o == SdpOffer(params)
<1>1. o = [origin |-> origin, name |-> <<"-">>, info |-> <<>>, uri |-> <<>>, email |-> <<>>,
           phone |-> <<>>, conn |-> <<c>>, bandwidth |-> <<>>, time |-> <<time>>, zone |-> <<>>,
           attributes |-> <<>>, media |-> media]
    <2>1. o = OfferOf(origin, <<"-">>, <<c>>, <<time>>, media)
        BY DEF SdpOffer, OfferedMedia, OfferedAttributes, OfferOf
    <2> DEFINE name == <<"-">>
               conn == <<c>>
               times == <<time>>
    <2>2. o = OfferOf(origin, name, conn, times, media)
        BY <2>1
    <2> HIDE DEF origin, c, time, media, o, name, conn, times
    <2>3. o = [origin |-> origin, name |-> name, info |-> <<>>, uri |-> <<>>, email |-> <<>>,
               phone |-> <<>>, conn |-> conn, bandwidth |-> <<>>, time |-> times, zone |-> <<>>,
               attributes |-> <<>>, media |-> media]
        BY <2>2, OfferedFields
    <2> QED BY <2>3 DEF name, conn, times
<1>2. params.streams \in Seq(StreamType) /\ params.ip \in Ip4 \cup Ip6
    BY DEF ParamsType
<1>3. n \in Nat /\ DOMAIN params.streams = 1 .. n
    BY <1>2, LenProperties
<1>4. \A i \in 1 .. n : OfferedMedia(params, i) \in OurMedia
    BY <1>3, OfferedType
<1>5. media \in Seq(OurMedia) /\ Len(media) = n /\ DOMAIN media = 1 .. n
    <2>1. media \in [1 .. n -> OurMedia]
        <3> HIDE DEF n
        <3> QED BY <1>4
    <2> HIDE DEF media, n
    <2> QED BY <1>3, <2>1, FunctionSeq
<1>6. media \in Seq(MediaType)
    <2> HIDE DEF media, n
    <2>1. \A i \in 1 .. n : media[i] \in MediaType
        BY <1>5, ElementOfSeq DEF OurMedia
    <2> QED BY <1>3, <1>5, <2>1
<1>7. addr \in AddrTypes /\ addr \in Word
    <2>1. AddrTypes \subseteq Word
        BY TextAssumption DEF Word, AddrTypes, Delimiters, NL, SP
    <2> QED BY <2>1 DEF AddrTypes
<1>8. /\ <<"-">> \in Free({SP, NL}) /\ <<"-">> \in Value /\ <<"IN">> \in Free({SP, NL}) \ {<<>>}
      /\ <<"7">> \in Value /\ OneOf(<<"7">>, Fitting(64))
      /\ <<"0">> \in Value /\ OneOf(<<"0">>, Fitting(64))
    <2>1. "-" \in OurWords /\ {"7", "0"} \subseteq Fitting(64) /\ {"7", "0"} \subseteq Numbers
        BY TalkAssumption, OwnWords DEF OurWords
    <2> QED BY <2>1, OurValues
<1> DEFINE ip == params.ip
<1> HIDE DEF addr, ip
<1>9. ip \in Value /\ ip \in Ip4 \cup Ip6
    BY <1>2, AddressWords DEF ip
<1>10. origin \in OriginType /\ c \in ConnectionType
       /\ origin.addr = addr /\ origin.ip = ip /\ c.addr = addr /\ c.ip = ip
       /\ origin.id = <<"7">> /\ origin.version = <<"7">> /\ c.net = <<"IN">>
    BY <1>7, <1>8, <1>9 DEF OriginType, ConnectionType, ip
<1>11. time \in TimeType /\ TimeBack(time)
    <2>1. <<>> \in Seq(RepeatType)
        OBVIOUS
    <2>2. time \in TimeType
        BY <1>8, <2>1 DEF TimeType
    <2>3. time.start = <<"0">> /\ time.stop = <<"0">> /\ time.repeats = <<>>
        OBVIOUS
    <2> HIDE DEF time
    <2>4. TimeBack(time)
        BY <1>8, <2>3 DEF TimeBack
    <2> QED BY <2>2, <2>4
<1>12. AddressBack(origin) /\ ConnectionBack(c)
    <2> HIDE DEF origin, c
    <2> QED BY <1>7, <1>9, <1>10 DEF AddressBack, ConnectionBack
<1> HIDE DEF origin, c, time, media, o
<1>13. /\ <<c>> \in Optionally(ConnectionType) /\ <<time>> \in Seq(TimeType)
       /\ <<>> \in Optionally(Value) /\ <<>> \in Seq(BandwidthType) /\ <<>> \in Seq(AttributeType)
    BY <1>10, <1>11, Given DEF Optionally
<1>14. o \in SdpType
    BY <1>1, <1>6, <1>8, <1>10, <1>13 DEF SdpType
<1>15. o.origin = origin /\ o.conn = <<c>> /\ o.bandwidth = <<>> /\ o.zone = <<>> /\ o.time = <<time>>
       /\ o.media = media
    BY <1>1
<1>16. HeadBack(o)
    <2>1. \A k \in DOMAIN <<c>> : <<c>>[k] = c
        OBVIOUS
    <2>2. \A k \in DOMAIN <<time>> : <<time>>[k] = time
        OBVIOUS
    <2> QED BY <1>8, <1>10, <1>11, <1>12, <1>15, <2>1, <2>2 DEF HeadBack
<1> QED BY <1>3, <1>5, <1>14, <1>15, <1>16 DEF o, media

\* What is kept of a sequence is in the set.
LEMMA FilterIn ==
    ASSUME NEW D, NEW s \in Seq(D), NEW S
    PROVE  Filter(s, S) \in Seq(D) /\ \A k \in DOMAIN Filter(s, S) : Filter(s, S)[k] \in S
<1>1. Filter(s, S) \in Seq(D)
    BY FilterType
<1>2. PICK at : Places(at, Filter(s, S), s, S)
    BY FilterPlaces
<1>3. DOMAIN Filter(s, S) = 1 .. Len(Filter(s, S))
    BY <1>1, LenProperties
<1> QED BY <1>1, <1>2, <1>3 DEF Places

\* The directions of a media.
Directions(m) == {a \in ToSet(m.attributes) : IsDirection(a)}

\* There is always a direction.
LEMMA DirectionIs ==
    ASSUME NEW m, NEW A, m.attributes \in Seq(A)
    PROVE  DirectionOf(m) \in Direction
<1> DEFINE ds == Filter(m.attributes, Directions(m))
<1>1. DirectionOf(m) = IF ds = <<>> THEN "none" ELSE ds[1].name[1]
    BY DEF DirectionOf, Directions
<1>2. ds \in Seq(A) /\ \A k \in DOMAIN ds : ds[k] \in Directions(m)
    BY FilterIn
<1> HIDE DEF ds
<1>3. CASE ds = <<>>
    BY <1>1, <1>3 DEF Direction
<1>4. CASE ds # <<>>
    <2>1. 1 \in DOMAIN ds
        <3>1. Len(ds) \in Nat /\ Len(ds) # 0 /\ DOMAIN ds = 1 .. Len(ds)
            BY <1>2, <1>4, LenProperties, EmptySeq
        <3> QED BY <3>1
    <2>2. IsDirection(ds[1])
        BY <1>2, <2>1 DEF Directions
    <2>3. ds[1].name[1] \in Direction
        BY <2>2 DEF IsDirection, OneOf
    <2> QED BY <1>1, <1>4, <2>3
<1> QED BY <1>3, <1>4

\* The direction of an answer is one, and one that can be written unless it stays.
LEMMA Mirrored ==
    ASSUME NEW x \in Direction, NEW y \in Direction
    PROVE  LET z == AnswerDirection([direction |-> x], [direction |-> y])
           IN /\ y = "none" => z = x
              /\ y # "none" => z \in Direction \ {"none"} /\ z \in OurWords
BY DEF AnswerDirection, Direction, OurWords

\* A media of an answer is one of ours again.
LEMMA AnswerMediaType ==
    ASSUME NEW l \in OurMedia, NEW r, NEW A, r.attributes \in Seq(A)
    PROVE  /\ AnswerMedia(l, r) \in OurMedia
           /\ AnswerMedia(l, r).type = l.type /\ AnswerMedia(l, r).proto = l.proto
           /\ AnswerMedia(l, r).port = l.port
           /\ AnswerMedia(l, r).formats = Filter(l.formats, ToSet(r.formats))
           /\ DirectionOf(AnswerMedia(l, r))
                = AnswerDirection([direction |-> DirectionOf(l)], [direction |-> DirectionOf(r)])
<1> DEFINE to == DirectionOf(r)
           dir == AnswerDirection([direction |-> DirectionOf(l)], [direction |-> to])
           direction == Attribute(dir, <<>>)
           others == {a \in ToSet(l.attributes) : ~IsDirection(a)}
           rest == Filter(l.attributes, others)
           attributes == IF to = "none" THEN l.attributes ELSE Append(rest, direction)
           formats == Filter(l.formats, ToSet(r.formats))
           m == AnswerMedia(l, r)
<1>1. l \in MediaType /\ l.attributes \in Seq(AttributeType) /\ l.formats \in Seq(Free(Delimiters))
    BY DEF OurMedia, MediaType
<1>2. to \in Direction /\ DirectionOf(l) \in Direction
    BY <1>1, DirectionIs
<1>3. m = [l EXCEPT !.formats = formats, !.attributes = attributes]
    BY DEF AnswerMedia
<1>4. formats \in Seq(Free(Delimiters))
    BY <1>1, FilterType
<1>5. rest \in Seq(AttributeType) /\ \A k \in DOMAIN rest : rest[k] \in others
    BY <1>1, FilterIn
<1> HIDE DEF to
<1>6. to = "none" => dir = DirectionOf(l)
    BY <1>2, Mirrored
<1>7. to # "none" => dir \in Direction \ {"none"} /\ dir \in OurWords
    BY <1>2, Mirrored
<1> HIDE DEF dir
<1>8. to # "none" => direction \in AttributeType /\ direction.name = <<dir>>
    <2> SUFFICES ASSUME to # "none" PROVE direction \in AttributeType /\ direction.name = <<dir>>
        OBVIOUS
    <2>1. <<dir>> \in Free(Delimiters)
        BY <1>7, OurValues
    <2>2. <<>> \in Optionally(Value)
        BY DEF Optionally
    <2> QED BY <2>1, <2>2 DEF Attribute, AttributeType
<1> HIDE DEF direction, formats
<1>9. attributes \in Seq(AttributeType)
    <2> HIDE DEF rest
    <2> QED BY <1>1, <1>5, <1>8, AppendProperties
<1>10. to # "none" => Filter(attributes, Directions([attributes |-> attributes])) = <<direction>>
    <2> SUFFICES ASSUME to # "none"
                 PROVE  Filter(attributes, Directions([attributes |-> attributes])) = <<direction>>
        OBVIOUS
    <2> DEFINE S == Directions([attributes |-> attributes])
               D == {a \in AttributeType : ~IsDirection(a)}
    <2>1. attributes = Append(rest, direction)
        OBVIOUS
    <2>2. S = {a \in ToSet(attributes) : IsDirection(a)}
        BY DEF Directions
    <2>3. direction \in AttributeType /\ IsDirection(direction)
        <3>1. direction.name = <<dir>> /\ dir \in Direction \ {"none"} /\ direction \in AttributeType
            BY <1>7, <1>8
        <3>2. OneOf(<<dir>>, Direction \ {"none"})
            BY <3>1 DEF OneOf
        <3> QED BY <3>1, <3>2 DEF IsDirection
    <2>4. rest \in Seq(D)
        <3>1. \A k \in DOMAIN rest : rest[k] \in AttributeType /\ ~IsDirection(rest[k])
            <4> TAKE k \in DOMAIN rest
            <4>1. rest[k] \in others
                BY <1>5
            <4> HIDE DEF rest
            <4>2. rest[k] \in AttributeType
                BY <1>5, ElementOfSeq
            <4> QED BY <4>1, <4>2
        <3> HIDE DEF rest
        <3>2. DOMAIN rest = 1 .. Len(rest) /\ Len(rest) \in Nat /\ rest = [k \in 1 .. Len(rest) |-> rest[k]]
            BY <1>5, LenProperties
        <3>3. rest \in [1 .. Len(rest) -> D]
            BY <3>1, <3>2
        <3> HIDE DEF D
        <3> QED BY <3>2, <3>3
    <2> HIDE DEF rest, attributes
    <2>5. direction \in S
        <3>1. Append(rest, direction) \in Seq(AttributeType)
              /\ Len(Append(rest, direction)) = Len(rest) + 1
              /\ Append(rest, direction)[Len(rest) + 1] = direction /\ Len(rest) \in Nat
            BY <1>5, <2>3, AppendProperties, LenProperties
        <3>2. Len(rest) + 1 \in 1 .. Len(attributes) /\ attributes[Len(rest) + 1] = direction
            BY <2>1, <3>1
        <3>3. DOMAIN attributes = 1 .. Len(attributes)
            BY <1>9, LenProperties
        <3>4. direction \in ToSet(attributes)
            BY <3>2, <3>3 DEF ToSet
        <3> QED BY <2>2, <2>3, <3>4
    <2>6. Filter(Append(rest, direction), S) = Append(Filter(rest, S), direction)
        <3> HIDE DEF S
        <3> QED BY <1>5, <2>3, <2>5, FilterAppend
    <2>7. \A x \in D : x \notin S
        BY <2>2
    <2>8. Filter(rest, S) = <<>>
        <3> HIDE DEF D, S
        <3> QED BY <2>4, <2>7, FilterNone
    <2>9. Append(<<>>, direction) = <<direction>>
        OBVIOUS
    <2> QED BY <2>1, <2>6, <2>8, <2>9
<1>11. /\ m \in MediaType /\ m.attributes = attributes /\ m.formats = formats /\ m.type = l.type
       /\ m.proto = l.proto /\ m.port = l.port /\ m.ports = l.ports /\ m.title = l.title
       /\ m.conn = l.conn /\ m.bandwidth = l.bandwidth
    <2> HIDE DEF attributes, m
    <2> QED BY <1>1, <1>3, <1>4, <1>9 DEF MediaType
<1> HIDE DEF m
<1>12. m \in OurMedia
    BY <1>11 DEF OurMedia
<1>13. DirectionOf(m) = dir
    <2>1. CASE to = "none"
        <3>1. m.attributes = l.attributes
            BY <1>11, <2>1
        <3>2. DirectionOf(m) = DirectionOf(l)
            BY <3>1 DEF DirectionOf
        <3> QED BY <1>6, <2>1, <3>2
    <2>2. CASE to # "none"
        <3> HIDE DEF attributes
        <3>1. Directions([attributes |-> attributes]) = Directions(m)
            BY <1>11 DEF Directions
        <3>2. Filter(m.attributes, Directions(m)) = <<direction>>
            BY <1>10, <1>11, <2>2, <3>1
        <3>3. DirectionOf(m) = <<direction>>[1].name[1]
            <4>1. <<direction>> # <<>>
                OBVIOUS
            <4>2. DirectionOf(m) = IF Filter(m.attributes, Directions(m)) = <<>> THEN "none"
                                   ELSE Filter(m.attributes, Directions(m))[1].name[1]
                BY DEF DirectionOf, Directions
            <4> QED BY <3>2, <4>1, <4>2
        <3>4. <<direction>>[1].name[1] = dir
            BY <1>8, <2>2
        <3> QED BY <3>3, <3>4
    <2> QED BY <2>1, <2>2
<1> QED BY <1>11, <1>12, <1>13 DEF m, dir, to, formats

\* Choosing members of a sequence and then looking them up is looking them up
\* and then choosing.
Image(g, D) == {g[x] : x \in D}
Looked(g, s) == [k \in DOMAIN s |-> g[s[k]]]

\* A sequence looked up is as long.
LEMMA LookedType ==
    ASSUME NEW D, NEW g, NEW s \in Seq(D)
    PROVE  Looked(g, s) \in Seq(Image(g, D)) /\ Len(Looked(g, s)) = Len(s) /\ DOMAIN Looked(g, s) = DOMAIN s
<1>1. DOMAIN s = 1 .. Len(s) /\ Len(s) \in Nat
    BY LenProperties
<1>2. \A k \in DOMAIN s : g[s[k]] \in Image(g, D)
    BY ElementOfSeq DEF Image
<1>3. Looked(g, s) \in [1 .. Len(s) -> Image(g, D)]
    BY <1>1, <1>2 DEF Looked
<1> QED BY <1>1, <1>3, FunctionSeq

\* Looking up one element more.
LEMMA LookedAppend ==
    ASSUME NEW D, NEW g, NEW s \in Seq(D), NEW x \in D
    PROVE  Looked(g, Append(s, x)) = Append(Looked(g, s), g[x])
<1> DEFINE u == Looked(g, Append(s, x))
           v == Append(Looked(g, s), g[x])
<1>1. Append(s, x) \in Seq(D) /\ Len(Append(s, x)) = Len(s) + 1 /\ Len(s) \in Nat
      /\ Append(s, x)[Len(s) + 1] = x /\ \A k \in 1 .. Len(s) : Append(s, x)[k] = s[k]
      /\ DOMAIN Append(s, x) = 1 .. Len(s) + 1 /\ DOMAIN s = 1 .. Len(s)
    BY AppendProperties, LenProperties
<1>2. u \in Seq(Image(g, D)) /\ Len(u) = Len(s) + 1
    <2> DEFINE w == Append(s, x)
    <2>1. w \in Seq(D) /\ Len(w) = Len(s) + 1
        BY <1>1
    <2> HIDE DEF w
    <2>2. Looked(g, w) \in Seq(Image(g, D)) /\ Len(Looked(g, w)) = Len(w)
        BY <2>1, LookedType
    <2> QED BY <2>1, <2>2 DEF w
<1>3. Looked(g, s) \in Seq(Image(g, D)) /\ Len(Looked(g, s)) = Len(s) /\ g[x] \in Image(g, D)
    <2>1. g[x] \in Image(g, D)
        BY DEF Image
    <2>2. Looked(g, s) \in Seq(Image(g, D)) /\ Len(Looked(g, s)) = Len(s)
        BY LookedType
    <2> QED BY <2>1, <2>2
<1>4. v \in Seq(Image(g, D)) /\ Len(v) = Len(s) + 1 /\ v[Len(s) + 1] = g[x]
      /\ \A k \in 1 .. Len(s) : v[k] = Looked(g, s)[k]
    BY <1>3, AppendProperties
<1>5. \A k \in 1 .. Len(s) + 1 : u[k] = g[Append(s, x)[k]]
    BY <1>1 DEF Looked
<1>6. \A k \in 1 .. Len(s) : Looked(g, s)[k] = g[s[k]]
    BY <1>1 DEF Looked
<1> HIDE DEF u, v
<1>7. \A k \in 1 .. Len(s) + 1 : u[k] = v[k]
    <2> TAKE k \in 1 .. Len(s) + 1
    <2>1. CASE k = Len(s) + 1
        BY <1>1, <1>4, <1>5, <2>1
    <2>2. CASE k # Len(s) + 1
        <3>1. k \in 1 .. Len(s)
            BY <1>1, <2>2
        <3> QED BY <1>1, <1>4, <1>5, <1>6, <3>1
    <2> QED BY <2>1, <2>2
<1>8. u = v
    BY <1>2, <1>4, <1>7, SeqEqual
<1> QED BY <1>8 DEF u, v

\* Filtering and looking up can be exchanged, if the filters agree.
LEMMA FilterLooked ==
    ASSUME NEW D, NEW g, NEW s \in Seq(D), NEW S, NEW R,
           \A x \in D : x \in S <=> g[x] \in R
    PROVE  Looked(g, Filter(s, S)) = Filter(Looked(g, s), R)
<1> DEFINE T == {t \in Seq(D) : Looked(g, Filter(t, S)) = Filter(Looked(g, t), R)}
<1>1. <<>> \in T
    <2>1. <<>> \in Seq(D) /\ Looked(g, <<>>) = <<>>
        BY DEF Looked
    <2> QED BY <2>1, FilterEmpty
<1>2. ASSUME NEW t \in Seq(D), NEW x \in D, t \in T
      PROVE  Append(t, x) \in T
    <2>1. Append(t, x) \in Seq(D) /\ Filter(t, S) \in Seq(D) /\ g[x] \in Image(g, D)
          /\ Looked(g, t) \in Seq(Image(g, D)) /\ Looked(g, Filter(t, S)) = Filter(Looked(g, t), R)
        BY <1>2, AppendProperties, FilterType, LookedType DEF Image
    <2>2. Looked(g, Append(t, x)) = Append(Looked(g, t), g[x])
        BY LookedAppend
    <2>3. Filter(Append(Looked(g, t), g[x]), R)
            = IF g[x] \in R THEN Append(Filter(Looked(g, t), R), g[x]) ELSE Filter(Looked(g, t), R)
        <3> DEFINE E == Image(g, D)
                   u == Looked(g, t)
                   y == g[x]
        <3>1. u \in Seq(E) /\ y \in E
            BY <2>1
        <3> HIDE DEF E, u, y
        <3>2. Filter(Append(u, y), R) = IF y \in R THEN Append(Filter(u, R), y) ELSE Filter(u, R)
            BY <3>1, FilterAppend
        <3> QED BY <3>2 DEF u, y
    <2>4. Filter(Append(t, x), S) = IF x \in S THEN Append(Filter(t, S), x) ELSE Filter(t, S)
        BY FilterAppend
    <2>5. Looked(g, Append(Filter(t, S), x)) = Append(Looked(g, Filter(t, S)), g[x])
        BY <2>1, LookedAppend
    <2>6. CASE x \in S
        BY <2>1, <2>2, <2>3, <2>4, <2>5, <2>6
    <2>7. CASE x \notin S
        BY <2>1, <2>2, <2>3, <2>4, <2>7
    <2> QED BY <2>6, <2>7
<1> HIDE DEF T
<1>3. s \in T
    BY <1>1, <1>2, PrefixInduction
<1> QED BY <1>3 DEF T

\* What a media is to Streams.
StreamOf(m) ==
    [kind |-> <<m.type, m.proto>>, open |-> m.port # <<"0">>, direction |-> DirectionOf(m),
     formats |-> [k \in DOMAIN m.formats |-> PayloadType[m.formats[k][1]]]]

\* The streams of a description are those of its media, at their places.
LEMMA StreamsParts ==
    ASSUME NEW d, NEW M, d.media \in Seq(M)
    PROVE  /\ Len(StreamsOf(d)) = Len(d.media) /\ DOMAIN StreamsOf(d) = DOMAIN d.media
           /\ DOMAIN d.media = 1 .. Len(d.media) /\ Len(d.media) \in Nat
           /\ \A i \in DOMAIN d.media : StreamsOf(d)[i] = StreamOf(d.media[i])
<1> DEFINE E == {StreamOf(d.media[i]) : i \in DOMAIN d.media}
<1>1. DOMAIN d.media = 1 .. Len(d.media) /\ Len(d.media) \in Nat
    BY LenProperties
<1>2. StreamsOf(d) = [i \in DOMAIN d.media |-> StreamOf(d.media[i])]
    BY DEF StreamsOf, StreamOf
<1>3. StreamsOf(d) \in [1 .. Len(d.media) -> E]
    BY <1>1, <1>2
<1>4. Len(StreamsOf(d)) = Len(d.media)
    <2> HIDE DEF E
    <2> QED BY <1>1, <1>3, FunctionSeq
<1> QED BY <1>1, <1>2, <1>4

\* The places of the streams that are answered.
LEMMA AnsweredPlaces ==
    ASSUME NEW l, NEW M, l.media \in Seq(M), NEW r, NEW N, r.media \in Seq(N)
    PROVE  LET at == Answered(StreamsOf(l), StreamsOf(r))
           IN /\ at \in Seq(1 .. Len(l.media)) /\ DOMAIN at = 1 .. Len(at) /\ Len(at) \in Nat
              /\ \A j \in DOMAIN at : at[j] \in DOMAIN l.media /\ at[j] \in DOMAIN r.media
<1> DEFINE ll == StreamsOf(l)
           rr == StreamsOf(r)
           n == Len(ll)
           s == [i \in 1 .. n |-> i]
           at == Answered(ll, rr)
<1>1. /\ n = Len(l.media) /\ n \in Nat /\ DOMAIN ll = DOMAIN l.media /\ DOMAIN rr = DOMAIN r.media
    BY StreamsParts
<1> HIDE DEF ll, rr, n
<1>2. s \in Seq(1 .. n)
    <2>1. s \in [1 .. n -> 1 .. n]
        OBVIOUS
    <2> HIDE DEF s
    <2> QED BY <1>1, <2>1, FunctionSeq
<1>3. at = Filter(s, OpenAt(ll, rr))
    BY DEF Answered, n
<1> HIDE DEF s, at
<1>4. at \in Seq(1 .. n) /\ \A k \in DOMAIN at : at[k] \in OpenAt(ll, rr)
    BY <1>2, <1>3, FilterIn
<1>5. DOMAIN at = 1 .. Len(at) /\ Len(at) \in Nat
    BY <1>4, LenProperties
<1>6. \A j \in DOMAIN at : at[j] \in DOMAIN l.media /\ at[j] \in DOMAIN r.media
    BY <1>1, <1>4 DEF OpenAt, Matched
<1> QED BY <1>1, <1>4, <1>5, <1>6 DEF at, ll, rr

\* An answer of this code has a head that can be read, and streams of its own.
LEMMA AnswerParts ==
    ASSUME NEW l \in SdpType, HeadBack(l), l.media \in Seq(OurMedia),
           NEW r, NEW N, r.media \in Seq(N),
           NEW A, \A k \in DOMAIN r.media : r.media[k].attributes \in Seq(A),
           r.time \in Seq(TimeType), \A k \in DOMAIN r.time : TimeBack(r.time[k])
    PROVE  LET a == SdpAnswer(l, r)
               at == Answered(StreamsOf(l), StreamsOf(r))
           IN /\ a \in SdpType /\ HeadBack(a) /\ a.media \in Seq(OurMedia)
              /\ Len(a.media) = Len(at)
              /\ \A j \in DOMAIN at : a.media[j] = AnswerMedia(l.media[at[j]], r.media[at[j]])
<1> DEFINE at == Answered(StreamsOf(l), StreamsOf(r))
           media == [j \in DOMAIN at |-> AnswerMedia(l.media[at[j]], r.media[at[j]])]
           a == SdpAnswer(l, r)
<1>1. /\ DOMAIN at = 1 .. Len(at) /\ Len(at) \in Nat
      /\ \A j \in DOMAIN at : at[j] \in DOMAIN l.media /\ at[j] \in DOMAIN r.media
    BY AnsweredPlaces
<1>2. a = [l EXCEPT !.media = media, !.time = r.time]
    BY DEF SdpAnswer
<1> HIDE DEF at
<1>3. \A j \in DOMAIN at : media[j] \in OurMedia
    <2> TAKE j \in DOMAIN at
    <2>1. l.media[at[j]] \in OurMedia
        BY <1>1, ElementOfSeq
    <2>2. AnswerMedia(l.media[at[j]], r.media[at[j]]) \in OurMedia
        BY <1>1, <2>1, AnswerMediaType
    <2> QED BY <2>2
<1>4. media \in Seq(OurMedia) /\ Len(media) = Len(at)
    <2>1. media \in [1 .. Len(at) -> OurMedia]
        BY <1>1, <1>3
    <2> HIDE DEF media
    <2> QED BY <1>1, <2>1, FunctionSeq
<1>5. media \in Seq(MediaType)
    <2>1. \A j \in DOMAIN at : media[j] \in MediaType
        BY <1>3 DEF OurMedia
    <2>2. media \in [1 .. Len(at) -> MediaType]
        BY <1>1, <2>1
    <2> HIDE DEF media
    <2> QED BY <1>1, <2>2, FunctionSeq
<1>6. \A j \in DOMAIN at : media[j] = AnswerMedia(l.media[at[j]], r.media[at[j]])
    OBVIOUS
<1> HIDE DEF media, a
<1>7. a \in SdpType
    BY <1>2, <1>5 DEF SdpType
<1>8. a.media = media /\ a.time = r.time /\ a.origin = l.origin /\ a.bandwidth = l.bandwidth
      /\ a.zone = l.zone /\ a.conn = l.conn
    BY <1>2 DEF SdpType
<1>9. HeadBack(a)
    BY <1>8 DEF HeadBack
<1> QED BY <1>4, <1>6, <1>7, <1>8, <1>9 DEF a, at

\* The formats of a media have numbers.
FormatsKnown(m) ==
    \A k \in DOMAIN m.formats : \E pt \in DOMAIN PayloadType : m.formats[k] = <<pt>>

\* A stream given the direction and the formats of another of its kind.
LEMMA StreamChanges ==
    ASSUME NEW d, NEW e, d.kind = e.kind, d.open = e.open,
           d = [k \in {"kind", "open", "direction", "formats"} |-> d[k]],
           e = [k \in {"kind", "open", "direction", "formats"} |-> e[k]]
    PROVE  [d EXCEPT !.direction = e.direction, !.formats = e.formats] = e
<1> DEFINE F == {"kind", "open", "direction", "formats"}
<1>1. d = [k \in F |-> d[k]] /\ e = [k \in F |-> e[k]]
    OBVIOUS
<1>2. F = {"kind", "open", "direction", "formats"}
    OBVIOUS
<1> HIDE DEF F
<1>3. [d EXCEPT !.direction = e.direction, !.formats = e.formats]
        = [k \in F |-> IF k = "formats" THEN e.formats ELSE IF k = "direction" THEN e.direction ELSE d[k]]
    BY <1>1, <1>2
<1>4. \A k \in F : e[k] = IF k = "formats" THEN e.formats ELSE IF k = "direction" THEN e.direction ELSE d[k]
    BY <1>2
<1> QED BY <1>1, <1>3, <1>4

\* The streams of an answer are those that the rules of Streams give.
LEMMA AnswerStreams ==
    ASSUME NEW l \in SdpType, HeadBack(l), l.media \in Seq(OurMedia),
           NEW r \in SdpType, HeadBack(r),
           \A k \in DOMAIN l.media : FormatsKnown(l.media[k]),
           \A k \in DOMAIN r.media : FormatsKnown(r.media[k])
    PROVE  StreamsOf(SdpAnswer(l, r)) = Answer(StreamsOf(l), StreamsOf(r))
<1> DEFINE at == Answered(StreamsOf(l), StreamsOf(r))
           a == SdpAnswer(l, r)
<1>1. /\ r.media \in Seq(MediaType) /\ r.time \in Seq(TimeType)
      /\ \A k \in DOMAIN r.time : TimeBack(r.time[k])
    BY SdpParts DEF HeadBack
<1>2. \A k \in DOMAIN r.media : r.media[k] \in MediaType /\ r.media[k].attributes \in Seq(AttributeType)
    <2> TAKE k \in DOMAIN r.media
    <2>1. r.media[k] \in MediaType
        BY <1>1, ElementOfSeq
    <2> QED BY <2>1 DEF MediaType
<1>3. /\ a \in SdpType /\ a.media \in Seq(OurMedia) /\ Len(a.media) = Len(at)
      /\ \A j \in DOMAIN at : a.media[j] = AnswerMedia(l.media[at[j]], r.media[at[j]])
    BY <1>1, <1>2, AnswerParts
<1>4. /\ DOMAIN at = 1 .. Len(at) /\ Len(at) \in Nat
      /\ \A j \in DOMAIN at : at[j] \in DOMAIN l.media /\ at[j] \in DOMAIN r.media
    BY <1>1, AnsweredPlaces
<1>5. Answer(StreamsOf(l), StreamsOf(r))
        = [j \in 1 .. Len(at) |-> AnswerStream(StreamsOf(l)[at[j]], StreamsOf(r)[at[j]])]
    BY DEF Answer
<1>6. StreamsOf(a) = [j \in DOMAIN a.media |-> StreamOf(a.media[j])]
    BY DEF StreamsOf, StreamOf
<1> HIDE DEF at, a
<1>7. DOMAIN a.media = 1 .. Len(at)
    BY <1>3, LenProperties
<1>8. ASSUME NEW j \in 1 .. Len(at)
      PROVE  StreamOf(a.media[j]) = AnswerStream(StreamsOf(l)[at[j]], StreamsOf(r)[at[j]])
    <2> DEFINE x == l.media[at[j]]
               y == r.media[at[j]]
               z == a.media[j]
    <2>1. at[j] \in DOMAIN l.media /\ at[j] \in DOMAIN r.media
        BY <1>4
    <2>2. x \in OurMedia /\ FormatsKnown(x) /\ y \in MediaType /\ FormatsKnown(y)
          /\ y.attributes \in Seq(AttributeType)
        BY <1>2, <2>1, ElementOfSeq
    <2>3. StreamsOf(l)[at[j]] = StreamOf(x) /\ StreamsOf(r)[at[j]] = StreamOf(y)
        BY <1>1, <2>1, StreamsParts
    <2>4. z = AnswerMedia(x, y)
        BY <1>3, <1>4
    <2> HIDE DEF x, y, z
    <2>5. /\ z.type = x.type /\ z.proto = x.proto /\ z.port = x.port
          /\ z.formats = Filter(x.formats, ToSet(y.formats))
          /\ DirectionOf(z) = AnswerDirection([direction |-> DirectionOf(x)], [direction |-> DirectionOf(y)])
        BY <2>2, <2>4, AnswerMediaType
    <2>6. StreamOf(z).formats = Filter(StreamOf(x).formats, ToSet(StreamOf(y).formats))
        <3> DEFINE D == {<<pt>> : pt \in DOMAIN PayloadType}
                   g == [v \in D |-> PayloadType[v[1]]]
                   s == x.formats
                   S == ToSet(y.formats)
                   R == ToSet(StreamOf(y).formats)
        <3>2. s \in Seq(Free(Delimiters)) /\ y.formats \in Seq(Free(Delimiters))
            BY <2>2 DEF OurMedia, MediaType
        <3>3. s \in Seq(D)
            <4>1. DOMAIN s = 1 .. Len(s) /\ Len(s) \in Nat /\ s = [k \in 1 .. Len(s) |-> s[k]]
                BY <3>2, LenProperties
            <4>2. \A k \in DOMAIN s : s[k] \in D
                BY <2>2 DEF FormatsKnown
            <4> HIDE DEF D, s
            <4>3. s \in [1 .. Len(s) -> D]
                BY <4>1, <4>2
            <4> QED BY <4>1, <4>3
        <3>4. ASSUME NEW v \in D
              PROVE  v \in S <=> g[v] \in R
            <4>1. PICK pt \in DOMAIN PayloadType : v = <<pt>>
                OBVIOUS
            <4>2. g[v] = PayloadType[pt]
                BY <4>1
            <4>3. R = {PayloadType[y.formats[k][1]] : k \in DOMAIN y.formats}
                BY DEF ToSet, StreamOf
            <4>4. S = {y.formats[k] : k \in DOMAIN y.formats}
                BY DEF ToSet
            <4> HIDE DEF S, R, g
            <4>5. ASSUME v \in S PROVE g[v] \in R
                <5>1. PICK k \in DOMAIN y.formats : v = y.formats[k]
                    BY <4>4, <4>5
                <5>2. y.formats[k][1] = pt
                    BY <4>1, <5>1
                <5> QED BY <4>2, <4>3, <5>2
            <4>6. ASSUME g[v] \in R PROVE v \in S
                <5>1. PICK k \in DOMAIN y.formats : PayloadType[pt] = PayloadType[y.formats[k][1]]
                    BY <4>2, <4>3, <4>6
                <5>2. PICK other \in DOMAIN PayloadType : y.formats[k] = <<other>>
                    BY <2>2 DEF FormatsKnown
                <5>3. PayloadType[pt] = PayloadType[other]
                    BY <5>1, <5>2
                <5>4. pt = other
                    BY <5>3, TalkAssumption
                <5> QED BY <4>1, <4>4, <5>2, <5>4
            <4> QED BY <4>5, <4>6
        <3>5. StreamOf(x).formats = Looked(g, s)
            <4>1. StreamOf(x).formats = [k \in DOMAIN s |-> PayloadType[s[k][1]]]
                BY DEF StreamOf
            <4>2. \A k \in DOMAIN s : s[k] \in D
                BY <3>3, ElementOfSeq
            <4>3. \A k \in DOMAIN s : g[s[k]] = PayloadType[s[k][1]]
                BY <4>2
            <4> HIDE DEF g, s, D
            <4> QED BY <4>1, <4>3 DEF Looked
        <3>6. StreamOf(z).formats = Looked(g, Filter(s, S))
            <4> DEFINE u == Filter(s, S)
            <4>1. StreamOf(z).formats = [k \in DOMAIN u |-> PayloadType[u[k][1]]]
                BY <2>5 DEF StreamOf
            <4>2. u \in Seq(D)
                <5> HIDE DEF D, s, S
                <5> QED BY <3>3, FilterType
            <4> HIDE DEF u
            <4>3. \A k \in DOMAIN u : u[k] \in D
                BY <4>2, ElementOfSeq
            <4>4. \A k \in DOMAIN u : g[u[k]] = PayloadType[u[k][1]]
                BY <4>3
            <4>5. Looked(g, u) = [k \in DOMAIN u |-> g[u[k]]]
                BY DEF Looked
            <4>6. StreamOf(z).formats = Looked(g, u)
                <5> HIDE DEF g, D
                <5> QED BY <4>1, <4>4, <4>5
            <4> QED BY <4>6 DEF u
        <3> HIDE DEF g, s, S, R, D
        <3>7. Looked(g, Filter(s, S)) = Filter(Looked(g, s), R)
            <4>1. \A v \in D : v \in S <=> g[v] \in R
                BY <3>4
            <4> QED BY <3>3, <4>1, FilterLooked
        <3> QED BY <3>5, <3>6, <3>7 DEF R
    <2>7. AnswerDirection(StreamOf(x), StreamOf(y))
            = AnswerDirection([direction |-> DirectionOf(x)], [direction |-> DirectionOf(y)])
        BY DEF AnswerDirection, StreamOf
    <2> DEFINE d == StreamOf(x)
               e == StreamOf(z)
    <2>8. d = [k \in {"kind", "open", "direction", "formats"} |-> d[k]]
          /\ e = [k \in {"kind", "open", "direction", "formats"} |-> e[k]]
        BY DEF StreamOf
    <2>9. d.kind = e.kind /\ d.open = e.open /\ e.direction = DirectionOf(z)
        BY <2>5 DEF StreamOf
    <2>10. AnswerStream(d, StreamOf(y))
             = [d EXCEPT !.direction = AnswerDirection(d, StreamOf(y)),
                         !.formats = Filter(d.formats, ToSet(StreamOf(y).formats))]
        BY DEF AnswerStream
    <2>11. AnswerDirection(d, StreamOf(y)) = e.direction
           /\ Filter(d.formats, ToSet(StreamOf(y).formats)) = e.formats
        BY <2>5, <2>6, <2>7, <2>9
    <2> HIDE DEF d, e
    <2>13. [d EXCEPT !.direction = e.direction, !.formats = e.formats] = e
        BY <2>8, <2>9, StreamChanges
    <2>12. AnswerStream(StreamOf(x), StreamOf(y)) = StreamOf(z)
        <3>1. AnswerStream(d, StreamOf(y)) = e
            BY <2>10, <2>11, <2>13
        <3> QED BY <3>1 DEF d, e
    <2> QED BY <2>3, <2>12 DEF z
<1>9. StreamsOf(a) = Answer(StreamsOf(l), StreamsOf(r))
    BY <1>5, <1>6, <1>7, <1>8
<1> QED BY <1>9 DEF a

-----------------------------------------------------------------------------
(* The rtpmap attributes of this code.                                     *)

\* A word between delimiters is a token, and between two of them is none.
LEMMA TokenEnds ==
    ASSUME NEW t \in Tokens, NEW at \in 1 .. Len(t)
    PROVE  /\ t[at] \in Delimiters => ReadToken(t, at) = Read(at, <<>>)
           /\ t[at] \notin Delimiters /\ at + 1 <= Len(t) /\ t[at + 1] \in Delimiters
                  => ReadToken(t, at) = Read(at + 1, <<t[at]>>)
<1>1. Len(t) \in Nat /\ at \in Nat \ {0} /\ at <= Len(t) /\ t[at] \in Words
    BY LenProperties, ElementOfSeq DEF Tokens
<1>2. ASSUME t[at] \in Delimiters
      PROVE  ReadToken(t, at) = Read(at, <<>>)
    <2>1. <<>> \in Tokens /\ Len(<<>>) = 0 /\ Stands(t, at, <<>>)
        BY <1>1 DEF Stands, Tokens
    <2>2. at + Len(<<>>) = at
        BY <1>1, <2>1
    <2>3. ScanUntil(t, at, Delimiters) = Read(at, <<>>)
        <3> DEFINE u == <<>>
        <3>1. u \in Tokens /\ Stands(t, at, u) /\ Len(u) = 0 /\ at + Len(u) = at
            BY <2>1, <2>2
        <3> HIDE DEF u
        <3>2. \A k \in 1 .. Len(u) : u[k] \notin Delimiters
            BY <3>1
        <3>3. ScanUntil(t, at, Delimiters) = Read(at + Len(u), u)
            BY <1>1, <1>2, <3>1, <3>2, ScanStops
        <3> QED BY <3>1, <3>3 DEF u
    <2> QED BY <2>3 DEF ReadToken
<1>3. ASSUME t[at] \notin Delimiters, at + 1 <= Len(t), t[at + 1] \in Delimiters
      PROVE  ReadToken(t, at) = Read(at + 1, <<t[at]>>)
    <2> DEFINE x == t[at]
               u == <<x>>
    <2>1. u \in Tokens /\ Len(u) = 1 /\ u[1] = x /\ x = t[at]
        BY <1>1 DEF Tokens
    <2> HIDE DEF x, u
    <2>2. Stands(t, at, u)
        <3>1. \A k \in 1 .. Len(u) : k = 1 /\ at + k - 1 = at
            BY <1>1, <2>1
        <3>2. \A k \in 1 .. Len(u) : t[at + k - 1] = u[k]
            BY <2>1, <3>1
        <3> QED BY <1>1, <2>1, <3>2 DEF Stands
    <2>3. \A k \in 1 .. Len(u) : u[k] \notin Delimiters
        <3> TAKE k \in 1 .. Len(u)
        <3>1. k = 1
            BY <2>1
        <3> QED BY <1>3, <2>1, <3>1
    <2>4. ScanUntil(t, at, Delimiters) = Read(at + Len(u), u)
        BY <1>1, <1>3, <2>1, <2>2, <2>3, ScanStops
    <2> QED BY <2>1, <2>4 DEF ReadToken, x, u
<1> QED BY <1>2, <1>3

\* An rtpmap with a space behind the number is read.
LEMMA RtpMapRead ==
    ASSUME NEW t \in Tokens, Len(t) >= 5, t[1] \notin Delimiters, t[2] = SP, t[3] \notin Delimiters,
           t[4] = "/", t[5] \in Fitting(32)
    PROVE  ReadRtpMap(t).ok /\ ReadRtpMap(t).val.name = <<t[3]>>
<1> DEFINE pt == ReadToken(t, 1)
           name == ReadToken(t, SkipWs(t, pt.at))
           slash == MustRead(t, name.at, "/")
           rate == ScanNumber(t, slash.at, 32)
           param == ReadToken(t, rate.at + 1)
           more == Read(SkipNewline(t, param.at), [pt |-> pt.val, name |-> name.val,
                                                   rate |-> rate.val, param |-> <<param.val>>])
           done == Read(SkipNewline(t, rate.at), [pt |-> pt.val, name |-> name.val,
                                                  rate |-> rate.val, param |-> <<>>])
<1>1. Len(t) \in Nat /\ 1 \in 1 .. Len(t) /\ 2 \in 1 .. Len(t) + 1 /\ 2 \in 1 .. Len(t)
      /\ 3 \in 1 .. Len(t) /\ 4 \in 1 .. Len(t) /\ 5 \in 1 .. Len(t)
    BY LenProperties
<1>2. SP \in Delimiters /\ "/" \in Delimiters
    BY DEF Delimiters
<1>3. ReadRtpMap(t) = IF ~slash.ok THEN Error ELSE IF ~rate.ok THEN Error
                      ELSE IF At(t, rate.at) = "/" THEN more ELSE done
    BY DEF ReadRtpMap, Then
<1>4. more.ok /\ done.ok /\ more.val.name = name.val /\ done.val.name = name.val
    BY DEF Read
<1>5. pt.at = 2
    <2>1. 1 + 1 = 2
        OBVIOUS
    <2> QED BY <1>1, <1>2, <2>1, TokenEnds DEF Read
<1>6. SkipWs(t, 2) = 3
    <2>1. At(t, 2) = SP /\ At(t, 2 + 1) # SP
        BY <1>1, <1>2 DEF At
    <2>2. 2 + 1 = 3
        OBVIOUS
    <2> QED BY <1>1, <2>1, <2>2, SkipOne DEF SkipWs
<1> HIDE DEF pt
<1>7. name.at = 4 /\ name.val = <<t[3]>>
    <2>1. 3 + 1 = 4
        OBVIOUS
    <2>2. ReadToken(t, 3) = Read(4, <<t[3]>>)
        BY <1>1, <1>2, <2>1, TokenEnds
    <2>3. name = Read(4, <<t[3]>>)
        BY <1>5, <1>6, <2>2
    <2> HIDE DEF name
    <2> QED BY <2>3 DEF Read
<1> HIDE DEF name
<1>8. slash.ok /\ slash.at = 5
    <2>1. At(t, 4) = "/"
        BY <1>1 DEF At
    <2>2. MustRead(t, 4, "/") = Read(4 + 1, <<>>)
        BY <2>1 DEF MustRead
    <2> QED BY <1>7, <2>2 DEF Read
<1> HIDE DEF slash
<1>9. rate.ok
    <2>1. At(t, 5) \in Fitting(32)
        BY <1>1 DEF At
    <2> QED BY <1>8, <2>1 DEF ScanNumber, Read
<1> HIDE DEF rate, more, done
<1> QED BY <1>3, <1>4, <1>7, <1>8, <1>9

\* One with a slash behind the number has no name, and what follows is the
\* rate or nothing is.
LEMMA RtpMapNameless ==
    ASSUME NEW t \in Tokens, Len(t) >= 3, t[1] \notin Delimiters, t[2] = "/"
    PROVE  /\ ReadRtpMap(t).ok <=> t[3] \in Fitting(32)
           /\ ReadRtpMap(t).ok => ReadRtpMap(t).val.name = <<>> /\ ReadRtpMap(t).val.rate = <<t[3]>>
<1> DEFINE pt == ReadToken(t, 1)
           name == ReadToken(t, SkipWs(t, pt.at))
           slash == MustRead(t, name.at, "/")
           rate == ScanNumber(t, slash.at, 32)
           param == ReadToken(t, rate.at + 1)
           more == Read(SkipNewline(t, param.at), [pt |-> pt.val, name |-> name.val,
                                                   rate |-> rate.val, param |-> <<param.val>>])
           done == Read(SkipNewline(t, rate.at), [pt |-> pt.val, name |-> name.val,
                                                  rate |-> rate.val, param |-> <<>>])
<1>1. Len(t) \in Nat /\ 1 \in 1 .. Len(t) /\ 2 \in 1 .. Len(t) + 1 /\ 2 \in 1 .. Len(t) /\ 3 \in 1 .. Len(t)
    BY LenProperties
<1>2. "/" \in Delimiters /\ SP # "/"
    BY DEF Delimiters, SP
<1>3. ReadRtpMap(t) = IF ~slash.ok THEN Error ELSE IF ~rate.ok THEN Error
                      ELSE IF At(t, rate.at) = "/" THEN more ELSE done
    BY DEF ReadRtpMap, Then
<1>4. pt.at = 2
    <2>1. 1 + 1 = 2
        OBVIOUS
    <2> QED BY <1>1, <1>2, <2>1, TokenEnds DEF Read
<1>9. /\ more.ok /\ more.val.name = name.val /\ more.val.rate = rate.val
      /\ done.ok /\ done.val.name = name.val /\ done.val.rate = rate.val
    BY DEF Read
<1>5. SkipWs(t, 2) = 2
    <2>1. At(t, 2) # SP
        BY <1>1, <1>2 DEF At
    <2> QED BY <1>1, <2>1, SkipNone DEF SkipWs
<1> HIDE DEF pt
<1>6. name.at = 2 /\ name.val = <<>>
    <2>1. ReadToken(t, 2) = Read(2, <<>>)
        BY <1>1, <1>2, TokenEnds
    <2>2. name = Read(2, <<>>)
        BY <1>4, <1>5, <2>1
    <2> HIDE DEF name
    <2> QED BY <2>2 DEF Read
<1> HIDE DEF name
<1>7. slash.ok /\ slash.at = 3
    <2>1. At(t, 2) = "/"
        BY <1>1 DEF At
    <2>2. MustRead(t, 2, "/") = Read(2 + 1, <<>>)
        BY <2>1 DEF MustRead
    <2> QED BY <1>6, <2>2 DEF Read
<1> HIDE DEF slash
<1>8. (rate.ok <=> t[3] \in Fitting(32)) /\ (rate.ok => rate.val = <<t[3]>>)
    <2>1. At(t, 3) = t[3]
        BY <1>1 DEF At
    <2>2. rate = IF t[3] \in Fitting(32) THEN Read(3 + 1, <<t[3]>>) ELSE Error
        BY <1>7, <2>1 DEF ScanNumber
    <2> HIDE DEF rate
    <2> QED BY <2>2 DEF Read, Error
<1> HIDE DEF rate, more, done
<1>10. ~Error.ok
    BY DEF Error
<1> QED BY <1>3, <1>6, <1>7, <1>8, <1>9, <1>10

\* What the rtpmap attribute of a codec tells: its name if it is one of the
\* five, or else no name.
RtpMapTells(t) ==
    LET r == ReadRtpMap(t)
    IN \/ \E name \in Named : t = RtpMap(name) /\ r.ok /\ r.val.name = <<name>>
       \/ /\ r.ok <=> t[3] \in Fitting(32)
          /\ r.ok => r.val.name = <<>> /\ r.val.rate = <<t[3]>>
RtpMapBack(a) == a.name = <<"rtpmap">> => RtpMapTells(a.value[1])
OurAttributes == {a \in AttributeType : RtpMapBack(a)}

\* The five codecs with a text of their own.
LEMMA NamedBack ==
    ASSUME NEW name \in Named
    PROVE  RtpMapTells(RtpMap(name))
<1> DEFINE W == Words \ Delimiters
           t == RtpMap(name)
           Of(pt, rate) ==
               /\ pt \in W /\ rate \in Fitting(32) /\ t \in Tokens /\ Len(t) >= 5
               /\ t[1] = pt /\ t[2] = SP /\ t[3] = name /\ t[4] = "/" /\ t[5] = rate
<1>1. /\ "0" \in W /\ "8" \in W /\ "3" \in W /\ "96" \in W /\ "101" \in W /\ "2" \in W
      /\ {"8000", "48000"} \subseteq Fitting(32) /\ "8000" \in Words /\ "48000" \in Words
      /\ SP \in Words /\ "/" \in Words
      /\ \A word \in Named : word \in W /\ word \in Words
    <2>1. {"8", "3", "96", "101", "2"} \subseteq OurWords /\ Named \subseteq OurWords
        BY DEF OurWords
    <2>2. OurWords \subseteq Word /\ "0" \in Numbers /\ {"8000", "48000"} \subseteq Fitting(32)
        BY TalkAssumption, OwnWords
    <2>3. Numbers \subseteq Words \ Delimiters
        BY TextAssumption DEF Word
    <2> QED BY <2>1, <2>2, <2>3, OwnWords DEF Word
<1>2. {"PCMU", "PCMA", "GSM", "opus", "telephone-event"} = Named
    BY DEF Named
<1>3. \E pt, rate : Of(pt, rate)
    <2> HIDE DEF W
    <2>1. CASE name = "PCMU"
        <3>1. t = <<"0", SP, "PCMU", "/", "8000">>
            BY <2>1 DEF RtpMap
        <3> HIDE DEF t
        <3>2. t \in Tokens
            BY <1>1, <1>2, <3>1 DEF Tokens, W
        <3>3. Len(t) >= 5 /\ t[1] = "0" /\ t[2] = SP /\ t[3] = "PCMU" /\ t[4] = "/" /\ t[5] = "8000"
            BY <3>1
        <3>4. Of("0", "8000")
            BY <1>1, <2>1, <3>2, <3>3
        <3> QED BY <3>4
    <2>2. CASE name = "PCMA"
        <3>1. t = <<"8", SP, "PCMA", "/", "8000">>
            BY <2>2 DEF RtpMap
        <3> HIDE DEF t
        <3>2. t \in Tokens
            BY <1>1, <1>2, <3>1 DEF Tokens, W
        <3>3. Len(t) >= 5 /\ t[1] = "8" /\ t[2] = SP /\ t[3] = "PCMA" /\ t[4] = "/" /\ t[5] = "8000"
            BY <3>1
        <3>4. Of("8", "8000")
            BY <1>1, <2>2, <3>2, <3>3
        <3> QED BY <3>4
    <2>3. CASE name = "GSM"
        <3>1. t = <<"3", SP, "GSM", "/", "8000">>
            BY <2>3 DEF RtpMap
        <3> HIDE DEF t
        <3>2. t \in Tokens
            BY <1>1, <1>2, <3>1 DEF Tokens, W
        <3>3. Len(t) >= 5 /\ t[1] = "3" /\ t[2] = SP /\ t[3] = "GSM" /\ t[4] = "/" /\ t[5] = "8000"
            BY <3>1
        <3>4. Of("3", "8000")
            BY <1>1, <2>3, <3>2, <3>3
        <3> QED BY <3>4
    <2>4. CASE name = "opus"
        <3>1. t = <<"96", SP, "opus", "/", "48000", "/", "2">>
            BY <2>4 DEF RtpMap
        <3> HIDE DEF t
        <3>2. t \in Tokens
            BY <1>1, <1>2, <3>1 DEF Tokens, W
        <3>3. Len(t) >= 5 /\ t[1] = "96" /\ t[2] = SP /\ t[3] = "opus" /\ t[4] = "/" /\ t[5] = "48000"
            BY <3>1
        <3>4. Of("96", "48000")
            BY <1>1, <2>4, <3>2, <3>3
        <3> QED BY <3>4
    <2>5. CASE name = "telephone-event"
        <3>1. t = <<"101", SP, "telephone-event", "/", "8000">>
            BY <2>5 DEF RtpMap
        <3> HIDE DEF t
        <3>2. t \in Tokens
            BY <1>1, <1>2, <3>1 DEF Tokens, W
        <3>3. Len(t) >= 5 /\ t[1] = "101" /\ t[2] = SP /\ t[3] = "telephone-event" /\ t[4] = "/" /\ t[5] = "8000"
            BY <3>1
        <3>4. Of("101", "8000")
            BY <1>1, <2>5, <3>2, <3>3
        <3> QED BY <3>4
    <2> QED BY <1>2, <2>1, <2>2, <2>3, <2>4, <2>5
<1>4. name \in W
    BY <1>1
<1> HIDE DEF t
<1>5. ReadRtpMap(t).ok /\ ReadRtpMap(t).val.name = <<name>>
    BY <1>3, <1>4, RtpMapRead
<1>6. t = RtpMap(name)
    BY DEF t
<1>7. RtpMapTells(t)
    BY <1>5, <1>6 DEF RtpMapTells
<1> QED BY <1>7 DEF t

\* The others have their number, and then a slash.
LEMMA UnnamedBack ==
    ASSUME NEW codec \in CodecType, ~OneOf(codec.name, Named)
    PROVE  RtpMapTells(RtpMapOf(codec))
<1> DEFINE t == RtpMapOf(codec)
           before == <<codec.pt, "/">>
           after == <<"/", codec.rate, "/", codec.channels, "/">>
<1>1. t = before \o codec.name \o after
    BY DEF RtpMapOf
<1>2. codec.pt \in Words \ Delimiters /\ codec.rate \in Words /\ codec.channels \in Words
      /\ "/" \in Words /\ codec.name \in Tokens
    <2>1. codec.pt \in Numbers /\ codec.rate \in Numbers /\ codec.channels \in Numbers
          /\ codec.name \in Seq(Words \ Delimiters)
        BY OwnWords DEF CodecType, Free
    <2>2. codec.name \in Seq(Words)
        BY <2>1
    <2> QED BY <2>1, <2>2, OwnWords, TextAssumption DEF Word, Tokens
<1>3. before \in Tokens /\ Len(before) = 2 /\ before[1] = codec.pt /\ before[2] = "/"
      /\ after \in Tokens /\ Len(after) = 5
    BY <1>2 DEF Tokens
<1> HIDE DEF t, before, after
<1> DEFINE u == before \o codec.name
<1>4. u \in Tokens /\ Len(u) = 2 + Len(codec.name) /\ u[1] = codec.pt /\ u[2] = "/"
      /\ Len(codec.name) \in Nat
    <2>1. before \in Seq(Words) /\ codec.name \in Seq(Words) /\ Len(codec.name) \in Nat
        BY <1>2, <1>3, LenProperties DEF Tokens
    <2>3. /\ u \in Seq(Words) /\ Len(u) = Len(before) + Len(codec.name)
          /\ \A i \in 1 .. Len(before) + Len(codec.name) :
                 u[i] = IF i <= Len(before) THEN before[i] ELSE codec.name[i - Len(before)]
        BY <2>1, ConcatProperties
    <2>4. 1 \in 1 .. Len(before) + Len(codec.name) /\ 2 \in 1 .. Len(before) + Len(codec.name)
          /\ 1 <= Len(before) /\ 2 <= Len(before)
        BY <1>3, <2>1
    <2> HIDE DEF u
    <2>2. u \in Seq(Words) /\ Len(u) = Len(before) + Len(codec.name)
          /\ u[1] = before[1] /\ u[2] = before[2]
        BY <2>3, <2>4
    <2> QED BY <1>3, <2>1, <2>2 DEF Tokens
<1> HIDE DEF u
<1>5. t = u \o after
    BY <1>1 DEF u
<1>6. t \in Tokens /\ Len(t) >= 3 /\ t[1] = codec.pt /\ t[2] = "/"
    <2>1. u \in Seq(Words) /\ after \in Seq(Words) /\ 1 \in 1 .. Len(u) /\ 2 \in 1 .. Len(u)
        BY <1>3, <1>4 DEF Tokens
    <2>2. u \o after \in Seq(Words) /\ Len(u \o after) = Len(u) + Len(after)
          /\ (u \o after)[1] = u[1] /\ (u \o after)[2] = u[2]
        BY <2>1, ConcatProperties
    <2> QED BY <1>3, <1>4, <1>5, <2>2 DEF Tokens
<1>7. /\ ReadRtpMap(t).ok <=> t[3] \in Fitting(32)
      /\ ReadRtpMap(t).ok => ReadRtpMap(t).val.name = <<>> /\ ReadRtpMap(t).val.rate = <<t[3]>>
    BY <1>2, <1>6, RtpMapNameless
<1> QED BY <1>7 DEF RtpMapTells, t

\* So the name decides.
LEMMA TextBack ==
    ASSUME NEW codec \in CodecType
    PROVE  RtpMapTells(RtpMapOf(codec))
<1>1. CASE OneOf(codec.name, Named)
    <2>1. codec.name[1] \in Named /\ RtpMapOf(codec) = RtpMap(codec.name[1])
        BY <1>1 DEF RtpMapOf, OneOf
    <2> QED BY <2>1, NamedBack
<1>2. CASE ~OneOf(codec.name, Named)
    BY <1>2, UnnamedBack
<1> QED BY <1>1, <1>2

\* The attributes of every codec are such.
LEMMA CodecBack ==
    ASSUME NEW codec \in CodecType
    PROVE  CodecAttributes(codec) \in Seq(OurAttributes)
<1> DEFINE rtpmap == RtpMapOf(codec)
           first == Attribute("rtpmap", <<rtpmap>>)
           rest == IF codec.name = <<"telephone-event">> THEN <<Fmtp>> ELSE <<>>
<1>1. CodecAttributes(codec) = <<first>> \o rest /\ first \in AttributeType /\ Fmtp \in AttributeType
    BY CodecParts
<1>2. RtpMapTells(rtpmap)
    BY TextBack
<1> HIDE DEF rtpmap
<1>3. first \in OurAttributes
    <2>1. first.value[1] = rtpmap
        BY DEF Attribute
    <2> HIDE DEF first
    <2> QED BY <1>1, <1>2, <2>1 DEF OurAttributes, RtpMapBack
<1>4. Fmtp \in OurAttributes
    <2>1. Fmtp.name # <<"rtpmap">>
        BY DEF Attribute, Fmtp
    <2> QED BY <1>1, <2>1 DEF OurAttributes, RtpMapBack
<1> HIDE DEF first
<1>5. <<first>> \in Seq(OurAttributes) /\ rest \in Seq(OurAttributes)
    BY <1>3, <1>4
<1> HIDE DEF rest
<1> QED BY <1>1, <1>5, ConcatProperties

\* The rtpmap attributes among those that an offer has.
LEMMA OfferedBack ==
    ASSUME NEW params \in ParamsType, NEW i \in DOMAIN params.streams
    PROVE  OfferedAttributes(params, i) \in Seq(OurAttributes)
<1> DEFINE codecs == Lines(params.streams[i].codecs, CodecAttributes)
           ptime == Attribute("ptime", << <<"20">> >>)
           maxptime == Attribute("maxptime", << <<"150">> >>)
           direction == Attribute(params.direction, <<>>)
           more == <<ptime, maxptime, direction>>
<1>1. params.streams \in Seq(StreamType) /\ params.direction \in (Direction \ {"none"}) \cup {"Unspecified"}
    BY DEF ParamsType
<1>2. params.streams[i] \in StreamType
    BY <1>1, ElementOfSeq
<1>3. params.streams[i].codecs \in Seq(CodecType)
    BY <1>2 DEF StreamType
<1>4. codecs \in Seq(OurAttributes)
    BY <1>3, CodecBack, CodecsAttributes
<1>5. <<"20">> \in Value /\ <<"150">> \in Value /\ <<"ptime">> \in Free(Delimiters)
      /\ <<"maxptime">> \in Free(Delimiters) /\ <<params.direction>> \in Free(Delimiters)
    <2>1. {"20", "150", "ptime", "maxptime", params.direction} \subseteq OurWords
        BY <1>1 DEF OurWords, Direction
    <2> QED BY <2>1, OurValues
<1>6. <<>> \in Optionally(Value)
    BY DEF Optionally
<1>7. \A v \in Value : <<v>> \in Optionally(Value)
    BY DEF Optionally
<1>8. ptime \in AttributeType /\ maxptime \in AttributeType /\ direction \in AttributeType
    BY <1>5, <1>6, <1>7 DEF AttributeType, Attribute
<1>9. ptime.name # <<"rtpmap">> /\ maxptime.name # <<"rtpmap">> /\ direction.name # <<"rtpmap">>
    <2>1. \A x, y : x # y => <<x>> # <<y>>
        OBVIOUS
    <2>2. params.direction # "rtpmap"
        BY <1>1 DEF Direction
    <2>3. ptime.name = <<"ptime">> /\ maxptime.name = <<"maxptime">> /\ direction.name = <<params.direction>>
        BY DEF Attribute
    <2> QED BY <2>1, <2>2, <2>3
<1>10. ptime \in OurAttributes /\ maxptime \in OurAttributes /\ direction \in OurAttributes
    <2> HIDE DEF ptime, maxptime, direction
    <2> QED BY <1>8, <1>9 DEF OurAttributes, RtpMapBack
<1>11. more \in Seq(OurAttributes) /\ <<>> \in Seq(OurAttributes)
    <2> HIDE DEF ptime, maxptime, direction
    <2> QED BY <1>10
<1>12. OfferedAttributes(params, i) = codecs \o (IF i = Len(params.streams) THEN more ELSE <<>>)
    BY DEF OfferedAttributes
<1> HIDE DEF codecs, more
<1> QED BY <1>4, <1>11, <1>12, ConcatProperties

\* The rtpmap attributes of a whole offer.
LEMMA OfferBack ==
    ASSUME NEW params \in ParamsType
    PROVE  RtpMapsBack(SdpOffer(params))
<1> DEFINE o == SdpOffer(params)
           n == Len(params.streams)
<1>1. n \in Nat /\ o.media = [i \in 1 .. n |-> OfferedMedia(params, i)] /\ DOMAIN o.media = 1 .. n
    BY OfferParts
<1>2. DOMAIN params.streams = 1 .. n
    <2>1. params.streams \in Seq(StreamType)
        BY DEF ParamsType
    <2> QED BY <2>1, LenProperties
<1> HIDE DEF o, n
<1>3. ASSUME NEW m \in ToSet(o.media), NEW a \in ToSet(m.attributes)
      PROVE  RtpMapBack(a)
    <2>1. PICK i \in 1 .. n : m = OfferedMedia(params, i)
        BY <1>1 DEF ToSet
    <2>2. m.attributes = OfferedAttributes(params, i)
        BY <2>1 DEF OfferedMedia
    <2>3. m.attributes \in Seq(OurAttributes)
        BY <1>2, <2>2, OfferedBack
    <2>4. PICK k \in DOMAIN m.attributes : a = m.attributes[k]
        BY DEF ToSet
    <2>5. a \in OurAttributes
        BY <2>3, <2>4, ElementOfSeq
    <2> QED BY <2>5 DEF OurAttributes
<1> QED BY <1>3 DEF RtpMapsBack, RtpMapBack, RtpMapTells, o

\* What was read, as an answer needs it.
LEMMA ReadParts ==
    ASSUME NEW d \in SdpsRead
    PROVE  /\ d.media \in Seq(MediasRead)
           /\ \A k \in DOMAIN d.media : d.media[k].attributes \in Seq(AttributesRead)
           /\ d.time \in Seq(TimeType) /\ \A k \in DOMAIN d.time : TimeBack(d.time[k])
<1>1. d.media \in Seq(MediasRead) /\ d.time \in Seq(TimesRead)
    BY DEF SdpsRead
<1>2. ASSUME NEW k \in DOMAIN d.media
      PROVE  d.media[k].attributes \in Seq(AttributesRead)
    <2>1. d.media[k] \in MediasRead
        BY <1>1, ElementOfSeq
    <2> QED BY <2>1 DEF MediasRead
<1>3. \A k \in DOMAIN d.time : TimeBack(d.time[k])
    BY TimesBackAgain
<1>4. \A bits : Digits(bits) \subseteq Value
    <2>1. ASSUME NEW bits, NEW v \in Digits(bits)
          PROVE  v \in Value
        <3>1. v \in Tokens /\ OneOf(v, Fitting(bits))
            BY DEF Digits
        <3>2. v = <<v[1]>> /\ v[1] \in Numbers
            BY <3>1, OneWord, OwnWords
        <3> QED BY <3>2, OurValues
    <2> QED BY <2>1
<1>5. RepeatsRead \subseteq RepeatType
    <2>1. Digits(63) \subseteq Value /\ Seq(Digits(63)) \subseteq Seq(Value)
        BY <1>4
    <2> QED BY <2>1 DEF RepeatsRead, RepeatType
<1>6. TimesRead \subseteq TimeType
    <2>1. Seq(RepeatsRead) \subseteq Seq(RepeatType)
        BY <1>5
    <2>2. Digits(64) \subseteq Value
        BY <1>4
    <2> QED BY <2>1, <2>2 DEF TimesRead, TimeType
<1>7. d.time \in Seq(TimeType)
    BY <1>1, <1>6
<1> QED BY <1>1, <1>2, <1>3, <1>7

\* A description of this code is read as it was meant, or not at all.
LEMMA OursRead ==
    ASSUME NEW d \in SdpType, HeadBack(d), d.media \in Seq(OurMedia)
    PROVE  /\ Titleless(d)
           /\ SdpTextOf(d, "t") = SdpTextOf(d, "i")
           /\ ReadSdp(SdpTextOf(d, "i")).ok <=> \A k \in DOMAIN d.media : Legible(d.media[k])
           /\ ReadSdp(SdpTextOf(d, "i")).ok => ReadSdp(SdpTextOf(d, "i")).val = d
<1> DEFINE t == SdpTextOf(d, "i")
           read == ReadSdp(t)
           n == Len(d.media)
<1>1. DOMAIN d.media = 1 .. n /\ n \in Nat /\ \A k \in DOMAIN d.media : d.media[k] \in OurMedia
    BY LenProperties, ElementOfSeq
<1>2. Titleless(d)
    BY <1>1 DEF Titleless, OurMedia
<1>3. SdpTextOf(d, "t") = t
    BY <1>2, TitlelessText
<1>4. ASSUME \A k \in DOMAIN d.media : Legible(d.media[k])
      PROVE  read.ok /\ read.val = d
    <2>1. read = Read(Len(t) + 1, d)
        BY <1>4, ReadAsMeant
    <2> HIDE DEF read
    <2> QED BY <2>1 DEF Read
<1>5. ASSUME NEW bad \in DOMAIN d.media, ~Legible(d.media[bad])
      PROVE  ~read.ok
    <2> DEFINE T == {k \in 1 .. n : ~Legible(d.media[k])}
    <2>1. bad \in T /\ T \in SUBSET Nat
        BY <1>1, <1>5
    <2>2. PICK k \in T : \A j \in T : k <= j
        BY <2>1, Least
    <2> DEFINE last == k - 1
    <2>3. last \in 0 .. n /\ last < n /\ last + 1 = k /\ k \in 1 .. n /\ last \in Nat
        BY <1>1, <2>2
    <2>4. \A j \in 1 .. last : Legible(d.media[j])
        <3> TAKE j \in 1 .. last
        <3>1. j \in 1 .. n /\ j < k
            BY <1>1, <2>3
        <3>2. j \notin T
            BY <2>2, <3>1
        <3> QED BY <3>1, <3>2
    <2>5. Illegible(d.media[k])
        BY <1>1, <2>2, <2>3, OurLegible
    <2> HIDE DEF T, last
    <2>6. Illegible(d.media[last + 1])
        BY <2>3, <2>5
    <2>7. read = Error
        BY <2>3, <2>4, <2>6, TextRead
    <2> HIDE DEF read
    <2> QED BY <2>7 DEF Error
<1> QED BY <1>2, <1>3, <1>4, <1>5

-----------------------------------------------------------------------------
(* The exchange.                                                           *)

Offered == {SdpOffer(params) : params \in OfferParams}

\* What the answerer knows before it answers, and the answer it gives.
Answerable ==
    /\ "answer" \in ours /\ HeardOffer.ok
    /\ remote = HeardOffer.val /\ local \in Offered
Created ==
    /\ Answerable
    /\ answer = SdpAnswer(local, remote) /\ ~Mismatch(StreamsOf(local), StreamsOf(remote))

\* The inductive invariant: what has been sent is what was created from what
\* had been read, and what the offerer has is what can be read of it.
TalkInv ==
    /\ turn \in {"offered", "ready", "refused", "panicked", "answered", "agreed", "unheard"}
    /\ IF "offer" \in ours THEN offer \in Offered ELSE offer \in Foreign
    /\ turn \in {"offered", "ready", "refused"} => answer = Nothing
    /\ turn = "ready" => Answerable
    /\ answer # Nothing \/ turn \in {"answered", "agreed", "unheard"} =>
           IF "answer" \in ours THEN Created ELSE answer \in Foreign
    /\ turn = "agreed" => HeardAnswer.ok /\ heard = HeardAnswer.val
    /\ turn = "unheard" => ~HeardAnswer.ok

\* It holds at the start.
LEMMA TalkInvInit == TalkInit => TalkInv
<1> SUFFICES ASSUME TalkInit PROVE TalkInv
    OBVIOUS
<1>1. IF "offer" \in ours THEN offer \in Offered ELSE offer \in Foreign
    BY DEF TalkInit, Offered
<1> QED BY <1>1 DEF TalkInit, TalkInv

\* The texts depend on what is sent, and by whom.
LEMMA HeardStays ==
    /\ offer' = offer /\ ours' = ours => HeardOffer' = HeardOffer
    /\ answer' = answer /\ ours' = ours => HeardAnswer' = HeardAnswer
BY DEF HeardOffer, HeardAnswer, Text

\* Every step keeps it.
LEMMA TalkInvNext == TalkInv /\ [TalkNext]_talkVars => TalkInv'
<1> SUFFICES ASSUME TalkInv, [TalkNext]_talkVars PROVE TalkInv'
    OBVIOUS
<1> USE DEF TalkInv
<1>1. ASSUME NEW params \in OfferParams, HearOffer(params)
      PROVE  TalkInv'
    <2>1. HeardOffer' = HeardOffer /\ turn' = "ready" /\ turn = "offered"
        BY <1>1, HeardStays DEF HearOffer
    <2>2. Answerable'
        BY <1>1, <2>1 DEF HearOffer, Answerable, Offered
    <2> QED BY <1>1, <2>1, <2>2 DEF HearOffer
<1>2. ASSUME NEW d \in Foreign, ForeignAnswer(d)
      PROVE  TalkInv'
    BY <1>2 DEF ForeignAnswer
<1>3. ASSUME OfferUnread
      PROVE  TalkInv'
    BY <1>3 DEF OfferUnread
<1>4. ASSUME AnswerOffer
      PROVE  TalkInv'
    <2>1. Answerable /\ Answerable' /\ answer = Nothing /\ ours' = ours /\ offer' = offer
        BY <1>4, HeardStays DEF AnswerOffer, Answerable
    <2>2. "answer" \in ours
        BY <2>1 DEF Answerable
    <2>3. CASE turn' = "panicked" /\ answer' = answer
        BY <2>1, <2>3
    <2>4. CASE turn' = "answered" /\ Created'
        BY <2>1, <2>2, <2>4
    <2>5. (turn' = "panicked" /\ answer' = answer) \/ (turn' = "answered" /\ Created')
        <3>1. local' = local /\ remote' = remote
            BY <1>4 DEF AnswerOffer
        <3>2. \/ turn' = "panicked" /\ answer' = answer
              \/ turn' = "answered" /\ answer' = SdpAnswer(local, remote)
                 /\ ~Mismatch(StreamsOf(local), StreamsOf(remote))
            BY <1>4 DEF AnswerOffer
        <3> QED BY <2>1, <3>1, <3>2 DEF Created
    <2> QED BY <2>3, <2>4, <2>5
<1>5. ASSUME HearAnswer
      PROVE  TalkInv'
    <2>1. HeardOffer' = HeardOffer /\ HeardAnswer' = HeardAnswer
        BY <1>5, HeardStays DEF HearAnswer
    <2>2. turn = "answered" /\ UNCHANGED <<offer, local, answer, ours, remote>>
        BY <1>5 DEF HearAnswer
    <2>3. Created => Created'
        BY <2>1, <2>2 DEF Created, Answerable
    <2>4. IF "answer" \in ours' THEN Created' ELSE answer' \in Foreign
        BY <2>2, <2>3
    <2>5. \/ turn' = "unheard" /\ ~HeardAnswer.ok
          \/ turn' = "panicked"
          \/ turn' = "agreed" /\ HeardAnswer.ok /\ heard' = HeardAnswer.val
        BY <1>5 DEF HearAnswer
    <2> QED BY <2>1, <2>2, <2>4, <2>5
<1>6. ASSUME UNCHANGED talkVars
      PROVE  TalkInv'
    <2>1. UNCHANGED <<turn, offer, local, answer, ours, remote, heard>>
        BY <1>6 DEF talkVars
    <2>2. HeardOffer' = HeardOffer /\ HeardAnswer' = HeardAnswer
        BY <2>1, HeardStays
    <2>3. Answerable' <=> Answerable
        BY <2>1, <2>2 DEF Answerable
    <2>4. Created' <=> Created
        BY <2>1, <2>3 DEF Created
    <2> QED BY <2>1, <2>2, <2>3, <2>4
<1> QED BY <1>1, <1>2, <1>3, <1>4, <1>5, <1>6 DEF TalkNext

\* What was sent was created from what had been read, always.
THEOREM TalkInvHolds == Talk => []TalkInv
BY TalkInvInit, TalkInvNext, PTL DEF Talk

-----------------------------------------------------------------------------
(* What was created can be written down, and is read as it was meant.      *)

\* Every offer of this code can be written down, without titles.
LEMMA OfferedParts ==
    ASSUME NEW o \in Offered
    PROVE  /\ o \in SdpType /\ HeadBack(o) /\ o.media \in Seq(OurMedia)
           /\ \A k \in DOMAIN o.media : FormatsKnown(o.media[k])
           /\ RtpMapsBack(o)
<1>1. PICK params \in OfferParams : o = SdpOffer(params)
    BY DEF Offered
<1>2. params \in ParamsType
    BY <1>1, TalkAssumption
<1> DEFINE n == Len(params.streams)
<1>3. o \in SdpType /\ HeadBack(o) /\ o.media = [i \in 1 .. n |-> OfferedMedia(params, i)]
      /\ o.media \in Seq(OurMedia) /\ n \in Nat /\ DOMAIN o.media = 1 .. n
    BY <1>1, <1>2, OfferParts
<1>4. DOMAIN params.streams = 1 .. n
    <2>1. params.streams \in Seq(StreamType)
        BY <1>2 DEF ParamsType
    <2> QED BY <2>1, LenProperties
<1>5. RtpMapsBack(o)
    BY <1>1, <1>2, OfferBack
<1> HIDE DEF n
<1>6. \A k \in DOMAIN o.media : FormatsKnown(o.media[k])
    <2> TAKE k \in DOMAIN o.media
    <2>1. o.media[k] = OfferedMedia(params, k) /\ k \in DOMAIN params.streams
        BY <1>3, <1>4
    <2>2. FormatsKnown(OfferedMedia(params, k))
        BY <1>2, <2>1, OfferedType DEF FormatsKnown
    <2> QED BY <2>1, <2>2
<1> QED BY <1>3, <1>5, <1>6

\* What the answerer has read is something the parser can have read.
LEMMA HeardSound ==
    ASSUME TalkInv, HeardOffer.ok
    PROVE  HeardOffer.val \in SdpsRead
<1>1. CASE "offer" \in ours
    <2>1. offer \in Offered /\ Text(offer, "offer") = SdpTextOf(offer, "t")
        BY <1>1 DEF TalkInv, Text
    <2>2. offer \in SdpType /\ HeadBack(offer) /\ offer.media \in Seq(OurMedia)
        BY <2>1, OfferedParts
    <2>3. HeardOffer = ReadSdp(SdpTextOf(offer, "i"))
        BY <2>1, <2>2, OursRead DEF HeardOffer
    <2> QED BY <2>2, <2>3, TextOut
<1>2. CASE "offer" \notin ours
    <2>1. offer \in SdpType /\ HeardOffer = ReadSdp(SdpTextOf(offer, "i"))
        BY <1>2, TalkAssumption DEF TalkInv, Text, HeardOffer
    <2> QED BY <2>1, TextOut
<1> QED BY <1>1, <1>2

\* Every answer of this code can be written down, without titles.
LEMMA CreatedParts ==
    ASSUME TalkInv, Created
    PROVE  /\ answer \in SdpType /\ HeadBack(answer) /\ answer.media \in Seq(OurMedia)
           /\ HeardAnswer = ReadSdp(SdpTextOf(answer, "i"))
<1>1. remote \in SdpsRead /\ local \in Offered /\ answer = SdpAnswer(local, remote) /\ "answer" \in ours
    BY HeardSound DEF Created, Answerable
<1>2. local \in SdpType /\ HeadBack(local) /\ local.media \in Seq(OurMedia)
    BY <1>1, OfferedParts
<1>3. /\ remote.media \in Seq(MediasRead)
      /\ \A k \in DOMAIN remote.media : remote.media[k].attributes \in Seq(AttributesRead)
      /\ remote.time \in Seq(TimeType) /\ \A k \in DOMAIN remote.time : TimeBack(remote.time[k])
    BY <1>1, ReadParts
<1>4. answer \in SdpType /\ HeadBack(answer) /\ answer.media \in Seq(OurMedia)
    BY <1>1, <1>2, <1>3, AnswerParts
<1>5. HeardAnswer = ReadSdp(SdpTextOf(answer, "i"))
    BY <1>1, <1>4, OursRead DEF HeardAnswer, Text
<1> QED BY <1>4, <1>5

\* A text of this code, or of another, can be read exactly if its description
\* is one that both can say.
LEMMA ReadsBack ==
    ASSUME NEW d \in SdpType, NEW by, by \in ours => HeadBack(d) /\ d.media \in Seq(OurMedia)
    PROVE  (ReadSdp(Text(d, by)) = Read(Len(Text(d, by)) + 1, d)) <=> Back(d, by)
<1>1. Text(d, by) = SdpTextOf(d, "i")
    BY OursRead DEF Text
<1>2. (ReadSdp(Text(d, by)) = Read(Len(Text(d, by)) + 1, d))
          <=> HeadBack(d) /\ \A k \in DOMAIN d.media : Legible(d.media[k])
    BY <1>1, ReadAsMeant
<1>3. by \in ours => \A k \in DOMAIN d.media : d.media[k].title = <<>>
    BY OursRead DEF Titleless
<1>4. \A k \in DOMAIN d.media : MediaBack(d.media[k], by) <=> Legible(d.media[k])
    BY <1>3 DEF MediaBack, Legible
<1> QED BY <1>2, <1>4 DEF Back

\* What is sent is read as it was meant exactly if both sides can say it.
THEOREM TextsAreReadBack == Talk => []TextsReadBack
<1>1. TalkInv => TextsReadBack
    <2> SUFFICES ASSUME TalkInv PROVE TextsReadBack
        OBVIOUS
    <2>1. offer \in SdpType /\ ("offer" \in ours => HeadBack(offer) /\ offer.media \in Seq(OurMedia))
        BY OfferedParts, TalkAssumption DEF TalkInv
    <2>2. turn = "answered" =>
              answer \in SdpType
              /\ ("answer" \in ours => HeadBack(answer) /\ answer.media \in Seq(OurMedia))
        BY CreatedParts, TalkAssumption DEF TalkInv
    <2> QED BY <2>1, <2>2, ReadsBack DEF TextsReadBack
<1> QED BY <1>1, TalkInvHolds, PTL

\* Between two ends of this code the answerer has the offer as it was meant,
\* and answers with the streams that follow from it.
LEMMA BothOurs ==
    ASSUME TalkInv, Created, "offer" \in ours
    PROVE  /\ remote = offer
           /\ StreamsOf(answer) = Answer(StreamsOf(local), StreamsOf(offer))
           /\ \A k \in DOMAIN answer.media : answer.media[k].type \in MediaTypes
<1>1. /\ local \in Offered /\ offer \in Offered /\ HeardOffer.ok /\ remote = HeardOffer.val
      /\ answer = SdpAnswer(local, remote) /\ ~Mismatch(StreamsOf(local), StreamsOf(remote))
    BY DEF TalkInv, Created, Answerable
<1>2. /\ local \in SdpType /\ HeadBack(local) /\ local.media \in Seq(OurMedia)
      /\ \A k \in DOMAIN local.media : FormatsKnown(local.media[k])
    BY <1>1, OfferedParts
<1>3. /\ offer \in SdpType /\ HeadBack(offer) /\ offer.media \in Seq(OurMedia)
      /\ \A k \in DOMAIN offer.media : FormatsKnown(offer.media[k])
    BY <1>1, OfferedParts
<1>4. HeardOffer = ReadSdp(SdpTextOf(offer, "i"))
    BY <1>3, OursRead DEF HeardOffer, Text
<1>5. remote = offer /\ \A k \in DOMAIN offer.media : Legible(offer.media[k])
    BY <1>1, <1>3, <1>4, OursRead
<1>6. StreamsOf(answer) = Answer(StreamsOf(local), StreamsOf(offer))
    BY <1>1, <1>2, <1>3, <1>5, AnswerStreams
<1> DEFINE at == Answered(StreamsOf(local), StreamsOf(remote))
<1>7. /\ remote.media \in Seq(MediasRead)
      /\ \A k \in DOMAIN remote.media : remote.media[k].attributes \in Seq(AttributesRead)
      /\ remote.time \in Seq(TimeType) /\ \A k \in DOMAIN remote.time : TimeBack(remote.time[k])
    BY <1>1, HeardSound, ReadParts
<1>8. /\ answer.media \in Seq(OurMedia) /\ Len(answer.media) = Len(at)
      /\ \A j \in DOMAIN at : answer.media[j] = AnswerMedia(local.media[at[j]], remote.media[at[j]])
    BY <1>1, <1>2, <1>7, AnswerParts
<1>9. /\ DOMAIN at = 1 .. Len(at)
      /\ \A j \in DOMAIN at : at[j] \in DOMAIN local.media /\ at[j] \in DOMAIN remote.media
    BY <1>2, <1>7, AnsweredPlaces
<1> HIDE DEF at
<1>10. ASSUME NEW k \in DOMAIN answer.media
       PROVE  answer.media[k].type \in MediaTypes
    <2> DEFINE l == local.media[at[k]]
               r == remote.media[at[k]]
    <2>1. k \in DOMAIN at
        BY <1>8, <1>9, LenProperties
    <2>2. at[k] \in DOMAIN local.media /\ at[k] \in DOMAIN remote.media
        BY <1>9, <2>1
    <2>3. l \in OurMedia /\ answer.media[k] = AnswerMedia(l, r)
        BY <1>2, <1>8, <2>1, <2>2, ElementOfSeq
    <2>4. r.type \in MediaTypes
        BY <1>5, <2>2 DEF Legible
    <2>5. r.attributes \in Seq(AttributesRead)
        BY <1>7, <2>2
    <2>6. /\ DOMAIN StreamsOf(local) = DOMAIN local.media
          /\ StreamsOf(local)[at[k]] = StreamOf(l)
        BY <1>2, <2>2, StreamsParts
    <2>7. /\ DOMAIN StreamsOf(remote) = DOMAIN remote.media
          /\ StreamsOf(remote)[at[k]] = StreamOf(r)
        BY <1>7, <2>2, StreamsParts
    <2>8. at[k] \in Matched(StreamsOf(local), StreamsOf(remote))
        BY <2>2, <2>6, <2>7 DEF Matched
    <2>9. StreamOf(l).kind = StreamOf(r).kind
        BY <1>1, <2>6, <2>7, <2>8 DEF Mismatch
    <2> HIDE DEF l, r
    <2>10. l.type = r.type
        <3>1. StreamOf(l).kind = <<l.type, l.proto>> /\ StreamOf(r).kind = <<r.type, r.proto>>
            BY DEF StreamOf
        <3>2. \A a, b, c, d : <<a, b>> = <<c, d>> => a = c
            OBVIOUS
        <3>3. <<l.type, l.proto>> = <<r.type, r.proto>>
            BY <2>9, <3>1
        <3> QED BY <3>2, <3>3
    <2>11. AnswerMedia(l, r).type = l.type
        BY <2>3, <2>5, AnswerMediaType
    <2> QED BY <2>3, <2>4, <2>10, <2>11
<1> QED BY <1>5, <1>6, <1>10

\* An answer of this code is read exactly if every stream has a format left.
LEMMA AnswerHeard ==
    ASSUME TalkInv, Created, "offer" \in ours
    PROVE  /\ HeardAnswer.ok <=> ~(\E k \in DOMAIN StreamsOf(answer) : StreamsOf(answer)[k].formats = <<>>)
           /\ HeardAnswer.ok => HeardAnswer.val = answer
<1>1. /\ answer \in SdpType /\ HeadBack(answer) /\ answer.media \in Seq(OurMedia)
      /\ HeardAnswer = ReadSdp(SdpTextOf(answer, "i"))
    BY CreatedParts
<1>2. \A k \in DOMAIN answer.media : answer.media[k].type \in MediaTypes
    BY BothOurs
<1>3. /\ HeardAnswer.ok <=> \A k \in DOMAIN answer.media : Legible(answer.media[k])
      /\ HeardAnswer.ok => HeardAnswer.val = answer
    BY <1>1, OursRead
<1>4. /\ DOMAIN StreamsOf(answer) = DOMAIN answer.media
      /\ \A k \in DOMAIN answer.media : StreamsOf(answer)[k] = StreamOf(answer.media[k])
    BY <1>1, StreamsParts
<1>5. ASSUME NEW k \in DOMAIN answer.media
      PROVE  Legible(answer.media[k]) <=> StreamsOf(answer)[k].formats # <<>>
    <2> DEFINE m == answer.media[k]
    <2>1. m \in OurMedia /\ m.type \in MediaTypes
        BY <1>1, <1>2, ElementOfSeq
    <2>2. StreamsOf(answer)[k] = StreamOf(m)
        BY <1>4
    <2> HIDE DEF m
    <2>3. Legible(m) <=> m.formats # <<>>
        BY <2>1, OurLegible
    <2>4. StreamOf(m).formats = [j \in DOMAIN m.formats |-> PayloadType[m.formats[j][1]]]
        BY DEF StreamOf
    <2>5. m.formats \in Seq(Free(Delimiters))
        BY <2>1 DEF OurMedia, MediaType
    <2>6. StreamOf(m).formats = <<>> <=> m.formats = <<>>
        <3>1. DOMAIN StreamOf(m).formats = DOMAIN m.formats
            BY <2>4
        <3>2. m.formats = <<>> <=> DOMAIN m.formats = {}
            <4> DEFINE s == m.formats
            <4>1. s \in Seq(Free(Delimiters))
                BY <2>5
            <4> HIDE DEF s
            <4>2. DOMAIN s = 1 .. Len(s) /\ Len(s) \in Nat
                BY <4>1, LenProperties
            <4>3. s = <<>> <=> Len(s) = 0
                BY <4>1, EmptySeq
            <4>4. Len(s) = 0 <=> DOMAIN s = {}
                BY <4>2
            <4> QED BY <4>3, <4>4 DEF s
        <3>3. ASSUME DOMAIN m.formats = {}
              PROVE  StreamOf(m).formats = <<>>
            BY <2>4, <3>3
        <3>4. DOMAIN <<>> = {}
            OBVIOUS
        <3> QED BY <3>1, <3>2, <3>3, <3>4
    <2>7. Legible(m) <=> StreamsOf(answer)[k].formats # <<>>
        BY <2>2, <2>3, <2>6
    <2> QED BY <2>7 DEF m
<1> QED BY <1>3, <1>4, <1>5

\* Two ends of this code have the same streams in the end.
LEMMA AgreedEnds == TalkInv => EndsAgree
<1> SUFFICES ASSUME TalkInv, ours = {"offer", "answer"}, answer # Nothing
             PROVE  LET streams == Answer(StreamsOf(local), StreamsOf(offer))
                    IN /\ StreamsOf(answer) = streams
                       /\ turn = "agreed" => StreamsOf(heard) = streams /\ heard = answer
                       /\ turn \in {"agreed", "unheard"} =>
                              (turn = "unheard" <=> \E k \in DOMAIN streams : streams[k].formats = <<>>)
    BY DEF EndsAgree
<1> DEFINE streams == Answer(StreamsOf(local), StreamsOf(offer))
<1>1. Created /\ "offer" \in ours
    BY DEF TalkInv
<1>2. StreamsOf(answer) = streams
    BY <1>1, BothOurs
<1>3. /\ HeardAnswer.ok <=> ~(\E k \in DOMAIN streams : streams[k].formats = <<>>)
      /\ HeardAnswer.ok => HeardAnswer.val = answer
    BY <1>1, <1>2, AnswerHeard
<1> HIDE DEF streams
<1>4. turn = "agreed" => HeardAnswer.ok /\ heard = HeardAnswer.val
    BY DEF TalkInv
<1>5. turn = "unheard" => ~HeardAnswer.ok
    BY DEF TalkInv
<1>6. turn = "agreed" => StreamsOf(heard) = streams /\ heard = answer
    BY <1>2, <1>3, <1>4
<1>7. turn \in {"agreed", "unheard"} =>
          (turn = "unheard" <=> \E k \in DOMAIN streams : streams[k].formats = <<>>)
    BY <1>3, <1>4, <1>5
<1> QED BY <1>2, <1>6, <1>7 DEF streams

\* What the ends understand of each other.
THEOREM EndsUnderstand == Talk => []Understanding
<1>1. TalkInv => Understanding
    BY AgreedEnds, OfferedParts DEF TalkInv, Understanding
<1> QED BY <1>1, TalkInvHolds, PTL
=============================================================================
