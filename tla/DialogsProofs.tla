---------------------------- MODULE DialogsProofs ----------------------------
(***************************************************************************)
(* Proofs about Dialogs, for any number of sessions and packets: the       *)
(* tables agree with the sessions, the handler hears of each session in    *)
(* order, no ACK is answered and one BYE is.                               *)
(***************************************************************************)
EXTENDS Dialogs, SequenceTheorems, TLAPS

\* A packet that has arrived carries a request, one that goes to a dialog
\* names it, and nothing is answered on the way.
Routed ==
    \A p \in Packet :
        /\ pos[p] # "idle" => req[p] \in Request
        /\ pos[p] = "sending" => req[p].to \in Session
        /\ pos[p] # "done" => answers[p] = {}

\* What waits in the channel of a dialog was sent to it, is not answered, and
\* waits there once.
Queued ==
    \A s \in Session : \A i \in DOMAIN chan[s] :
        /\ pos[chan[s][i]] = "done"
        /\ req[chan[s][i]] \in Request /\ req[chan[s][i]].to = s
        /\ answers[chan[s][i]] = {}
        /\ byeEntry[s] # chan[s][i]
        /\ \A j \in DOMAIN chan[s] : chan[s][j] = chan[s][i] => j = i

\* What the handler has heard at each stage of a session.
Heard(s) ==
    /\ life[s] \in {"unused", "calling"} => ~remoteTag[s]
    /\ life[s] \in {"unused", "incoming", "accepting", "waiting", "calling"} =>
           events[s] = <<>>
    /\ life[s] \in {"established", "ending"} => events[s] # <<>>
    /\ \A i \in DOMAIN events[s] :
        /\ events[s][i] = "negotiated" <=> i = 1
        /\ events[s][i] = "terminated" => i = Len(events[s]) /\ life[s] = "gone"
    /\ events[s] # <<>> /\ remoteTag[s] =>
           \E p \in Packet : req[p].method = "ACK" /\ req[p].to = s /\ pos[p] = "done"

Told == \A s \in Session : Heard(s)

\* The BYE of a session has left the channel; an unknown dialog was not its
\* answer.
Leaving ==
    /\ \A s \in Session :
        /\ life[s] = "ending" => byeEntry[s] # NoPacket
        /\ byeEntry[s] # NoPacket =>
            /\ req[byeEntry[s]] \in Request
            /\ req[byeEntry[s]].method = "BYE" /\ req[byeEntry[s]].to = s
            /\ pos[byeEntry[s]] = "done"
            /\ 481 \notin answers[byeEntry[s]]
    /\ \A p \in Packet :
        200 \in answers[p] => req[p].to \in Session /\ life[req[p].to] = "gone"

\* No number is known before there is a session.
Fresh == \A s \in Session : life[s] = "unused" => remoteCSeq[s] = 0

\* The inductive invariant.
IInv ==
    /\ TablesSound /\ Routed /\ Queued /\ Told /\ Leaving /\ Fresh
    /\ AckNeverAnswered /\ OneGoodbye

USE ConstantsAssumption DEF ConstantsAssumption

\* NoPacket is none of the packets.
LEMMA PacketType == NoPacket \notin Packet
BY DEF Packet, NoPacket

-----------------------------------------------------------------------------

\* The actions in which a session reads a request.
Reads(s) ==
    \/ RefusalFails(s) \/ WaitIgnores(s) \/ GotAck(s) \/ GotBadAck(s)
    \/ GotReinvite(s) \/ TaskIgnores(s) \/ GotBye(s)

\* The other actions of a session.
Moves(s) ==
    \/ Progress(s) \/ GiveUp(s) \/ Accept(s) \/ AcceptFails(s) \/ Accepted(s)
    \/ NoAck(s) \/ ByeAnswered(s) \/ ByeAnswerFails(s) \/ ByeLingerEnds(s)
    \/ SendInvite(s) \/ Answered(s) \/ AnsweredInVain(s) \/ NotAnswered(s)

\* Every step is that of the dispatcher, of a packet or of a session.
LEMMA Steps ==
    ASSUME [Next]_vars
    PROVE  \/ \E p \in Packet : Dispatch(p)
           \/ \E p \in Packet : \E r \in Request : Arrive(p, r)
           \/ \E s \in Session : Reads(s)
           \/ \E s \in Session : Moves(s)
           \/ UNCHANGED vars
BY DEF Next, Reads, Moves, UserCall, Accepting, Waiting, Reading, Calling, Quiet

\* What a request is: its method, where it goes and its number.
LEMMA RequestType ==
    ASSUME NEW r \in Request
    PROVE  /\ r.method \in {"INVITE", "ACK", "BYE"}
           /\ r.to \in Session \cup {NoSession} /\ r.cseq \in 0..3
           /\ r.method \in {"ACK", "BYE"} => r.to \in Session
BY DEF Request

\* The plugins are passed in one order or the other.
LEMMA NextPluginType ==
    ASSUME TypeOK
    PROVE  /\ NextPlugin("dialogs") \in {"transactions", "application"}
           /\ NextPlugin("transactions") \in {"dialogs", "application"}
<1>1. \E other \in {"dialogs", "transactions"} : other # "dialogs"
    OBVIOUS
<1>2. \E other \in {"dialogs", "transactions"} : other # "transactions"
    OBVIOUS
<1>3. (CHOOSE other \in {"dialogs", "transactions"} : other # "dialogs") = "transactions"
    BY <1>1
<1>4. (CHOOSE other \in {"dialogs", "transactions"} : other # "transactions") = "dialogs"
    BY <1>2
<1> QED
    BY <1>3, <1>4 DEF NextPlugin

\* What Take does: the oldest request leaves the channel.
LEMMA TakeFacts ==
    ASSUME IInv, NEW s \in Session, Take(s)
    PROVE  LET p == Head(chan[s]) IN
           /\ p \in Packet /\ req[p] \in Request /\ req[p].to = s
           /\ pos[p] = "done" /\ answers[p] = {}
           /\ chan'[s] = Tail(chan[s]) /\ chan[s] \in Seq(Packet) /\ chan[s] # <<>>
           /\ chan' \in [Session -> Seq(Packet)]
           /\ \A u \in Session \ {s} : chan'[u] = chan[u]
           /\ \A i \in DOMAIN chan'[s] :
                i + 1 \in DOMAIN chan[s] /\ chan'[s][i] = chan[s][i + 1]
           /\ \A i \in DOMAIN chan'[s] : chan'[s][i] # p
<1> DEFINE p == Head(chan[s])
<1>1. chan[s] \in Seq(Packet) /\ chan[s] # <<>> /\ chan \in [Session -> Seq(Packet)]
    BY DEF Take, IInv, TablesSound, TypeOK
<1>2. 1 \in DOMAIN chan[s] /\ p = chan[s][1] /\ p \in Packet
    BY <1>1, HeadTailProperties
<1>3. chan' = [chan EXCEPT ![s] = Tail(chan[s])] /\ Tail(chan[s]) \in Seq(Packet)
    BY <1>1, HeadTailProperties DEF Take
<1>4. req[p] \in Request /\ req[p].to = s /\ pos[p] = "done" /\ answers[p] = {}
    BY <1>2 DEF IInv, Queued
<1>5. \A i \in DOMAIN chan'[s] :
          i + 1 \in DOMAIN chan[s] /\ chan'[s][i] = chan[s][i + 1]
    BY <1>1, <1>3, HeadTailProperties
<1>6. \A i \in DOMAIN chan'[s] : i \in Nat \ {0}
    BY <1>1, <1>3, HeadTailProperties
<1>7. \A i \in DOMAIN chan'[s] : chan'[s][i] # p
    BY <1>2, <1>5, <1>6 DEF IInv, Queued
<1> QED
    BY <1>1, <1>2, <1>3, <1>4, <1>5, <1>7

\* What a session answers while it reads, and what becomes of the BYE.
LEMMA ReadFacts ==
    ASSUME IInv, NEW s \in Session, Reads(s)
    PROVE  LET p == Head(chan[s]) IN
           /\ Take(s) /\ UNCHANGED <<order, req, pos, inviteEntry, remoteTag, early>>
           /\ \/ UNCHANGED answers
              \/ req[p].method # "ACK" /\ answers' = [answers EXCEPT ![p] = {500}]
           /\ \/ UNCHANGED byeEntry
              \/ /\ req[p].method = "BYE" /\ life'[s] = "ending"
                 /\ byeEntry' = [byeEntry EXCEPT ![s] = p]
           /\ \/ UNCHANGED <<life, registered>>
              \/ End(s)
              \/ Become(s, "ending") /\ UNCHANGED registered
              \/ Become(s, "established") /\ UNCHANGED registered
           /\ life[s] \in {"waiting", "established"}
           /\ life'[s] = "ending" <=> byeEntry' # byeEntry
<1> DEFINE p == Head(chan[s])
<1>0. TypeOK /\ (byeEntry[s] = NoPacket \/ life[s] \in {"ending", "gone"})
    BY DEF IInv, TablesSound, EntriesHaveOwners
<1>1. Take(s) /\ life[s] \in {"waiting", "established"}
    BY DEF Reads, RefusalFails, WaitIgnores, GotAck, GotBadAck, GotReinvite,
        TaskIgnores, GotBye
<1>2. p \in Packet /\ answers[p] = {}
    BY <1>1, TakeFacts
<1>3. byeEntry[s] = NoPacket /\ p # NoPacket
    BY <1>1, <1>2, PacketType DEF IInv, TablesSound, EntriesHaveOwners
<1>4. Refusal(s) => \/ UNCHANGED answers
                    \/ req[p].method # "ACK" /\ answers' = [answers EXCEPT ![p] = {500}]
    BY <1>2 DEF Refusal, Stale, Answer
<1>5. \/ UNCHANGED answers
      \/ req[p].method # "ACK" /\ answers' = [answers EXCEPT ![p] = {500}]
    BY <1>4 DEF Reads, RefusalFails, WaitIgnores, GotAck, GotBadAck, GotReinvite,
        TaskIgnores, GotBye, packets
<1>6. byeEntry \in [Session -> Packet \cup {NoPacket}] /\ life \in [Session -> Life]
    BY DEF IInv, TablesSound, TypeOK
<1>7. CASE GotBye(s)
    BY <1>1, <1>3, <1>5, <1>6, <1>7 DEF GotBye, Become
<1>8. CASE \/ RefusalFails(s) \/ WaitIgnores(s) \/ GotAck(s) \/ GotBadAck(s)
           \/ GotReinvite(s) \/ TaskIgnores(s)
    BY <1>1, <1>5, <1>6, <1>8
    DEF RefusalFails, WaitIgnores, GotAck, GotBadAck, GotReinvite, TaskIgnores,
        packets, tsx, End, Become
<1> QED
    BY <1>7, <1>8 DEF Reads

-----------------------------------------------------------------------------

\* The invariant holds when the endpoint starts.
LEMMA Start == Init => IInv
BY DEF Init, IInv, TablesSound, TypeOK, EntriesHaveOwners, Routed, Queued, Told,
    Heard, Leaving, Fresh, AckNeverAnswered, OneGoodbye, Life, Alive, Pos, Request, NoRequest

\* Every step keeps the types.
LEMMA TypeStep == ASSUME IInv, [Next]_vars PROVE TypeOK'
<1>0. TypeOK
    BY DEF IInv, TablesSound
<1>a. /\ life \in [Session -> Life] /\ registered \subseteq Session
      /\ early \in [Session -> BOOLEAN]
    BY <1>0 DEF TypeOK
<1>b. /\ byeEntry \in [Session -> Packet \cup {NoPacket}]
      /\ inviteEntry \in Session \cup {NoSession}
    BY <1>0 DEF TypeOK
<1>c. events \in [Session -> Seq({"negotiated", "reinvite", "terminated"})]
    BY <1>0 DEF TypeOK
<1>d. answers \in [Packet -> SUBSET {200, 481, 500}]
    BY <1>0 DEF TypeOK
<1>e. remoteCSeq \in [Session -> 0..3]
    BY <1>0 DEF TypeOK
<1>1. CASE \E p \in Packet : \E r \in Request : Arrive(p, r)
    BY <1>0, <1>1 DEF TypeOK, Arrive, session, tsx, Pos
<1>2. CASE \E p \in Packet : Dispatch(p)
    <2>1. PICK p \in Packet : Dispatch(p)
        BY <1>2
    <2>2. CASE NotInDialog(p) \/ DialogFound(p) \/ DialogUnknown(p)
               \/ Absorbed(p) \/ NoTransaction(p) \/ Ignored(p)
        <3>1. pos' = [pos EXCEPT ![p] = pos'[p]] /\ pos'[p] \in Pos
            BY <1>0, <2>2, NextPluginType
            DEF TypeOK, NotInDialog, DialogFound, DialogUnknown, Absorbed,
                NoTransaction, Ignored, To, Pos
        <3>2. answers' = answers \/ answers' = [answers EXCEPT ![p] = answers[p] \cup {481}]
            BY <2>2 DEF NotInDialog, DialogFound, DialogUnknown, Absorbed,
                NoTransaction, Ignored, Answer
        <3>3. answers' \in [Packet -> SUBSET {200, 481, 500}]
            BY <1>d, <3>2
        <3>4. UNCHANGED <<order, session, tsx, req>>
            BY <2>2 DEF NotInDialog, DialogFound, DialogUnknown, Absorbed,
                NoTransaction, Ignored
        <3> QED
            BY ZenonT(40), <1>0, <3>1, <3>3, <3>4 DEF TypeOK, session, tsx
    <2>3. CASE Deliver(p)
        <3>1. req[p].to \in Session
            BY <2>3 DEF Deliver, IInv, Routed
        <3>2. Append(chan[req[p].to], p) \in Seq(Packet)
            BY <1>0, <3>1 DEF TypeOK
        <3>3. chan' \in [Session -> Seq(Packet)]
            BY <1>0, <2>3, <3>1, <3>2 DEF TypeOK, Deliver
        <3> QED
            BY <1>0, <2>3, <3>3 DEF TypeOK, Deliver, To, tsx, Pos
    <2>4. CASE \E s \in Session : FromInvite(p, s)
        <3>1. req[p] \in Request
            BY <2>4 DEF FromInvite, IInv, Routed
        <3>2. req[p].cseq \in 0..3
            BY <3>1, RequestType
        <3> QED
            BY <1>0, <2>4, <3>2 DEF TypeOK, FromInvite, To, Become, Pos, Life
    <2> QED
        BY <2>1, <2>2, <2>3, <2>4 DEF Dispatch
<1>3. CASE \E s \in Session : Reads(s)
    <2>1. PICK s \in Session : Reads(s)
        BY <1>3
    <2> DEFINE p == Head(chan[s])
    <2>2. Take(s) /\ UNCHANGED <<order, req, pos, inviteEntry, remoteTag, early>>
        BY <2>1, ReadFacts
    <2>3. p \in Packet /\ req[p] \in Request /\ chan' \in [Session -> Seq(Packet)]
        BY <2>2, TakeFacts
    <2>4. remoteCSeq' \in [Session -> 0..3]
        <3>1. req[p].cseq \in 0..3
            BY <2>3, RequestType
        <3> QED
            BY <1>e, <2>2, <3>1 DEF Take
    <2>5. answers' \in [Packet -> SUBSET {200, 481, 500}]
        <3>1. answers' = answers \/ answers' = [answers EXCEPT ![p] = {500}]
            BY <2>1, ReadFacts
        <3> QED
            BY <1>d, <3>1
    <2>6. byeEntry' \in [Session -> Packet \cup {NoPacket}]
        <3>1. byeEntry' = byeEntry \/ byeEntry' = [byeEntry EXCEPT ![s] = p]
            BY <2>1, ReadFacts
        <3> QED
            BY <1>b, <2>3, <3>1
    <2>7. life' \in [Session -> Life] /\ registered' \subseteq Session
        <3>1. \/ UNCHANGED <<life, registered>>
              \/ End(s)
              \/ Become(s, "ending") /\ UNCHANGED registered
              \/ Become(s, "established") /\ UNCHANGED registered
            BY <2>1, ReadFacts
        <3> QED
            BY <1>a, <3>1 DEF End, Become, Life
    <2>8. events' \in [Session -> Seq({"negotiated", "reinvite", "terminated"})]
        <3>1. \/ events' = events
              \/ \E e \in {"negotiated", "reinvite"} :
                    events' = [events EXCEPT ![s] = Append(events[s], e)]
            BY <2>1 DEF Reads, RefusalFails, WaitIgnores, GotAck, GotBadAck,
                GotReinvite, TaskIgnores, GotBye, Tell
        <3>2. \A e \in {"negotiated", "reinvite"} :
                  Append(events[s], e) \in Seq({"negotiated", "reinvite", "terminated"})
            BY <1>c
        <3> QED
            BY <1>c, <3>1, <3>2
    <2> QED
        BY <1>0, <2>2, <2>3, <2>4, <2>5, <2>6, <2>7, <2>8 DEF TypeOK
<1>4. CASE \E s \in Session : Moves(s)
    <2>1. PICK s \in Session : Moves(s)
        BY <1>4
    <2>2. /\ life' \in [Session -> Life] /\ registered' \subseteq Session
          /\ early' \in [Session -> BOOLEAN]
          /\ byeEntry' \in [Session -> Packet \cup {NoPacket}]
          /\ inviteEntry' \in Session \cup {NoSession}
          /\ UNCHANGED <<order, remoteTag, remoteCSeq, chan, req, pos>>
        BY <1>a, <1>b, <2>1 DEF Moves, Progress, GiveUp, Accept, AcceptFails,
            Accepted, NoAck, ByeAnswered, ByeAnswerFails, ByeLingerEnds,
            SendInvite, Answered, AnsweredInVain, NotAnswered, End, EndInvite,
            Become, Life, tsx, packets, session
    <2>3. events' \in [Session -> Seq({"negotiated", "reinvite", "terminated"})]
        <3>1. \/ events' = events
              \/ \E e \in {"negotiated", "terminated"} :
                    events' = [events EXCEPT ![s] = Append(events[s], e)]
            BY <2>1 DEF Moves, Progress, GiveUp, Accept, AcceptFails,
                Accepted, NoAck, ByeAnswered, ByeAnswerFails, ByeLingerEnds,
                SendInvite, Answered, AnsweredInVain, NotAnswered, session, Tell
        <3>2. \A e \in {"negotiated", "terminated"} :
                  Append(events[s], e) \in Seq({"negotiated", "reinvite", "terminated"})
            BY <1>c
        <3> QED
            BY <1>c, <3>1, <3>2
    <2>4. answers' \in [Packet -> SUBSET {200, 481, 500}]
        <3>1. \/ answers' = answers
              \/ answers' = [answers EXCEPT ![byeEntry[s]] = answers[byeEntry[s]] \cup {200}]
            BY <2>1 DEF Moves, Progress, GiveUp, Accept, AcceptFails,
                Accepted, NoAck, ByeAnswered, ByeAnswerFails, ByeLingerEnds,
                SendInvite, Answered, AnsweredInVain, NotAnswered, packets, Answer
        <3> QED
            BY <1>d, <3>1
    <2> QED
        BY <1>0, <2>2, <2>3, <2>4 DEF TypeOK
<1>5. CASE UNCHANGED vars
    BY <1>0, <1>5 DEF TypeOK, vars, session, tsx, packets
<1> QED
    BY <1>1, <1>2, <1>3, <1>4, <1>5, Steps

\* What becomes of life and the two tables in a step.
LEMMA LifeStep ==
    ASSUME IInv, NEW s \in Session, Reads(s) \/ Moves(s)
    PROVE  /\ \A u \in Session \ {s} : life'[u] = life[u] /\ byeEntry'[u] = byeEntry[u]
           /\ \A u \in Session \ {s} : u \in registered' <=> u \in registered
           /\ s \in registered' <=> life'[s] \in Alive
           /\ byeEntry'[s] # NoPacket => life'[s] \in {"ending", "gone"}
           /\ inviteEntry' \in {inviteEntry, NoSession}
           /\ inviteEntry' = s => life'[s] \in {"incoming", "accepting"}
<1>0. /\ life \in [Session -> Life] /\ byeEntry \in [Session -> Packet \cup {NoPacket}]
      /\ registered = {u \in Session : life[u] \in Alive}
      /\ inviteEntry = s => life[s] \in {"incoming", "accepting"}
      /\ byeEntry[s] # NoPacket => life[s] \in {"ending", "gone"}
      /\ s # NoSession
    BY DEF IInv, TablesSound, TypeOK, EntriesHaveOwners
<1>1. CASE Reads(s)
    <2>1. /\ life[s] \in {"waiting", "established"}
          /\ \/ UNCHANGED <<life, registered>>
             \/ End(s)
             \/ Become(s, "ending") /\ UNCHANGED registered
             \/ Become(s, "established") /\ UNCHANGED registered
          /\ \/ UNCHANGED byeEntry
             \/ /\ life'[s] = "ending"
                /\ byeEntry' = [byeEntry EXCEPT ![s] = Head(chan[s])]
          /\ UNCHANGED inviteEntry
        BY <1>1, ReadFacts
    <2> QED
        BY <1>0, <2>1 DEF End, Become, Life, Alive
<1>2. CASE Progress(s) \/ GiveUp(s) \/ Accept(s) \/ AcceptFails(s) \/ Accepted(s)
    BY <1>0, <1>2 DEF Progress, GiveUp, Accept, AcceptFails, Accepted, End,
        EndInvite, Become, tsx, Life, Alive
<1>3. CASE NoAck(s) \/ ByeAnswered(s) \/ ByeAnswerFails(s) \/ ByeLingerEnds(s)
    BY <1>0, <1>3 DEF NoAck, ByeAnswered, ByeAnswerFails, ByeLingerEnds, End,
        Become, tsx, session, Life, Alive
<1>4. CASE SendInvite(s) \/ Answered(s) \/ AnsweredInVain(s) \/ NotAnswered(s)
    BY <1>0, <1>4 DEF SendInvite, Answered, AnsweredInVain, NotAnswered, End,
        Become, tsx, Life, Alive
<1> QED
    BY <1>1, <1>2, <1>3, <1>4 DEF Moves

\* On every way out of a session the tables forget it.
LEMMA EntriesStep == ASSUME IInv, [Next]_vars PROVE EntriesHaveOwners'
<1>0. TypeOK /\ EntriesHaveOwners /\ TypeOK'
    BY TypeStep DEF IInv, TablesSound
<1>1. CASE \E s \in Session : Reads(s) \/ Moves(s)
    <2>1. PICK s \in Session : Reads(s) \/ Moves(s)
        BY <1>1
    <2>2. registered' = {u \in Session : life'[u] \in Alive}
        <3>1. registered' \subseteq Session /\ registered = {u \in Session : life[u] \in Alive}
            BY <1>0 DEF EntriesHaveOwners, TypeOK
        <3>2. ASSUME NEW u \in Session PROVE u \in registered' <=> life'[u] \in Alive
            BY <2>1, <3>1, LifeStep
        <3> QED
            BY <3>1, <3>2
    <2>3. inviteEntry' # NoSession => life'[inviteEntry'] \in {"incoming", "accepting"}
        <3>1. /\ inviteEntry # NoSession =>
                    inviteEntry \in Session /\ life[inviteEntry] \in {"incoming", "accepting"}
            BY <1>0 DEF EntriesHaveOwners, TypeOK
        <3> QED
            BY <2>1, <3>1, LifeStep
    <2>4. \A u \in Session : byeEntry'[u] # NoPacket => life'[u] \in {"ending", "gone"}
        <3>1. \A u \in Session : byeEntry[u] # NoPacket => life[u] \in {"ending", "gone"}
            BY <1>0 DEF EntriesHaveOwners
        <3>2. ASSUME NEW u \in Session, byeEntry'[u] # NoPacket
              PROVE  life'[u] \in {"ending", "gone"}
            BY <2>1, <3>1, <3>2, LifeStep
        <3> QED
            BY <3>2
    <2> QED
        BY <2>2, <2>3, <2>4 DEF EntriesHaveOwners
<1>2. CASE \E p \in Packet, s \in Session : FromInvite(p, s)
    BY <1>0, <1>2 DEF EntriesHaveOwners, TypeOK, FromInvite, Become, Alive, Life
<1>3. CASE UNCHANGED <<life, registered, inviteEntry, byeEntry>>
    BY <1>0, <1>3 DEF EntriesHaveOwners
<1>4. ASSUME NEW p \in Packet,
             \/ NotInDialog(p) \/ DialogFound(p) \/ DialogUnknown(p) \/ Absorbed(p)
             \/ NoTransaction(p) \/ Ignored(p) \/ Deliver(p)
             \/ \E r \in Request : Arrive(p, r)
      PROVE  UNCHANGED <<life, registered, inviteEntry, byeEntry>>
    BY <1>4 DEF NotInDialog, DialogFound, DialogUnknown, Absorbed, NoTransaction,
        Ignored, Deliver, Arrive, session, tsx
<1> QED
    BY <1>1, <1>2, <1>3, <1>4, Steps DEF Dispatch, vars, session, tsx

-----------------------------------------------------------------------------

\* The plugins, but for what creates a session and what fills a channel.
Passes(p) ==
    \/ NotInDialog(p) \/ DialogFound(p) \/ DialogUnknown(p)
    \/ Absorbed(p) \/ NoTransaction(p) \/ Ignored(p)

\* A request that is passed on moves, and nothing of a dialog changes.
LEMMA PassFacts ==
    ASSUME IInv, NEW p \in Packet, Passes(p)
    PROVE  /\ UNCHANGED <<order, session, tsx, req>>
           /\ pos[p] \notin {"idle", "sending", "done"}
           /\ pos' = [pos EXCEPT ![p] = pos'[p]] /\ pos'[p] # "idle"
           /\ pos'[p] = "sending" => req[p].to \in Session
           /\ \/ UNCHANGED answers
              \/ /\ req[p].method # "ACK" /\ pos'[p] = "done"
                 /\ answers' = [answers EXCEPT ![p] = {481}]
<1>0. /\ TypeOK /\ pos \in [Packet -> Pos] /\ registered \subseteq Session
      /\ pos[p] # "done" => answers[p] = {}
    BY DEF IInv, TablesSound, TypeOK, Routed
<1>1. UNCHANGED <<order, session, tsx, req>> /\ pos[p] \notin {"idle", "sending", "done"}
    BY DEF Passes, NotInDialog, DialogFound, DialogUnknown, Absorbed, NoTransaction, Ignored
<1>2. pos' = [pos EXCEPT ![p] = pos'[p]] /\ pos'[p] # "idle"
      /\ (pos'[p] = "sending" => req[p].to \in registered)
    BY <1>0, NextPluginType
    DEF Passes, NotInDialog, DialogFound, DialogUnknown, Absorbed, NoTransaction,
        Ignored, To, Matches
<1>3. \/ UNCHANGED answers
      \/ /\ req[p].method # "ACK" /\ pos'[p] = "done"
         /\ answers' = [answers EXCEPT ![p] = answers[p] \cup {481}]
    BY <1>0
    DEF Passes, NotInDialog, DialogFound, DialogUnknown, Absorbed, NoTransaction,
        Ignored, To, Answer
<1> QED
    BY <1>0, <1>1, <1>2, <1>3

\* Of what a session does by itself, only the end of a BYE answers anything.
LEMMA MoveFacts ==
    ASSUME IInv, NEW s \in Session, Moves(s)
    PROVE  /\ UNCHANGED <<order, req, pos, chan, remoteTag>>
           /\ life[s] = "gone" => life'[s] = "gone"
           /\ life'[s] = "ending" => life[s] = "ending" /\ UNCHANGED byeEntry
           /\ \/ UNCHANGED byeEntry
              \/ byeEntry' = [byeEntry EXCEPT ![s] = NoPacket]
           /\ \/ UNCHANGED answers
              \/ /\ life[s] = "ending" /\ life'[s] = "gone" /\ byeEntry[s] \in Packet
                 /\ answers' = [answers EXCEPT ![byeEntry[s]] = answers[byeEntry[s]] \cup {200}]
<1>0. /\ life \in [Session -> Life] /\ byeEntry \in [Session -> Packet \cup {NoPacket}]
      /\ life[s] = "ending" => byeEntry[s] # NoPacket
    BY DEF IInv, TablesSound, TypeOK, Leaving
<1>1. CASE Progress(s) \/ GiveUp(s) \/ Accept(s) \/ AcceptFails(s) \/ Accepted(s)
    BY <1>0, <1>1 DEF Progress, GiveUp, Accept, AcceptFails, Accepted, End,
        EndInvite, Become, tsx, packets
<1>2. CASE NoAck(s) \/ ByeAnswered(s) \/ ByeAnswerFails(s) \/ ByeLingerEnds(s)
    BY <1>0, <1>2 DEF NoAck, ByeAnswered, ByeAnswerFails, ByeLingerEnds, End,
        Become, Answer, tsx, session, packets
<1>3. CASE SendInvite(s) \/ Answered(s) \/ AnsweredInVain(s) \/ NotAnswered(s)
    BY <1>0, <1>3 DEF SendInvite, Answered, AnsweredInVain, NotAnswered, End,
        Become, tsx, packets
<1> QED
    BY <1>1, <1>2, <1>3 DEF Moves

\* The steps as the invariants about packets see them.
LEMMA PacketSteps ==
    ASSUME IInv, [Next]_vars
    PROVE  \/ \E p \in Packet : Passes(p)
           \/ \E p \in Packet : Deliver(p)
           \/ \E p \in Packet : \E r \in Request : Arrive(p, r)
           \/ \E p \in Packet, s \in Session : FromInvite(p, s)
           \/ \E s \in Session : Reads(s)
           \/ \E s \in Session : Moves(s)
           \/ UNCHANGED vars
BY Steps DEF Dispatch, Passes

\* Every step keeps the requests on their way.
LEMMA RoutedStep == ASSUME IInv, [Next]_vars PROVE Routed'
<1>0. /\ pos \in [Packet -> Pos] /\ answers \in [Packet -> SUBSET {200, 481, 500}]
      /\ req \in [Packet -> Request \cup {NoRequest}]
    BY DEF IInv, TablesSound, TypeOK
<1>1. Routed
    BY DEF IInv
<1>2. ASSUME NEW p \in Packet, Passes(p) PROVE Routed'
    BY <1>0, <1>1, <1>2, PassFacts DEF Routed
<1>3. ASSUME NEW p \in Packet, Deliver(p) PROVE Routed'
    BY <1>0, <1>1, <1>3 DEF Routed, Deliver, To
<1>4. ASSUME NEW p \in Packet, NEW r \in Request, Arrive(p, r) PROVE Routed'
    <2>1. order \in {"dialogs", "transactions"}
        BY DEF IInv, TablesSound, TypeOK
    <2> QED
        BY <1>0, <1>1, <1>4, <2>1 DEF Routed, Arrive
<1>5. ASSUME NEW p \in Packet, NEW s \in Session, FromInvite(p, s) PROVE Routed'
    BY <1>0, <1>1, <1>5 DEF Routed, FromInvite, To
<1>6. ASSUME NEW s \in Session, Reads(s) PROVE Routed'
    <2> DEFINE p == Head(chan[s])
    <2>1. UNCHANGED <<req, pos>> /\ (answers' = answers \/ answers' = [answers EXCEPT ![p] = {500}])
        BY <1>6, ReadFacts
    <2>2. pos[p] = "done"
        BY <1>6, ReadFacts, TakeFacts
    <2> QED
        BY <1>0, <1>1, <2>1, <2>2 DEF Routed
<1>7. ASSUME NEW s \in Session, Moves(s) PROVE Routed'
    <2>1. byeEntry[s] # NoPacket => pos[byeEntry[s]] = "done"
        BY DEF IInv, Leaving
    <2> QED
        BY <1>0, <1>1, <1>7, <2>1, MoveFacts, PacketType DEF Routed
<1>8. CASE UNCHANGED vars
    BY <1>1, <1>8 DEF Routed, vars, packets
<1> QED
    BY <1>2, <1>3, <1>4, <1>5, <1>6, <1>7, <1>8, PacketSteps

\* No step answers an ACK.
LEMMA AckStep == ASSUME IInv, [Next]_vars PROVE AckNeverAnswered'
<1>0. /\ pos \in [Packet -> Pos] /\ answers \in [Packet -> SUBSET {200, 481, 500}]
      /\ req \in [Packet -> Request \cup {NoRequest}]
    BY DEF IInv, TablesSound, TypeOK
<1>1. AckNeverAnswered
    BY DEF IInv
<1>2. ASSUME NEW p \in Packet, Passes(p) PROVE AckNeverAnswered'
    BY <1>0, <1>1, <1>2, PassFacts DEF AckNeverAnswered, session, tsx
<1>3. CASE \E p \in Packet : \E r \in Request : Arrive(p, r)
    <2>1. PICK p \in Packet, r \in Request : Arrive(p, r)
        BY <1>3
    <2>2. answers[p] = {}
        BY <2>1 DEF Arrive, IInv, Routed
    <2> QED
        BY <1>0, <1>1, <2>1, <2>2 DEF AckNeverAnswered, Arrive
<1>4. CASE \/ \E p \in Packet : Deliver(p)
           \/ \E p \in Packet, s \in Session : FromInvite(p, s)
           \/ UNCHANGED vars
    BY <1>1, <1>4 DEF AckNeverAnswered, Deliver, FromInvite, vars, packets
<1>5. ASSUME NEW s \in Session, Reads(s) PROVE AckNeverAnswered'
    BY <1>0, <1>1, <1>5, ReadFacts DEF AckNeverAnswered
<1>6. ASSUME NEW s \in Session, Moves(s) PROVE AckNeverAnswered'
    <2>1. byeEntry[s] # NoPacket => req[byeEntry[s]].method = "BYE"
        BY DEF IInv, Leaving
    <2> QED
        BY <1>0, <1>1, <1>6, <2>1, MoveFacts, PacketType DEF AckNeverAnswered
<1> QED
    BY <1>2, <1>3, <1>4, <1>5, <1>6, PacketSteps

\* Every step keeps what the queues of the sessions hold.
LEMMA QueuedStep == ASSUME IInv, [Next]_vars PROVE Queued'
<1>0. /\ pos \in [Packet -> Pos] /\ answers \in [Packet -> SUBSET {200, 481, 500}]
      /\ req \in [Packet -> Request \cup {NoRequest}]
      /\ byeEntry \in [Session -> Packet \cup {NoPacket}]
      /\ chan \in [Session -> Seq(Packet)]
    BY DEF IInv, TablesSound, TypeOK
<1>1. Queued
    BY DEF IInv
<1>a. \A s \in Session : \A i \in DOMAIN chan[s] : chan[s][i] \in Packet
    BY <1>0
<1>2. ASSUME NEW p \in Packet, Passes(p) PROVE Queued'
    <2>1. /\ UNCHANGED <<chan, req, byeEntry>> /\ pos[p] # "done"
          /\ pos' = [pos EXCEPT ![p] = pos'[p]]
          /\ answers' = answers \/ answers' = [answers EXCEPT ![p] = {481}]
        BY <1>2, PassFacts DEF session, tsx
    <2> QED
        BY <1>0, <1>1, <1>a, <2>1 DEF Queued
<1>3. ASSUME NEW p \in Packet, Deliver(p) PROVE Queued'
    <2> DEFINE t == req[p].to
    <2>1. /\ pos[p] = "sending" /\ UNCHANGED <<req, answers, byeEntry>>
          /\ pos' = [pos EXCEPT ![p] = "done"]
          /\ t \in Session /\ req[p] \in Request /\ answers[p] = {}
        BY <1>3 DEF Deliver, To, tsx, IInv, Routed
    <2>2. \A s \in Session : byeEntry[s] # p
        BY <2>1, PacketType DEF IInv, Leaving
    <2>3. \A s \in Session : \A i \in DOMAIN chan[s] : chan[s][i] # p
        BY <1>1, <2>1 DEF Queued
    <2>4. CASE chan' = chan
        BY <1>0, <1>1, <1>a, <2>1, <2>4 DEF Queued
    <2>5. CASE chan' = [chan EXCEPT ![t] = Append(chan[t], p)]
        <3>1. /\ DOMAIN chan'[t] = DOMAIN chan[t] \cup {Len(chan[t]) + 1}
              /\ Len(chan[t]) + 1 \notin DOMAIN chan[t]
              /\ chan'[t][Len(chan[t]) + 1] = p
              /\ \A i \in DOMAIN chan[t] : chan'[t][i] = chan[t][i]
            BY <1>0, <2>1, <2>5
        <3>2. \A s \in Session \ {t} : chan'[s] = chan[s]
            BY <1>0, <2>1, <2>5
        <3>3. ASSUME NEW i \in DOMAIN chan'[t]
              PROVE  /\ pos'[chan'[t][i]] = "done"
                     /\ req[chan'[t][i]] \in Request /\ req[chan'[t][i]].to = t
                     /\ answers[chan'[t][i]] = {}
                     /\ byeEntry[t] # chan'[t][i]
            BY <1>0, <1>1, <1>a, <2>1, <2>2, <3>1 DEF Queued
        <3>4. ASSUME NEW i \in DOMAIN chan'[t], NEW j \in DOMAIN chan'[t],
                     chan'[t][j] = chan'[t][i]
              PROVE  j = i
            BY <1>1, <2>1, <2>3, <3>1, <3>4 DEF Queued
        <3>5. ASSUME NEW s \in Session \ {t}, NEW i \in DOMAIN chan'[s]
              PROVE  /\ pos'[chan'[s][i]] = "done"
                     /\ req[chan'[s][i]] \in Request /\ req[chan'[s][i]].to = s
                     /\ answers[chan'[s][i]] = {}
                     /\ byeEntry[s] # chan'[s][i]
                     /\ \A j \in DOMAIN chan'[s] : chan'[s][j] = chan'[s][i] => j = i
            BY <1>0, <1>1, <1>a, <2>1, <3>2 DEF Queued
        <3>6. ASSUME NEW s \in Session, NEW i \in DOMAIN chan'[s]
              PROVE  /\ pos'[chan'[s][i]] = "done"
                     /\ req[chan'[s][i]] \in Request /\ req[chan'[s][i]].to = s
                     /\ answers[chan'[s][i]] = {}
                     /\ byeEntry[s] # chan'[s][i]
                     /\ \A j \in DOMAIN chan'[s] : chan'[s][j] = chan'[s][i] => j = i
            <4>1. CASE s = t
                BY <3>3, <3>4, <4>1
            <4>2. CASE s # t
                BY <3>5, <4>2
            <4> QED
                BY <4>1, <4>2
        <3> QED
            BY <2>1, <3>6 DEF Queued
    <2> QED
        BY <1>3, <2>4, <2>5 DEF Deliver
<1>4. ASSUME NEW p \in Packet, NEW r \in Request, Arrive(p, r) PROVE Queued'
    <2>1. /\ pos[p] = "idle" /\ UNCHANGED <<chan, answers, byeEntry>>
          /\ req' = [req EXCEPT ![p] = r] /\ pos' = [pos EXCEPT ![p] = order]
        BY <1>4 DEF Arrive, session, tsx
    <2> QED
        BY <1>0, <1>1, <1>a, <2>1 DEF Queued
<1>5. ASSUME NEW p \in Packet, NEW s \in Session, FromInvite(p, s) PROVE Queued'
    BY <1>0, <1>1, <1>a, <1>5 DEF Queued, FromInvite, To
<1>6. ASSUME NEW s \in Session, Reads(s) PROVE Queued'
    <2> DEFINE p == Head(chan[s])
    <2>1. /\ Take(s) /\ UNCHANGED <<req, pos>>
          /\ answers' = answers \/ answers' = [answers EXCEPT ![p] = {500}]
          /\ byeEntry' = byeEntry \/ byeEntry' = [byeEntry EXCEPT ![s] = p]
        BY <1>6, ReadFacts
    <2>2. /\ req[p].to = s /\ p \in Packet
          /\ \A u \in Session \ {s} : chan'[u] = chan[u]
          /\ \A i \in DOMAIN chan'[s] :
                i + 1 \in DOMAIN chan[s] /\ chan'[s][i] = chan[s][i + 1]
          /\ \A i \in DOMAIN chan'[s] : chan'[s][i] # p
          /\ chan'[s] \in Seq(Packet)
        BY <2>1, TakeFacts
    <2>3. ASSUME NEW i \in DOMAIN chan'[s]
          PROVE  /\ pos[chan'[s][i]] = "done"
                 /\ req[chan'[s][i]] \in Request /\ req[chan'[s][i]].to = s
                 /\ answers'[chan'[s][i]] = {}
                 /\ byeEntry'[s] # chan'[s][i]
        <3>1. i + 1 \in DOMAIN chan[s] /\ chan'[s][i] = chan[s][i + 1] /\ chan'[s][i] # p
            BY <2>2
        <3> QED
            BY <1>0, <1>1, <1>a, <2>1, <3>1 DEF Queued
    <2>4. ASSUME NEW i \in DOMAIN chan'[s], NEW j \in DOMAIN chan'[s],
                 chan'[s][j] = chan'[s][i]
          PROVE  j = i
        <3>1. i \in Nat /\ j \in Nat
            BY <2>2
        <3>2. i + 1 = j + 1
            BY <1>1, <2>2, <2>4 DEF Queued
        <3> QED
            BY <3>1, <3>2
    <2>5. ASSUME NEW u \in Session \ {s}, NEW i \in DOMAIN chan'[u]
          PROVE  /\ pos[chan'[u][i]] = "done"
                 /\ req[chan'[u][i]] \in Request /\ req[chan'[u][i]].to = u
                 /\ answers'[chan'[u][i]] = {}
                 /\ byeEntry'[u] # chan'[u][i]
                 /\ \A j \in DOMAIN chan'[u] : chan'[u][j] = chan'[u][i] => j = i
        <3>1. chan'[u] = chan[u] /\ i \in DOMAIN chan[u] /\ u # s
            BY <2>2
        <3>2. /\ pos[chan[u][i]] = "done" /\ answers[chan[u][i]] = {}
              /\ req[chan[u][i]] \in Request /\ req[chan[u][i]].to = u
              /\ byeEntry[u] # chan[u][i]
              /\ \A j \in DOMAIN chan[u] : chan[u][j] = chan[u][i] => j = i
            BY <1>1, <3>1 DEF Queued
        <3>3. chan[u][i] # p /\ chan[u][i] \in Packet
            BY <1>a, <2>2, <3>1, <3>2
        <3>4. answers'[chan[u][i]] = answers[chan[u][i]] /\ byeEntry'[u] = byeEntry[u]
            BY <1>0, <2>1, <3>1, <3>3
        <3> QED
            BY <3>1, <3>2, <3>4
    <2> QED
        BY <2>1, <2>3, <2>4, <2>5 DEF Queued
<1>7. ASSUME NEW s \in Session, Moves(s) PROVE Queued'
    <2>1. /\ UNCHANGED <<req, pos, chan>>
          /\ \/ UNCHANGED byeEntry
             \/ byeEntry' = [byeEntry EXCEPT ![s] = NoPacket]
          /\ \/ UNCHANGED answers
             \/ /\ byeEntry[s] \in Packet
                /\ answers' = [answers EXCEPT ![byeEntry[s]] = answers[byeEntry[s]] \cup {200}]
        BY <1>7, MoveFacts
    <2>2. byeEntry[s] \in Packet => req[byeEntry[s]].to = s
        BY PacketType DEF IInv, Leaving
    <2>3. ASSUME NEW u \in Session, NEW i \in DOMAIN chan[u]
          PROVE  byeEntry'[u] # chan[u][i] /\ answers'[chan[u][i]] = answers[chan[u][i]]
        <3>1. chan[u][i] \in Packet /\ req[chan[u][i]].to = u /\ byeEntry[u] # chan[u][i]
            BY <1>1, <1>a DEF Queued
        <3>2. byeEntry[s] \in Packet => byeEntry[s] # chan[u][i]
            BY <2>2, <3>1
        <3>3. answers'[chan[u][i]] = answers[chan[u][i]]
            BY <1>0, <2>1, <3>1, <3>2
        <3> QED
            BY <1>0, <2>1, <3>1, <3>3, PacketType
    <2> QED
        BY <1>1, <2>1, <2>3 DEF Queued
<1>8. CASE UNCHANGED vars
    BY <1>1, <1>8 DEF Queued, vars, packets, session, tsx
<1> QED
    BY <1>2, <1>3, <1>4, <1>5, <1>6, <1>7, <1>8, PacketSteps

\* What is known of the BYE that a session has taken.
LEMMA ByeFacts ==
    ASSUME IInv, NEW s \in Session, byeEntry[s] # NoPacket
    PROVE  /\ byeEntry[s] \in Packet
           /\ req[byeEntry[s]] \in Request
           /\ req[byeEntry[s]].method = "BYE" /\ req[byeEntry[s]].to = s
           /\ pos[byeEntry[s]] = "done" /\ 481 \notin answers[byeEntry[s]]
BY DEF IInv, TablesSound, TypeOK, Leaving

\* Every step keeps what is known of the BYE of a session.
LEMMA LeavingStep == ASSUME IInv, [Next]_vars PROVE Leaving'
<1>0. /\ pos \in [Packet -> Pos] /\ answers \in [Packet -> SUBSET {200, 481, 500}]
      /\ req \in [Packet -> Request \cup {NoRequest}]
      /\ byeEntry \in [Session -> Packet \cup {NoPacket}]
      /\ life \in [Session -> Life]
    BY DEF IInv, TablesSound, TypeOK
<1>1. Leaving
    BY DEF IInv
<1>a. \A q \in Packet : pos[q] # "done" =>
          answers[q] = {} /\ \A u \in Session : byeEntry[u] # q
    BY ByeFacts, PacketType DEF IInv, Routed
<1>2. ASSUME NEW p \in Packet, Passes(p) PROVE Leaving'
    <2>1. /\ UNCHANGED <<life, req, byeEntry>> /\ pos[p] # "done"
          /\ pos' = [pos EXCEPT ![p] = pos'[p]]
          /\ answers' = answers \/ answers' = [answers EXCEPT ![p] = {481}]
        BY <1>2, PassFacts DEF session, tsx
    <2> QED
        BY <1>0, <1>1, <1>a, <2>1 DEF Leaving
<1>3. ASSUME NEW p \in Packet, Deliver(p) PROVE Leaving'
    BY <1>0, <1>1, <1>3 DEF Leaving, Deliver, To, tsx
<1>4. ASSUME NEW p \in Packet, NEW r \in Request, Arrive(p, r) PROVE Leaving'
    <2>1. /\ pos[p] = "idle" /\ UNCHANGED <<life, answers, byeEntry>>
          /\ req' = [req EXCEPT ![p] = r] /\ pos' = [pos EXCEPT ![p] = order]
        BY <1>4 DEF Arrive, session, tsx
    <2> QED
        BY <1>0, <1>1, <1>a, <2>1 DEF Leaving
<1>5. ASSUME NEW p \in Packet, NEW s \in Session, FromInvite(p, s) PROVE Leaving'
    <2>1. /\ UNCHANGED <<req, answers, byeEntry>> /\ life[s] = "unused"
          /\ life' = [life EXCEPT ![s] = "incoming"] /\ pos[p] # "done"
          /\ pos' = [pos EXCEPT ![p] = "done"]
        BY <1>5 DEF FromInvite, To, Become
    <2> QED
        BY <1>0, <1>1, <2>1 DEF Leaving
<1>6. ASSUME NEW s \in Session, Reads(s) PROVE Leaving'
    <2> DEFINE p == Head(chan[s])
    <2>1. /\ Take(s) /\ UNCHANGED <<req, pos>> /\ life[s] \in {"waiting", "established"}
          /\ answers' = answers \/ answers' = [answers EXCEPT ![p] = {500}]
          /\ \/ UNCHANGED byeEntry
             \/ req[p].method = "BYE" /\ byeEntry' = [byeEntry EXCEPT ![s] = p]
          /\ life'[s] = "ending" <=> byeEntry' # byeEntry
        BY <1>6, ReadFacts
    <2>2. /\ p \in Packet /\ req[p] \in Request /\ req[p].to = s /\ pos[p] = "done"
          /\ answers[p] = {}
        BY <2>1, TakeFacts
    <2>3. \A u \in Session \ {s} : life'[u] = life[u] /\ byeEntry'[u] = byeEntry[u]
        BY <1>6, LifeStep
    <2>4. \A q \in Packet : (200 \in answers'[q] <=> 200 \in answers[q])
                            /\ (481 \in answers'[q] <=> 481 \in answers[q])
        BY <1>0, <2>1, <2>2
    <2>5. ASSUME NEW q \in Packet, 200 \in answers'[q]
          PROVE  req[q].to \in Session /\ life'[req[q].to] = "gone"
        <3>1. req[q].to \in Session /\ life[req[q].to] = "gone"
            BY <1>1, <2>4, <2>5 DEF Leaving
        <3> QED
            BY <2>1, <2>3, <3>1
    <2>6. ASSUME NEW u \in Session, byeEntry'[u] # NoPacket
          PROVE  /\ req[byeEntry'[u]] \in Request
                 /\ req[byeEntry'[u]].method = "BYE" /\ req[byeEntry'[u]].to = u
                 /\ pos[byeEntry'[u]] = "done" /\ 481 \notin answers'[byeEntry'[u]]
        <3>1. CASE byeEntry'[u] = byeEntry[u]
            BY <2>4, <2>6, <3>1, ByeFacts
        <3>2. CASE u = s /\ byeEntry'[u] = p /\ req[p].method = "BYE"
            BY <1>0, <2>1, <2>2, <2>4, <3>2, PacketType
        <3> QED
            BY <1>0, <2>1, <3>1, <3>2
    <2>7. ASSUME NEW u \in Session, life'[u] = "ending"
          PROVE  byeEntry'[u] # NoPacket
        <3>1. CASE u = s
            BY <1>0, <2>1, <2>2, <2>7, <3>1, PacketType
        <3>2. CASE u # s
            BY <1>1, <2>3, <2>7, <3>2 DEF Leaving
        <3> QED
            BY <3>1, <3>2
    <2> QED
        BY <2>1, <2>5, <2>6, <2>7 DEF Leaving
<1>7. ASSUME NEW s \in Session, Moves(s) PROVE Leaving'
    <2>1. /\ UNCHANGED <<req, pos>>
          /\ life[s] = "gone" => life'[s] = "gone"
          /\ life'[s] = "ending" => life[s] = "ending" /\ UNCHANGED byeEntry
          /\ \/ UNCHANGED byeEntry
             \/ byeEntry' = [byeEntry EXCEPT ![s] = NoPacket]
          /\ \/ UNCHANGED answers
             \/ /\ life'[s] = "gone" /\ byeEntry[s] \in Packet
                /\ answers' = [answers EXCEPT ![byeEntry[s]] = answers[byeEntry[s]] \cup {200}]
        BY <1>7, MoveFacts
    <2>2. \A u \in Session \ {s} : life'[u] = life[u] /\ byeEntry'[u] = byeEntry[u]
        BY <1>7, LifeStep
    <2>3. byeEntry[s] \in Packet => req[byeEntry[s]].to = s
        BY ByeFacts, PacketType
    <2>4. ASSUME NEW q \in Packet, 200 \in answers'[q]
          PROVE  req[q].to \in Session /\ life'[req[q].to] = "gone"
        <3>1. CASE 200 \in answers[q]
            BY <1>1, <2>1, <2>2, <3>1 DEF Leaving
        <3>2. CASE 200 \notin answers[q]
            BY <1>0, <2>1, <2>3, <2>4, <3>2
        <3> QED
            BY <3>1, <3>2
    <2>5. \A q \in Packet : 481 \in answers'[q] <=> 481 \in answers[q]
        BY <1>0, <2>1
    <2>6. ASSUME NEW u \in Session, byeEntry'[u] # NoPacket
          PROVE  /\ req[byeEntry'[u]] \in Request
                 /\ req[byeEntry'[u]].method = "BYE" /\ req[byeEntry'[u]].to = u
                 /\ pos[byeEntry'[u]] = "done" /\ 481 \notin answers'[byeEntry'[u]]
        <3>1. byeEntry'[u] = byeEntry[u]
            BY <1>0, <2>1, <2>6
        <3> QED
            BY <2>5, <2>6, <3>1, ByeFacts
    <2>7. ASSUME NEW u \in Session, life'[u] = "ending"
          PROVE  byeEntry'[u] # NoPacket
        BY <1>1, <2>1, <2>2, <2>7 DEF Leaving
    <2> QED
        BY <2>1, <2>4, <2>6, <2>7 DEF Leaving
<1>8. CASE UNCHANGED vars
    BY <1>1, <1>8 DEF Leaving, vars, packets, session, tsx
<1> QED
    BY <1>2, <1>3, <1>4, <1>5, <1>6, <1>7, <1>8, PacketSteps

\* A 200 is the answer to the BYE that ends its session, and no other came
\* before it; an answered request is not answered again by a plugin.
LEMMA GoodbyeStep == ASSUME IInv, [Next]_vars PROVE OneGoodbye'
<1>0. /\ answers \in [Packet -> SUBSET {200, 481, 500}]
      /\ req \in [Packet -> Request \cup {NoRequest}]
    BY DEF IInv, TablesSound, TypeOK
<1>1. OneGoodbye
    BY DEF IInv
<1>2. ASSUME NEW p \in Packet, Passes(p) PROVE OneGoodbye'
    <2>1. /\ UNCHANGED req
          /\ answers' = answers \/ answers' = [answers EXCEPT ![p] = {481}]
        BY <1>2, PassFacts
    <2> QED
        BY <1>0, <1>1, <2>1 DEF OneGoodbye
<1>3. ASSUME NEW p \in Packet, NEW r \in Request, Arrive(p, r) PROVE OneGoodbye'
    <2>1. /\ answers[p] = {} /\ UNCHANGED answers
          /\ req' = [req EXCEPT ![p] = r]
        BY <1>3 DEF Arrive, IInv, Routed
    <2> QED
        BY <1>0, <1>1, <2>1 DEF OneGoodbye
<1>4. CASE UNCHANGED <<req, answers>>
    BY <1>1, <1>4 DEF OneGoodbye
<1>5. ASSUME NEW s \in Session, Reads(s) PROVE OneGoodbye'
    <2> DEFINE p == Head(chan[s])
    <2>1. /\ UNCHANGED req
          /\ answers' = answers \/ answers' = [answers EXCEPT ![p] = {500}]
        BY <1>5, ReadFacts
    <2>2. answers[p] = {}
        BY <1>5, ReadFacts, TakeFacts
    <2> QED
        BY <1>0, <1>1, <2>1, <2>2 DEF OneGoodbye
<1>6. ASSUME NEW s \in Session, Moves(s) PROVE OneGoodbye'
    <2> DEFINE b == byeEntry[s]
    <2>1. /\ UNCHANGED req
          /\ \/ UNCHANGED answers
             \/ /\ life[s] = "ending" /\ b \in Packet
                /\ answers' = [answers EXCEPT ![b] = answers[b] \cup {200}]
        BY <1>6, MoveFacts
    <2>2. CASE UNCHANGED answers
        BY <1>1, <2>1, <2>2 DEF OneGoodbye
    <2>3. CASE /\ life[s] = "ending" /\ b \in Packet
               /\ answers' = [answers EXCEPT ![b] = answers[b] \cup {200}]
        <3>1. req[b].to = s /\ 481 \notin answers[b]
            BY <2>3, ByeFacts, PacketType
        <3>2. \A q \in Packet : 200 \in answers[q] => req[q].to # s
            BY <2>3 DEF IInv, Leaving
        <3> QED
            BY <1>0, <1>1, <2>1, <2>3, <3>1, <3>2 DEF OneGoodbye
    <2> QED
        BY <2>1, <2>2, <2>3
<1>7. CASE \/ \E p \in Packet : Deliver(p)
           \/ \E p \in Packet, s \in Session : FromInvite(p, s)
           \/ UNCHANGED vars
    BY <1>4, <1>7 DEF Deliver, FromInvite, vars, packets
<1> QED
    BY <1>2, <1>3, <1>5, <1>6, <1>7, PacketSteps

-----------------------------------------------------------------------------

\* What is done stays done.
LEMMA DoneStays ==
    ASSUME IInv, [Next]_vars, NEW q \in Packet, pos[q] = "done"
    PROVE  pos'[q] = "done" /\ req'[q] = req[q]
<1>0. pos \in [Packet -> Pos] /\ req \in [Packet -> Request \cup {NoRequest}]
    BY DEF IInv, TablesSound, TypeOK
<1>1. ASSUME NEW p \in Packet, Passes(p) PROVE pos'[q] = "done" /\ req'[q] = req[q]
    BY <1>0, <1>1, PassFacts
<1>2. ASSUME NEW p \in Packet, Deliver(p) PROVE pos'[q] = "done" /\ req'[q] = req[q]
    BY <1>0, <1>2 DEF Deliver, To
<1>3. ASSUME NEW p \in Packet, NEW r \in Request, Arrive(p, r)
      PROVE  pos'[q] = "done" /\ req'[q] = req[q]
    BY <1>0, <1>3 DEF Arrive
<1>4. ASSUME NEW p \in Packet, NEW s \in Session, FromInvite(p, s)
      PROVE  pos'[q] = "done" /\ req'[q] = req[q]
    BY <1>0, <1>4 DEF FromInvite, To
<1>5. ASSUME NEW s \in Session, Reads(s) \/ Moves(s)
      PROVE  pos'[q] = "done" /\ req'[q] = req[q]
    BY <1>5, ReadFacts, MoveFacts
<1> QED
    BY <1>1, <1>2, <1>3, <1>4, <1>5, PacketSteps DEF vars, packets

\* One more event.
LEMMA TellFacts ==
    ASSUME IInv, NEW s \in Session,
           NEW e \in {"negotiated", "reinvite", "terminated"}, Tell(s, e)
    PROVE  LET n == Len(events[s]) IN
           /\ n \in Nat /\ (events[s] = <<>> <=> n = 0)
           /\ DOMAIN events[s] = 1 .. n /\ DOMAIN events'[s] = 1 .. n + 1
           /\ Len(events'[s]) = n + 1 /\ events'[s] # <<>>
           /\ events'[s][n + 1] = e
           /\ \A i \in 1 .. n : events'[s][i] = events[s][i]
           /\ \A u \in Session \ {s} : events'[u] = events[u]
<1>1. events \in [Session -> Seq({"negotiated", "reinvite", "terminated"})]
    BY DEF IInv, TablesSound, TypeOK
<1>2. events[s] \in Seq({"negotiated", "reinvite", "terminated"})
    BY <1>1
<1>3. events'[s] = Append(events[s], e) /\ \A u \in Session \ {s} : events'[u] = events[u]
    BY <1>1 DEF Tell
<1>4. Len(events'[s]) = Len(events[s]) + 1 /\ Len(events[s]) \in Nat
    BY <1>2, <1>3
<1> QED
    BY <1>2, <1>3, <1>4

\* The part of a session that its step touches, when the handler is not told.
LEMMA HeardUntold ==
    ASSUME IInv, [Next]_vars, NEW s \in Session,
           events'[s] = events[s], remoteTag'[s] = remoteTag[s],
           \/ life'[s] = life[s]
           \/ life'[s] = "gone"
           \/ /\ life[s] \in {"unused", "incoming", "accepting"}
              /\ life'[s] \in {"accepting", "waiting", "calling"}
              /\ life'[s] = "calling" => life[s] = "unused"
           \/ life[s] = "established" /\ life'[s] = "ending"
    PROVE  Heard(s)'
<1>1. Heard(s) /\ life[s] \in Life
    BY DEF IInv, Told, TablesSound, TypeOK
<1>2. events[s] # <<>> /\ remoteTag[s] =>
          \E p \in Packet : req'[p].method = "ACK" /\ req'[p].to = s /\ pos'[p] = "done"
    BY <1>1, DoneStays DEF Heard
<1> QED
    BY <1>1, <1>2 DEF Heard, Life

\* One that it does not touch.
LEMMA HeardElsewhere ==
    ASSUME IInv, [Next]_vars, NEW s \in Session, Reads(s) \/ Moves(s),
           NEW u \in Session \ {s}
    PROVE  Heard(u)'
<1>1. life'[u] = life[u] /\ remoteTag'[u] = remoteTag[u]
    BY LifeStep, ReadFacts, MoveFacts
<1>2. events \in [Session -> Seq({"negotiated", "reinvite", "terminated"})]
    BY DEF IInv, TablesSound, TypeOK
<1>3. Reads(s) => events'[u] = events[u]
    BY <1>2 DEF Reads, RefusalFails, WaitIgnores, GotAck, GotBadAck,
        GotReinvite, TaskIgnores, GotBye, Tell
<1>4. Moves(s) => events'[u] = events[u]
    BY <1>2 DEF Moves, Progress, GiveUp, Accept, AcceptFails, Accepted,
        NoAck, ByeAnswered, ByeAnswerFails, ByeLingerEnds, SendInvite, Answered,
        AnsweredInVain, NotAnswered, Tell, session
<1>5. events'[u] = events[u]
    BY <1>3, <1>4
<1> QED
    BY <1>1, <1>5, HeardUntold

\* Every step keeps what the application was told in order.
LEMMA ToldStep == ASSUME IInv, [Next]_vars PROVE Told'
<1>0. /\ life \in [Session -> Life] /\ remoteTag \in [Session -> BOOLEAN]
      /\ \A s \in Session : Heard(s)
    BY DEF IInv, Told, TablesSound, TypeOK
<1>1. CASE UNCHANGED <<life, remoteTag, events>>
    BY <1>0, <1>1, HeardUntold DEF Told
<1>2. CASE \/ \E p \in Packet : Passes(p) \/ Deliver(p) \/ \E r \in Request : Arrive(p, r)
           \/ UNCHANGED vars
    BY <1>1, <1>2, PassFacts DEF Deliver, Arrive, vars, session
<1>3. ASSUME NEW p \in Packet, NEW s \in Session, FromInvite(p, s) PROVE Told'
    <2>1. /\ life[s] = "unused" /\ UNCHANGED events
          /\ life' = [life EXCEPT ![s] = "incoming"]
          /\ remoteTag' = [remoteTag EXCEPT ![s] = TRUE]
        BY <1>3 DEF FromInvite, Become
    <2>2. Heard(s)'
        BY <1>0, <2>1 DEF Heard
    <2>3. ASSUME NEW u \in Session \ {s} PROVE Heard(u)'
        BY <1>0, <2>1, HeardUntold
    <2> QED
        BY <2>2, <2>3 DEF Told
<1>4. ASSUME NEW s \in Session, Reads(s) \/ Moves(s) PROVE Heard(s)'
    <2> DEFINE p == Head(chan[s])
    <2>1. Heard(s) /\ life[s] \in Life
        BY <1>0
    <2>2. remoteTag'[s] = remoteTag[s]
        BY <1>4, ReadFacts, MoveFacts
    <2>3. CASE GotAck(s)
        <3>1. Tell(s, "negotiated") /\ life[s] = "waiting" /\ life'[s] = "established"
            BY <1>0, <2>3 DEF GotAck, Become
        <3>2. /\ p \in Packet /\ req'[p].method = "ACK" /\ req'[p].to = s
              /\ pos'[p] = "done"
            <4>1. req[p].method = "ACK" /\ Take(s) /\ UNCHANGED <<req, pos>>
                BY <2>3 DEF GotAck, packets
            <4> QED
                BY <4>1, TakeFacts
        <3>3. Len(events[s]) = 0
            BY <2>1, <3>1, TellFacts DEF Heard
        <3>4. DOMAIN events'[s] = {1} /\ events'[s][1] = "negotiated" /\ events'[s] # <<>>
            BY <3>1, <3>3, TellFacts
        <3> QED
            BY <3>1, <3>2, <3>4 DEF Heard
    <2>4. CASE GotReinvite(s)
        <3> DEFINE n == Len(events[s])
        <3>1. Tell(s, "reinvite") /\ life[s] = "established" /\ life'[s] = "established"
            BY <2>4 DEF GotReinvite
        <3>2. /\ n \in Nat /\ n # 0
              /\ DOMAIN events[s] = 1 .. n /\ DOMAIN events'[s] = 1 .. n + 1
              /\ events'[s] # <<>> /\ events[s] # <<>>
              /\ events'[s][n + 1] = "reinvite"
              /\ \A i \in 1 .. n : events'[s][i] = events[s][i]
            BY <2>1, <3>1, TellFacts DEF Heard
        <3>3. \A i \in DOMAIN events'[s] :
                  /\ events'[s][i] = "negotiated" <=> i = 1
                  /\ events'[s][i] # "terminated"
            BY <2>1, <3>1, <3>2 DEF Heard
        <3>4. remoteTag[s] =>
                  \E q \in Packet : req'[q].method = "ACK" /\ req'[q].to = s /\ pos'[q] = "done"
            BY <2>1, <3>2, DoneStays DEF Heard
        <3> QED
            BY <2>2, <3>1, <3>2, <3>3, <3>4 DEF Heard
    <2>5. CASE ByeAnswered(s)
        <3> DEFINE n == Len(events[s])
        <3>1. Tell(s, "terminated") /\ life[s] = "ending" /\ life'[s] = "gone"
            BY <1>0, <2>5 DEF ByeAnswered, End, Become
        <3>2. /\ n \in Nat /\ n # 0 /\ Len(events'[s]) = n + 1
              /\ DOMAIN events[s] = 1 .. n /\ DOMAIN events'[s] = 1 .. n + 1
              /\ events'[s] # <<>> /\ events[s] # <<>>
              /\ events'[s][n + 1] = "terminated"
              /\ \A i \in 1 .. n : events'[s][i] = events[s][i]
            BY <2>1, <3>1, TellFacts DEF Heard
        <3>3. \A i \in DOMAIN events'[s] :
                  /\ events'[s][i] = "negotiated" <=> i = 1
                  /\ events'[s][i] = "terminated" => i = n + 1
            BY <2>1, <3>1, <3>2 DEF Heard
        <3>4. remoteTag[s] =>
                  \E q \in Packet : req'[q].method = "ACK" /\ req'[q].to = s /\ pos'[q] = "done"
            BY <2>1, <3>2, DoneStays DEF Heard
        <3> QED
            BY <2>2, <3>1, <3>2, <3>3, <3>4 DEF Heard
    <2>6. CASE Answered(s) \/ AnsweredInVain(s)
        <3>1. /\ Tell(s, "negotiated") /\ life[s] = "calling"
              /\ life'[s] \in {"established", "gone"}
            BY <1>0, <2>6 DEF Answered, AnsweredInVain, End, Become
        <3>2. Len(events[s]) = 0 /\ ~remoteTag'[s]
            BY <2>1, <2>2, <3>1, TellFacts DEF Heard
        <3>3. DOMAIN events'[s] = {1} /\ events'[s][1] = "negotiated" /\ events'[s] # <<>>
            BY <3>1, <3>2, TellFacts
        <3> QED
            BY <3>1, <3>2, <3>3 DEF Heard
    <2>7. CASE \/ RefusalFails(s) \/ WaitIgnores(s) \/ GotBadAck(s)
               \/ TaskIgnores(s) \/ GotBye(s)
        BY <1>0, <2>2, <2>7, HeardUntold
        DEF RefusalFails, WaitIgnores, GotBadAck, TaskIgnores, GotBye, End, Become
    <2>8. CASE \/ Progress(s) \/ GiveUp(s) \/ Accept(s) \/ AcceptFails(s)
               \/ Accepted(s) \/ NoAck(s) \/ ByeAnswerFails(s)
        BY <1>0, <2>2, <2>8, HeardUntold
        DEF Progress, GiveUp, Accept, AcceptFails, Accepted, NoAck,
            ByeAnswerFails, End, Become
    <2>9. CASE ByeLingerEnds(s) \/ SendInvite(s) \/ NotAnswered(s)
        BY <1>0, <2>2, <2>9, HeardUntold
        DEF ByeLingerEnds, SendInvite, NotAnswered, End, Become, session
    <2> QED
        BY <1>4, <2>3, <2>4, <2>5, <2>6, <2>7, <2>8, <2>9 DEF Reads, Moves
<1>5. ASSUME NEW s \in Session, Reads(s) \/ Moves(s) PROVE Told'
    BY <1>4, <1>5, HeardElsewhere DEF Told
<1> QED
    BY <1>2, <1>3, <1>5, PacketSteps

\* Every step keeps that no number is known before there is a session.
LEMMA FreshStep == ASSUME IInv, [Next]_vars PROVE Fresh'
<1>0. Fresh /\ life \in [Session -> Life] /\ remoteCSeq \in [Session -> 0 .. 3]
    BY DEF IInv, TablesSound, TypeOK
<1>1. ASSUME NEW p \in Packet, NEW s \in Session, FromInvite(p, s) PROVE Fresh'
    BY <1>0, <1>1 DEF Fresh, FromInvite, Become
<1>2. ASSUME NEW s \in Session, Reads(s) PROVE Fresh'
    <2>1. life[s] # "unused" /\ life'[s] # "unused"
        BY <1>0, <1>2, ReadFacts DEF End, Become
    <2>2. \A u \in Session \ {s} : life'[u] = life[u] /\ remoteCSeq'[u] = remoteCSeq[u]
        BY <1>0, <1>2, LifeStep, ReadFacts DEF Take
    <2> QED
        BY <1>0, <2>1, <2>2 DEF Fresh
<1>3. ASSUME NEW s \in Session, Moves(s) PROVE Fresh'
    <2>1. /\ UNCHANGED remoteCSeq
          /\ \/ UNCHANGED life
             \/ life' = [life EXCEPT ![s] = life'[s]] /\ life'[s] # "unused"
        BY <1>0, <1>3
        DEF Moves, Progress, GiveUp, Accept, AcceptFails, Accepted, NoAck,
            ByeAnswered, ByeAnswerFails, ByeLingerEnds, SendInvite, Answered,
            AnsweredInVain, NotAnswered, End, Become, session
    <2> QED
        BY <1>0, <2>1 DEF Fresh
<1>4. CASE UNCHANGED <<life, remoteCSeq>>
    BY <1>0, <1>4 DEF Fresh
<1> QED
    BY <1>1, <1>2, <1>3, <1>4, PassFacts, PacketSteps
    DEF Deliver, Arrive, vars, session

-----------------------------------------------------------------------------

\* The inductive invariant holds in every reachable state.
THEOREM Invariance == Spec => []IInv
<1>1. IInv /\ [Next]_vars => IInv'
    BY TypeStep, EntriesStep, RoutedStep, QueuedStep, ToldStep, LeavingStep,
        FreshStep, AckStep, GoodbyeStep DEF IInv, TablesSound
<1> QED
    BY Start, <1>1, PTL DEF Spec

\* On every way out of a session, whatever arrives meanwhile, the tables of
\* the plugins and the sessions agree (dialog.rs, transaction/mod.rs).
THEOREM TablesAgree == Spec => []TablesSound
BY Invariance, PTL DEF IInv

\* The SessionEventHandler hears of a session in order (session.rs).
THEOREM Ordered == Spec => []EventsInOrder
<1>1. IInv => EventsInOrder
    <2>1. SUFFICES ASSUME IInv, NEW s \in Session, NEW i \in DOMAIN events[s]
                   PROVE  /\ events[s][i] = "negotiated" <=> i = 1
                          /\ events[s][i] = "terminated" =>
                                i = Len(events[s]) /\ life[s] = "gone"
                          /\ remoteTag[s] => \E p \in Packet :
                                req[p].method = "ACK" /\ req[p].to = s /\ pos[p] = "done"
        BY DEF EventsInOrder
    <2>2. Heard(s) /\ events[s] \in Seq({"negotiated", "reinvite", "terminated"})
        BY <2>1 DEF IInv, Told, TablesSound, TypeOK
    <2>3. events[s] # <<>>
        BY <2>1, <2>2
    <2> QED
        BY <2>1, <2>2, <2>3 DEF Heard
<1> QED
    BY <1>1, Invariance, PTL

\* No ACK is answered (dialog.rs, receive and the plugin).
THEOREM AcksUnanswered == Spec => []AckNeverAnswered
BY Invariance, PTL DEF IInv

\* One BYE is answered with 200, and a 481 is the only answer of its request.
THEOREM ByeAnsweredOnce == Spec => []OneGoodbye
BY Invariance, PTL DEF IInv

\* No other request takes the sequence number of the peer back (dialog.rs,
\* process_incoming_request).
THEOREM NumbersRise == Spec => NumberFallsOnlyByAck
<1>1. ASSUME IInv, [Next]_vars
      PROVE  [\A s \in Session : remoteCSeq'[s] < remoteCSeq[s] =>
                  chan[s] # <<>> /\ req[Head(chan[s])].method = "ACK"]_vars
    <2>1. SUFFICES ASSUME NEW s \in Session, remoteCSeq'[s] < remoteCSeq[s]
                   PROVE  chan[s] # <<>> /\ req[Head(chan[s])].method = "ACK"
        OBVIOUS
    <2>2. remoteCSeq \in [Session -> 0 .. 3] /\ Fresh
        BY <1>1 DEF IInv, TablesSound, TypeOK
    <2>3. remoteCSeq'[s] # remoteCSeq[s]
        BY <2>1, <2>2
    <2>4. CASE \E p \in Packet, u \in Session : FromInvite(p, u)
        <3>1. PICK p \in Packet, u \in Session : FromInvite(p, u)
            BY <2>4
        <3>2. req[p].cseq \in 0 .. 3
            BY <1>1, <3>1, RequestType DEF FromInvite, IInv, Routed
        <3> QED
            BY <2>1, <2>2, <3>1, <3>2 DEF FromInvite, Fresh
    <2>5. CASE \E u \in Session : Reads(u)
        <3>1. PICK u \in Session : Reads(u)
            BY <2>5
        <3>2. Take(u) /\ req[Head(chan[u])] \in Request
            BY <1>1, <3>1, ReadFacts, TakeFacts
        <3>3. u = s
            BY <2>2, <2>3, <3>2 DEF Take
        <3>4. req[Head(chan[s])].cseq \in 0 .. 3
            BY <3>2, <3>3, RequestType
        <3> QED
            BY <2>1, <2>2, <3>2, <3>3, <3>4 DEF Take, Stale
    <2>6. CASE UNCHANGED remoteCSeq
        BY <2>3, <2>6
    <2>7. ASSUME NEW u \in Session, Moves(u) PROVE UNCHANGED remoteCSeq
        BY <2>7
        DEF Moves, Progress, GiveUp, Accept, AcceptFails, Accepted, NoAck,
            ByeAnswered, ByeAnswerFails, ByeLingerEnds, SendInvite, Answered,
            AnsweredInVain, NotAnswered, session
    <2> QED
        BY <1>1, <2>4, <2>5, <2>6, <2>7, PassFacts, PacketSteps
        DEF Deliver, Arrive, vars, session
<1> QED
    BY <1>1, Invariance, PTL DEF Spec, NumberFallsOnlyByAck
=============================================================================
