------------------------------- MODULE Dialogs -------------------------------
(***************************************************************************)
(* Sessions and their dialogs (ua/dialog.rs, ua/session) at one endpoint,  *)
(* with the plugin chain (endpoint/mod.rs) that brings them the requests   *)
(* of one remote caller.                                                   *)
(*                                                                         *)
(* Every incoming request is a task that offers it to the plugins in the   *)
(* order in which the application registered them: the dialog table and    *)
(* the transaction table in either order, the application last.  A request *)
(* whose To tag names a dialog goes into the unbounded channel of that     *)
(* dialog; the future of `accept`, and later the task of the session,      *)
(* reads it.  The network delivers copies, and in any order.               *)
(*                                                                         *)
(* Transactions appear here only through their table entries; ServerTsx    *)
(* and TsxTable are about what is behind them.  A send is told apart from  *)
(* its failure.  The timer of wait_for_ack starts again with every request *)
(* and has no deadline: it may fire whenever the channel is empty.         *)
(***************************************************************************)
EXTENDS Naturals, Sequences, FiniteSets

CONSTANTS
    Session,        \* sessions that may be created; stands for the local tag
    Packets,        \* how many requests arrive, copies included
    NoSession       \* no To tag, or no table entry

ASSUME ConstantsAssumption == NoSession \notin Session /\ Packets \in Nat

Packet   == 1 .. Packets    \* numbered as they arrive
NoPacket == 0

VARIABLES
    order,          \* which of the two tables the chain asks first
    life,           \* what each session is doing
    remoteTag,      \* DialogId.remote_tag is known
    early,          \* a response with a To tag was sent before the final one
    registered,     \* DialogPlugin.dialogs
    remoteCSeq,     \* Dialog.remote_cseq
    chan,           \* the channel of each dialog, a sequence of packets
    events,         \* the calls of the SessionEventHandler
    inviteEntry,    \* session whose INVITE transaction has the table entry
    byeEntry,       \* the BYE whose transaction has the table entry
    req,            \* the request in each packet
    pos,            \* how far its task has come
    answers         \* final responses sent to it

session == <<life, remoteTag, early, registered, remoteCSeq, chan, events>>
tsx     == <<inviteEntry, byeEntry>>
packets == <<req, pos, answers>>
vars    == <<order, session, tsx, packets>>

-----------------------------------------------------------------------------

\* The requests of the caller, numbered as it sends them.  A copy differs in
\* nothing.
Request ==
    [method : {"INVITE"}, to : {NoSession}, cseq : {1}]
        \cup [method : {"ACK"}, to : Session, cseq : {1}]
        \cup [method : {"INVITE"}, to : Session, cseq : {2}]
        \cup [method : {"BYE"}, to : Session, cseq : {3}]

NoRequest == [method |-> "none", to |-> NoSession, cseq |-> 0]

\* incoming: the TU holds the value; accepting: the 2xx is being sent;
\* waiting: wait_for_ack; calling: an INVITE of ours is out; established:
\* handle_in_dialog_request reads the channel; ending: it answers a BYE.
Life == {"unused", "incoming", "accepting", "waiting", "calling",
         "established", "ending", "gone"}

Alive == Life \ {"unused", "gone"}

\* A task is idle, at a plugin, holds the sender of a dialog, or is done.
Pos == {"idle", "dialogs", "transactions", "application", "sending", "done"}

TypeOK ==
    /\ order \in {"dialogs", "transactions"}
    /\ life \in [Session -> Life]
    /\ remoteTag \in [Session -> BOOLEAN]
    /\ early \in [Session -> BOOLEAN]
    /\ registered \subseteq Session
    /\ remoteCSeq \in [Session -> 0 .. 3]
    /\ chan \in [Session -> Seq(Packet)]
    /\ events \in [Session -> Seq({"negotiated", "reinvite", "terminated"})]
    /\ inviteEntry \in Session \cup {NoSession}
    /\ byeEntry \in [Session -> Packet \cup {NoPacket}]
    /\ req \in [Packet -> Request \cup {NoRequest}]
    /\ pos \in [Packet -> Pos]
    /\ answers \in [Packet -> SUBSET {200, 481, 500}]

Init ==
    /\ order \in {"dialogs", "transactions"}
    /\ life = [s \in Session |-> "unused"]
    /\ remoteTag = [s \in Session |-> FALSE]
    /\ early = [s \in Session |-> FALSE]
    /\ registered = {}
    /\ remoteCSeq = [s \in Session |-> 0]
    /\ chan = [s \in Session |-> <<>>]
    /\ events = [s \in Session |-> <<>>]
    /\ inviteEntry = NoSession
    /\ byeEntry = [s \in Session |-> NoPacket]
    /\ req = [p \in Packet |-> NoRequest]
    /\ pos = [p \in Packet |-> "idle"]
    /\ answers = [p \in Packet |-> {}]

Become(s, next) == life' = [life EXCEPT ![s] = next]

\* Fault: Drop leaves the dialog in the table.
EndForgets(s) ==
    /\ Become(s, "gone")
    /\ UNCHANGED registered

\* The session ends: Drop takes the dialog out of the table, and with the
\* value goes the receiver.
End(s) ==
    /\ Become(s, "gone")
    /\ registered' = registered \ {s}

Tell(s, event) == events' = [events EXCEPT ![s] = Append(@, event)]

Answer(p, code) == answers' = [answers EXCEPT ![p] = @ \cup {code}]

-----------------------------------------------------------------------------
(* Requests on their way through the plugins. *)

\* The caller knows a tag of ours from a response, or a request, that
\* carries it.
TagIsKnown(s) == life[s] # "unused" /\ (life[s] = "incoming" => early[s])

Arrive(p, r) ==
    /\ pos[p] = "idle" /\ \A q \in 1 .. p - 1 : pos[q] # "idle"
    /\ r.to # NoSession => TagIsKnown(r.to)
    /\ req' = [req EXCEPT ![p] = r]
    /\ pos' = [pos EXCEPT ![p] = order]
    /\ UNCHANGED <<order, session, tsx, answers>>

\* The next plugin of the chain.
NextPlugin(plugin) ==
    IF plugin = order
    THEN CHOOSE other \in {"dialogs", "transactions"} : other # plugin
    ELSE "application"

To(p, where) == pos' = [pos EXCEPT ![p] = where]

\* DialogPlugin: a request without To tag is none of its business.
NotInDialog(p) ==
    /\ pos[p] = "dialogs"
    /\ req[p].to = NoSession
    /\ To(p, NextPlugin("dialogs"))
    /\ UNCHANGED <<order, session, tsx, req, answers>>

\* get_dialog compares call, local tag and remote tag.
Matches(r) == r.to \in registered /\ remoteTag[r.to]

DialogFound(p) ==
    /\ pos[p] = "dialogs"
    /\ req[p].to # NoSession /\ Matches(req[p])
    /\ To(p, "sending")
    /\ UNCHANGED <<order, session, tsx, req, answers>>

\* Fault: an ACK is answered like any other request.
DialogUnknownAnswersAll(p) ==
    /\ pos[p] = "dialogs"
    /\ req[p].to # NoSession /\ ~Matches(req[p])
    /\ To(p, "done")
    /\ Answer(p, 481)
    /\ UNCHANGED <<order, session, tsx, req>>

\* An unknown dialog: 481, except for an ACK.
DialogUnknown(p) ==
    /\ pos[p] = "dialogs"
    /\ req[p].to # NoSession /\ ~Matches(req[p])
    /\ To(p, "done")
    /\ IF req[p].method = "ACK" THEN UNCHANGED answers ELSE Answer(p, 481)
    /\ UNCHANGED <<order, session, tsx, req>>

\* channel.send fails only when the dialog has been dropped since; the
\* request is then lost.
Deliver(p) ==
    /\ pos[p] = "sending"
    /\ To(p, "done")
    /\ chan' = IF life[req[p].to] \in Alive
               THEN [chan EXCEPT ![req[p].to] = Append(@, p)]
               ELSE chan
    /\ UNCHANGED <<order, life, remoteTag, early, registered, remoteCSeq,
                   events, tsx, req, answers>>

\* TsxPlugin: the ACK of a 2xx and a re-INVITE have no transaction here.
HasTransaction(r) ==
    \/ r.method = "INVITE" /\ r.to = NoSession /\ inviteEntry # NoSession
    \/ r.method = "BYE" /\ byeEntry[r.to] # NoPacket

Absorbed(p) ==
    /\ pos[p] = "transactions"
    /\ HasTransaction(req[p])
    /\ To(p, "done")
    /\ UNCHANGED <<order, session, tsx, req, answers>>

NoTransaction(p) ==
    /\ pos[p] = "transactions"
    /\ ~HasTransaction(req[p])
    /\ To(p, NextPlugin("transactions"))
    /\ UNCHANGED <<order, session, tsx, req, answers>>

\* The application creates a session from an INVITE: Session::from_invite.
FromInvite(p, s) ==
    /\ pos[p] = "application"
    /\ req[p].method = "INVITE"
    /\ life[s] = "unused"
    /\ To(p, "done")
    /\ Become(s, "incoming")
    /\ registered' = registered \cup {s}
    /\ remoteTag' = [remoteTag EXCEPT ![s] = TRUE]
    /\ remoteCSeq' = [remoteCSeq EXCEPT ![s] = req[p].cseq]
    /\ inviteEntry' = s
    /\ UNCHANGED <<order, early, chan, events, byeEntry, req, answers>>

\* It ignores the request, or from_invite cannot parse the offer: the dialog
\* is dropped again and the INVITE stays unanswered.
Ignored(p) ==
    /\ pos[p] = "application"
    /\ To(p, "done")
    /\ UNCHANGED <<order, session, tsx, req, answers>>

-----------------------------------------------------------------------------
(* A session that was called. *)

\* Session::progress with anything but 100.
Progress(s) ==
    /\ life[s] = "incoming"
    /\ early' = [early EXCEPT ![s] = TRUE]
    /\ UNCHANGED <<order, life, remoteTag, registered, remoteCSeq, chan,
                   events, tsx, packets>>

\* The INVITE transaction is dropped, whoever has the entry now.
EndInvite == inviteEntry' = NoSession

\* The TU drops the session.
GiveUp(s) ==
    /\ life[s] = "incoming"
    /\ End(s)
    /\ EndInvite
    /\ UNCHANGED <<order, remoteTag, early, remoteCSeq, chan, events,
                   byeEntry, packets>>

\* Session::accept, the 2xx on its way.
Accept(s) ==
    /\ life[s] = "incoming"
    /\ Become(s, "accepting")
    /\ UNCHANGED <<order, remoteTag, early, registered, remoteCSeq, chan,
                   events, tsx, packets>>

\* accept has nothing to offer, or the 2xx cannot be sent.
AcceptFails(s) ==
    /\ life[s] = "accepting"
    /\ End(s)
    /\ EndInvite
    /\ UNCHANGED <<order, remoteTag, early, remoteCSeq, chan, events,
                   byeEntry, packets>>

\* The 2xx has been sent, which ends the transaction; wait_for_ack.
Accepted(s) ==
    /\ life[s] = "accepting"
    /\ Become(s, "waiting")
    /\ EndInvite
    /\ UNCHANGED <<order, remoteTag, early, registered, remoteCSeq, chan,
                   events, byeEntry, packets>>

\* Fault: the sequence number is not looked at.
StaleNever(s, r) == FALSE

\* process_incoming_request: an old sequence number, ACK exempted.
Stale(s, r) == r.method # "ACK" /\ r.cseq <= remoteCSeq[s]

\* Dialog::receive up to its answer: an old request is refused, and handed
\* out all the same; any other sets remote_cseq, an old ACK too.
Take(s) ==
    LET p == Head(chan[s]) IN
    /\ chan[s] # <<>>
    /\ chan' = [chan EXCEPT ![s] = Tail(@)]
    /\ IF Stale(s, req[p])
       THEN UNCHANGED remoteCSeq
       ELSE remoteCSeq' = [remoteCSeq EXCEPT ![s] = req[p].cseq]

Refusal(s) ==
    LET p == Head(chan[s]) IN
    IF Stale(s, req[p]) THEN Answer(p, 500) ELSE UNCHANGED answers

\* The 500 cannot be sent: receive fails, and what awaits it.
RefusalFails(s) ==
    /\ life[s] \in {"waiting", "established"}
    /\ Take(s) /\ Stale(s, req[Head(chan[s])])
    /\ End(s)
    /\ UNCHANGED <<order, remoteTag, early, events, tsx, packets>>

\* wait_for_ack: another request starts the timer again.
WaitIgnores(s) ==
    /\ life[s] = "waiting"
    /\ Take(s) /\ req[Head(chan[s])].method # "ACK"
    /\ Refusal(s)
    /\ UNCHANGED <<order, life, remoteTag, early, registered, events, tsx,
                   req, pos>>

\* The ACK: the negotiation is done and the task of the session starts.
GotAck(s) ==
    /\ life[s] = "waiting"
    /\ Take(s) /\ req[Head(chan[s])].method = "ACK"
    /\ Become(s, "established")
    /\ Tell(s, "negotiated")
    /\ UNCHANGED <<order, remoteTag, early, registered, tsx, packets>>

\* The ACK lacks the answer it owes, or the answer cannot be used.
GotBadAck(s) ==
    /\ life[s] = "waiting"
    /\ Take(s) /\ req[Head(chan[s])].method = "ACK"
    /\ End(s)
    /\ UNCHANGED <<order, remoteTag, early, events, tsx, packets>>

\* Fault: the wait has no timer.
NoAckForEver(s) ==
    /\ life[s] = "waiting"
    /\ chan[s] = <<>>
    /\ UNCHANGED vars

\* The timer: no ACK came, nor anything else.
NoAck(s) ==
    /\ life[s] = "waiting"
    /\ chan[s] = <<>>
    /\ End(s)
    /\ UNCHANGED <<order, remoteTag, early, remoteCSeq, chan, events, tsx,
                   packets>>

-----------------------------------------------------------------------------
(* The task of an established session. *)

GotReinvite(s) ==
    /\ life[s] = "established"
    /\ Take(s) /\ req[Head(chan[s])].method = "INVITE"
    /\ Refusal(s)
    /\ Tell(s, "reinvite")
    /\ UNCHANGED <<order, life, remoteTag, early, registered, tsx, req, pos>>

TaskIgnores(s) ==
    /\ life[s] = "established"
    /\ Take(s) /\ req[Head(chan[s])].method = "ACK"
    /\ UNCHANGED <<order, life, remoteTag, early, registered, events, tsx,
                   packets>>

\* A BYE gets a transaction (from_request), which is to answer it.
GotBye(s) ==
    /\ life[s] = "established"
    /\ Take(s) /\ req[Head(chan[s])].method = "BYE"
    /\ Refusal(s)
    /\ Become(s, "ending")
    /\ byeEntry' = [byeEntry EXCEPT ![s] = Head(chan[s])]
    /\ UNCHANGED <<order, remoteTag, early, registered, events, inviteEntry,
                   req, pos>>

\* Fault: the loop goes on after the BYE.
ByeAnsweredGoesOn(s) ==
    /\ life[s] = "ending"
    /\ Become(s, "established")
    /\ Answer(byeEntry[s], 200)
    /\ Tell(s, "terminated")
    /\ UNCHANGED <<order, remoteTag, early, registered, remoteCSeq, chan, tsx,
                   req, pos>>

\* The handler is told and the dialog dropped; the BYE transaction lingers.
ByeAnswered(s) ==
    /\ life[s] = "ending"
    /\ End(s)
    /\ Answer(byeEntry[s], 200)
    /\ Tell(s, "terminated")
    /\ UNCHANGED <<order, remoteTag, early, remoteCSeq, chan, tsx, req, pos>>

\* The 200 cannot be sent: the task ends, and the handler is not told.
ByeAnswerFails(s) ==
    /\ life[s] = "ending"
    /\ End(s)
    /\ byeEntry' = [byeEntry EXCEPT ![s] = NoPacket]
    /\ UNCHANGED <<order, remoteTag, early, remoteCSeq, chan, events,
                   inviteEntry, packets>>

\* Timer J of the BYE transaction.
ByeLingerEnds(s) ==
    /\ life[s] = "gone" /\ byeEntry[s] # NoPacket
    /\ byeEntry' = [byeEntry EXCEPT ![s] = NoPacket]
    /\ UNCHANGED <<order, session, inviteEntry, packets>>

-----------------------------------------------------------------------------
(* A session that calls. *)

\* Session::send_invite: create_uac does not know the tag of the peer.
SendInvite(s) ==
    /\ life[s] = "unused"
    /\ Become(s, "calling")
    /\ registered' = registered \cup {s}
    /\ UNCHANGED <<order, remoteTag, early, remoteCSeq, chan, events, tsx,
                   packets>>

\* receive_answer got a 2xx: the handler is told, the ACK goes out and the
\* task of the session starts.
Answered(s) ==
    /\ life[s] = "calling"
    /\ Become(s, "established")
    /\ Tell(s, "negotiated")
    /\ UNCHANGED <<order, remoteTag, early, registered, remoteCSeq, chan, tsx,
                   packets>>

\* The same, but there is no way to send the ACK.
AnsweredInVain(s) ==
    /\ life[s] = "calling"
    /\ End(s)
    /\ Tell(s, "negotiated")
    /\ UNCHANGED <<order, remoteTag, early, remoteCSeq, chan, tsx, packets>>

\* The call fails, or its 2xx cannot be used, or the TU gives up.
NotAnswered(s) ==
    /\ life[s] = "calling"
    /\ End(s)
    /\ UNCHANGED <<order, remoteTag, early, remoteCSeq, chan, events, tsx,
                   packets>>

-----------------------------------------------------------------------------

Dispatch(p) ==
    \/ NotInDialog(p) \/ DialogFound(p) \/ DialogUnknown(p) \/ Deliver(p)
    \/ Absorbed(p) \/ NoTransaction(p)
    \/ (\E s \in Session : FromInvite(p, s)) \/ Ignored(p)

UserCall(s) == Progress(s) \/ GiveUp(s) \/ Accept(s) \/ SendInvite(s)

Accepting(s) == AcceptFails(s) \/ Accepted(s)

Waiting(s) == WaitIgnores(s) \/ GotAck(s) \/ GotBadAck(s) \/ NoAck(s)

Reading(s) == GotReinvite(s) \/ TaskIgnores(s) \/ GotBye(s)
              \/ ByeAnswered(s) \/ ByeAnswerFails(s) \/ RefusalFails(s)

Calling(s) == Answered(s) \/ AnsweredInVain(s) \/ NotAnswered(s)

\* Nothing is under way any more.
Quiet ==
    /\ \A p \in Packet : pos[p] = "done"
    /\ \A s \in Session :
        \/ life[s] \in {"unused", "gone"} /\ byeEntry[s] = NoPacket
        \/ life[s] = "established" /\ chan[s] = <<>>
    /\ UNCHANGED vars

Next ==
    \/ \E p \in Packet : Dispatch(p) \/ \E r \in Request : Arrive(p, r)
    \/ \E s \in Session :
        \/ UserCall(s) \/ Accepting(s) \/ Waiting(s) \/ Reading(s)
        \/ Calling(s) \/ ByeLingerEnds(s)
    \/ Quiet

Spec == Init /\ [][Next]_vars

\* The runtime polls the future of accept and the task of the session.  The
\* caller, the network and the TU owe nothing.
FairSpec ==
    /\ Spec
    /\ \A s \in Session : WF_vars(Accepting(s) \/ Waiting(s) \/ Reading(s))

-----------------------------------------------------------------------------
(* Properties. *)

\* The handler hears of a session in order: the negotiation first and once,
\* for a session that was called only after an ACK has reached its dialog;
\* the BYE last and once, when the session is gone; re-INVITEs in between.
EventsInOrder ==
    \A s \in Session : \A i \in DOMAIN events[s] :
        /\ events[s][i] = "negotiated" <=> i = 1
        /\ events[s][i] = "terminated" => i = Len(events[s]) /\ life[s] = "gone"
        /\ remoteTag[s] => \E p \in Packet :
            req[p].method = "ACK" /\ req[p].to = s /\ pos[p] = "done"

\* No plugin and no dialog ever answers an ACK: not one for an unknown
\* dialog, nor one whose sequence number is old.
AckNeverAnswered ==
    \A p \in Packet : req[p].method = "ACK" => answers[p] = {}

\* A session answers one BYE, however many copies reach its dialog; and what
\* was refused for want of a dialog has not been seen by one.
OneGoodbye ==
    /\ \A p, q \in Packet :
        200 \in answers[p] \cap answers[q] /\ req[p].to = req[q].to => p = q
    /\ \A p \in Packet : 481 \in answers[p] => answers[p] = {481}

\* The tables hold living sessions and transactions only, and every living
\* dialog is in its table, on whichever of its ways out a session ends: a
\* BYE that reaches a dropped dialog must be told 481.
EntriesHaveOwners ==
    /\ registered = {s \in Session : life[s] \in Alive}
    /\ inviteEntry # NoSession => life[inviteEntry] \in {"incoming", "accepting"}
    /\ \A s \in Session : byeEntry[s] # NoPacket => life[s] \in {"ending", "gone"}

\* The tables and the sessions agree.
TablesSound == TypeOK /\ EntriesHaveOwners

\* The sequence number of the peer falls only when an old ACK is read; no
\* reordering of other requests takes it back.
NumberFallsOnlyByAck ==
    [][\A s \in Session :
        remoteCSeq'[s] < remoteCSeq[s] =>
            chan[s] # <<>> /\ req[Head(chan[s])].method = "ACK"]_vars

\* accept returns: the 2xx is sent or fails, and the wait for the ACK ends
\* although every other request prolongs it.
AcceptReturns ==
    \A s \in Session :
        life[s] \in {"accepting", "waiting"}
            ~> life[s] \notin {"accepting", "waiting"}

\* A BYE that reached an established session ends it, in whatever order and
\* with whatever sequence number it came.
ByeEndsSession ==
    \A s \in Session :
        (life[s] = "established"
            /\ \E i \in DOMAIN chan[s] : req[chan[s][i]].method = "BYE")
        ~> (life[s] = "gone")

\* Neither the callee that accepts nor the caller that leaves waits for ever.
NothingHangs == AcceptReturns /\ ByeEndsSession

\* dialog.rs:172 says of remote_tag: "MUST be set to the tag in the To field
\* of the response".
RemoteTagIsSet == \A s \in Session : life[s] = "established" => remoteTag[s]
=============================================================================
