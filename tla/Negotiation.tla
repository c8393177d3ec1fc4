----------------------------- MODULE Negotiation -----------------------------
(***************************************************************************)
(* The offer/answer negotiator (rssip-media sdp/negotiator.rs) and the     *)
(* sessions that drive it over INVITE, 2xx and ACK (ua/session/mod.rs):    *)
(* one that calls, one that is called, and an application that calls the   *)
(* public functions of a Negotiator in any order.  The peer describes      *)
(* whatever it likes.                                                      *)
(***************************************************************************)
EXTENDS Streams

CONSTANTS
    Params,         \* SdpOfferParams: [streams, direction]
    Remote,         \* what the peer may describe
    NoSdp

VARIABLES
    role,           \* "caller", "callee" or "application"
    stage,          \* how far the session has come
    nego,           \* the Negotiator
    spoken,         \* the descriptions exchanged, by who sent them
    panic           \* what panicked: "no", "todo" or "expect"

vars == <<role, stage, nego, spoken, panic>>

State == {"Initial", "LocalOffer", "RemoteOffer", "Ready", "Done"}

-----------------------------------------------------------------------------

Local == {CreateOffer(params) : params \in Params}

ASSUME ConstantsAssumption ==
    /\ NoSdp \notin Local \cup Remote
    /\ Local \cup Remote \subseteq Description

-----------------------------------------------------------------------------
(* The functions of a Negotiator n.  Those that change it return the       *)
(* changed one; the sessions call them only where they cannot fail.        *)

Negotiator(state, local, remote, answer) ==
    [state |-> state, local |-> local, remote |-> remote, answer |-> answer]

New == Negotiator("Initial", NoSdp, NoSdp, NoSdp)

\* set_remote_offer
CanSetRemote(n) == n.state \in {"Initial", "LocalOffer"}

SetRemote(n, sdp) ==
    Negotiator(IF n.state = "Initial" THEN "RemoteOffer" ELSE "Ready",
               n.local, sdp, n.answer)

\* Fault: any state will do.
CanSetLocalAlways(n) == TRUE

\* create_offer and set_local_offer
CanSetLocal(n) == n.state \in {"Initial", "RemoteOffer"}

SetLocal(n, sdp) ==
    Negotiator(IF n.state = "Initial" THEN "LocalOffer" ELSE "Ready",
               sdp, n.remote, n.answer)

\* create_answer, of a negotiator that is Ready.
AnswerPanics(n) == Mismatch(n.local, n.remote) \/ Dynamic(n.local, n.remote)

CreateAnswer(n) ==
    Negotiator("Done", n.local, n.remote, Answer(n.local, n.remote))

\* process_answer, in LocalOffer.
ProcessAnswer(n, sdp) == Negotiator("Done", n.local, n.remote, sdp)

-----------------------------------------------------------------------------

TypeOK ==
    /\ role \in {"caller", "callee", "application"}
    /\ stage \in {"new", "calling", "incoming", "accepted", "told",
                  "established", "failed"}
    /\ nego \in [state : State, local : Local \cup {NoSdp},
                 remote : Remote \cup {NoSdp}, answer : Description \cup {NoSdp}]
    /\ spoken \in {<<>>, <<"us">>, <<"peer">>, <<"us", "peer">>, <<"peer", "us">>}
    /\ panic \in {"no", "todo", "expect"}

Init ==
    /\ role \in {"caller", "callee", "application"}
    /\ stage = "new"
    /\ nego = New
    /\ spoken = <<>>
    /\ panic = "no"

Say(who) == spoken' = Append(spoken, who)

\* on_negotiation_done is given three descriptions that are all expected to
\* be there.
Tell(n) ==
    IF NoSdp \in {n.local, n.remote, n.answer}
    THEN stage' = "failed" /\ panic' = "expect"
    ELSE stage' = "told" /\ UNCHANGED panic

\* create_answer, and what follows it.
AnswerAnd(n, next) ==
    IF AnswerPanics(n)
    THEN /\ nego' = n
         /\ stage' = "failed" /\ panic' = "todo"
    ELSE /\ nego' = CreateAnswer(n)
         /\ next

\* process_answer, and on_negotiation_done.
ProcessAnd(sdp, next) ==
    IF Mismatch(nego.local, sdp)
    THEN /\ stage' = "failed" /\ panic' = "todo"
         /\ UNCHANGED nego
    ELSE /\ nego' = ProcessAnswer(nego, sdp)
         /\ next

-----------------------------------------------------------------------------
(* A session that calls. *)

SendInvite ==
    /\ role = "caller" /\ stage = "new"
    /\ stage' = "calling"
    /\ \/ UNCHANGED <<nego, spoken>>
       \/ \E local \in Local : nego' = SetLocal(nego, local) /\ Say("us")
    /\ UNCHANGED <<role, panic>>

\* receive_answer: the 2xx has no body.
AnswerWithoutBody ==
    /\ role = "caller" /\ stage = "calling"
    /\ Tell(nego)
    /\ UNCHANGED <<role, nego, spoken>>

\* The 2xx has the offer, and the TU gave no parameters to answer it.
OfferUnanswered ==
    /\ role = "caller" /\ stage = "calling" /\ nego.state = "Initial"
    /\ stage' = "failed"
    /\ Say("peer")
    /\ UNCHANGED <<role, nego, panic>>

\* The 2xx has the offer; the ACK will have the answer.
DelayedOffer(remote, local) ==
    LET n == SetRemote(SetLocal(nego, local), remote) IN
    /\ role = "caller" /\ stage = "calling" /\ nego.state = "Initial"
    /\ AnswerAnd(n, Tell(CreateAnswer(n)))
    /\ Say("peer")
    /\ UNCHANGED role

\* The 2xx has the answer.
AnswerInResponse(remote) ==
    /\ role = "caller" /\ stage = "calling" /\ nego.state = "LocalOffer"
    /\ ProcessAnd(remote, Tell(ProcessAnswer(nego, remote)))
    /\ Say("peer")
    /\ UNCHANGED role

\* The handler has been told.  A caller that was told has answered a delayed
\* offer: its ACK carries the answer.
SendAck ==
    /\ role = "caller" /\ stage = "told"
    /\ stage' = "established"
    /\ Say("us")
    /\ UNCHANGED <<role, nego, panic>>

-----------------------------------------------------------------------------
(* A session that is called. *)

FromInvite ==
    /\ role = "callee" /\ stage = "new"
    /\ stage' = "incoming"
    /\ \/ UNCHANGED <<nego, spoken>>
       \/ \E remote \in Remote : nego' = SetRemote(nego, remote) /\ Say("peer")
    /\ UNCHANGED <<role, panic>>

\* accept: the 2xx has the answer.
AcceptOffer(local) ==
    /\ role = "callee" /\ stage = "incoming" /\ nego.state = "RemoteOffer"
    /\ AnswerAnd(SetLocal(nego, local), stage' = "accepted" /\ UNCHANGED panic)
    /\ IF stage' = "accepted" THEN Say("us") ELSE UNCHANGED spoken
    /\ UNCHANGED role

\* accept: the 2xx has the offer.
AcceptAndOffer(local) ==
    /\ role = "callee" /\ stage = "incoming" /\ nego.state = "Initial"
    /\ nego' = SetLocal(nego, local)
    /\ stage' = "accepted"
    /\ Say("us")
    /\ UNCHANGED <<role, panic>>

\* Fault: a description in the ACK is an answer, whoever offered.
AnswerInAckAlways(remote) ==
    /\ role = "callee" /\ stage = "accepted"
    /\ ProcessAnd(remote, Tell(ProcessAnswer(nego, remote)))
    /\ Say("peer")
    /\ UNCHANGED role

AnswerInAck(remote) ==
    /\ role = "callee" /\ stage = "accepted" /\ nego.state = "LocalOffer"
    /\ ProcessAnd(remote, Tell(ProcessAnswer(nego, remote)))
    /\ Say("peer")
    /\ UNCHANGED role

\* The ACK owes the answer and has none.
AnswerMissing ==
    /\ role = "callee" /\ stage = "accepted" /\ nego.state = "LocalOffer"
    /\ stage' = "failed"
    /\ UNCHANGED <<role, nego, spoken, panic>>

\* The answer went with the 2xx: a body of the ACK is not looked at.
GotAck ==
    /\ role = "callee" /\ stage = "accepted" /\ nego.state # "LocalOffer"
    /\ Tell(nego)
    /\ UNCHANGED <<role, nego, spoken>>

StartTask ==
    /\ role = "callee" /\ stage = "told"
    /\ stage' = "established"
    /\ UNCHANGED <<role, nego, spoken, panic>>

\* No answer, no ACK, a description that cannot be parsed, a send that fails.
Fail ==
    /\ \/ role = "caller" /\ stage \in {"calling", "told"}
       \/ role = "callee" /\ stage \in {"incoming", "accepted"}
    /\ stage' = "failed"
    /\ UNCHANGED <<role, nego, spoken, panic>>

-----------------------------------------------------------------------------
(* An application that uses a Negotiator by itself. *)

Application == role = "application" /\ stage = "new"

CallSetRemote(remote) ==
    /\ Application /\ CanSetRemote(nego)
    /\ nego' = SetRemote(nego, remote)
    /\ UNCHANGED <<role, stage, spoken, panic>>

CallSetLocal(local) ==
    /\ Application /\ CanSetLocal(nego)
    /\ nego' = SetLocal(nego, local)
    /\ UNCHANGED <<role, stage, spoken, panic>>

CallCreateAnswer ==
    /\ Application /\ nego.state = "Ready"
    /\ AnswerAnd(nego, UNCHANGED <<stage, panic>>)
    /\ UNCHANGED <<role, spoken>>

CallProcessAnswer(remote) ==
    /\ Application /\ nego.state = "LocalOffer"
    /\ ProcessAnd(remote, UNCHANGED <<stage, panic>>)
    /\ UNCHANGED <<role, spoken>>

\* Any other call returns ErrInvalidNegoState.
CallRefused == Application /\ UNCHANGED vars

-----------------------------------------------------------------------------

Caller ==
    \/ SendInvite \/ AnswerWithoutBody \/ OfferUnanswered \/ SendAck
    \/ \E remote \in Remote :
        \/ AnswerInResponse(remote)
        \/ \E local \in Local : DelayedOffer(remote, local)

Callee ==
    \/ FromInvite \/ AnswerMissing \/ GotAck \/ StartTask
    \/ \E remote \in Remote : AnswerInAck(remote)
    \/ \E local \in Local : AcceptOffer(local) \/ AcceptAndOffer(local)

Calls ==
    \/ CallCreateAnswer \/ CallRefused
    \/ \E remote \in Remote : CallSetRemote(remote) \/ CallProcessAnswer(remote)
    \/ \E local \in Local : CallSetLocal(local)

\* The session is out of its hands.
Over == stage \in {"established", "failed"} /\ UNCHANGED vars

Next == Caller \/ Callee \/ Fail \/ Calls \/ Over

Spec == Init /\ [][Next]_vars

-----------------------------------------------------------------------------
(* Properties. *)

\* What create_answer and process_answer expect to be there is there, in
\* whatever order the functions are called (negotiator.rs:253, 254, 390).
OffersPresent ==
    /\ nego.state = "Ready" => nego.local # NoSdp /\ nego.remote # NoSdp
    /\ nego.state \in {"LocalOffer", "Done"} => nego.local # NoSdp

Sends(stream) == stream.direction \in {"none", "sendrecv", "sendonly"}
Receives(stream) == stream.direction \in {"none", "sendrecv", "recvonly"}

Increasing(at) == \A i, j \in DOMAIN at : i < j => at[i] < at[j]

\* What an answer a to the offer r may be, when l is what we would like.  An
\* offered sendrecv is accepted as it is.
Fits(a, l, r) ==
    /\ a.kind = l.kind /\ a.kind = r.kind
    /\ ToSet(a.formats) = ToSet(l.formats) \cap ToSet(r.formats)
    /\ \E at \in [DOMAIN a.formats -> DOMAIN l.formats] :
        Increasing(at) /\ \A i \in DOMAIN at : a.formats[i] = l.formats[at[i]]
    /\ Sends(a) => Receives(r)
    /\ Receives(a) => Sends(r)
    /\ r.direction # "sendrecv" =>
        (Sends(a) => Sends(l)) /\ (Receives(a) => Receives(l))

\* The answer we give keeps every stream open at both ends, in order, with
\* the common formats in our order, and a direction that goes with the offer.
AnswerFitsOffer ==
    LET open == OpenAt(nego.local, nego.remote) IN
    nego.state = "Done" /\ nego.remote # NoSdp =>
        /\ Len(nego.answer) = Cardinality(open)
        /\ \E at \in [DOMAIN nego.answer -> open] :
            /\ Increasing(at)
            /\ \A i \in DOMAIN at : Fits(nego.answer[i], nego.local[at[i]],
                                        nego.remote[at[i]])

\* What a negotiator holds is well-formed, and its answer goes with the offer.
AnswerSound == TypeOK /\ AnswerFitsOffer

\* Once there is an answer, given or got, the negotiation is never changed,
\* whatever is called and whatever the ACK carries.
AnswerIsFinal == [][nego.state = "Done" => UNCHANGED nego]_vars

\* A session speaks and listens as OfferAnswer says.
Promise == INSTANCE OfferAnswer WITH
    phase <- IF stage \in {"established", "failed"} THEN stage ELSE "open"

KeepsPromise == Promise!Spec

\* session/mod.rs:156-158 and 280-282 expect all three descriptions: "a offer".
NothingMissing == panic # "expect"
=============================================================================
