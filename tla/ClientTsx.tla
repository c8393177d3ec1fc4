----------------------------- MODULE ClientTsx -----------------------------
(***************************************************************************)
(* One client transaction (transaction/client.rs), from the moment `send`  *)
(* has returned it to the transaction user (TU) until it is dropped.       *)
(*                                                                         *)
(* The TU owns the ClientTransaction value and awaits one of its receive   *)
(* futures; the future reads a PeekableReceiver that the endpoint's        *)
(* dispatch fills through a bounded channel.  A final response that must   *)
(* be lingered on moves the value into a spawned task.                     *)
(*                                                                         *)
(* Time is a counter.  A timer fires at its instant or later, never        *)
(* before, and within one poll of a future a ready message wins over the   *)
(* retransmission interval, which wins over the deadline.  The clock       *)
(* stands still between the creation of a future and its first poll        *)
(* (`fresh`): both happen in one turn of the task.                         *)
(*                                                                         *)
(* Encoding a message cannot fail (it is written to a growing buffer) and  *)
(* a failure of the socket is logged and swallowed by                      *)
(* send_outgoing_request, so no send has an error path here.               *)
(***************************************************************************)
EXTENDS Naturals, Sequences, FiniteSets

CONSTANTS
    T1,             \* timers.rs: first retransmission interval
    T4,             \* timers.rs: linger time of a non-INVITE request
    TimeoutFactor,  \* deadline and INVITE linger time, in T1 (64 in the code)
    ChanCap,        \* mpsc::channel(10) in `send`
    MaxResponses,   \* bound: responses the peer sends
    Slack           \* bound: how late a due timer may be polled

ASSUME ConstantsAssumption ==
    /\ T1 \in Nat \ {0}
    /\ T4 \in Nat \ {0}
    /\ TimeoutFactor \in Nat \ {0}
    /\ ChanCap \in Nat \ {0}
    /\ MaxResponses \in Nat
    /\ Slack \in Nat

VARIABLES
    invite,         \* the request is an INVITE
    reliable,       \* its transport is reliable
    state,          \* StateMachine.state
    owner,          \* who holds the value: the TU, the linger task, nobody
    call,           \* the receive future the TU is awaiting
    outcome,        \* what the TU was told in the end
    panicked,       \* unreachable!() was reached
    chan,           \* the mpsc channel
    peeked,         \* PeekableReceiver.peeked
    now,            \* Instant::now()
    fresh,          \* the pending future has still to be polled
    interval,       \* retrans_interval of the pending future
    resendAt,       \* when that interval elapses
    lingerUntil,    \* timer D or K of the linger task
    requests,       \* how often the request was sent
    lateResends,    \* how often it was sent at or after the deadline
    acks,           \* how many ACKs were sent
    arrived,        \* every response that entered the channel
    taken           \* every response that left it for the TU or the task

kind    == <<invite, reliable>>
timers  == <<interval, resendAt>>
queue   == <<chan, peeked, taken>>
sent    == <<requests, lateResends>>
vars    == <<kind, state, owner, call, outcome, panicked, queue, now, fresh,
             timers, lingerUntil, sent, acks, arrived>>

-----------------------------------------------------------------------------

State == {"Calling", "Trying", "Proceeding", "Completed", "Terminated"}

\* The status classes the code tells apart: 1xx, 2xx, and 3xx to 6xx.
Response == {"provisional", "success", "failure"}
Final    == Response \ {"provisional"}
NoResponse == "none"

Outcome   == Final \cup {"timeout", "closed"}
NoOutcome == "none"

\* timeout: Instant::now() + T1 * 64, counted from the creation.
Deadline == T1 * TimeoutFactor

Waiting == state \in {"Calling", "Trying"}

TypeOK ==
    /\ invite \in BOOLEAN
    /\ reliable \in BOOLEAN
    /\ state \in State
    /\ owner \in {"tu", "task", "nobody"}
    /\ call \in {"idle", "provisional", "final"}
    /\ outcome \in Outcome \cup {NoOutcome}
    /\ panicked \in BOOLEAN
    /\ chan \in Seq(Response)
    /\ Len(chan) <= ChanCap
    /\ peeked \in Response \cup {NoResponse}
    /\ now \in Nat
    /\ fresh \in BOOLEAN
    /\ interval \in Nat
    /\ resendAt \in Nat
    /\ lingerUntil \in Nat
    /\ requests \in Nat
    /\ lateResends \in Nat
    /\ acks \in Nat
    /\ arrived \in Seq(Response)
    /\ taken \in Seq(Response)

\* `send`: the request has gone out once and the table entry exists.  What
\* arrives before the entry exists is not taken (see TsxTable).
Init ==
    /\ invite \in BOOLEAN
    /\ reliable \in BOOLEAN
    /\ state = IF invite THEN "Calling" ELSE "Trying"
    /\ owner = "tu"
    /\ call = "idle"
    /\ outcome = NoOutcome
    /\ panicked = FALSE
    /\ chan = <<>>
    /\ peeked = NoResponse
    /\ now = 0
    /\ fresh = FALSE
    /\ interval = T1
    /\ resendAt = 0
    /\ lingerUntil = 0
    /\ requests = 1
    /\ lateResends = 0
    /\ acks = 0
    /\ arrived = <<>>
    /\ taken = <<>>

-----------------------------------------------------------------------------
(* The PeekableReceiver. *)

Ready == peeked # NoResponse \/ chan # <<>>

Oldest == IF peeked # NoResponse THEN peeked ELSE Head(chan)

Rest == IF peeked # NoResponse THEN chan ELSE Tail(chan)

\* recv, and recv_if on a message that satisfies the condition.
Take ==
    /\ Ready
    /\ taken' = Append(taken, Oldest)
    /\ peeked' = NoResponse
    /\ chan' = Rest

\* Fault: recv_if throws the message away.
KeepLoses ==
    /\ Ready
    /\ peeked' = NoResponse
    /\ chan' = Rest
    /\ UNCHANGED taken

\* recv_if on a message that does not: it stays peeked.
Keep ==
    /\ Ready
    /\ peeked' = Oldest
    /\ chan' = Rest
    /\ UNCHANGED taken

-----------------------------------------------------------------------------
(* The receive calls of the TU. *)

\* A fresh future: each call starts again from the interval T1.
Await(kindOfCall) ==
    /\ call' = kindOfCall
    /\ fresh' = TRUE
    /\ interval' = T1
    /\ resendAt' = now + T1

\* Fault: the test on the state is missing.
ReceiveProvisionalAnyTime ==
    /\ owner = "tu" /\ call = "idle"
    /\ Await("provisional")
    /\ UNCHANGED <<kind, state, owner, outcome, panicked, queue, now,
                   lingerUntil, sent, acks, arrived>>

\* receive_provisional_response.  Beyond Proceeding it returns Ok(None) at
\* once and changes nothing.
ReceiveProvisional ==
    /\ owner = "tu" /\ call = "idle"
    /\ state \in {"Calling", "Trying", "Proceeding"}
    /\ Await("provisional")
    /\ UNCHANGED <<kind, state, owner, outcome, panicked, queue, now,
                   lingerUntil, sent, acks, arrived>>

\* receive_final_response.
ReceiveFinal ==
    /\ owner = "tu" /\ call = "idle"
    /\ state \in {"Calling", "Trying", "Proceeding"}
    /\ Await("final")
    /\ UNCHANGED <<kind, state, owner, outcome, panicked, queue, now,
                   lingerUntil, sent, acks, arrived>>

\* receive_final_response after receive_provisional_response has timed out:
\* the match on the state has no arm for Terminated.
ReceiveFinalTooLate ==
    /\ owner = "tu" /\ call = "idle"
    /\ state \notin {"Calling", "Trying", "Proceeding"}
    /\ panicked' = TRUE
    /\ owner' = "nobody"
    /\ UNCHANGED <<kind, state, call, outcome, queue, now, fresh, timers,
                   lingerUntil, sent, acks, arrived>>

\* The pending future is over; the TU keeps the value only if the future
\* had borrowed it.
Return ==
    /\ call' = "idle"
    /\ fresh' = FALSE
    /\ UNCHANGED timers

Borrowed == IF call = "provisional" THEN "tu" ELSE "nobody"

\* Fault: the state is not set.
GotProvisionalSilently ==
    /\ call = "provisional"
    /\ Take /\ Oldest = "provisional"
    /\ Return
    /\ UNCHANGED <<kind, state, owner, outcome, panicked, now, lingerUntil,
                   sent, acks, arrived>>

\* receive_provisional got a 1xx.
GotProvisional ==
    /\ call = "provisional"
    /\ Take /\ Oldest = "provisional"
    /\ state' = "Proceeding"
    /\ Return
    /\ UNCHANGED <<kind, owner, outcome, panicked, now, lingerUntil, sent,
                   acks, arrived>>

\* receive_provisional found a final response: Ok(None), and Proceeding too.
FoundFinal ==
    /\ call = "provisional"
    /\ Keep /\ Oldest \in Final
    /\ state' = "Proceeding"
    /\ Return
    /\ UNCHANGED <<kind, owner, outcome, panicked, now, lingerUntil, sent,
                   acks, arrived>>

\* receive_final found a 1xx: Err(ChannelClosed), and the value is dropped.
FoundProvisional ==
    /\ call = "final"
    /\ Keep /\ Oldest = "provisional"
    /\ outcome' = "closed"
    /\ owner' = "nobody"
    /\ Return
    /\ UNCHANGED <<kind, state, panicked, now, lingerUntil, sent, acks,
                   arrived>>

EndsAtOnce(response) ==
    \/ reliable
    \/ invite /\ response = "success" /\ state \in {"Calling", "Proceeding"}

\* receive_final_response returns and the transaction is over.
GotFinalAndEnds ==
    /\ call = "final"
    /\ Take /\ Oldest \in Final
    /\ EndsAtOnce(Oldest)
    /\ state' = "Terminated"
    /\ outcome' = Oldest
    /\ owner' = "nobody"
    /\ Return
    /\ UNCHANGED <<kind, panicked, now, lingerUntil, sent, acks, arrived>>

\* receive_final_response acknowledges a failure of an INVITE and leaves the
\* value to the linger task.
GotFinalAndLingers ==
    /\ call = "final"
    /\ Take /\ Oldest \in Final
    /\ ~EndsAtOnce(Oldest)
    /\ state' = "Completed"
    /\ outcome' = Oldest
    /\ owner' = "task"
    /\ acks' = IF invite THEN acks + 1 ELSE acks
    /\ lingerUntil' = now + IF invite THEN T1 * TimeoutFactor ELSE T4
    /\ Return
    /\ UNCHANGED <<kind, panicked, now, sent, arrived>>

\* The two timers of a pending future, as receive_response_if arms them.
ResendDue == Waiting /\ ~reliable /\ now >= resendAt
TimeoutDue == now >= Deadline /\ ~(invite /\ state = "Proceeding")

\* The interval elapsed: retransmit, double it and wait again.
Resend ==
    /\ call # "idle" /\ ~Ready
    /\ ResendDue
    /\ requests' = requests + 1
    /\ lateResends' = IF now >= Deadline THEN lateResends + 1 ELSE lateResends
    /\ interval' = 2 * interval
    /\ resendAt' = now + 2 * interval
    /\ fresh' = TRUE
    /\ UNCHANGED <<kind, state, owner, call, outcome, panicked, queue, now,
                   lingerUntil, acks, arrived>>

\* The deadline passed: Err(Timeout).
TimeOut ==
    /\ call # "idle" /\ ~Ready
    /\ ~ResendDue /\ TimeoutDue
    /\ state' = "Terminated"
    /\ outcome' = "timeout"
    /\ owner' = Borrowed
    /\ Return
    /\ UNCHANGED <<kind, panicked, queue, now, lingerUntil, sent, acks,
                   arrived>>

\* Nothing is ready: the task sleeps.
Park ==
    /\ call # "idle" /\ ~Ready
    /\ ~ResendDue /\ ~TimeoutDue
    /\ fresh
    /\ fresh' = FALSE
    /\ UNCHANGED <<kind, state, owner, call, outcome, panicked, queue, now,
                   timers, lingerUntil, sent, acks, arrived>>

\* The TU drops the pending future, and with it what the future owns.
Cancel ==
    /\ call # "idle"
    /\ owner' = Borrowed
    /\ Return
    /\ UNCHANGED <<kind, state, outcome, panicked, queue, now, lingerUntil,
                   sent, acks, arrived>>

\* The TU drops the transaction.
DropTsx ==
    /\ owner = "tu" /\ call = "idle"
    /\ owner' = "nobody"
    /\ UNCHANGED <<kind, state, call, outcome, panicked, queue, now, fresh,
                   timers, lingerUntil, sent, acks, arrived>>

-----------------------------------------------------------------------------
(* The linger task of receive_final_response. *)

\* Fault: a retransmitted final response is not acknowledged again.
AbsorbSilently ==
    /\ owner = "task"
    /\ Take
    /\ UNCHANGED <<kind, state, owner, call, outcome, panicked, now, fresh,
                   timers, lingerUntil, sent, acks, arrived>>

\* Any further response is answered by the ACK, if there is one.
Absorb ==
    /\ owner = "task"
    /\ Take
    /\ acks' = IF invite THEN acks + 1 ELSE acks
    /\ UNCHANGED <<kind, state, owner, call, outcome, panicked, now, fresh,
                   timers, lingerUntil, sent, arrived>>

\* Fault: timer K is never armed.
LingerEndsInvite ==
    /\ owner = "task" /\ invite
    /\ ~Ready /\ now >= lingerUntil
    /\ state' = "Terminated"
    /\ owner' = "nobody"
    /\ UNCHANGED <<kind, call, outcome, panicked, queue, now, fresh, timers,
                   lingerUntil, sent, acks, arrived>>

\* Timer D or K: the value is dropped with the task.
LingerEnds ==
    /\ owner = "task"
    /\ ~Ready /\ now >= lingerUntil
    /\ state' = "Terminated"
    /\ owner' = "nobody"
    /\ UNCHANGED <<kind, call, outcome, panicked, queue, now, fresh, timers,
                   lingerUntil, sent, acks, arrived>>

-----------------------------------------------------------------------------
(* The environment. *)

\* Fault: an unbounded channel.
ArriveUnbounded(response) ==
    /\ owner # "nobody"
    /\ Len(arrived) < MaxResponses
    /\ chan' = Append(chan, response)
    /\ arrived' = Append(arrived, response)
    /\ UNCHANGED <<kind, state, owner, call, outcome, panicked, peeked, taken,
                   now, fresh, timers, lingerUntil, sent, acks>>

\* Dispatch puts a response into the channel; it waits while that is full.
Arrive(response) ==
    /\ owner # "nobody"
    /\ Len(chan) < ChanCap
    /\ Len(arrived) < MaxResponses
    /\ chan' = Append(chan, response)
    /\ arrived' = Append(arrived, response)
    /\ UNCHANGED <<kind, state, owner, call, outcome, panicked, peeked, taken,
                   now, fresh, timers, lingerUntil, sent, acks>>

\* Time is followed until Slack after the last instant that matters.
Horizon == Slack + IF owner = "task" THEN lingerUntil ELSE Deadline

Tick ==
    /\ owner # "nobody"
    /\ ~fresh
    /\ now < Horizon
    /\ now' = now + 1
    /\ UNCHANGED <<kind, state, owner, call, outcome, panicked, queue, fresh,
                   timers, lingerUntil, sent, acks, arrived>>

\* The transaction is gone.
Gone == owner = "nobody" /\ UNCHANGED vars

-----------------------------------------------------------------------------

UserCall == ReceiveProvisional \/ ReceiveFinal \/ ReceiveFinalTooLate
            \/ Cancel \/ DropTsx

\* One turn of the task that awaits the pending future.
Poll == GotProvisional \/ FoundFinal \/ FoundProvisional \/ GotFinalAndEnds
        \/ GotFinalAndLingers \/ Resend \/ TimeOut \/ Park

Linger == Absorb \/ LingerEnds

Next ==
    \/ UserCall
    \/ Poll
    \/ Linger
    \/ \E response \in Response : Arrive(response)
    \/ Tick
    \/ Gone

Spec == Init /\ [][Next]_vars

\* The runtime polls a task that can run, and time passes.  The TU and the
\* peer owe nothing.
FairSpec == Spec /\ WF_vars(Poll) /\ WF_vars(Linger) /\ WF_vars(Tick)

-----------------------------------------------------------------------------
(* Properties. *)

Peeked == IF peeked = NoResponse THEN <<>> ELSE <<peeked>>

\* The three places a response passes through (the channel, the peeked slot,
\* the hands of the TU or of the linger task) hold, in order, exactly what
\* arrived: looking at a response of the wrong class neither loses it nor
\* lets a later one overtake it.
ResponsesInOrder == taken \o Peeked \o chan = arrived

\* Once the transaction has seen any response of the peer the request is not
\* sent again, although the interval of retransmission lives in the future
\* and starts anew with every call.
QuietOnceAnswered ==
    [][requests' # requests => taken = <<>> /\ peeked = NoResponse]_vars

\* However late timers are polled, and however often the TU abandons a call
\* and starts it again, at most one retransmission goes out when the deadline
\* has passed: the one whose interval elapsed in the same poll.
OneLateResend == lateResends <= 1

\* receive_provisional_response moves to Proceeding even when it returns
\* None.  It never does so for nothing: a 1xx was taken, or a final response
\* waits in the peeked slot for receive_final_response.
ProceedingIsEarned ==
    state = "Proceeding" =>
        \/ \E i \in DOMAIN taken : taken[i] = "provisional"
        \/ peeked \in Final

\* When the request goes out: never again once the peer has answered, and at
\* most once behind the deadline.
RequestsInTime == []OneLateResend /\ QuietOnceAnswered

Copies(class) == Cardinality({i \in DOMAIN taken : taken[i] = class})

\* Over an unreliable transport every failure of an INVITE that is taken, the
\* first one and its retransmissions, is acknowledged; and no transaction
\* that did not fail, or is not an INVITE, sends an ACK.
EachFailureAcked ==
    /\ invite /\ ~reliable => acks >= Copies("failure")
    /\ acks > 0 => invite /\ outcome = "failure"

\* A pending call returns, unless it waits for the final response of an
\* INVITE that is proceeding, which has no deadline.
CallReturns ==
    (call # "idle" /\ ~(invite /\ state = "Proceeding")) ~> (call = "idle")

\* The linger task ends, and the value, and its table entry, with it.
LingerTaskEnds == (owner = "task") ~> (owner = "nobody")

\* Neither the TU nor the linger task waits for ever.
NothingHangs == CallReturns /\ LingerTaskEnds

\* The phases of Exchange.
Phase ==
    CASE owner = "nobody" \/ state = "Terminated" -> "over"
      [] owner # "nobody" /\ state = "Completed" -> "lingering"
      [] owner # "nobody" /\ state = "Proceeding" -> "progressing"
      [] owner # "nobody" /\ Waiting -> "waiting"

Promise == INSTANCE Exchange WITH phase <- Phase

\* A client transaction keeps the promise of a transaction: it moves forward
\* only, and the TU is told one outcome, once.
KeepsPromise == Promise!Spec

\* client.rs:273 says unreachable!(): no receive call meets a transaction
\* that has ended.
NoPanic == ~panicked
=============================================================================
