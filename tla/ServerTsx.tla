----------------------------- MODULE ServerTsx -----------------------------
(***************************************************************************)
(* One server transaction (transaction/server.rs), from the moment         *)
(* `from_request` has returned it to the transaction user (TU) until it is *)
(* dropped.                                                                *)
(*                                                                         *)
(* Three activities share it.  The TU sends responses.  The first          *)
(* provisional response spawns a task that takes the receiver of the       *)
(* channel and answers every copy of the request with the newest           *)
(* provisional response.  A final response over an unreliable transport    *)
(* makes that task give the receiver back, and a second task then answers  *)
(* copies with the final response (and, for INVITE, retransmits it until   *)
(* the ACK).  What tells the first task to leave is the broadcast of the   *)
(* state change.                                                           *)
(*                                                                         *)
(* Time is a counter; a timer fires at its instant or later.               *)
(***************************************************************************)
EXTENDS Naturals, Sequences

CONSTANTS
    T1, T2, T4,         \* timers.rs
    TimeoutFactor,      \* timer J, in T1 (64 in the code)
    ChanCap,            \* mpsc::channel(10) in from_request
    MaxArrivals,        \* bound: requests that reach the channel
    MaxProvisionals,    \* bound: provisional responses of the TU
    Slack               \* bound: how late a due timer may be polled

ASSUME ConstantsAssumption ==
    /\ T1 \in Nat \ {0}
    /\ T2 \in Nat /\ T1 <= T2
    /\ T4 \in Nat \ {0}
    /\ TimeoutFactor \in Nat \ {0}
    /\ ChanCap \in Nat \ {0}
    /\ MaxArrivals \in Nat
    /\ MaxProvisionals \in Nat
    /\ Slack \in Nat

VARIABLES
    invite,         \* the request is an INVITE
    reliable,       \* its transport is reliable
    state,          \* StateMachine.state
    owner,          \* who holds the value and what it is doing
    ptask,          \* the task that retransmits provisional responses
    notified,       \* a state change waits in that task's broadcast receiver
    newest,         \* provisional responses the TU has sent
    current,        \* the one the task would retransmit
    answer,         \* the final response the TU has sent
    entry,          \* the table holds this transaction's sender
    chan,           \* the mpsc channel: copies of the request, and ACKs
    now,
    interval,       \* retrans_interval of the final task
    resendAt,       \* when that interval elapses
    deadline,       \* when the final task, or its sleep, ends
    finals,         \* how often the final response was sent
    stale,          \* outdated provisional responses repeated since the TU
                    \* handed over a newer response
    arrivals        \* requests that reached the channel

kind   == <<invite, reliable>>
timers == <<interval, resendAt, deadline>>
vars   == <<kind, state, owner, ptask, notified, newest, current, answer,
            entry, chan, now, timers, finals, stale, arrivals>>

-----------------------------------------------------------------------------

State   == {"Trying", "Proceeding", "Completed", "Confirmed", "Terminated"}
Request == {"copy", "ack"}
Final   == {"success", "failure"}
NoFinal == "none"

\* The TU holds the value; send_final_response has sent the response, or
\* waits for the provisional task; the final task runs, or sleeps for T4
\* after the ACK.
Owner == {"tu", "concluding", "joining", "task", "sleeping", "nobody"}

TypeOK ==
    /\ invite \in BOOLEAN
    /\ reliable \in BOOLEAN
    /\ state \in State
    /\ owner \in Owner
    /\ ptask \in {"none", "running", "sending", "left"}
    /\ notified \in BOOLEAN
    /\ newest \in Nat
    /\ current \in 0 .. newest
    /\ answer \in Final \cup {NoFinal}
    /\ entry \in BOOLEAN
    /\ chan \in Seq(Request)
    /\ Len(chan) <= ChanCap
    /\ now \in Nat
    /\ interval \in Nat
    /\ resendAt \in Nat
    /\ deadline \in Nat
    /\ finals \in Nat
    /\ stale \in Nat
    /\ arrivals \in Nat

\* from_request: INVITE starts in Proceeding, anything else in Trying.
Init ==
    /\ invite \in BOOLEAN
    /\ reliable \in BOOLEAN
    /\ state = IF invite THEN "Proceeding" ELSE "Trying"
    /\ owner = "tu"
    /\ ptask = "none"
    /\ notified = FALSE
    /\ newest = 0
    /\ current = 0
    /\ answer = NoFinal
    /\ entry = TRUE
    /\ chan = <<>>
    /\ now = 0
    /\ interval = T1
    /\ resendAt = 0
    /\ deadline = 0
    /\ finals = 0
    /\ stale = 0
    /\ arrivals = 0

-----------------------------------------------------------------------------
(* The TU. *)

\* Fault: the task subscribes to state changes before Proceeding is set.
FirstProvisionalSubscribesEarly ==
    /\ owner = "tu" /\ ptask = "none"
    /\ newest < MaxProvisionals
    /\ newest' = newest + 1
    /\ current' = newest + 1
    /\ state' = "Proceeding"
    /\ ptask' = "running"
    /\ notified' = TRUE
    /\ UNCHANGED <<kind, owner, answer, entry, chan, now, timers, finals,
                   stale, arrivals>>

\* The first send_provisional_response: the response is sent, the state set,
\* and the task is spawned with the receiver and a fresh subscription.
FirstProvisional ==
    /\ owner = "tu" /\ ptask = "none"
    /\ newest < MaxProvisionals
    /\ newest' = newest + 1
    /\ current' = newest + 1
    /\ state' = "Proceeding"
    /\ ptask' = "running"
    /\ UNCHANGED <<kind, owner, notified, answer, entry, chan, now, timers,
                   finals, stale, arrivals>>

\* A later send_provisional_response: the response is sent, and handed to
\* the task through its unbounded channel.
NextProvisional ==
    /\ owner = "tu" /\ ptask # "none"
    /\ newest < MaxProvisionals
    /\ newest' = newest + 1
    /\ stale' = 0
    /\ UNCHANGED <<kind, state, owner, ptask, notified, current, answer,
                   entry, chan, now, timers, finals, arrivals>>

\* send_final_response up to send_response: the response is on the wire, the
\* state is not set yet.
SendFinal(final) ==
    /\ owner = "tu"
    /\ owner' = "concluding"
    /\ answer' = final
    /\ finals' = 1
    /\ UNCHANGED <<kind, state, ptask, notified, newest, current, entry, chan,
                   now, timers, stale, arrivals>>

\* The value is dropped: by the TU, by a send_final_response whose send
\* failed or whose response was not final, or with that future while it
\* waits for the provisional task.
DropTsx ==
    /\ owner \in {"tu", "joining"}
    /\ owner' = "nobody"
    /\ UNCHANGED <<kind, state, ptask, notified, newest, current, answer,
                   entry, chan, now, timers, finals, stale, arrivals>>

EndsAtOnce == reliable \/ (invite /\ answer = "success")

\* send_final_response sets Terminated, directly or through Completed, and
\* drops the value.
ConcludeAndEnd ==
    /\ owner = "concluding"
    /\ EndsAtOnce
    /\ state' = "Terminated"
    /\ notified' = (ptask # "none")
    /\ owner' = "nobody"
    /\ stale' = 0
    /\ UNCHANGED <<kind, ptask, newest, current, answer, entry, chan, now,
                   timers, finals, arrivals>>

\* Fault: Completed is set without telling the subscribers.
ConcludeUnnoticed ==
    /\ owner = "concluding"
    /\ ~EndsAtOnce
    /\ state' = "Completed"
    /\ deadline' = now + IF invite THEN T4 ELSE T1 * TimeoutFactor
    /\ owner' = "joining"
    /\ UNCHANGED <<kind, ptask, notified, newest, current, answer, entry,
                   chan, now, interval, resendAt, finals, stale, arrivals>>

\* Fault: the value is not consumed, the TU keeps it.
ConcludeKeepsValue ==
    /\ owner = "concluding"
    /\ ~EndsAtOnce
    /\ state' = "Completed"
    /\ notified' = (ptask # "none")
    /\ deadline' = now + IF invite THEN T4 ELSE T1 * TimeoutFactor
    /\ owner' = "tu"
    /\ stale' = 0
    /\ UNCHANGED <<kind, ptask, newest, current, answer, entry, chan, now,
                   interval, resendAt, finals, arrivals>>

\* It sets Completed, fixes the deadline and waits for the receiver.
ConcludeAndLinger ==
    /\ owner = "concluding"
    /\ ~EndsAtOnce
    /\ state' = "Completed"
    /\ notified' = (ptask # "none")
    /\ deadline' = now + IF invite THEN T4 ELSE T1 * TimeoutFactor
    /\ owner' = "joining"
    /\ stale' = 0
    /\ UNCHANGED <<kind, ptask, newest, current, answer, entry, chan, now,
                   interval, resendAt, finals, arrivals>>

\* The receiver is there (join_handle.await, or receiver.take()): the final
\* task is spawned.
Join ==
    /\ owner = "joining"
    /\ ptask \in {"none", "left"}
    /\ owner' = "task"
    /\ interval' = T1
    /\ resendAt' = now + T1
    /\ UNCHANGED <<kind, state, ptask, notified, newest, current, answer,
                   entry, chan, now, deadline, finals, stale, arrivals>>

-----------------------------------------------------------------------------
(* The provisional task: a biased select, the state change first, then a   *)
(* new provisional response, then a request.                               *)

\* state_rx.recv() returns when a change is queued or when the sender is
\* gone with the transaction.
StateChanged == notified \/ owner = "nobody"

TaskLeaves ==
    /\ ptask = "running"
    /\ StateChanged
    /\ ptask' = "left"
    /\ UNCHANGED <<kind, state, owner, notified, newest, current, answer,
                   entry, chan, now, timers, finals, stale, arrivals>>

TaskRenews ==
    /\ ptask = "running"
    /\ ~StateChanged
    /\ current < newest
    /\ current' = current + 1
    /\ UNCHANGED <<kind, state, owner, ptask, notified, newest, answer, entry,
                   chan, now, timers, finals, stale, arrivals>>

\* Fault: the select is not biased.
TaskTakesUnbiased ==
    /\ ptask = "running"
    /\ chan # <<>>
    /\ chan' = Tail(chan)
    /\ ptask' = "sending"
    /\ UNCHANGED <<kind, state, owner, notified, newest, current, answer,
                   entry, now, timers, finals, stale, arrivals>>

\* Any request is taken; the answer is sent in the branch of the select,
\* where the task does not look at the state.
TaskTakes ==
    /\ ptask = "running"
    /\ ~StateChanged
    /\ current = newest
    /\ chan # <<>>
    /\ chan' = Tail(chan)
    /\ ptask' = "sending"
    /\ UNCHANGED <<kind, state, owner, notified, newest, current, answer,
                   entry, now, timers, finals, stale, arrivals>>

\* The TU has handed over something newer than what the task repeats.
Outdated == current < newest \/ state \in {"Completed", "Confirmed", "Terminated"}

TaskSends ==
    /\ ptask = "sending"
    /\ ptask' = "running"
    /\ stale' = IF Outdated THEN stale + 1 ELSE stale
    /\ UNCHANGED <<kind, state, owner, notified, newest, current, answer,
                   entry, chan, now, timers, finals, arrivals>>

-----------------------------------------------------------------------------
(* The final task. *)

\* INVITE: the ACK ends the retransmissions.
GotAck ==
    /\ owner = "task" /\ invite
    /\ chan # <<>> /\ Head(chan) = "ack"
    /\ chan' = Tail(chan)
    /\ state' = "Confirmed"
    /\ deadline' = now + T4
    /\ owner' = "sleeping"
    /\ UNCHANGED <<kind, ptask, notified, newest, current, answer, entry, now,
                   interval, resendAt, finals, stale, arrivals>>

\* Any other request is answered again; the wait for the interval restarts.
GotCopy ==
    /\ owner = "task"
    /\ chan # <<>>
    /\ ~(invite /\ Head(chan) = "ack")
    /\ chan' = Tail(chan)
    /\ finals' = finals + 1
    /\ resendAt' = now + interval
    /\ UNCHANGED <<kind, state, owner, ptask, notified, newest, current,
                   answer, entry, now, interval, deadline, stale, arrivals>>

\* std::cmp::min(retrans_interval * 2, T2)
Doubled(i) == IF 2 * i < T2 THEN 2 * i ELSE T2

ResendDue == invite /\ now >= resendAt

\* INVITE: the interval elapsed.
Resend ==
    /\ owner = "task"
    /\ chan = <<>> /\ entry
    /\ ResendDue
    /\ finals' = finals + 1
    /\ interval' = Doubled(interval)
    /\ resendAt' = now + interval'
    /\ UNCHANGED <<kind, state, owner, ptask, notified, newest, current,
                   answer, entry, chan, now, deadline, stale, arrivals>>

\* The deadline passed.
GiveUp ==
    /\ owner = "task"
    /\ chan = <<>> /\ entry
    /\ ~ResendDue /\ now >= deadline
    /\ state' = "Terminated"
    /\ owner' = "nobody"
    /\ UNCHANGED <<kind, ptask, notified, newest, current, answer, entry,
                   chan, now, timers, finals, stale, arrivals>>

\* The channel is closed: recv returns None.  The INVITE task breaks out of
\* its loop without setting the state.
ChannelClosed ==
    /\ owner = "task"
    /\ chan = <<>> /\ ~entry
    /\ state' = IF invite THEN state ELSE "Terminated"
    /\ owner' = "nobody"
    /\ UNCHANGED <<kind, ptask, notified, newest, current, answer, entry,
                   chan, now, timers, finals, stale, arrivals>>

\* The sleep after the ACK is over.  Nobody reads the channel during it.
Wake ==
    /\ owner = "sleeping"
    /\ now >= deadline
    /\ state' = "Terminated"
    /\ owner' = "nobody"
    /\ UNCHANGED <<kind, ptask, notified, newest, current, answer, entry,
                   chan, now, timers, finals, stale, arrivals>>

-----------------------------------------------------------------------------
(* The environment. *)

\* Fault: an unbounded channel.
ArriveUnbounded(request) ==
    /\ request = "ack" => invite
    /\ entry /\ owner # "nobody"
    /\ arrivals < MaxArrivals
    /\ chan' = Append(chan, request)
    /\ arrivals' = arrivals + 1
    /\ UNCHANGED <<kind, state, owner, ptask, notified, newest, current,
                   answer, entry, now, timers, finals, stale>>

\* Dispatch puts a request into the channel; it waits while that is full.
\* Only INVITE shares its key with the ACK (TransactionKey::new_key_3261).
Arrive(request) ==
    /\ request = "ack" => invite
    /\ entry /\ owner # "nobody"
    /\ Len(chan) < ChanCap
    /\ arrivals < MaxArrivals
    /\ chan' = Append(chan, request)
    /\ arrivals' = arrivals + 1
    /\ UNCHANGED <<kind, state, owner, ptask, notified, newest, current,
                   answer, entry, now, timers, finals, stale>>

\* Another transaction with the same key takes or removes the entry.
LoseEntry ==
    /\ entry /\ owner # "nobody"
    /\ entry' = FALSE
    /\ UNCHANGED <<kind, state, owner, ptask, notified, newest, current,
                   answer, chan, now, timers, finals, stale, arrivals>>

\* Time matters from the final response on; it is followed until Slack after
\* the running deadline.
Tick ==
    /\ owner \in {"joining", "task", "sleeping"}
    /\ now < deadline + Slack
    /\ now' = now + 1
    /\ UNCHANGED <<kind, state, owner, ptask, notified, newest, current,
                   answer, entry, chan, timers, finals, stale, arrivals>>

Gone ==
    /\ owner = "nobody" /\ ptask \in {"none", "left"}
    /\ UNCHANGED vars

-----------------------------------------------------------------------------

UserCall == FirstProvisional \/ NextProvisional
            \/ (\E final \in Final : SendFinal(final)) \/ DropTsx

Conclude == ConcludeAndEnd \/ ConcludeAndLinger \/ Join

ProvisionalTask == TaskLeaves \/ TaskRenews \/ TaskTakes \/ TaskSends

FinalTask == GotAck \/ GotCopy \/ Resend \/ GiveUp \/ ChannelClosed \/ Wake

Next ==
    \/ UserCall
    \/ Conclude
    \/ ProvisionalTask
    \/ FinalTask
    \/ \E request \in Request : Arrive(request)
    \/ LoseEntry
    \/ Tick
    \/ Gone

Spec == Init /\ [][Next]_vars

\* The runtime polls the tasks that can run, a send_final_response that can
\* go on does, and time passes.  The TU and the peer owe nothing.
FairSpec ==
    /\ Spec
    /\ WF_vars(Conclude)
    /\ WF_vars(ProvisionalTask)
    /\ WF_vars(FinalTask)
    /\ WF_vars(Tick)

-----------------------------------------------------------------------------
(* Properties. *)

\* While the TU still owns the transaction the provisional task is there to
\* receive from it, so provisional_tx.send cannot fail: the change to
\* Proceeding, made just before the task subscribes, does not send it away.
MailboxOpen == owner = "tu" => ptask # "left"

\* The peer is not told an older story for long: after the TU has handed over
\* a newer provisional response, or the state has moved on with the final
\* one, at most one outdated response is repeated, and none once the final
\* task has the receiver.
AtMostOneStale ==
    /\ stale <= 1
    /\ owner \in {"task", "sleeping"} => ptask # "sending"

\* The ACK silences an INVITE transaction: the final response is not sent in
\* Confirmed or Terminated.
SilentOnceConfirmed ==
    [][finals' # finals => state \in {"Trying", "Proceeding", "Completed"}]_vars

\* timers.rs: T2 is the maximum retransmission interval of INVITE responses.
IntervalCapped == interval <= T2

\* What goes out, and when: at most one outdated provisional response, no
\* final response once the ACK is there, and an interval that stops at T2.
SentInPlace == [](AtMostOneStale /\ IntervalCapped) /\ SilentOnceConfirmed

\* From the final response on the transaction ends by itself, whatever the
\* peer does: the wait for the provisional task does not hang, and the final
\* task does not outlive its timers.
EndsByItself == (owner \in Owner \ {"tu"}) ~> (owner = "nobody")

\* The provisional task does not survive the transaction.
TaskDoesNotLeak == (owner = "nobody") ~> (ptask \in {"none", "left"})

\* The value and its two tasks all end.
NothingHangs == EndsByItself /\ TaskDoesNotLeak

\* The phases of Exchange.
Phase ==
    CASE owner = "nobody" \/ state = "Terminated" -> "over"
      [] owner # "nobody" /\ state \in {"Completed", "Confirmed"} -> "lingering"
      [] owner # "nobody" /\ state = "Proceeding" -> "progressing"
      [] owner # "nobody" /\ state = "Trying" -> "waiting"

\* The final response counts once the state says so.
Concluded ==
    IF state \in {"Completed", "Confirmed", "Terminated"} THEN answer ELSE NoFinal

Promise == INSTANCE Exchange WITH
    phase <- Phase, outcome <- Concluded, Outcome <- Final, NoOutcome <- NoFinal

\* A server transaction keeps the promise of a transaction: it moves forward
\* only, and it has one final response.
KeepsPromise == Promise!Spec
=============================================================================
