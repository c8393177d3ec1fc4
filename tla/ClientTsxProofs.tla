-------------------------- MODULE ClientTsxProofs --------------------------
(***************************************************************************)
(* What ClientTsx satisfies for every value of its constants.              *)
(***************************************************************************)
EXTENDS ClientTsx, SequenceTheorems, FiniteSetTheorems, TLAPS

\* The receive futures exist only in the first three states, and only while
\* the TU holds the value; Completed belongs to the linger task.
Ownership ==
    /\ call # "idle" => owner = "tu"
    /\ owner = "task" <=> state = "Completed"
    /\ call # "idle" => state \in {"Calling", "Trying", "Proceeding"}
    /\ IF invite THEN state # "Trying" ELSE state # "Calling"

\* While the request may be retransmitted nothing of the peer was seen.
Unanswered ==
    owner = "tu" /\ Waiting => taken = <<>> /\ peeked = NoResponse

\* After a late retransmission the deadline has passed, and a future that
\* could retransmit again is about to be polled before its interval elapses.
Lateness ==
    /\ interval > 0
    /\ lateResends <= 1
    /\ lateResends > 0 => now >= Deadline
    /\ lateResends > 0 /\ Waiting /\ call # "idle" => fresh /\ now < resendAt

\* The outcome is open as long as the TU, or a future it awaits, is to be told.
Undecided ==
    owner = "tu" /\ state # "Terminated" => outcome = NoOutcome

IInv == TypeOK /\ Ownership /\ Unanswered /\ Lateness /\ Undecided

USE ConstantsAssumption DEF ConstantsAssumption

-----------------------------------------------------------------------------
(* The queue. *)

\* The oldest response is one, and what is left is a queue again.
LEMMA QueueTypes ==
    ASSUME TypeOK, Ready
    PROVE  /\ Oldest \in Response
           /\ Rest \in Seq(Response)
           /\ Len(Rest) <= ChanCap
<1>1. CASE peeked # NoResponse
    BY <1>1 DEF TypeOK, Oldest, Rest
<1>2. CASE peeked = NoResponse
    <2>1. chan \in Seq(Response) /\ chan # <<>>
        BY <1>2 DEF TypeOK, Ready
    <2>2. /\ Head(chan) \in Response
          /\ Tail(chan) \in Seq(Response)
          /\ Len(Tail(chan)) = Len(chan) - 1
        BY <2>1, HeadTailProperties
    <2>3. Len(chan) \in Nat /\ Len(chan) <= ChanCap
        BY <2>1, LenProperties DEF TypeOK
    <2> QED
        BY <1>2, <2>2, <2>3 DEF Oldest, Rest
<1> QED
    BY <1>1, <1>2

\* Taking the oldest response preserves the types of the queue.
LEMMA TakeTypes ==
    ASSUME TypeOK, Take
    PROVE  /\ Oldest \in Response
           /\ taken' \in Seq(Response)
           /\ peeked' = NoResponse
           /\ chan' \in Seq(Response)
           /\ Len(chan') <= ChanCap
<1>1. Oldest \in Response /\ Rest \in Seq(Response) /\ Len(Rest) <= ChanCap
    BY QueueTypes DEF Take
<1>2. Append(taken, Oldest) \in Seq(Response)
    BY <1>1, AppendProperties DEF TypeOK
<1> QED
    BY <1>1, <1>2 DEF Take

\* Keeping the oldest response in the peeked slot does.
LEMMA KeepTypes ==
    ASSUME TypeOK, Keep
    PROVE  /\ Oldest \in Response
           /\ taken' \in Seq(Response)
           /\ peeked' = Oldest
           /\ chan' \in Seq(Response)
           /\ Len(chan') <= ChanCap
<1>1. Oldest \in Response /\ Rest \in Seq(Response) /\ Len(Rest) <= ChanCap
    BY QueueTypes DEF Keep
<1> QED
    BY <1>1 DEF Keep, TypeOK

-----------------------------------------------------------------------------
(* The inductive invariant. *)

\* It holds initially.
LEMMA InitIInv == Init => IInv
<1> SUFFICES ASSUME Init PROVE IInv
    OBVIOUS
<1>1. TypeOK
    <2>1. <<>> \in Seq(Response) /\ Len(<<>>) = 0
        BY EmptySeq
    <2>2. state \in State
        BY DEF Init, State
    <2>3. /\ invite \in BOOLEAN /\ reliable \in BOOLEAN
          /\ panicked \in BOOLEAN /\ fresh \in BOOLEAN
        BY DEF Init
    <2> QED
        BY <2>1, <2>2, <2>3 DEF Init, TypeOK, NoOutcome
<1>2. Ownership /\ Unanswered /\ Undecided
    BY DEF Init, Ownership, Unanswered, Undecided, Waiting
<1>3. Lateness
    BY DEF Init, Lateness
<1> QED
    BY <1>1, <1>2, <1>3 DEF IInv

\* Types are preserved, action by action.
LEMMA TypeStep ==
    ASSUME TypeOK, Next PROVE TypeOK'
<1> USE DEF State, Outcome, Final, Response
<1>1. CASE ReceiveProvisional
    BY <1>1 DEF ReceiveProvisional, Await, TypeOK, kind, queue, sent
<1>2. CASE ReceiveFinal
    BY <1>2 DEF ReceiveFinal, Await, TypeOK, kind, queue, sent
<1>3. CASE ReceiveFinalTooLate
    BY <1>3 DEF ReceiveFinalTooLate, TypeOK, kind, queue, sent, timers
<1>4. CASE Cancel
    BY ZenonT(40), <1>4 DEF Cancel, Return, Borrowed, TypeOK, kind, queue, sent, timers
<1>5. CASE DropTsx
    BY <1>5 DEF DropTsx, TypeOK, kind, queue, sent, timers
<1>6. CASE GotProvisional
    <2>1. Take BY <1>6 DEF GotProvisional
    <2> QED BY <1>6, <2>1, TakeTypes
        DEF GotProvisional, Return, TypeOK, kind, sent, timers
<1>7. CASE FoundFinal
    <2>1. Keep BY <1>7 DEF FoundFinal
    <2> QED BY <1>7, <2>1, KeepTypes
        DEF FoundFinal, Return, TypeOK, kind, sent, timers
<1>8. CASE FoundProvisional
    <2>1. Keep BY <1>8 DEF FoundProvisional
    <2> QED BY <1>8, <2>1, KeepTypes
        DEF FoundProvisional, Return, TypeOK, kind, sent, timers
<1>9. CASE GotFinalAndEnds
    <2>1. Take BY <1>9 DEF GotFinalAndEnds
    <2> QED BY <1>9, <2>1, TakeTypes
        DEF GotFinalAndEnds, Return, TypeOK, kind, sent, timers
<1>10. CASE GotFinalAndLingers
    <2>1. Take BY <1>10 DEF GotFinalAndLingers
    <2>2. lingerUntil' \in Nat
        <3>1. T1 * TimeoutFactor \in Nat /\ T4 \in Nat /\ now \in Nat
            BY DEF TypeOK
        <3> QED
            BY <1>10, <3>1 DEF GotFinalAndLingers
    <2>3. acks' \in Nat
        BY <1>10 DEF GotFinalAndLingers, TypeOK
    <2> QED BY <1>10, <2>1, <2>2, <2>3, TakeTypes
        DEF GotFinalAndLingers, Return, TypeOK, kind, sent, timers
<1>11. CASE Resend
    BY <1>11 DEF Resend, TypeOK, kind, queue
<1>12. CASE TimeOut
    BY <1>12 DEF TimeOut, Return, Borrowed, TypeOK, kind, queue, sent, timers
<1>13. CASE Park
    <2>1. fresh' \in BOOLEAN
        BY <1>13 DEF Park
    <2> QED
        BY <1>13, <2>1 DEF Park, TypeOK, kind, queue, sent, timers
<1>14. CASE Absorb
    <2>1. Take BY <1>14 DEF Absorb
    <2> QED BY <1>14, <2>1, TakeTypes DEF Absorb, TypeOK, kind, sent, timers
<1>15. CASE LingerEnds
    BY <1>15 DEF LingerEnds, TypeOK, kind, queue, sent, timers
<1>16. ASSUME NEW response \in Response, Arrive(response)
       PROVE  TypeOK'
    <2>1. /\ Append(chan, response) \in Seq(Response)
          /\ Len(Append(chan, response)) = Len(chan) + 1
          /\ Append(arrived, response) \in Seq(Response)
          /\ Len(chan) \in Nat
        BY AppendProperties, LenProperties DEF TypeOK
    <2> QED
        BY <1>16, <2>1 DEF Arrive, TypeOK, kind, sent, timers
<1>17. CASE Tick
    BY <1>17 DEF Tick, TypeOK, kind, queue, sent, timers
<1>18. CASE Gone
    BY <1>18 DEF Gone, vars, TypeOK, kind, queue, sent, timers
<1> QED
    BY <1>1, <1>2, <1>3, <1>4, <1>5, <1>6, <1>7, <1>8, <1>9, <1>10, <1>11,
       <1>12, <1>13, <1>14, <1>15, <1>16, <1>17, <1>18
    DEF Next, UserCall, Poll, Linger

\* Who holds the value, and which future is pending.
LEMMA OwnershipStep ==
    ASSUME TypeOK, Ownership, Next PROVE Ownership'
<1> USE DEF Ownership, TypeOK, State
<1>1. CASE ReceiveProvisional
    BY <1>1 DEF ReceiveProvisional, Await, kind
<1>2. CASE ReceiveFinal
    BY <1>2 DEF ReceiveFinal, Await, kind
<1>3. CASE ReceiveFinalTooLate
    BY <1>3 DEF ReceiveFinalTooLate, kind
<1>4. CASE Cancel
    BY <1>4 DEF Cancel, Return, Borrowed, kind
<1>5. CASE DropTsx
    BY <1>5 DEF DropTsx, kind
<1>6. CASE GotProvisional
    BY <1>6 DEF GotProvisional, Return, kind
<1>7. CASE FoundFinal
    BY <1>7 DEF FoundFinal, Return, kind
<1>8. CASE FoundProvisional
    BY <1>8 DEF FoundProvisional, Return, kind
<1>9. CASE GotFinalAndEnds
    BY <1>9 DEF GotFinalAndEnds, Return, kind
<1>10. CASE GotFinalAndLingers
    BY <1>10 DEF GotFinalAndLingers, Return, kind
<1>11. CASE Resend
    BY <1>11 DEF Resend, kind
<1>12. CASE TimeOut
    BY <1>12 DEF TimeOut, Return, Borrowed, kind
<1>13. CASE Park
    BY <1>13 DEF Park, kind
<1>14. CASE Absorb
    BY <1>14 DEF Absorb, kind
<1>15. CASE LingerEnds
    BY <1>15 DEF LingerEnds, kind
<1>16. CASE \E response \in Response : Arrive(response)
    BY <1>16 DEF Arrive, kind
<1>17. CASE Tick
    BY <1>17 DEF Tick, kind
<1>18. CASE Gone
    BY <1>18 DEF Gone, kind, vars
<1> QED
    BY <1>1, <1>2, <1>3, <1>4, <1>5, <1>6, <1>7, <1>8, <1>9, <1>10,
       <1>11, <1>12, <1>13, <1>14, <1>15, <1>16, <1>17, <1>18
    DEF Next, UserCall, Poll, Linger

\* A response that is seen ends Calling and Trying, or the ownership of the TU.
LEMMA UnansweredStep ==
    ASSUME TypeOK, Ownership, Unanswered, Next PROVE Unanswered'
<1> USE DEF Ownership, Unanswered, Waiting, queue
<1>1. CASE ReceiveProvisional
    BY <1>1 DEF ReceiveProvisional, Await
<1>2. CASE ReceiveFinal
    BY <1>2 DEF ReceiveFinal, Await
<1>3. CASE ReceiveFinalTooLate
    BY <1>3 DEF ReceiveFinalTooLate, kind
<1>4. CASE Cancel
    BY <1>4 DEF Cancel, Return, Borrowed
<1>5. CASE DropTsx
    BY <1>5 DEF DropTsx, kind
<1>6. CASE GotProvisional
    BY <1>6 DEF GotProvisional, Return
<1>7. CASE FoundFinal
    BY <1>7 DEF FoundFinal, Return
<1>8. CASE FoundProvisional
    BY <1>8 DEF FoundProvisional, Return
<1>9. CASE GotFinalAndEnds
    BY <1>9 DEF GotFinalAndEnds, Return
<1>10. CASE GotFinalAndLingers
    BY <1>10 DEF GotFinalAndLingers, Return
<1>11. CASE Resend
    BY <1>11 DEF Resend, kind
<1>12. CASE TimeOut
    BY <1>12 DEF TimeOut, Return, Borrowed
<1>13. CASE Park
    BY <1>13 DEF Park, kind
<1>14. CASE Absorb
    BY <1>14 DEF Absorb, kind
<1>15. CASE LingerEnds
    BY <1>15 DEF LingerEnds, kind
<1>16. CASE \E response \in Response : Arrive(response)
    BY <1>16 DEF Arrive, kind
<1>17. CASE Tick
    BY <1>17 DEF Tick, kind
<1>18. CASE Gone
    BY <1>18 DEF Gone, kind, vars
<1> QED
    BY <1>1, <1>2, <1>3, <1>4, <1>5, <1>6, <1>7, <1>8, <1>9, <1>10,
       <1>11, <1>12, <1>13, <1>14, <1>15, <1>16, <1>17, <1>18
    DEF Next, UserCall, Poll, Linger

\* The outcome is set only when the value leaves the TU or the state is Terminated.
LEMMA UndecidedStep ==
    ASSUME TypeOK, Ownership, Undecided, Next PROVE Undecided'
<1> USE DEF Ownership, Undecided
<1>1. CASE ReceiveProvisional
    BY <1>1 DEF ReceiveProvisional, Await
<1>2. CASE ReceiveFinal
    BY <1>2 DEF ReceiveFinal, Await
<1>3. CASE ReceiveFinalTooLate
    BY <1>3 DEF ReceiveFinalTooLate, kind
<1>4. CASE Cancel
    BY <1>4 DEF Cancel, Return, Borrowed
<1>5. CASE DropTsx
    BY <1>5 DEF DropTsx, kind
<1>6. CASE GotProvisional
    BY <1>6 DEF GotProvisional, Return
<1>7. CASE FoundFinal
    BY <1>7 DEF FoundFinal, Return
<1>8. CASE FoundProvisional
    BY <1>8 DEF FoundProvisional, Return
<1>9. CASE GotFinalAndEnds
    BY <1>9 DEF GotFinalAndEnds, Return
<1>10. CASE GotFinalAndLingers
    BY <1>10 DEF GotFinalAndLingers, Return
<1>11. CASE Resend
    BY <1>11 DEF Resend, kind
<1>12. CASE TimeOut
    BY <1>12 DEF TimeOut, Return, Borrowed
<1>13. CASE Park
    BY <1>13 DEF Park, kind
<1>14. CASE Absorb
    BY <1>14 DEF Absorb, kind
<1>15. CASE LingerEnds
    BY <1>15 DEF LingerEnds, kind
<1>16. CASE \E response \in Response : Arrive(response)
    BY <1>16 DEF Arrive, kind
<1>17. CASE Tick
    BY <1>17 DEF Tick, kind
<1>18. CASE Gone
    BY <1>18 DEF Gone, kind, vars
<1> QED
    BY <1>1, <1>2, <1>3, <1>4, <1>5, <1>6, <1>7, <1>8, <1>9, <1>10,
       <1>11, <1>12, <1>13, <1>14, <1>15, <1>16, <1>17, <1>18
    DEF Next, UserCall, Poll, Linger

\* The clock and the retransmissions.
LEMMA LatenessStep ==
    ASSUME TypeOK, Ownership, Lateness, Next PROVE Lateness'
<1> USE DEF TypeOK, Lateness, Waiting, Deadline, sent, timers
<1>1. CASE ReceiveProvisional
    BY <1>1 DEF ReceiveProvisional, Await
<1>2. CASE ReceiveFinal
    BY <1>2 DEF ReceiveFinal, Await
<1>3. CASE ReceiveFinalTooLate
    BY <1>3 DEF ReceiveFinalTooLate, kind
<1>4. CASE Cancel
    BY <1>4 DEF Cancel, Return, Borrowed
<1>5. CASE DropTsx
    BY <1>5 DEF DropTsx, kind
<1>6. CASE GotProvisional
    BY <1>6 DEF GotProvisional, Return
<1>7. CASE FoundFinal
    BY <1>7 DEF FoundFinal, Return
<1>8. CASE FoundProvisional
    BY <1>8 DEF FoundProvisional, Return
<1>9. CASE GotFinalAndEnds
    BY <1>9 DEF GotFinalAndEnds, Return
<1>10. CASE GotFinalAndLingers
    BY <1>10 DEF GotFinalAndLingers, Return
<1>11. CASE Resend
    BY <1>11 DEF Resend, ResendDue
<1>12. CASE TimeOut
    BY <1>12 DEF TimeOut, Return, Borrowed
<1>13. CASE Park
    BY <1>13 DEF Park, ResendDue, TimeoutDue
<1>14. CASE Absorb
    BY <1>14 DEF Absorb, kind
<1>15. CASE LingerEnds
    BY <1>15 DEF LingerEnds, kind
<1>16. CASE \E response \in Response : Arrive(response)
    BY <1>16 DEF Arrive, kind
<1>17. CASE Tick
    BY <1>17 DEF Tick, kind
<1>18. CASE Gone
    BY <1>18 DEF Gone, kind, vars
<1> QED
    BY <1>1, <1>2, <1>3, <1>4, <1>5, <1>6, <1>7, <1>8, <1>9, <1>10,
       <1>11, <1>12, <1>13, <1>14, <1>15, <1>16, <1>17, <1>18
    DEF Next, UserCall, Poll, Linger

\* IInv is inductive.
LEMMA IInvStep ==
    ASSUME IInv, [Next]_vars PROVE IInv'
<1>1. CASE Next
    BY <1>1, TypeStep, OwnershipStep, UnansweredStep, UndecidedStep, LatenessStep
    DEF IInv
<1>2. CASE UNCHANGED vars
    BY <1>2 DEF vars, kind, queue, sent, timers, IInv, TypeOK, Ownership,
                Unanswered, Undecided, Lateness, Waiting, Deadline
<1> QED
    BY <1>1, <1>2

\* The inductive invariant holds in every reachable state.
THEOREM Invariance == Spec => []IInv
<1>1. Init => IInv
    BY InitIInv
<1>2. IInv /\ [Next]_vars => IInv'
    BY IInvStep
<1> QED
    BY <1>1, <1>2, PTL DEF Spec

\* Every variable keeps its type, and the channel its bound.
THEOREM TypeCorrect == Spec => []TypeOK
<1>1. IInv => TypeOK
    BY DEF IInv
<1> QED
    BY <1>1, Invariance, PTL

\* At most one retransmission goes out at or after the deadline, for every
\* deadline, every lateness of the runtime and every pattern of calls.
THEOREM LateResendBound == Spec => []OneLateResend
<1>1. IInv => OneLateResend
    BY DEF IInv, Lateness, OneLateResend
<1> QED
    BY <1>1, Invariance, PTL

-----------------------------------------------------------------------------
(* The request is silent once the peer has answered. *)

\* Only Resend sends the request, and Unanswered holds when it does.
THEOREM Quiet == Spec => QuietOnceAnswered
<1>1. ASSUME IInv, Next, requests' # requests
      PROVE  taken = <<>> /\ peeked = NoResponse
    <2>1. Resend
        BY <1>1 DEF Next, UserCall, Poll, Linger, ReceiveProvisional,
            ReceiveFinal, ReceiveFinalTooLate, Cancel, DropTsx, GotProvisional,
            FoundFinal, FoundProvisional, GotFinalAndEnds, GotFinalAndLingers,
            TimeOut, Park, Absorb, LingerEnds, Arrive, Tick, Gone, sent, vars
    <2>2. call # "idle" /\ Waiting
        BY <2>1 DEF Resend, ResendDue
    <2> QED
        BY <1>1, <2>2 DEF IInv, Ownership, Unanswered
<1>2. IInv /\ [Next]_vars =>
        [requests' # requests => taken = <<>> /\ peeked = NoResponse]_vars
    BY <1>1
<1> QED
    BY <1>2, Invariance, PTL DEF Spec, QuietOnceAnswered

\* The request goes out in time: Quiet and LateResendBound together.
THEOREM InTime == Spec => RequestsInTime
BY LateResendBound, Quiet, PTL DEF RequestsInTime

-----------------------------------------------------------------------------
(* Proceeding is earned. *)

\* An element that is appended is in the longer sequence, and what was there
\* still is.
LEMMA AppendKeeps ==
    ASSUME NEW s \in Seq(Response), NEW x \in Response
    PROVE  /\ \E i \in DOMAIN Append(s, x) : Append(s, x)[i] = x
           /\ \A i \in DOMAIN s :
                i \in DOMAIN Append(s, x) /\ Append(s, x)[i] = s[i]
<1>1. /\ Append(s, x) \in Seq(Response)
      /\ Len(Append(s, x)) = Len(s) + 1
      /\ \A i \in 1 .. Len(s) : Append(s, x)[i] = s[i]
      /\ Append(s, x)[Len(s) + 1] = x
    BY AppendProperties
<1>2. DOMAIN s = 1 .. Len(s) /\ Len(s) \in Nat
    BY LenProperties
<1>3. DOMAIN Append(s, x) = 1 .. Len(s) + 1
    BY <1>1, LenProperties
<1> QED
    BY <1>1, <1>2, <1>3

Earned == \E i \in DOMAIN taken : taken[i] = "provisional"

\* What the TU has received is not taken back.
LEMMA EarnedStays ==
    ASSUME TypeOK, Take, Earned PROVE Earned'
<1>1. taken \in Seq(Response) /\ Oldest \in Response
    BY TakeTypes DEF TypeOK
<1>2. taken' = Append(taken, Oldest)
    BY DEF Take
<1> QED
    BY <1>1, <1>2, AppendKeeps DEF Earned

\* A transaction in Proceeding has handed out a provisional response or holds
\* a final one, for every channel and every order of calls.
THEOREM ProceedingEarned == Spec => []ProceedingIsEarned
<1>1. Init => ProceedingIsEarned
    BY DEF Init, ProceedingIsEarned
<1>2. ASSUME IInv, ProceedingIsEarned, Next PROVE ProceedingIsEarned'
    <2> SUFFICES ASSUME state' = "Proceeding" PROVE Earned' \/ peeked' \in Final
        BY DEF ProceedingIsEarned, Earned
    <2>0. TypeOK
        BY <1>2 DEF IInv
    <2>1. CASE GotProvisional
        <3>1. Take /\ Oldest = "provisional"
            BY <2>1 DEF GotProvisional
        <3>2. taken' = Append(taken, Oldest)
            BY <3>1 DEF Take
        <3>3. taken \in Seq(Response) /\ Oldest \in Response
            BY <2>0, <3>1, TakeTypes DEF TypeOK
        <3> QED
            BY <3>1, <3>2, <3>3, AppendKeeps DEF Earned
    <2>2. CASE FoundFinal
        BY <2>2 DEF FoundFinal, Keep
    <2>3. CASE FoundProvisional
        <3>1. state = "Proceeding" /\ Keep /\ Oldest = "provisional"
            BY <2>3 DEF FoundProvisional
        <3>2. peeked \notin Final
            BY <3>1 DEF Oldest, Final, NoResponse, Response
        <3>3. Earned
            BY <1>2, <3>1, <3>2 DEF ProceedingIsEarned, Earned
        <3> QED
            BY <3>1, <3>3 DEF Keep, Earned
    <2>4. CASE Absorb
        <3>1. owner = "task" /\ state' = state
            BY <2>4 DEF Absorb
        <3> QED
            BY <1>2, <3>1 DEF IInv, Ownership
    <2>5. CASE \/ ReceiveProvisional \/ ReceiveFinal \/ ReceiveFinalTooLate
               \/ Cancel \/ DropTsx \/ Resend \/ Park \/ Tick \/ Gone
               \/ \E response \in Response : Arrive(response)
        <3>1. state = "Proceeding" /\ UNCHANGED <<peeked, taken>>
            BY <2>5 DEF ReceiveProvisional, ReceiveFinal, ReceiveFinalTooLate,
                Cancel, DropTsx, Resend, Park, Tick, Gone, Arrive, queue, vars
        <3> QED
            BY <1>2, <3>1 DEF ProceedingIsEarned, Earned
    <2>6. CASE GotFinalAndEnds \/ GotFinalAndLingers \/ TimeOut \/ LingerEnds
        BY <2>6 DEF GotFinalAndEnds, GotFinalAndLingers, TimeOut, LingerEnds
    <2> QED
        BY <1>2, <2>1, <2>2, <2>3, <2>4, <2>5, <2>6 DEF Next, UserCall, Poll, Linger
<1>3. ASSUME ProceedingIsEarned, UNCHANGED vars PROVE ProceedingIsEarned'
    BY <1>3 DEF ProceedingIsEarned, vars, queue
<1> QED
    BY <1>1, <1>2, <1>3, Invariance, PTL DEF Spec

-----------------------------------------------------------------------------
(* The responses stay in order. *)

\* The queue without its oldest response, put behind it, is the queue.
LEMMA QueueSplit ==
    ASSUME TypeOK, Ready
    PROVE  Peeked \o chan = <<Oldest>> \o Rest
<1>1. CASE peeked # NoResponse
    BY <1>1 DEF Peeked, Oldest, Rest
<1>2. CASE peeked = NoResponse
    <2>1. chan \in Seq(Response) /\ chan # <<>>
        BY <1>2 DEF TypeOK, Ready
    <2>2. <<>> \o chan = chan
        BY <2>1, ConcatEmptySeq
    <2>3. chan = <<Head(chan)>> \o Tail(chan)
        BY <2>1
    <2> QED
        BY <1>2, <2>2, <2>3 DEF Peeked, Oldest, Rest
<1> QED
    BY <1>1, <1>2

\* A response that is handed out moves from the front of the queue to the end
\* of what has been received: the order of arrival is kept.
LEMMA TakeInOrder ==
    ASSUME TypeOK, Take
    PROVE  taken' \o Peeked' \o chan' = taken \o Peeked \o chan
<1>1. /\ Oldest \in Response /\ Rest \in Seq(Response)
      /\ taken \in Seq(Response) /\ chan \in Seq(Response)
    BY QueueTypes DEF Take, TypeOK
<1>2. Peeked \in Seq(Response)
    BY DEF Peeked, TypeOK
<1>3. taken' = taken \o <<Oldest>> /\ chan' = Rest /\ Peeked' = <<>>
    BY <1>1 DEF Take, Peeked
<1>4. taken' \in Seq(Response)
    BY TakeTypes
<1>5. taken' \o Peeked' = taken'
    BY <1>3, <1>4, ConcatEmptySeq
<1>6. taken' \o Peeked' \o chan' = (taken \o <<Oldest>>) \o Rest
    BY <1>3, <1>5
<1>7. @ = taken \o (<<Oldest>> \o Rest)
    <2>1. <<Oldest>> \in Seq(Response)
        BY <1>1
    <2> QED
        BY <1>1, <2>1, ConcatAssociative
<1>8. @ = taken \o (Peeked \o chan)
    BY QueueSplit DEF Take
<1>9. @ = (taken \o Peeked) \o chan
    BY SMTT(40), <1>1, <1>2, ConcatAssociative
<1> QED
    BY <1>6, <1>7, <1>8, <1>9

\* A response that is kept stays at the front of the queue.
LEMMA KeepInOrder ==
    ASSUME TypeOK, Keep
    PROVE  taken' \o Peeked' \o chan' = taken \o Peeked \o chan
<1>1. /\ Oldest \in Response /\ Rest \in Seq(Response)
      /\ taken \in Seq(Response) /\ chan \in Seq(Response)
    BY QueueTypes DEF Keep, TypeOK
<1>2. Peeked \in Seq(Response) /\ <<Oldest>> \in Seq(Response)
    BY <1>1 DEF Peeked, TypeOK
<1>3. taken' = taken /\ chan' = Rest /\ Peeked' = <<Oldest>>
    BY <1>1 DEF Keep, Peeked, Response, NoResponse
<1>4. taken' \o Peeked' \o chan' = taken \o (<<Oldest>> \o Rest)
    BY <1>1, <1>2, <1>3, ConcatAssociative
<1>5. @ = taken \o (Peeked \o chan)
    BY QueueSplit DEF Keep
<1>6. @ = (taken \o Peeked) \o chan
    BY SMTT(40), <1>1, <1>2, ConcatAssociative
<1> QED
    BY <1>4, <1>5, <1>6

\* A response that arrives goes to the end of the queue.
LEMMA ArriveInOrder ==
    ASSUME TypeOK, ResponsesInOrder, NEW response \in Response, Arrive(response)
    PROVE  ResponsesInOrder'
<1>1. /\ taken \in Seq(Response) /\ chan \in Seq(Response)
      /\ arrived \in Seq(Response) /\ <<response>> \in Seq(Response)
    BY DEF TypeOK
<1>2. taken \o Peeked \in Seq(Response)
    <2>1. Peeked \in Seq(Response)
        BY DEF Peeked, TypeOK
    <2> QED
        BY <1>1, <2>1, ConcatProperties
<1>3. /\ taken' = taken /\ Peeked' = Peeked
      /\ chan' = chan \o <<response>> /\ arrived' = arrived \o <<response>>
    <2>1. /\ Append(chan, response) = chan \o <<response>>
          /\ Append(arrived, response) = arrived \o <<response>>
        BY <1>1, AppendIsConcat
    <2> QED
        BY <2>1 DEF Arrive, Peeked
<1>4. (taken \o Peeked) \o (chan \o <<response>>)
        = ((taken \o Peeked) \o chan) \o <<response>>
    BY <1>1, <1>2, ConcatAssociative
<1> QED
    BY <1>3, <1>4 DEF ResponsesInOrder

\* What has been handed out, the peeked response and the channel are at every
\* moment, in this order, what has arrived.
THEOREM InOrder == Spec => []ResponsesInOrder
<1>1. Init => ResponsesInOrder
    BY DEF Init, ResponsesInOrder, Peeked
<1>2. ASSUME IInv, ResponsesInOrder, Next PROVE ResponsesInOrder'
    <2>0. TypeOK
        BY <1>2 DEF IInv
    <2>1. CASE GotProvisional \/ GotFinalAndEnds \/ GotFinalAndLingers \/ Absorb
        <3>1. Take /\ arrived' = arrived
            BY <2>1 DEF GotProvisional, GotFinalAndEnds, GotFinalAndLingers, Absorb
        <3> QED
            BY <1>2, <2>0, <3>1, TakeInOrder DEF ResponsesInOrder
    <2>2. CASE FoundFinal \/ FoundProvisional
        <3>1. Keep /\ arrived' = arrived
            BY <2>2 DEF FoundFinal, FoundProvisional
        <3> QED
            BY <1>2, <2>0, <3>1, KeepInOrder DEF ResponsesInOrder
    <2>3. CASE \E response \in Response : Arrive(response)
        BY <1>2, <2>0, <2>3, ArriveInOrder
    <2>4. CASE \/ ReceiveProvisional \/ ReceiveFinal \/ ReceiveFinalTooLate
               \/ Cancel \/ DropTsx \/ Resend \/ TimeOut \/ Park
               \/ LingerEnds \/ Tick \/ Gone
        <3>1. UNCHANGED <<chan, peeked, taken, arrived>>
            BY <2>4 DEF ReceiveProvisional, ReceiveFinal, ReceiveFinalTooLate,
                Cancel, DropTsx, Resend, TimeOut, Park, LingerEnds, Tick, Gone,
                queue, vars
        <3> QED
            BY <1>2, <3>1 DEF ResponsesInOrder, Peeked
    <2> QED
        BY <1>2, <2>1, <2>2, <2>3, <2>4 DEF Next, UserCall, Poll, Linger
<1>3. ASSUME ResponsesInOrder, UNCHANGED vars PROVE ResponsesInOrder'
    BY <1>3 DEF ResponsesInOrder, Peeked, vars, queue
<1> QED
    BY <1>1, <1>2, <1>3, Invariance, PTL DEF Spec

-----------------------------------------------------------------------------
(* Failures are acknowledged. *)

Positions(s, class) == {i \in DOMAIN s : s[i] = class}

\* Appending a response adds one position to its own class and none to others.
LEMMA PositionsAppend ==
    ASSUME NEW s \in Seq(Response), NEW x \in Response, NEW class
    PROVE  /\ Cardinality(Positions(s, class)) \in Nat
           /\ Cardinality(Positions(Append(s, x), class)) =
                Cardinality(Positions(s, class)) + IF x = class THEN 1 ELSE 0
<1>1. /\ Append(s, x) \in Seq(Response)
      /\ Len(Append(s, x)) = Len(s) + 1
      /\ \A i \in 1 .. Len(s) : Append(s, x)[i] = s[i]
      /\ Append(s, x)[Len(s) + 1] = x
    BY AppendProperties
<1>2. DOMAIN s = 1 .. Len(s) /\ Len(s) \in Nat
    BY LenProperties
<1>3. DOMAIN Append(s, x) = 1 .. Len(s) + 1
    BY <1>1, LenProperties
<1>4. IsFiniteSet(Positions(s, class))
    <2>1. IsFiniteSet(1 .. Len(s))
        BY <1>2, FS_Interval
    <2>2. Positions(s, class) \subseteq 1 .. Len(s)
        BY <1>2 DEF Positions
    <2> QED
        BY <2>1, <2>2, FS_Subset
<1>5. Cardinality(Positions(s, class)) \in Nat
    BY <1>4, FS_CardinalityType
<1>6. CASE x = class
    <2>1. Positions(Append(s, x), class) = Positions(s, class) \cup {Len(s) + 1}
        BY <1>1, <1>2, <1>3, <1>6 DEF Positions
    <2>2. Len(s) + 1 \notin Positions(s, class)
        BY <1>2 DEF Positions
    <2> QED
        BY <1>4, <1>5, <1>6, <2>1, <2>2, FS_AddElement
<1>7. CASE x # class
    <2>1. Positions(Append(s, x), class) = Positions(s, class)
        BY <1>1, <1>2, <1>3, <1>7 DEF Positions
    <2> QED
        BY <1>5, <1>7, <2>1
<1> QED
    BY <1>5, <1>6, <1>7

\* Taking a response counts it once.
LEMMA TakeCounts ==
    ASSUME TypeOK, Take
    PROVE  /\ Copies("failure") \in Nat
           /\ Copies("failure")' =
                Copies("failure") + IF Oldest = "failure" THEN 1 ELSE 0
<1>1. taken \in Seq(Response) /\ Oldest \in Response
    BY TakeTypes DEF TypeOK
<1>2. taken' = Append(taken, Oldest)
    BY DEF Take
<1>3. /\ Copies("failure") = Cardinality(Positions(taken, "failure"))
      /\ Copies("failure")' = Cardinality(Positions(taken', "failure"))
    BY DEF Copies, Positions
<1> QED
    BY <1>1, <1>2, <1>3, PositionsAppend

\* EachFailureAcked, and why the linger task of an INVITE may send ACKs.
Acknowledged ==
    /\ EachFailureAcked
    /\ owner = "task" /\ invite => outcome = "failure"

\* Over an unreliable transport there are at least as many ACKs as failures
\* taken, however many copies of the failure arrive; no other transaction
\* sends an ACK.
THEOREM FailuresAcked == Spec => []EachFailureAcked
<1> USE DEF Acknowledged, EachFailureAcked
<1>1. Init => Acknowledged
    <2> SUFFICES ASSUME Init PROVE Acknowledged
        OBVIOUS
    <2>1. {i \in DOMAIN taken : taken[i] = "failure"} = {}
        BY DEF Init
    <2>2. Copies("failure") = 0
        BY <2>1, FS_EmptySet DEF Copies
    <2> QED
        BY <2>2 DEF Init
<1>2. ASSUME IInv, Acknowledged, Next PROVE Acknowledged'
    <2>0. TypeOK
        BY <1>2 DEF IInv
    <2>1. CASE GotProvisional
        <3>1. Take /\ Oldest = "provisional" /\ UNCHANGED <<acks, owner, kind, outcome>>
            BY <2>1 DEF GotProvisional
        <3> QED
            BY <1>2, <2>0, <3>1, TakeCounts DEF kind
    <2>2. CASE GotFinalAndEnds
        <3>1. /\ Take /\ UNCHANGED <<acks, kind>> /\ owner' = "nobody"
              /\ call = "final" /\ outcome' = Oldest /\ EndsAtOnce(Oldest)
            BY <2>2 DEF GotFinalAndEnds
        <3>2. invite /\ ~reliable => Oldest = "success"
            BY <3>1 DEF EndsAtOnce
        <3>3. outcome = NoOutcome
            BY <1>2, <3>1 DEF IInv, Ownership, Undecided
        <3>4. ~(acks > 0)
            BY <1>2, <3>3 DEF NoOutcome
        <3> QED
            BY <1>2, <2>0, <3>1, <3>2, <3>4, TakeCounts DEF kind
    <2>3. CASE GotFinalAndLingers
        <3>1. /\ Take /\ UNCHANGED kind /\ Oldest \in Final
              /\ outcome' = Oldest /\ ~EndsAtOnce(Oldest)
              /\ acks' = (IF invite THEN acks + 1 ELSE acks)
              /\ call = "final"
            BY <2>3 DEF GotFinalAndLingers
        <3>2. invite => Oldest = "failure"
            BY <1>2, <3>1
            DEF EndsAtOnce, IInv, Ownership, Final, Response
        <3>3. outcome = NoOutcome
            BY <1>2, <3>1 DEF IInv, Ownership, Undecided
        <3>4. ~(acks > 0)
            BY <1>2, <3>3 DEF NoOutcome
        <3> QED
            BY <1>2, <2>0, <3>1, <3>2, <3>4, TakeCounts DEF kind, TypeOK
    <2>4. CASE Absorb
        <3>1. /\ Take /\ UNCHANGED <<owner, kind, outcome>> /\ owner = "task"
              /\ acks' = (IF invite THEN acks + 1 ELSE acks)
            BY <2>4 DEF Absorb
        <3> QED
            BY <1>2, <2>0, <3>1, TakeCounts DEF kind, TypeOK
    <2>5. CASE \/ ReceiveProvisional \/ ReceiveFinal \/ ReceiveFinalTooLate
               \/ Cancel \/ DropTsx \/ FoundFinal \/ Resend \/ Park
               \/ LingerEnds \/ Tick \/ Gone
               \/ \E response \in Response : Arrive(response)
        <3>1. /\ UNCHANGED <<taken, acks, kind, outcome>>
              /\ owner' = "task" => owner = "task"
            BY <2>5 DEF ReceiveProvisional, ReceiveFinal, ReceiveFinalTooLate,
                Cancel, Borrowed, DropTsx, FoundFinal, Keep, Resend, Park,
                LingerEnds, Tick, Gone, Arrive, queue, vars
        <3> QED
            BY <1>2, <3>1 DEF Copies, kind
    <2>6. CASE FoundProvisional \/ TimeOut
        <3>1. /\ UNCHANGED <<taken, acks, kind>> /\ call # "idle"
              /\ owner' # "task"
            BY <2>6 DEF FoundProvisional, TimeOut, Borrowed, Keep, queue
        <3>2. outcome = NoOutcome
            <4>1. owner = "tu" /\ state # "Terminated"
                BY <1>2, <3>1 DEF IInv, Ownership
            <4> QED
                BY <1>2, <4>1 DEF IInv, Undecided
        <3>3. ~(acks > 0)
            BY <1>2, <3>2 DEF NoOutcome
        <3> QED
            BY <1>2, <3>1, <3>3 DEF Copies, kind
    <2> QED
        BY <1>2, <2>1, <2>2, <2>3, <2>4, <2>5, <2>6 DEF Next, UserCall, Poll, Linger
<1>3. ASSUME Acknowledged, UNCHANGED vars PROVE Acknowledged'
    BY <1>3 DEF Copies, vars, kind, queue
<1>4. Acknowledged => EachFailureAcked
    OBVIOUS
<1> QED
    BY <1>1, <1>2, <1>3, <1>4, Invariance, PTL DEF Spec

-----------------------------------------------------------------------------
(* ClientTsx implements Exchange. *)

\* The value of Phase in each situation.
LEMMA PhaseValue ==
    ASSUME TypeOK
    PROVE  /\ owner = "nobody" \/ state = "Terminated" => Phase = "over"
           /\ owner # "nobody" =>
                /\ state = "Completed" => Phase = "lingering"
                /\ state = "Proceeding" => Phase = "progressing"
                /\ Waiting => Phase = "waiting"
BY DEF Phase, Waiting, TypeOK, State

\* Every step of a client transaction is a step of Exchange, or changes
\* neither its phase nor its outcome.
LEMMA StepImplements ==
    ASSUME IInv, IInv', Next PROVE [Promise!Next]_Promise!vars
<1> USE DEF Promise!Next, Promise!vars, Promise!Progress, Promise!Conclude,
            Promise!Finish, Promise!Open
<1>0. TypeOK /\ TypeOK'
    BY DEF IInv
<1>1. CASE \/ ReceiveProvisional \/ ReceiveFinal \/ Resend \/ Park
           \/ Absorb \/ Tick \/ Gone
           \/ \E response \in Response : Arrive(response)
    <2>1. UNCHANGED <<owner, state, outcome>>
        BY <1>1 DEF ReceiveProvisional, ReceiveFinal, Resend, Park, Absorb,
            Tick, Gone, Arrive, vars
    <2> QED
        BY <2>1 DEF Phase, Waiting
<1>2. CASE ReceiveFinalTooLate
    <2>1. /\ owner = "tu" /\ owner' = "nobody" /\ UNCHANGED <<state, outcome>>
          /\ state = "Terminated"
        BY <1>2 DEF ReceiveFinalTooLate, IInv, TypeOK, State, Ownership
    <2> QED
        BY <1>0, <2>1, PhaseValue DEF Phase
<1>3. CASE Cancel \/ DropTsx
    <2>1. /\ owner = "tu" /\ owner' \in {"tu", "nobody"}
          /\ UNCHANGED <<state, outcome>>
        BY <1>3 DEF Cancel, DropTsx, Borrowed, IInv, Ownership
    <2>2. CASE owner' = "tu"
        BY <2>1, <2>2 DEF Phase, Waiting
    <2>3. CASE owner' = "nobody"
        <3>1. Phase' = "over"
            BY <2>3 DEF Phase
        <3> QED
            BY <2>1, <3>1
    <2> QED
        BY <2>1, <2>2, <2>3
<1>4. CASE GotProvisional \/ FoundFinal
    <2>1. /\ owner = "tu" /\ owner' = "tu" /\ UNCHANGED outcome
          /\ state \in {"Calling", "Trying", "Proceeding"}
          /\ state' = "Proceeding"
        BY <1>4 DEF GotProvisional, FoundFinal, IInv, Ownership
    <2>2. Phase' = "progressing" /\ Phase \in {"waiting", "progressing"}
        BY <2>1 DEF Phase, Waiting
    <2> QED
        BY <2>1, <2>2
<1>5. CASE FoundProvisional \/ GotFinalAndEnds \/ GotFinalAndLingers \/ TimeOut
    <2>1. /\ call # "idle"
          /\ outcome' \in Outcome
          /\ owner' = "nobody" \/ state' \in {"Completed", "Terminated"}
        BY <1>5 DEF FoundProvisional, GotFinalAndEnds, GotFinalAndLingers,
            TimeOut, Take, Outcome
    <2>2. owner = "tu" /\ state \in {"Calling", "Trying", "Proceeding"}
        BY <2>1 DEF IInv, Ownership
    <2>3. Phase \in {"waiting", "progressing"} /\ outcome = NoOutcome
        BY <2>2 DEF Phase, Waiting, IInv, Undecided
    <2>4. Phase' \in {"lingering", "over"}
        <3>1. CASE owner' = "nobody" \/ state' = "Terminated"
            BY <3>1 DEF Phase, Waiting
        <3>2. CASE owner' # "nobody" /\ state' = "Completed"
            BY <3>2 DEF Phase, Waiting
        <3> QED
            BY <2>1, <3>1, <3>2
    <2> QED
        BY <2>1, <2>3, <2>4
<1>6. CASE LingerEnds
    <2>1. /\ owner = "task" /\ owner' = "nobody" /\ UNCHANGED outcome
          /\ state = "Completed"
        BY <1>6 DEF LingerEnds, IInv, Ownership
    <2>2. Phase = "lingering" /\ Phase' = "over"
        BY <2>1 DEF Phase, Waiting
    <2> QED
        BY <2>1, <2>2
<1> QED
    BY <1>1, <1>2, <1>3, <1>4, <1>5, <1>6 DEF Next, UserCall, Poll, Linger

\* A client transaction moves forward only and is concluded at most once.
THEOREM Implements == Spec => KeepsPromise
<1>1. Init => Promise!Init
    BY DEF Init, Promise!Init, Promise!Open, Phase, Waiting
<1>2. ASSUME IInv, IInv', [Next]_vars PROVE [Promise!Next]_Promise!vars
    <2>1. CASE Next
        BY <1>2, <2>1, StepImplements
    <2>2. CASE UNCHANGED vars
        BY <2>2 DEF vars, Promise!vars, Phase, Waiting
    <2> QED
        BY <1>2, <2>1, <2>2
<1> QED
    BY <1>1, <1>2, Invariance, PTL DEF Spec, KeepsPromise, Promise!Spec
=============================================================================
