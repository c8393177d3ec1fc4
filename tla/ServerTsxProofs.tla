-------------------------- MODULE ServerTsxProofs --------------------------
(***************************************************************************)
(* What ServerTsx satisfies for every value of its constants.              *)
(***************************************************************************)
EXTENDS ServerTsx, SequenceTheorems, TLAPS

Open == {"Trying", "Proceeding"}

\* Who holds the value decides the state, and whether there is an answer.
Ownership ==
    /\ owner \in {"tu", "concluding"} => state \in Open
    /\ owner \in {"joining", "task"} => state = "Completed"
    /\ owner = "sleeping" => state = "Confirmed"
    /\ owner = "tu" => answer = NoFinal
    /\ owner \in {"concluding", "joining", "task", "sleeping"} => answer \in Final

\* The broadcast: it carries a change only when the state has moved on and
\* there is a task to hear it, and then it carries one.
Broadcast ==
    /\ notified => state \notin Open /\ ptask # "none"
    /\ owner # "nobody" /\ state \notin Open /\ ptask # "none" => notified
    /\ ptask = "left" => StateChanged

\* The channel has one reader.
OneReader == owner \in {"task", "sleeping"} => ptask \in {"none", "left"}

\* The task that is about to repeat an outdated response has not repeated one
\* since it is outdated.
Staleness ==
    /\ stale <= 1
    /\ ptask = "sending" /\ Outdated => stale = 0

IInv == /\ TypeOK /\ Ownership /\ Broadcast /\ OneReader /\ Staleness
        /\ IntervalCapped

USE ConstantsAssumption DEF ConstantsAssumption

-----------------------------------------------------------------------------
(* The inductive invariant. *)

\* It holds initially.
LEMMA InitIInv == Init => IInv
<1> SUFFICES ASSUME Init PROVE IInv
    OBVIOUS
<1>1. TypeOK
    <2>1. <<>> \in Seq(Request) /\ Len(<<>>) = 0
        BY EmptySeq
    <2>2. state \in State
        BY DEF Init, State
    <2>3. /\ invite \in BOOLEAN /\ reliable \in BOOLEAN
          /\ notified \in BOOLEAN /\ entry \in BOOLEAN
        BY DEF Init
    <2> QED
        BY <2>1, <2>2, <2>3 DEF Init, TypeOK, NoFinal, Owner
<1>2. Ownership /\ Broadcast /\ OneReader
    BY DEF Init, Ownership, Broadcast, OneReader, Open
<1>3. Staleness /\ IntervalCapped
    BY DEF Init, Staleness, Outdated, IntervalCapped
<1> QED
    BY <1>1, <1>2, <1>3 DEF IInv

\* What the tasks take from the channel leaves a channel.
LEMMA TailTypes ==
    ASSUME TypeOK, chan # <<>>
    PROVE  /\ Head(chan) \in Request
           /\ Tail(chan) \in Seq(Request)
           /\ Len(Tail(chan)) <= ChanCap
<1>1. chan \in Seq(Request) /\ Len(chan) <= ChanCap
    BY DEF TypeOK
<1>2. Len(chan) \in Nat
    BY <1>1, LenProperties
<1> QED
    BY <1>1, <1>2, HeadTailProperties

\* Types are preserved, action by action.
LEMMA TypeStep ==
    ASSUME TypeOK, Next PROVE TypeOK'
<1> USE DEF kind, timers, TypeOK, State, Owner, Final
<1>1. CASE FirstProvisional
    BY <1>1 DEF FirstProvisional
<1>2. CASE NextProvisional
    BY <1>2 DEF NextProvisional
<1>3. CASE \E final \in Final : SendFinal(final)
    BY <1>3 DEF SendFinal
<1>4. CASE DropTsx
    BY <1>4 DEF DropTsx
<1>5. CASE ConcludeAndEnd
    <2>1. notified' \in BOOLEAN
        BY <1>5 DEF ConcludeAndEnd
    <2> QED
        BY <1>5, <2>1 DEF ConcludeAndEnd
<1>6. CASE ConcludeAndLinger
    <2>1. notified' \in BOOLEAN
        BY <1>6 DEF ConcludeAndLinger
    <2>2. deadline' \in Nat
        <3>1. T1 * TimeoutFactor \in Nat /\ T4 \in Nat /\ now \in Nat
            OBVIOUS
        <3> QED
            BY <1>6, <3>1 DEF ConcludeAndLinger
    <2> QED
        BY <1>6, <2>1, <2>2 DEF ConcludeAndLinger
<1>7. CASE Join
    BY <1>7 DEF Join
<1>8. CASE TaskLeaves
    BY <1>8 DEF TaskLeaves
<1>9. CASE TaskRenews
    BY <1>9 DEF TaskRenews
<1>10. CASE TaskTakes
    BY <1>10, TailTypes DEF TaskTakes
<1>11. CASE TaskSends
    BY <1>11 DEF TaskSends
<1>12. CASE GotAck
    BY <1>12, TailTypes DEF GotAck
<1>13. CASE GotCopy
    BY <1>13, TailTypes DEF GotCopy
<1>14. CASE Resend
    BY <1>14 DEF Resend, Doubled
<1>15. CASE GiveUp
    BY <1>15 DEF GiveUp
<1>16. CASE ChannelClosed
    BY <1>16 DEF ChannelClosed
<1>17. CASE Wake
    BY <1>17 DEF Wake
<1>18. CASE \E request \in Request : Arrive(request)
    <2> SUFFICES ASSUME NEW request \in Request, Arrive(request) PROVE TypeOK'
        BY <1>18
    <2>1. /\ Append(chan, request) \in Seq(Request)
          /\ Len(Append(chan, request)) = Len(chan) + 1
          /\ Len(chan) \in Nat
        BY AppendProperties, LenProperties
    <2> QED
        BY <2>1 DEF Arrive
<1>19. CASE LoseEntry
    <2>1. entry' \in BOOLEAN
        BY <1>19 DEF LoseEntry
    <2> QED
        BY <1>19, <2>1 DEF LoseEntry
<1>20. CASE Tick
    BY <1>20 DEF Tick
<1>21. CASE Gone
    BY <1>21 DEF Gone, vars
<1> QED
    BY <1>1, <1>2, <1>3, <1>4, <1>5, <1>6, <1>7, <1>8, <1>9, <1>10, <1>11,
       <1>12, <1>13, <1>14, <1>15, <1>16, <1>17, <1>18, <1>19, <1>20, <1>21
    DEF Next, UserCall, Conclude, ProvisionalTask, FinalTask

\* The stations of the value.
LEMMA OwnershipStep ==
    ASSUME TypeOK, Ownership, Next PROVE Ownership'
<1> USE DEF kind, timers, Ownership, Open, Final, NoFinal, TypeOK, Owner
<1>1. CASE FirstProvisional
    BY <1>1 DEF FirstProvisional
<1>2. CASE NextProvisional
    BY <1>2 DEF NextProvisional
<1>3. CASE \E final \in Final : SendFinal(final)
    BY <1>3 DEF SendFinal
<1>4. CASE DropTsx
    BY <1>4 DEF DropTsx
<1>5. CASE ConcludeAndEnd
    BY <1>5 DEF ConcludeAndEnd
<1>6. CASE ConcludeAndLinger
    BY <1>6 DEF ConcludeAndLinger
<1>7. CASE Join
    BY <1>7 DEF Join
<1>8. CASE TaskLeaves
    BY <1>8 DEF TaskLeaves
<1>9. CASE TaskRenews
    BY <1>9 DEF TaskRenews
<1>10. CASE TaskTakes
    BY <1>10 DEF TaskTakes
<1>11. CASE TaskSends
    BY <1>11 DEF TaskSends
<1>12. CASE GotAck
    BY <1>12 DEF GotAck
<1>13. CASE GotCopy
    BY <1>13 DEF GotCopy
<1>14. CASE Resend
    BY <1>14 DEF Resend
<1>15. CASE GiveUp
    BY <1>15 DEF GiveUp
<1>16. CASE ChannelClosed
    BY <1>16 DEF ChannelClosed
<1>17. CASE Wake
    BY <1>17 DEF Wake
<1>18. CASE \E request \in Request : Arrive(request)
    BY <1>18 DEF Arrive
<1>19. CASE LoseEntry
    BY <1>19 DEF LoseEntry
<1>20. CASE Tick
    BY <1>20 DEF Tick
<1>21. CASE Gone
    BY <1>21 DEF Gone, vars
<1> QED
    BY <1>1, <1>2, <1>3, <1>4, <1>5, <1>6, <1>7, <1>8, <1>9, <1>10, <1>11,
       <1>12, <1>13, <1>14, <1>15, <1>16, <1>17, <1>18, <1>19, <1>20, <1>21
    DEF Next, UserCall, Conclude, ProvisionalTask, FinalTask

\* The broadcast.
LEMMA BroadcastStep ==
    ASSUME TypeOK, Ownership, Broadcast, Next PROVE Broadcast'
<1> USE DEF kind, timers, Ownership, Broadcast, Open, StateChanged, TypeOK, Owner
<1>1. CASE FirstProvisional
    BY <1>1 DEF FirstProvisional
<1>2. CASE NextProvisional
    BY <1>2 DEF NextProvisional
<1>3. CASE \E final \in Final : SendFinal(final)
    BY <1>3 DEF SendFinal
<1>4. CASE DropTsx
    BY <1>4 DEF DropTsx
<1>5. CASE ConcludeAndEnd
    BY <1>5 DEF ConcludeAndEnd
<1>6. CASE ConcludeAndLinger
    BY <1>6 DEF ConcludeAndLinger
<1>7. CASE Join
    BY <1>7 DEF Join
<1>8. CASE TaskLeaves
    BY <1>8 DEF TaskLeaves
<1>9. CASE TaskRenews
    BY <1>9 DEF TaskRenews
<1>10. CASE TaskTakes
    BY <1>10 DEF TaskTakes
<1>11. CASE TaskSends
    BY <1>11 DEF TaskSends
<1>12. CASE GotAck
    BY <1>12 DEF GotAck
<1>13. CASE GotCopy
    BY <1>13 DEF GotCopy
<1>14. CASE Resend
    BY <1>14 DEF Resend
<1>15. CASE GiveUp
    BY <1>15 DEF GiveUp
<1>16. CASE ChannelClosed
    BY <1>16 DEF ChannelClosed
<1>17. CASE Wake
    BY <1>17 DEF Wake
<1>18. CASE \E request \in Request : Arrive(request)
    BY <1>18 DEF Arrive
<1>19. CASE LoseEntry
    BY <1>19 DEF LoseEntry
<1>20. CASE Tick
    BY <1>20 DEF Tick
<1>21. CASE Gone
    BY <1>21 DEF Gone, vars
<1> QED
    BY <1>1, <1>2, <1>3, <1>4, <1>5, <1>6, <1>7, <1>8, <1>9, <1>10, <1>11,
       <1>12, <1>13, <1>14, <1>15, <1>16, <1>17, <1>18, <1>19, <1>20, <1>21
    DEF Next, UserCall, Conclude, ProvisionalTask, FinalTask

\* The hand-over of the channel.
LEMMA OneReaderStep ==
    ASSUME TypeOK, OneReader, Next PROVE OneReader'
<1> USE DEF kind, timers, OneReader
<1>1. CASE FirstProvisional
    BY <1>1 DEF FirstProvisional
<1>2. CASE NextProvisional
    BY <1>2 DEF NextProvisional
<1>3. CASE \E final \in Final : SendFinal(final)
    BY <1>3 DEF SendFinal
<1>4. CASE DropTsx
    BY <1>4 DEF DropTsx
<1>5. CASE ConcludeAndEnd
    BY <1>5 DEF ConcludeAndEnd
<1>6. CASE ConcludeAndLinger
    BY <1>6 DEF ConcludeAndLinger
<1>7. CASE Join
    BY <1>7 DEF Join
<1>8. CASE TaskLeaves
    BY <1>8 DEF TaskLeaves
<1>9. CASE TaskRenews
    BY <1>9 DEF TaskRenews
<1>10. CASE TaskTakes
    BY <1>10 DEF TaskTakes
<1>11. CASE TaskSends
    BY <1>11 DEF TaskSends
<1>12. CASE GotAck
    BY <1>12 DEF GotAck
<1>13. CASE GotCopy
    BY <1>13 DEF GotCopy
<1>14. CASE Resend
    BY <1>14 DEF Resend
<1>15. CASE GiveUp
    BY <1>15 DEF GiveUp
<1>16. CASE ChannelClosed
    BY <1>16 DEF ChannelClosed
<1>17. CASE Wake
    BY <1>17 DEF Wake
<1>18. CASE \E request \in Request : Arrive(request)
    BY <1>18 DEF Arrive
<1>19. CASE LoseEntry
    BY <1>19 DEF LoseEntry
<1>20. CASE Tick
    BY <1>20 DEF Tick
<1>21. CASE Gone
    BY <1>21 DEF Gone, vars
<1> QED
    BY <1>1, <1>2, <1>3, <1>4, <1>5, <1>6, <1>7, <1>8, <1>9, <1>10, <1>11,
       <1>12, <1>13, <1>14, <1>15, <1>16, <1>17, <1>18, <1>19, <1>20, <1>21
    DEF Next, UserCall, Conclude, ProvisionalTask, FinalTask

\* Stale responses.
LEMMA StalenessStep ==
    ASSUME TypeOK, Ownership, Broadcast, Staleness, Next PROVE Staleness'
<1> USE DEF kind, timers, Ownership, Broadcast, Staleness, Outdated, Open, State,
           StateChanged, TypeOK, Owner
<1>1. CASE FirstProvisional
    BY <1>1 DEF FirstProvisional
<1>2. CASE NextProvisional
    BY <1>2 DEF NextProvisional
<1>3. CASE \E final \in Final : SendFinal(final)
    BY <1>3 DEF SendFinal
<1>4. CASE DropTsx
    BY <1>4 DEF DropTsx
<1>5. CASE ConcludeAndEnd
    BY <1>5 DEF ConcludeAndEnd
<1>6. CASE ConcludeAndLinger
    BY <1>6 DEF ConcludeAndLinger
<1>7. CASE Join
    BY <1>7 DEF Join
<1>8. CASE TaskLeaves
    BY <1>8 DEF TaskLeaves
<1>9. CASE TaskRenews
    BY <1>9 DEF TaskRenews
<1>10. CASE TaskTakes
    BY <1>10 DEF TaskTakes
<1>11. CASE TaskSends
    BY <1>11 DEF TaskSends
<1>12. CASE GotAck
    BY <1>12 DEF GotAck
<1>13. CASE GotCopy
    BY <1>13 DEF GotCopy
<1>14. CASE Resend
    BY <1>14 DEF Resend
<1>15. CASE GiveUp
    BY <1>15 DEF GiveUp
<1>16. CASE ChannelClosed
    BY <1>16 DEF ChannelClosed
<1>17. CASE Wake
    BY <1>17 DEF Wake
<1>18. CASE \E request \in Request : Arrive(request)
    BY <1>18 DEF Arrive
<1>19. CASE LoseEntry
    BY <1>19 DEF LoseEntry
<1>20. CASE Tick
    BY <1>20 DEF Tick
<1>21. CASE Gone
    BY <1>21 DEF Gone, vars
<1> QED
    BY <1>1, <1>2, <1>3, <1>4, <1>5, <1>6, <1>7, <1>8, <1>9, <1>10, <1>11,
       <1>12, <1>13, <1>14, <1>15, <1>16, <1>17, <1>18, <1>19, <1>20, <1>21
    DEF Next, UserCall, Conclude, ProvisionalTask, FinalTask

\* The interval of the final task.
LEMMA IntervalStep ==
    ASSUME TypeOK, IntervalCapped, Next PROVE IntervalCapped'
<1> USE DEF kind, timers, IntervalCapped, TypeOK
<1>1. CASE FirstProvisional
    BY <1>1 DEF FirstProvisional
<1>2. CASE NextProvisional
    BY <1>2 DEF NextProvisional
<1>3. CASE \E final \in Final : SendFinal(final)
    BY <1>3 DEF SendFinal
<1>4. CASE DropTsx
    BY <1>4 DEF DropTsx
<1>5. CASE ConcludeAndEnd
    BY <1>5 DEF ConcludeAndEnd
<1>6. CASE ConcludeAndLinger
    BY <1>6 DEF ConcludeAndLinger
<1>7. CASE Join
    BY <1>7 DEF Join
<1>8. CASE TaskLeaves
    BY <1>8 DEF TaskLeaves
<1>9. CASE TaskRenews
    BY <1>9 DEF TaskRenews
<1>10. CASE TaskTakes
    BY <1>10 DEF TaskTakes
<1>11. CASE TaskSends
    BY <1>11 DEF TaskSends
<1>12. CASE GotAck
    BY <1>12 DEF GotAck
<1>13. CASE GotCopy
    BY <1>13 DEF GotCopy
<1>14. CASE Resend
    BY <1>14 DEF Resend, Doubled
<1>15. CASE GiveUp
    BY <1>15 DEF GiveUp
<1>16. CASE ChannelClosed
    BY <1>16 DEF ChannelClosed
<1>17. CASE Wake
    BY <1>17 DEF Wake
<1>18. CASE \E request \in Request : Arrive(request)
    BY <1>18 DEF Arrive
<1>19. CASE LoseEntry
    BY <1>19 DEF LoseEntry
<1>20. CASE Tick
    BY <1>20 DEF Tick
<1>21. CASE Gone
    BY <1>21 DEF Gone, vars
<1> QED
    BY <1>1, <1>2, <1>3, <1>4, <1>5, <1>6, <1>7, <1>8, <1>9, <1>10, <1>11,
       <1>12, <1>13, <1>14, <1>15, <1>16, <1>17, <1>18, <1>19, <1>20, <1>21
    DEF Next, UserCall, Conclude, ProvisionalTask, FinalTask

\* IInv is inductive.
LEMMA IInvStep ==
    ASSUME IInv, [Next]_vars PROVE IInv'
<1>1. CASE Next
    BY <1>1, TypeStep, OwnershipStep, BroadcastStep, OneReaderStep,
       StalenessStep, IntervalStep
    DEF IInv
<1>2. CASE UNCHANGED vars
    BY <1>2 DEF vars, kind, timers, IInv, TypeOK, Ownership, Broadcast,
                StateChanged, OneReader, Staleness, Outdated, IntervalCapped
<1> QED
    BY <1>1, <1>2

\* The inductive invariant holds in every reachable state.
THEOREM Invariance == Spec => []IInv
<1>1. Init => IInv
    BY InitIInv
<1>2. IInv /\ [Next]_vars => IInv'
    BY IInvStep
<1> QED
    BY <1>1, <1>2, PTL DEF Spec

\* Every variable keeps its type, and the channel its bound.
THEOREM TypeCorrect == Spec => []TypeOK
<1>1. IInv => TypeOK
    BY DEF IInv
<1> QED
    BY <1>1, Invariance, PTL

\* The provisional task does not leave while the TU may still send to it.
THEOREM MailboxStaysOpen == Spec => []MailboxOpen
<1>1. IInv => MailboxOpen
    BY DEF IInv, Ownership, Broadcast, StateChanged, MailboxOpen
<1> QED
    BY <1>1, Invariance, PTL

\* However the TU, the task and the peer interleave, at most one outdated
\* provisional response is repeated after a newer response.
THEOREM StaleBound == Spec => []AtMostOneStale
<1>1. IInv => AtMostOneStale
    BY DEF IInv, Staleness, OneReader, AtMostOneStale
<1> QED
    BY <1>1, Invariance, PTL

\* The interval of final retransmissions never exceeds T2.
THEOREM IntervalBound == Spec => []IntervalCapped
<1>1. IInv => IntervalCapped
    BY DEF IInv
<1> QED
    BY <1>1, Invariance, PTL

\* The final response is not sent in Confirmed or Terminated.
THEOREM Silent == Spec => SilentOnceConfirmed
<1>1. ASSUME IInv, Next, finals' # finals
      PROVE  state \in {"Trying", "Proceeding", "Completed"}
    <2>1. (\E final \in Final : SendFinal(final)) \/ GotCopy \/ Resend
        BY <1>1 DEF Next, UserCall, Conclude, ProvisionalTask, FinalTask,
            FirstProvisional, NextProvisional, DropTsx, ConcludeAndEnd,
            ConcludeAndLinger, Join, TaskLeaves, TaskRenews, TaskTakes,
            TaskSends, GotAck, GiveUp, ChannelClosed, Wake, Arrive, LoseEntry,
            Tick, Gone, vars
    <2>2. owner \in {"tu", "task"}
        BY <2>1 DEF SendFinal, GotCopy, Resend
    <2> QED
        BY <1>1, <2>2 DEF IInv, Ownership, Open
<1>2. IInv /\ [Next]_vars =>
        [finals' # finals => state \in {"Trying", "Proceeding", "Completed"}]_vars
    BY <1>1
<1> QED
    BY <1>2, Invariance, PTL DEF Spec, SilentOnceConfirmed

\* What goes out, and when: the three theorems above together.
THEOREM InPlace == Spec => SentInPlace
BY StaleBound, IntervalBound, Silent, PTL DEF SentInPlace

-----------------------------------------------------------------------------
(* ServerTsx implements Exchange. *)

\* The phase of a transaction somebody holds follows its state.
LEMMA PhaseValue ==
    /\ owner = "nobody" \/ state = "Terminated" => Phase = "over"
    /\ owner # "nobody" =>
        /\ state \in {"Completed", "Confirmed"} => Phase = "lingering"
        /\ state = "Proceeding" => Phase = "progressing"
        /\ state = "Trying" => Phase = "waiting"
BY DEF Phase

\* Every step of a server transaction is a step of Exchange, or changes
\* neither its phase nor its outcome.
LEMMA StepImplements ==
    ASSUME IInv, IInv', Next PROVE [Promise!Next]_Promise!vars
<1> USE DEF Promise!Next, Promise!vars, Promise!Progress, Promise!Conclude,
            Promise!Finish, Promise!Open, Open
<1>1. CASE \/ NextProvisional \/ TaskLeaves \/ TaskRenews \/ TaskTakes
           \/ TaskSends \/ GotCopy \/ Resend \/ LoseEntry \/ Tick \/ Gone
           \/ \E request \in Request : Arrive(request)
    <2>1. UNCHANGED <<owner, state, answer>>
        BY <1>1 DEF NextProvisional, TaskLeaves, TaskRenews, TaskTakes,
            TaskSends, GotCopy, Resend, LoseEntry, Tick, Gone, Arrive, vars
    <2> QED
        BY <2>1 DEF Phase, Concluded
<1>2. CASE FirstProvisional
    <2>1. /\ owner = "tu" /\ owner' = "tu" /\ state' = "Proceeding"
          /\ state \in Open
        BY <1>2 DEF FirstProvisional, IInv, Ownership
    <2>2. Phase \in {"waiting", "progressing"} /\ Phase' = "progressing"
        BY <2>1, PhaseValue DEF Phase
    <2>3. Concluded' = Concluded
        BY <2>1 DEF Concluded
    <2> QED
        BY <2>2, <2>3
<1>3. CASE \E final \in Final : SendFinal(final)
    <2>1. /\ owner = "tu" /\ owner' = "concluding" /\ state' = state
          /\ state \in Open
        BY <1>3 DEF SendFinal, IInv, Ownership
    <2>2. Phase' = Phase /\ Concluded' = Concluded
        BY <2>1 DEF Phase, Concluded
    <2> QED
        BY <2>2
<1>4. CASE DropTsx
    <2>1. /\ owner \in {"tu", "joining"} /\ owner' = "nobody"
          /\ UNCHANGED <<state, answer>>
          /\ state \in Open \cup {"Completed"}
        BY <1>4 DEF DropTsx, IInv, Ownership
    <2>2. Phase # "over" /\ Phase' = "over" /\ Concluded' = Concluded
        BY <2>1 DEF Phase, Concluded
    <2> QED
        BY <2>2
<1>5. CASE ConcludeAndEnd \/ ConcludeAndLinger
    <2>1. /\ owner = "concluding" /\ state \in Open /\ answer \in Final
          /\ answer' = answer /\ state' \in {"Completed", "Terminated"}
          /\ owner' \in {"nobody", "joining"}
        BY <1>5 DEF ConcludeAndEnd, ConcludeAndLinger, IInv, Ownership
    <2>2. Phase \in {"waiting", "progressing"} /\ Concluded = NoFinal
        BY <2>1 DEF Phase, Concluded
    <2>3. Phase' \in {"lingering", "over"} /\ Concluded' \in Final
        BY <2>1 DEF Phase, Concluded
    <2> QED
        BY <2>2, <2>3
<1>6. CASE Join \/ GotAck
    <2>1. /\ owner \in {"joining", "task"} /\ owner' \in {"task", "sleeping"}
          /\ answer' = answer /\ state = "Completed"
          /\ state' \in {"Completed", "Confirmed"}
        BY <1>6 DEF Join, GotAck, IInv, Ownership
    <2>2. Phase' = Phase /\ Concluded' = Concluded
        BY <2>1 DEF Phase, Concluded
    <2> QED
        BY <2>2
<1>7. CASE GiveUp \/ ChannelClosed \/ Wake
    <2>1. /\ owner \in {"task", "sleeping"} /\ owner' = "nobody"
          /\ answer' = answer /\ state \in {"Completed", "Confirmed"}
          /\ state' \in {state, "Terminated"}
        BY <1>7 DEF GiveUp, ChannelClosed, Wake, IInv, Ownership
    <2>2. Phase = "lingering" /\ Phase' = "over" /\ Concluded' = Concluded
        BY <2>1 DEF Phase, Concluded
    <2> QED
        BY <2>2
<1> QED
    BY <1>1, <1>2, <1>3, <1>4, <1>5, <1>6, <1>7
    DEF Next, UserCall, Conclude, ProvisionalTask, FinalTask

\* A server transaction moves forward only and has one final response.
THEOREM Implements == Spec => KeepsPromise
<1>1. Init => Promise!Init
    BY DEF Init, Promise!Init, Promise!Open, Phase, Concluded
<1>2. ASSUME IInv, IInv', [Next]_vars PROVE [Promise!Next]_Promise!vars
    <2>1. CASE Next
        BY <1>2, <2>1, StepImplements
    <2>2. CASE UNCHANGED vars
        BY <2>2 DEF vars, Promise!vars, Phase, Concluded
    <2> QED
        BY <1>2, <2>1, <2>2
<1> QED
    BY <1>1, <1>2, Invariance, PTL DEF Spec, KeepsPromise, Promise!Spec
=============================================================================
