------------------------------ MODULE TsxTable ------------------------------
(***************************************************************************)
(* The transaction table of transaction/mod.rs, the client and server      *)
(* transactions that register in it, and the dispatch of incoming messages *)
(* through it.                                                             *)
(*                                                                         *)
(* Every incoming message is processed by a task of its own, and its way   *)
(* through the table takes several steps: get_entry clones the sender      *)
(* under the lock, the message is sent into the channel later, possibly    *)
(* after a wait; a request that nobody took reaches the transaction user,  *)
(* who may create a server transaction for it.  Between two of these steps *)
(* transactions come and go.                                               *)
(*                                                                         *)
(* A key stands for (role, branch, sent-by, method).  Client keys carry a  *)
(* branch drawn by generate_branch, which does not repeat; server keys are *)
(* chosen by the peer, and every copy of a request has the same one.       *)
(***************************************************************************)
EXTENDS Naturals, Sequences

CONSTANTS
    Tsx,            \* transactions that may be created
    Packet,         \* incoming messages
    ClientKey,      \* keys of role Uac
    ServerKey,      \* keys of role Uas
    NoTsx, NoKey,
    ChanCap         \* mpsc::channel(10)

Key == ClientKey \cup ServerKey

ASSUME ConstantsAssumption ==
    /\ ClientKey \cap ServerKey = {}
    /\ NoTsx \notin Tsx
    /\ NoKey \notin Key
    /\ ChanCap \in Nat \ {0}

VARIABLES
    table,          \* TsxPlugin.transactions
    status,         \* life of each transaction
    keyOf,          \* its key
    chan,           \* its channel, a sequence of packets
    step,           \* how far the task of each packet has come
    key,            \* key computed from the packet
    target          \* whose sender the task has cloned

vars == <<table, status, keyOf, chan, step, key, target>>

-----------------------------------------------------------------------------

\* A client request is on the wire before it is registered.  At the end of
\* its life a transaction is removed from the table by Drop, and its receiver
\* is dropped, in an order that depends on who owned the receiver.
Status == {"unused", "sent", "live", "removed", "closed", "dropped"}

Step == {"idle", "lookup", "sending", "untaken", "done", "panicked"}

TypeOK ==
    /\ table \in [Key -> Tsx \cup {NoTsx}]
    /\ status \in [Tsx -> Status]
    /\ keyOf \in [Tsx -> Key \cup {NoKey}]
    /\ chan \in [Tsx -> Seq(Packet)]
    /\ \A t \in Tsx : Len(chan[t]) <= ChanCap
    /\ step \in [Packet -> Step]
    /\ key \in [Packet -> Key \cup {NoKey}]
    /\ target \in [Packet -> Tsx \cup {NoTsx}]

Init ==
    /\ table = [k \in Key |-> NoTsx]
    /\ status = [t \in Tsx |-> "unused"]
    /\ keyOf = [t \in Tsx |-> NoKey]
    /\ chan = [t \in Tsx |-> <<>>]
    /\ step = [p \in Packet |-> "idle"]
    /\ key = [p \in Packet |-> NoKey]
    /\ target = [p \in Packet |-> NoTsx]

\* A receiver that still accepts messages.
IsOpen(t) == status[t] \in {"live", "removed"}

\* add_transaction: HashMap::insert, which replaces what was there.
Add(k, t) == table' = [table EXCEPT ![k] = t]

-----------------------------------------------------------------------------
(* Transactions. *)

\* ClientTransaction::send, the request has gone out.
SendRequest(t, k) ==
    /\ status[t] = "unused"
    /\ \A u \in Tsx : keyOf[u] # k
    /\ status' = [status EXCEPT ![t] = "sent"]
    /\ keyOf' = [keyOf EXCEPT ![t] = k]
    /\ UNCHANGED <<table, chan, step, key, target>>

\* ClientTransaction::send, the entry is added.
Register(t) ==
    /\ status[t] = "sent"
    /\ status' = [status EXCEPT ![t] = "live"]
    /\ Add(keyOf[t], t)
    /\ UNCHANGED <<keyOf, chan, step, key, target>>

\* Fault: the entry outlives the transaction.
RemoveForgets(t) ==
    /\ status[t] \in {"live", "closed"}
    /\ status' = [status EXCEPT ![t] = IF @ = "live" THEN "removed" ELSE "dropped"]
    /\ UNCHANGED <<table, keyOf, chan, step, key, target>>

\* Drop: remove_transaction removes whatever is registered under the key.
RemoveTransaction(t) ==
    /\ status[t] \in {"live", "closed"}
    /\ status' = [status EXCEPT ![t] = IF @ = "live" THEN "removed" ELSE "dropped"]
    /\ Add(keyOf[t], NoTsx)
    /\ UNCHANGED <<keyOf, chan, step, key, target>>

\* The receiver goes.  A client holds it in a field, which is dropped after
\* Drop has run; a task of a server transaction may hold it in a local.
Close(t) ==
    /\ \/ status[t] = "removed"
       \/ status[t] = "live" /\ keyOf[t] \in ServerKey
    /\ status' = [status EXCEPT ![t] = IF @ = "live" THEN "closed" ELSE "dropped"]
    /\ UNCHANGED <<table, keyOf, chan, step, key, target>>

\* The transaction, or one of its tasks, receives.
Receive(t) ==
    /\ status[t] = "live"
    /\ chan[t] # <<>>
    /\ chan' = [chan EXCEPT ![t] = Tail(@)]
    /\ UNCHANGED <<table, status, keyOf, step, key, target>>

-----------------------------------------------------------------------------
(* Packets. *)

\* A message arrives: a request, a copy of one, an ACK, or a response to a
\* request that has gone out.
Arrive(p, k) ==
    /\ step[p] = "idle"
    /\ k \in ClientKey => \E t \in Tsx : keyOf[t] = k
    /\ step' = [step EXCEPT ![p] = "lookup"]
    /\ key' = [key EXCEPT ![p] = k]
    /\ UNCHANGED <<table, status, keyOf, chan, target>>

\* Fault: the key does not tell the role.
FoundAnyRole(p) ==
    /\ step[p] = "lookup"
    /\ \E k \in Key :
        /\ table[k] # NoTsx
        /\ target' = [target EXCEPT ![p] = table[k]]
    /\ step' = [step EXCEPT ![p] = "sending"]
    /\ UNCHANGED <<table, status, keyOf, chan, key>>

\* get_entry: the sender is cloned and the message taken.
Found(p) ==
    /\ step[p] = "lookup"
    /\ table[key[p]] # NoTsx
    /\ target' = [target EXCEPT ![p] = table[key[p]]]
    /\ step' = [step EXCEPT ![p] = "sending"]
    /\ UNCHANGED <<table, status, keyOf, chan, key>>

\* No entry: the message is left to the next plugin.
NotFound(p) ==
    /\ step[p] = "lookup"
    /\ table[key[p]] = NoTsx
    /\ step' = [step EXCEPT ![p] = "untaken"]
    /\ UNCHANGED <<table, status, keyOf, chan, key, target>>

\* The transaction user creates a server transaction (from_request).
Create(p, t) ==
    /\ step[p] = "untaken" /\ key[p] \in ServerKey
    /\ status[t] = "unused"
    /\ status' = [status EXCEPT ![t] = "live"]
    /\ keyOf' = [keyOf EXCEPT ![t] = key[p]]
    /\ Add(key[p], t)
    /\ step' = [step EXCEPT ![p] = "done"]
    /\ UNCHANGED <<chan, key, target>>

\* Nobody takes the message: a response without a transaction, an ACK, a
\* request the application ignores.
Discard(p) ==
    /\ step[p] = "untaken"
    /\ step' = [step EXCEPT ![p] = "done"]
    /\ UNCHANGED <<table, status, keyOf, chan, key, target>>

\* channel.send: waits while the channel is full.
Deliver(p) ==
    /\ step[p] = "sending"
    /\ IsOpen(target[p])
    /\ Len(chan[target[p]]) < ChanCap
    /\ chan' = [chan EXCEPT ![target[p]] = Append(@, p)]
    /\ step' = [step EXCEPT ![p] = "done"]
    /\ UNCHANGED <<table, status, keyOf, key, target>>

\* Fault: the send is retried when it fails.
DeliverRetries(p) ==
    /\ step[p] = "sending"
    /\ ~IsOpen(target[p])
    /\ UNCHANGED vars

\* channel.send fails, the receiver is gone: a response is forgotten, a
\* request makes the unwrap panic.
DeliverFails(p) ==
    /\ step[p] = "sending"
    /\ ~IsOpen(target[p])
    /\ step' = [step EXCEPT ![p] =
                    IF key[p] \in ServerKey THEN "panicked" ELSE "done"]
    /\ UNCHANGED <<table, status, keyOf, chan, key, target>>

-----------------------------------------------------------------------------

Transaction(t) ==
    \/ \E k \in ClientKey : SendRequest(t, k)
    \/ Register(t) \/ RemoveTransaction(t) \/ Close(t) \/ Receive(t)

Dispatch(p) ==
    \/ Found(p) \/ NotFound(p)
    \/ (\E t \in Tsx : Create(p, t)) \/ Discard(p)
    \/ Deliver(p) \/ DeliverFails(p)

\* Every packet has been processed and every transaction is gone.
Quiet ==
    /\ \A p \in Packet : step[p] \in {"done", "panicked"}
    /\ \A t \in Tsx : status[t] \in {"unused", "dropped"}
    /\ UNCHANGED vars

Next ==
    \/ \E t \in Tsx : Transaction(t)
    \/ \E p \in Packet : Dispatch(p) \/ \E k \in Key : Arrive(p, k)
    \/ Quiet

Spec == Init /\ [][Next]_vars

\* The runtime polls the tasks that can run, and the transaction user ends
\* every transaction.
FairSpec ==
    /\ Spec
    /\ \A p \in Packet : WF_vars(Dispatch(p))
    /\ \A t \in Tsx : WF_vars(Register(t)) /\ WF_vars(RemoveTransaction(t) \/ Close(t))

-----------------------------------------------------------------------------
(* Properties. *)

\* What the table points to has been registered under that key and has not
\* been dropped yet, although insert replaces and remove does not look whose
\* entry it removes.
NoDanglingEntry ==
    \A k \in Key : table[k] # NoTsx =>
        /\ keyOf[table[k]] = k
        /\ status[table[k]] \in {"live", "closed"}

\* A transaction that has not been dropped has its entry, unless a second
\* transaction was created with its key.
EntryLostOnlyToTwin ==
    \A t \in Tsx :
        status[t] \in {"live", "closed"} /\ table[keyOf[t]] # t =>
            \E u \in Tsx \ {t} : keyOf[u] = keyOf[t]

\* The table and the transactions agree, up to twins.
TableSound == TypeOK /\ NoDanglingEntry /\ EntryLostOnlyToTwin

\* A message only ever reaches a transaction of its own key, even when the
\* entry was replaced or removed between the lookup and the send.
RightTransaction ==
    /\ \A t \in Tsx : \A i \in DOMAIN chan[t] : key[chan[t][i]] = keyOf[t]
    /\ \A p \in Packet : step[p] = "sending" => key[p] = keyOf[target[p]]

\* The task of every packet ends: a full channel does not block it for ever.
EveryPacketEnds ==
    \A p \in Packet : step[p] = "lookup" ~> step[p] \in {"done", "panicked"}

=============================================================================
