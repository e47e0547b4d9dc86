---------------------------- MODULE ReloadEvents ----------------------------
(***************************************************************************)
(* The fan-out of reload events (crates/tier/src/reload.rs): subscribers   *)
(* is a mutex around a vector of senders, each the sending half of an      *)
(* unbounded mpsc channel.  emit_event holds the mutex while `retain`      *)
(* visits the senders one by one; receivers take from their channel or     *)
(* drop it at any moment, also between two visits of the same emit.        *)
(*                                                                         *)
(* The vector is modelled as the set of its senders: each subscribe makes  *)
(* a new sender, and the order in which one event reaches the channels is  *)
(* left open.  stream, start and received are history variables: no action *)
(* reads them, except for the bound MaxEmits on the length of stream.      *)
(***************************************************************************)
EXTENDS Naturals, Sequences

CONSTANTS
    Emitters,     \* the threads that run reloads
    Receivers,    \* the receivers that subscribe() ever hands out
    Events,       \* the reload events
    MaxEmits,     \* bound: emits in a behaviour
    Free          \* nobody holds the subscribers mutex

ASSUME FreeAssumption == Free \notin Emitters

VARIABLES
    subscribers,  \* senders in the vector, named by their receivers
    holder,       \* the thread inside emit_event, or Free
    sending,      \* the event the holder is sending
    pending,      \* the senders retain has not visited yet
    rx,           \* rx[r]: "unused", "open" or "dropped"
    inbox,        \* inbox[r]: the events in the channel of r
    stream, start, received

hvars == <<subscribers, holder, sending, pending, rx, inbox>>
ghosts == <<stream, start, received>>
vars == <<hvars, ghosts>>

TypeOK ==
    /\ subscribers \subseteq Receivers
    /\ holder \in Emitters \cup {Free}
    /\ holder # Free => sending \in Events
    /\ pending \subseteq subscribers
    /\ holder = Free => pending = {}
    /\ rx \in [Receivers -> {"unused", "open", "dropped"}]
    /\ inbox \in [Receivers -> Seq(Events)]
    /\ stream \in Seq(Events)
    /\ start \in [Receivers -> Nat]
    /\ received \in [Receivers -> Seq(Events)]

\* ReloadHandle::new starts with an empty vector.
Init ==
    /\ subscribers = {}
    /\ holder = Free
    /\ sending \in Events
    /\ pending = {}
    /\ rx = [r \in Receivers |-> "unused"]
    /\ inbox = [r \in Receivers |-> <<>>]
    /\ stream = <<>>
    /\ start = [r \in Receivers |-> 0]
    /\ received = [r \in Receivers |-> <<>>]

\* subscribe: a new channel whose sender goes into the vector.
Subscribe(r) ==
    /\ holder = Free
    /\ rx[r] = "unused"
    /\ rx' = [rx EXCEPT ![r] = "open"]
    /\ subscribers' = subscribers \cup {r}
    /\ start' = [start EXCEPT ![r] = Len(stream)]
    /\ UNCHANGED <<holder, sending, pending, inbox, stream, received>>

\* Seeded fault: emit_event copies the vector and sends without holding the mutex, so that
\* a second emit may begin before the first one has reached every channel.
EmitUnlocked(t, e) ==
    /\ Len(stream) < MaxEmits
    /\ holder' = t
    /\ sending' = e
    /\ pending' = subscribers
    /\ stream' = Append(stream, e)
    /\ UNCHANGED <<subscribers, rx, inbox, start, received>>

\* emit_event acquires the mutex; from here the event's place in the stream
\* is fixed.
EmitEvent(t, e) ==
    /\ holder = Free
    /\ Len(stream) < MaxEmits
    /\ holder' = t
    /\ sending' = e
    /\ pending' = subscribers
    /\ stream' = Append(stream, e)
    /\ UNCHANGED <<subscribers, rx, inbox, start, received>>

\* Seeded fault: a channel with room for one event, whose send waits for the receiver.
SendToBounded(t, r) ==
    /\ holder = t
    /\ r \in pending
    /\ rx[r] = "open"
    /\ inbox[r] = <<>>
    /\ inbox' = [inbox EXCEPT ![r] = Append(@, sending)]
    /\ pending' = pending \ {r}
    /\ UNCHANGED <<subscribers, holder, sending, rx, ghosts>>

\* retain visits a sender whose receiver is alive: the send succeeds at once.
SendTo(t, r) ==
    /\ holder = t
    /\ r \in pending
    /\ rx[r] = "open"
    /\ inbox' = [inbox EXCEPT ![r] = Append(@, sending)]
    /\ pending' = pending \ {r}
    /\ UNCHANGED <<subscribers, holder, sending, rx, ghosts>>

\* Seeded fault: a failed send leaves its sender in the vector.
PruneNothing(t, r) ==
    /\ holder = t
    /\ r \in pending
    /\ rx[r] = "dropped"
    /\ pending' = pending \ {r}
    /\ UNCHANGED <<subscribers, holder, sending, rx, inbox, ghosts>>

\* retain visits a sender whose receiver is gone: send fails, the sender goes.
Prune(t, r) ==
    /\ holder = t
    /\ r \in pending
    /\ rx[r] = "dropped"
    /\ pending' = pending \ {r}
    /\ subscribers' = subscribers \ {r}
    /\ UNCHANGED <<holder, sending, rx, inbox, ghosts>>

\* The guard goes out of scope.
FinishEmit(t) ==
    /\ holder = t
    /\ pending = {}
    /\ holder' = Free
    /\ UNCHANGED <<subscribers, sending, pending, rx, inbox, ghosts>>

\* Receiver::recv, in the thread that owns the receiver.
Receive(r) ==
    /\ rx[r] = "open"
    /\ inbox[r] # <<>>
    /\ inbox' = [inbox EXCEPT ![r] = Tail(@)]
    /\ received' = [received EXCEPT ![r] = Append(@, Head(inbox[r]))]
    /\ UNCHANGED <<subscribers, holder, sending, pending, rx, stream, start>>

\* Dropping the receiver; its sender stays in the vector until an emit meets
\* it.  What is left in the channel is lost: nobody can take it any more.
DropReceiver(r) ==
    /\ rx[r] = "open"
    /\ rx' = [rx EXCEPT ![r] = "dropped"]
    /\ UNCHANGED <<subscribers, holder, sending, pending, inbox, ghosts>>

EmitterStep(t) ==
    \/ \E r \in Receivers : SendTo(t, r) \/ Prune(t, r)
    \/ FinishEmit(t)

ReceiverStep(r) == Subscribe(r) \/ Receive(r) \/ DropReceiver(r)

Next ==
    \/ \E t \in Emitters : EmitterStep(t) \/ \E e \in Events : EmitEvent(t, e)
    \/ \E r \in Receivers : ReceiverStep(r)

Spec == Init /\ [][Next]_vars

\* A thread inside emit_event keeps running; nothing is assumed of receivers.
FairSpec == Spec /\ \A t \in Emitters : WF_vars(EmitterStep(t))

-----------------------------------------------------------------------------
(***************************************************************************)
(* Properties.                                                             *)
(***************************************************************************)
\* How many events of the stream have been put into the channel of r.
Delivered(r) == Len(stream) - (IF r \in pending THEN 1 ELSE 0)

\* Every sender in the vector has been sent exactly the events emitted since
\* it subscribed, in the order of the stream, the one being emitted excepted
\* while retain has not come to it (emit_event's lock and retain loop).  The
\* sender of a dropped receiver survives only if it could still be sent the
\* last event, so at most until the next emit.
ExactlyOnceInOrder ==
    \A r \in subscribers :
        received[r] \o inbox[r] = SubSeq(stream, start[r] + 1, Delivered(r))

\* retain never removes the sender of a receiver that is alive.
LiveReceiversStaySubscribed ==
    \A r \in Receivers : rx[r] = "open" => r \in subscribers

\* An emit ends, whether receivers read, stay silent or go away: a subscriber
\* can delay neither a reload nor another subscriber (unbounded channels).
EmitEnds == \A t \in Emitters : holder = t ~> holder # t

\* The implementation gives every receiver the one stream EventStream
\* promises: a receiver is a member while it is open.
Stream == INSTANCE EventStream
            WITH members <- {r \in Receivers : rx[r] = "open"}

ImplementsStream == Stream!StreamSpec
=============================================================================
