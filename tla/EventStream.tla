---------------------------- MODULE EventStream ----------------------------
(***************************************************************************)
(* What `ReloadHandle::subscribe` promises: one stream of reload events,   *)
(* in one order for everybody.  A receiver that joins sees every event     *)
(* emitted from then on, each once, in the order of the stream, for as     *)
(* long as it stays.  ReloadEvents.tla is the implementation with a lock   *)
(* and one channel per receiver; ReloadHandle.tla appends to the stream.   *)
(***************************************************************************)
EXTENDS Naturals, Sequences

CONSTANTS Events, Receivers

VARIABLES
    stream,     \* every event emitted so far, in order
    members,    \* the receivers that are subscribed now
    start,      \* start[r]: the length of the stream when r joined
    received    \* received[r]: what r has taken, in order

svars == <<stream, members, start, received>>

StreamInit ==
    /\ stream = <<>>
    /\ members = {}
    /\ start = [r \in Receivers |-> 0]
    /\ received = [r \in Receivers |-> <<>>]

Emit(e) ==
    /\ stream' = Append(stream, e)
    /\ UNCHANGED <<members, start, received>>

Join(r) ==
    /\ r \notin members
    /\ members' = members \cup {r}
    /\ start' = [start EXCEPT ![r] = Len(stream)]
    /\ received' = [received EXCEPT ![r] = <<>>]
    /\ UNCHANGED stream

\* The event r takes is the one that follows what it took before.
Take(r) ==
    /\ r \in members
    /\ start[r] + Len(received[r]) < Len(stream)
    /\ received' = [received EXCEPT
                      ![r] = Append(@, stream[start[r] + Len(received[r]) + 1])]
    /\ UNCHANGED <<stream, members, start>>

Leave(r) ==
    /\ r \in members
    /\ members' = members \ {r}
    /\ UNCHANGED <<stream, start, received>>

StreamNext ==
    \/ \E e \in Events : Emit(e)
    \/ \E r \in Receivers : Join(r) \/ Take(r) \/ Leave(r)

StreamSpec == StreamInit /\ [][StreamNext]_svars
=============================================================================
