------------------------- MODULE ReloadEventsProofs -------------------------
(***************************************************************************)
(* Proofs about ReloadEvents, for any sets of emitters, receivers and      *)
(* events: type correctness, exactly-once delivery in the order of the     *)
(* stream, and that the fan-out implements EventStream.                    *)
(*                                                                         *)
(* ExactlyOnceInOrder speaks of sequences put together; the inductive form *)
(* says the same of their elements by index, and adds what receivers and   *)
(* channels look like before they are used and what the holder is sending. *)
(***************************************************************************)
EXTENDS ReloadEvents, SequenceTheorems, TLAPS

\* The channel of r continues the stream where r has stopped taking from it.
InStep(r) ==
    /\ start[r] + Len(received[r]) + Len(inbox[r]) = Delivered(r)
    /\ \A i \in 1..Len(received[r]) : received[r][i] = stream[start[r] + i]
    /\ \A i \in 1..Len(inbox[r]) :
          inbox[r][i] = stream[start[r] + Len(received[r]) + i]

\* A receiver that has not been handed out is in no way connected.
Untouched(r) ==
    rx[r] = "unused" =>
        r \notin subscribers /\ inbox[r] = <<>> /\ received[r] = <<>>

\* The event being sent is the last one of the stream.
SendsTheLast ==
    holder # Free => Len(stream) > 0 /\ sending = stream[Len(stream)]

IInv ==
    /\ TypeOK
    /\ \A r \in subscribers : InStep(r)
    /\ \A r \in Receivers : Untouched(r)
    /\ SendsTheLast
    /\ LiveReceiversStaySubscribed

-----------------------------------------------------------------------------
LEMMA InitIInv == Init => IInv
  BY EmptySeq DEF Init, IInv, TypeOK, InStep, Untouched, SendsTheLast,
                  LiveReceiversStaySubscribed

\* One step per action of Next: each keeps the types.
LEMMA TypeStep == TypeOK /\ [Next]_vars => TypeOK'
<1> SUFFICES ASSUME TypeOK, [Next]_vars PROVE TypeOK'
  OBVIOUS
<1> USE FreeAssumption DEF TypeOK
<1>1. ASSUME NEW t \in Emitters, NEW r \in Receivers, SendTo(t, r) PROVE TypeOK'
  BY <1>1 DEF SendTo, ghosts
<1>2. ASSUME NEW t \in Emitters, NEW r \in Receivers, Prune(t, r) PROVE TypeOK'
  BY <1>2 DEF Prune, ghosts
<1>3. ASSUME NEW t \in Emitters, FinishEmit(t) PROVE TypeOK'
  BY <1>3 DEF FinishEmit, ghosts
<1>4. ASSUME NEW t \in Emitters, NEW e \in Events, EmitEvent(t, e) PROVE TypeOK'
  BY <1>4 DEF EmitEvent
<1>5. ASSUME NEW r \in Receivers, Subscribe(r) PROVE TypeOK'
  BY <1>5 DEF Subscribe
<1>6. ASSUME NEW r \in Receivers, Receive(r) PROVE TypeOK'
  <2>1. inbox'[r] \in Seq(Events) /\ received'[r] \in Seq(Events)
    BY <1>6, HeadTailProperties DEF Receive
  <2> QED
    BY <1>6, <2>1 DEF Receive
<1>7. ASSUME NEW r \in Receivers, DropReceiver(r) PROVE TypeOK'
  BY <1>7 DEF DropReceiver, ghosts
<1>8. CASE UNCHANGED vars
  BY <1>8 DEF vars, hvars, ghosts
<1> QED
  BY <1>1, <1>2, <1>3, <1>4, <1>5, <1>6, <1>7, <1>8
     DEF Next, EmitterStep, ReceiverStep

LEMMA IInvStep == IInv /\ [Next]_vars => IInv'
<1> SUFFICES ASSUME IInv, [Next]_vars PROVE IInv'
  OBVIOUS
<1>t. TypeOK /\ TypeOK'
  BY TypeStep DEF IInv
<1> USE <1>t, FreeAssumption
<1>1. ASSUME NEW t \in Emitters, NEW r \in Receivers, SendTo(t, r) PROVE IInv'
  <2>1. SendsTheLast' /\ LiveReceiversStaySubscribed'
    BY <1>1 DEF SendTo, ghosts, IInv, SendsTheLast, LiveReceiversStaySubscribed
  <2>2. ASSUME NEW q \in Receivers PROVE Untouched(q)'
    BY <1>1 DEF SendTo, ghosts, IInv, TypeOK, Untouched
  <2>3. ASSUME NEW q \in subscribers' PROVE InStep(q)'
    <3>1. InStep(q) /\ q \in Receivers /\ r \in subscribers
      BY <1>1, <2>3 DEF SendTo, IInv, TypeOK
    <3>2. CASE q # r
      BY <1>1, <3>1, <3>2 DEF SendTo, ghosts, TypeOK, InStep, Delivered
    <3>3. CASE q = r
      <4>1. inbox'[r] = Append(inbox[r], sending)
        BY <1>1 DEF SendTo, TypeOK
      <4>2. Delivered(r) = Len(stream) - 1 /\ Delivered(r)' = Len(stream)
        BY <1>1 DEF SendTo, ghosts, TypeOK, Delivered
      <4>3. sending = stream[Len(stream)]
        BY <1>1 DEF SendTo, IInv, SendsTheLast
      <4> QED
        BY <1>1, <3>1, <3>3, <4>1, <4>2, <4>3 DEF SendTo, ghosts, TypeOK, InStep
    <3> QED
      BY <3>2, <3>3
  <2> QED
    BY <2>1, <2>2, <2>3 DEF IInv
<1>2. ASSUME NEW t \in Emitters, NEW r \in Receivers, Prune(t, r) PROVE IInv'
  <2>1. \A q \in subscribers' : InStep(q)'
    BY <1>2 DEF Prune, ghosts, IInv, TypeOK, InStep, Delivered
  <2> QED
    BY <1>2, <2>1 DEF Prune, ghosts, IInv, TypeOK, Untouched, SendsTheLast,
                      LiveReceiversStaySubscribed
<1>3. ASSUME NEW t \in Emitters, FinishEmit(t) PROVE IInv'
  <2>1. \A q \in subscribers' : InStep(q)'
    BY <1>3 DEF FinishEmit, ghosts, IInv, TypeOK, InStep, Delivered
  <2> QED
    BY <1>3, <2>1 DEF FinishEmit, ghosts, IInv, TypeOK, Untouched, SendsTheLast,
                      LiveReceiversStaySubscribed
<1>4. ASSUME NEW t \in Emitters, NEW e \in Events, EmitEvent(t, e) PROVE IInv'
  <2>1. /\ Len(stream') = Len(stream) + 1
        /\ stream'[Len(stream) + 1] = e
        /\ \A i \in 1..Len(stream) : stream'[i] = stream[i]
    BY <1>4, AppendProperties DEF EmitEvent, TypeOK
  <2>2. ASSUME NEW q \in subscribers' PROVE InStep(q)'
    <3>1. InStep(q) /\ q \in Receivers /\ q \notin pending /\ q \in pending'
      BY <1>4, <2>2 DEF EmitEvent, IInv, TypeOK
    <3>2. Delivered(q) = Len(stream) /\ Delivered(q)' = Len(stream)
      BY <2>1, <3>1 DEF Delivered, TypeOK
    <3> QED
      BY <1>4, <2>1, <3>1, <3>2 DEF EmitEvent, InStep, TypeOK
  <2>3. SendsTheLast'
    BY <1>4, <2>1 DEF EmitEvent, SendsTheLast, TypeOK
  <2> QED
    BY <1>4, <2>2, <2>3 DEF EmitEvent, IInv, TypeOK, Untouched, LiveReceiversStaySubscribed
<1>5. ASSUME NEW r \in Receivers, Subscribe(r) PROVE IInv'
  <2>1. ASSUME NEW q \in subscribers' PROVE InStep(q)'
    <3>1. pending = {} /\ q \in Receivers
      BY <1>5, <2>1 DEF Subscribe, TypeOK
    <3>2. CASE q = r
      BY <1>5, <3>1, <3>2 DEF Subscribe, IInv, TypeOK, Untouched, InStep, Delivered
    <3>3. CASE q # r
      BY <1>5, <2>1, <3>1, <3>3 DEF Subscribe, IInv, TypeOK, InStep, Delivered
    <3> QED
      BY <3>2, <3>3
  <2> QED
    BY <1>5, <2>1 DEF Subscribe, IInv, TypeOK, Untouched, SendsTheLast,
                      LiveReceiversStaySubscribed
<1>6. ASSUME NEW r \in Receivers, Receive(r) PROVE IInv'
  <2>1. /\ inbox'[r] = Tail(inbox[r]) /\ received'[r] = Append(received[r], Head(inbox[r]))
        /\ inbox[r] \in Seq(Events) /\ received[r] \in Seq(Events) /\ inbox[r] # <<>>
    BY <1>6 DEF Receive, TypeOK
  <2>2. /\ \A i \in 1..Len(inbox'[r]) : inbox'[r][i] = inbox[r][i + 1]
        /\ Head(inbox[r]) = inbox[r][1] /\ Head(inbox[r]) \in Events
    BY <2>1, HeadTailProperties
  <2>3. /\ \A i \in 1..Len(received[r]) : received'[r][i] = received[r][i]
        /\ received'[r][Len(received[r]) + 1] = inbox[r][1]
    BY <2>1, <2>2, AppendProperties
  <2>n. /\ Len(inbox[r]) \in Nat /\ Len(inbox[r]) > 0
        /\ Len(received[r]) \in Nat /\ start[r] \in Nat
        /\ Len(inbox'[r]) = Len(inbox[r]) - 1
        /\ Len(received'[r]) = Len(received[r]) + 1
    BY <2>1, <2>2, EmptySeq, LenProperties, HeadTailProperties, AppendProperties DEF TypeOK
  <2>4. ASSUME NEW q \in subscribers' PROVE InStep(q)'
    <3>1. InStep(q) /\ q \in Receivers
      BY <1>6, <2>4 DEF Receive, IInv, TypeOK
    <3>2. CASE q # r
      BY <1>6, <3>1, <3>2 DEF Receive, TypeOK, InStep, Delivered
    <3>3. CASE q = r
      <4>1. Delivered(r)' = Delivered(r) /\ start' = start /\ stream' = stream
        BY <1>6 DEF Receive, Delivered
      <4>2. start[r] + Len(received[r]) + Len(inbox[r]) = Delivered(r)
        BY <3>1, <3>3 DEF InStep
      <4>3. inbox[r][1] = stream[start[r] + Len(received[r]) + 1]
        BY <2>n, <3>1, <3>3 DEF InStep
      <4>4. \A i \in 1..Len(received'[r]) : received'[r][i] = stream[start[r] + i]
        <5> TAKE i \in 1..Len(received'[r])
        <5>1. CASE i \in 1..Len(received[r])
          BY <2>3, <3>1, <3>3, <5>1 DEF InStep
        <5>2. CASE i = Len(received[r]) + 1
          <6>1. start[r] + i = start[r] + Len(received[r]) + 1
            BY <2>n, <5>2
          <6> QED
            BY <2>3, <4>3, <5>2, <6>1
        <5>3. i \in 1..Len(received[r]) \/ i = Len(received[r]) + 1
          BY <2>n
        <5> QED
          BY <5>1, <5>2, <5>3
      <4>5. \A i \in 1..Len(inbox'[r]) :
                inbox'[r][i] = stream[start[r] + Len(received'[r]) + i]
        <5> TAKE i \in 1..Len(inbox'[r])
        <5>1. i + 1 \in 1..Len(inbox[r])
          BY <2>n
        <5>2. inbox[r][i + 1] = stream[start[r] + Len(received[r]) + (i + 1)]
          BY <3>1, <3>3, <5>1 DEF InStep
        <5>3. start[r] + Len(received[r]) + (i + 1) = start[r] + Len(received'[r]) + i
          BY <2>n
        <5> QED
          BY <2>2, <5>2, <5>3
      <4>6. start[r] + Len(received'[r]) + Len(inbox'[r]) = Delivered(r)
        BY <2>n, <4>2
      <4> QED
        BY <3>3, <4>1, <4>4, <4>5, <4>6 DEF InStep
    <3> QED
      BY <3>2, <3>3
  <2>5. ASSUME NEW q \in Receivers PROVE Untouched(q)'
    BY <1>6 DEF Receive, IInv, TypeOK, Untouched
  <2> QED
    BY <1>6, <2>4, <2>5 DEF Receive, IInv, SendsTheLast, LiveReceiversStaySubscribed
<1>7. ASSUME NEW r \in Receivers, DropReceiver(r) PROVE IInv'
  <2>1. \A q \in subscribers' : InStep(q)'
    BY <1>7 DEF DropReceiver, ghosts, IInv, TypeOK, InStep, Delivered
  <2> QED
    BY <1>7, <2>1 DEF DropReceiver, ghosts, IInv, TypeOK, Untouched, SendsTheLast,
                      LiveReceiversStaySubscribed
<1>8. CASE UNCHANGED vars
  BY <1>8 DEF vars, hvars, ghosts, IInv, InStep, Delivered, Untouched, SendsTheLast,
              LiveReceiversStaySubscribed
<1> QED
  BY <1>1, <1>2, <1>3, <1>4, <1>5, <1>6, <1>7, <1>8
     DEF Next, EmitterStep, ReceiverStep

LEMMA Inductive == Spec => []IInv
  BY InitIInv, IInvStep, PTL DEF Spec

-----------------------------------------------------------------------------
\* The state of the fan-out has the shapes ReloadEvents declares.
THEOREM TypeCorrect == Spec => []TypeOK
<1>1. IInv => TypeOK
  BY DEF IInv
<1> QED
  BY <1>1, Inductive, PTL

\* retain never removes the sender of a receiver that is alive.
THEOREM Subscribed == Spec => []LiveReceiversStaySubscribed
<1>1. IInv => LiveReceiversStaySubscribed
  BY DEF IInv
<1> QED
  BY <1>1, Inductive, PTL

\* In w, after its first k elements, u and then v follow, up to the n-th.
Follow(u, v, w, k, n) ==
    /\ k + Len(u) + Len(v) = n
    /\ n <= Len(w)
    /\ \A i \in 1..Len(u) : u[i] = w[k + i]
    /\ \A i \in 1..Len(v) : v[i] = w[k + Len(u) + i]

LEMMA Glue ==
  ASSUME NEW u \in Seq(Events), NEW v \in Seq(Events), NEW w \in Seq(Events),
         NEW k \in Nat, NEW n \in Nat, Follow(u, v, w, k, n)
  PROVE  u \o v = SubSeq(w, k + 1, n)
<1> USE DEF Follow
<1> DEFINE S == Events
<1>1. Len(u) \in Nat /\ Len(v) \in Nat /\ Len(w) \in Nat
  BY LenProperties
<1>2. /\ u \o v \in Seq(S)
      /\ Len(u \o v) = Len(u) + Len(v)
      /\ \A i \in 1..Len(u) + Len(v) :
            (u \o v)[i] = IF i <= Len(u) THEN u[i] ELSE v[i - Len(u)]
  BY ConcatProperties
<1>3. \A i \in (k + 1)..n : w[i] \in S
  BY <1>1, ElementOfSeq
<1>4. /\ SubSeq(w, k + 1, n) \in Seq(S)
      /\ Len(SubSeq(w, k + 1, n)) = IF k + 1 <= n THEN n - (k + 1) + 1 ELSE 0
      /\ \A i \in 1..n - (k + 1) + 1 : SubSeq(w, k + 1, n)[i] = w[k + 1 + i - 1]
  BY <1>3, SubSeqProperties
<1>5. Len(u \o v) = Len(SubSeq(w, k + 1, n))
  <2>1. (IF k + 1 <= n THEN n - (k + 1) + 1 ELSE 0) = Len(u) + Len(v)
    BY <1>1
  <2>2. Len(SubSeq(w, k + 1, n)) = IF k + 1 <= n THEN n - (k + 1) + 1 ELSE 0
    BY <1>4
  <2>3. Len(u \o v) = Len(u) + Len(v)
    BY <1>2
  <2> QED
    BY <2>1, <2>2, <2>3, Zenon
<1>6. ASSUME NEW i \in 1..Len(u \o v) PROVE (u \o v)[i] = SubSeq(w, k + 1, n)[i]
  <2>1. i \in 1..n - (k + 1) + 1 /\ k + 1 + i - 1 = k + i
    BY <1>1, <1>2
  <2>2. SubSeq(w, k + 1, n)[i] = w[k + i]
    BY <1>4, <2>1
  <2>3. CASE i <= Len(u)
    BY <1>1, <1>2, <2>2, <2>3
  <2>4. CASE ~ (i <= Len(u))
    <3>1. /\ i - Len(u) \in 1..Len(v)
          /\ k + Len(u) + (i - Len(u)) = k + i
      BY <1>1, <1>2, <2>4
    <3>2. (u \o v)[i] = v[i - Len(u)]
      BY <1>1, <1>2, <2>4
    <3> QED
      BY <2>2, <3>1, <3>2
  <2> QED
    BY <2>3, <2>4
<1> QED
  BY <1>2, <1>4, <1>5, <1>6, SeqEqual

\* Every subscriber has been sent exactly the events since it subscribed, in
\* order (the retain loop under the mutex of emit_event).
THEOREM Delivery == Spec => []ExactlyOnceInOrder
<1>1. ASSUME IInv, NEW r \in subscribers
      PROVE  received[r] \o inbox[r] = SubSeq(stream, start[r] + 1, Delivered(r))
  <2>1. /\ received[r] \in Seq(Events) /\ inbox[r] \in Seq(Events)
        /\ stream \in Seq(Events) /\ start[r] \in Nat
    BY <1>1 DEF IInv, TypeOK
  <2>2. Len(received[r]) \in Nat /\ Len(inbox[r]) \in Nat /\ Len(stream) \in Nat
    BY <2>1, LenProperties
  <2>3. /\ start[r] + Len(received[r]) + Len(inbox[r]) = Delivered(r)
        /\ \A i \in 1..Len(received[r]) : received[r][i] = stream[start[r] + i]
        /\ \A i \in 1..Len(inbox[r]) :
              inbox[r][i] = stream[start[r] + Len(received[r]) + i]
    BY <1>1 DEF IInv, InStep
  <2>4. Delivered(r) \in Nat /\ Delivered(r) <= Len(stream)
    BY <2>1, <2>2, <2>3 DEF Delivered
  <2>5. Follow(received[r], inbox[r], stream, start[r], Delivered(r))
    BY <2>3, <2>4 DEF Follow
  <2>6. PICK u \in Seq(Events), v \in Seq(Events), w \in Seq(Events),
             k \in Nat, n \in Nat :
             /\ u = received[r] /\ v = inbox[r] /\ w = stream
             /\ k = start[r] /\ n = Delivered(r)
    BY <2>1, <2>4
  <2>7. Follow(u, v, w, k, n)
    BY <2>5, <2>6, Zenon
  <2>8. u \o v = SubSeq(w, k + 1, n)
    BY <2>7, Glue
  <2> QED
    BY <2>6, <2>8, Zenon
<1>2. IInv => ExactlyOnceInOrder
  BY <1>1 DEF ExactlyOnceInOrder
<1> QED
  BY <1>2, Inductive, PTL

-----------------------------------------------------------------------------
LEMMA InitRefines == Init => Stream!StreamInit
<1> SUFFICES ASSUME Init PROVE Stream!StreamInit
  OBVIOUS
<1>1. {r \in Receivers : rx[r] = "open"} = {}
  BY DEF Init
<1> QED
  BY <1>1 DEF Init, Stream!StreamInit

\* Each step of the fan-out is one of the stream, or a step it does not see.
LEMMA StepRefines == IInv /\ [Next]_vars => [Stream!StreamNext]_(Stream!svars)
<1> SUFFICES ASSUME IInv, [Next]_vars PROVE [Stream!StreamNext]_(Stream!svars)
  OBVIOUS
<1> DEFINE open == {r \in Receivers : rx[r] = "open"}
<1> USE DEF IInv, TypeOK
<1>1. ASSUME NEW t \in Emitters, EmitterStep(t) PROVE UNCHANGED Stream!svars
  BY <1>1 DEF EmitterStep, SendTo, Prune, FinishEmit, ghosts, Stream!svars
<1>2. ASSUME NEW t \in Emitters, NEW e \in Events, EmitEvent(t, e)
      PROVE  Stream!Emit(e)
  BY <1>2 DEF EmitEvent, Stream!Emit
<1>3. ASSUME NEW r \in Receivers, Subscribe(r) PROVE Stream!Join(r)
  <2>1. r \notin open /\ open' = open \cup {r}
    BY <1>3 DEF Subscribe
  <2>2. received' = [received EXCEPT ![r] = <<>>]
    BY <1>3 DEF Subscribe, Untouched
  <2> QED
    BY <1>3, <2>1, <2>2 DEF Subscribe, Stream!Join
<1>4. ASSUME NEW r \in Receivers, Receive(r) PROVE Stream!Take(r)
  <2>1. r \in open /\ open' = open /\ r \in subscribers
    BY <1>4 DEF Receive, LiveReceiversStaySubscribed
  <2>2. /\ Len(inbox[r]) \in Nat /\ Len(inbox[r]) > 0 /\ Len(received[r]) \in Nat
        /\ Len(stream) \in Nat /\ start[r] \in Nat
    BY <1>4, EmptySeq, LenProperties DEF Receive
  <2>3. /\ start[r] + Len(received[r]) + Len(inbox[r]) = Delivered(r)
        /\ inbox[r][1] = stream[start[r] + Len(received[r]) + 1]
    BY <2>1, <2>2 DEF InStep
  <2>4. start[r] + Len(received[r]) < Len(stream)
    BY <2>2, <2>3 DEF Delivered
  <2>5. Head(inbox[r]) = stream[start[r] + Len(received[r]) + 1]
    BY <2>2, <2>3
  <2> QED
    BY <1>4, <2>1, <2>4, <2>5 DEF Receive, Stream!Take
<1>5. ASSUME NEW r \in Receivers, DropReceiver(r) PROVE Stream!Leave(r)
  <2>1. r \in open /\ open' = open \ {r}
    BY <1>5 DEF DropReceiver
  <2> QED
    BY <1>5, <2>1 DEF DropReceiver, ghosts, Stream!Leave
<1>6. CASE UNCHANGED vars
  BY <1>6 DEF vars, hvars, ghosts, Stream!svars
<1> QED
  BY <1>1, <1>2, <1>3, <1>4, <1>5, <1>6 DEF Next, ReceiverStep, Stream!StreamNext

\* The lock, the channels and the retain loop give every receiver the single
\* ordered stream that subscribe promises.
THEOREM Refinement == Spec => ImplementsStream
  BY Inductive, InitRefines, StepRefines, PTL DEF Spec, ImplementsStream, Stream!StreamSpec
=============================================================================
