------------------------- MODULE ReloadHandleProofs -------------------------
(***************************************************************************)
(* Proofs about ReloadHandle, for any number of threads, files, values and *)
(* attempts: type correctness, what holds whatever attempts overlap, and,  *)
(* in the second half, what holds as long as none have.                    *)
(*                                                                         *)
(* The invariant says where the layers a thread has staged come from.  No  *)
(* version known to anybody is newer than the disk's (Past), so what is    *)
(* read later is at least as recent: the layers read so far are good and   *)
(* as recent as what the attempt captured on entry (Reading), and once the *)
(* loader has returned that is true of all of them (Loaded).               *)
(***************************************************************************)
EXTENDS ReloadHandle, SequenceTheorems, WellFoundedInduction, TLAPS

Types ==
    /\ disk \in Configs
    /\ state \in Configs
    /\ lastError \in (Threads \X Nat) \cup {NoError}
    /\ pc \in [Threads -> PCs]
    /\ attempts \in [Threads -> Nat]
    /\ result \in [Threads -> {"none", "ok", "err"}]
    /\ before \in [Threads -> Configs]
    /\ staged \in [Threads -> Configs]
    /\ cursor \in [Threads -> Files]
    /\ began \in [Threads -> Configs]
    /\ lastLoaded \in Configs
    /\ lastOutcome \in {"ok", "err"}
    /\ overlapped \in BOOLEAN
    /\ stream \in Seq(Events)

\* Every layer of c is as old as that of d, or older.
NotNewer(c, d) == \A f \in Files : c[f].ver <= d[f].ver

\* Every layer of c is that of d, or one that d has replaced.
Earlier(c, d) == \A f \in Files : c[f].ver < d[f].ver \/ c[f] = d[f]

\* No file was written between c and d.
SameVersions(c, d) == \A f \in Files : c[f].ver = d[f].ver

Past(t) ==
    /\ Earlier(before[t], disk)
    /\ Earlier(began[t], disk)
    /\ Earlier(staged[t], disk)

Reading(t) ==
    pc[t] = "load" =>
        \A f \in Files : f < cursor[t] =>
            /\ staged[t][f].ok
            /\ before[t][f].ver <= staged[t][f].ver
            /\ began[t][f].ver <= staged[t][f].ver

Loaded(t) ==
    pc[t] \in {"publish", "clear", "announce"} =>
        /\ Good(staged[t])
        /\ NotNewer(before[t], staged[t])
        /\ NotNewer(began[t], staged[t])

\* An attempt that failed though nobody wrote has met files that are unusable.
Refused(t) ==
    pc[t] \in {"fail", "reject"} /\ SameVersions(began[t], disk) => ~ Good(disk)

\* What does not depend on last_error.
Core ==
    /\ Types
    /\ StateIsGood
    /\ Earlier(state, disk)
    /\ Earlier(FirstConfig, disk)
    /\ \A t \in Threads : Past(t) /\ Reading(t) /\ Loaded(t) /\ Refused(t)
    /\ EventsLeadForward

IInv == Core /\ ErrorIsAnnounced

-----------------------------------------------------------------------------
LEMMA FirstConfigOK == FirstConfig \in Configs /\ Good(FirstConfig) /\ 1 \in Files
  BY ReloadAssumption DEF FirstConfig, Configs, Docs, Good, Files

LEMMA LayersTyped ==
  ASSUME Types, NEW t \in Threads
  PROVE  /\ LayersOf(t) \in Configs
         /\ LayersOf(t)[cursor[t]] = disk[cursor[t]]
         /\ \A f \in Files : f # cursor[t] => LayersOf(t)[f] = staged[t][f]
  BY DEF Types, Configs, LayersOf

LEMMA VersionsTyped ==
  ASSUME NEW c \in Configs, NEW f \in Files PROVE c[f].ver \in Nat
  BY DEF Configs, Docs

LEMMA InitTypes == Init => Types
<1> SUFFICES ASSUME Init PROVE Types
  OBVIOUS
<1>1. stream \in Seq(Events)
  BY EmptySeq, Zenon DEF Init
<1>2. pc \in [Threads -> PCs]
  BY DEF Init, PCs
<1> QED
  BY <1>1, <1>2, FirstConfigOK DEF Init, Types

LEMMA InitIInv == Init => IInv
<1> SUFFICES ASSUME Init PROVE IInv
  OBVIOUS
<1>1. Types
  BY InitTypes
<1>2. StateIsGood
  BY FirstConfigOK DEF Init, StateIsGood
<1>3. Earlier(FirstConfig, FirstConfig)
  BY DEF Earlier
<1>4. /\ Earlier(state, disk) /\ Earlier(FirstConfig, disk)
      /\ \A t \in Threads : Past(t) /\ Reading(t) /\ Loaded(t) /\ Refused(t)
  BY <1>3 DEF Init, Past, Reading, Loaded, Refused
<1>5. EventsLeadForward /\ ErrorIsAnnounced
  BY DEF Init, EventsLeadForward, ErrorIsAnnounced
<1> QED
  BY <1>1, <1>2, <1>4, <1>5 DEF IInv, Core

-----------------------------------------------------------------------------
LEMMA TypesStep == Types /\ [Next]_vars => Types'
<1> SUFFICES ASSUME Types, [Next]_vars PROVE Types'
  OBVIOUS
<1> USE FirstConfigOK DEF Types, PCs
<1>1. ASSUME NEW f \in Files, Write(f) PROVE Types'
  <2>1. disk' \in Configs
    <3>1. \A d \in Docs : [disk EXCEPT ![f] = d] \in Configs
      BY DEF Configs
    <3>2. /\ \A v \in Values : [ver |-> disk[f].ver + 1, val |-> v, ok |-> TRUE] \in Docs
          /\ [ver |-> disk[f].ver + 1, val |-> FirstValue, ok |-> FALSE] \in Docs
      BY VersionsTyped, ReloadAssumption DEF Docs
    <3>3. \E d \in Docs : disk' = [disk EXCEPT ![f] = d]
      BY <1>1, <3>2 DEF Write
    <3> QED
      BY <3>1, <3>3
  <2> QED
    BY <1>1, <2>1 DEF Write, locals
<1>2. ASSUME NEW t \in Threads, Begin(t) PROVE Types'
  BY <1>2 DEF Begin
<1>3. ASSUME NEW t \in Threads, ReadFile(t) PROVE Types'
  <2>1. cursor[t] + 1 \in Files
    BY <1>3, ReloadAssumption DEF ReadFile, Files
  <2> QED
    BY <1>3, <2>1, LayersTyped DEF ReadFile
<1>4. ASSUME NEW t \in Threads, FinishLoad(t) PROVE Types'
  BY <1>4, LayersTyped DEF FinishLoad
<1>5. ASSUME NEW t \in Threads, FailLoad(t) PROVE Types'
  BY <1>5 DEF FailLoad, locals
<1>6. ASSUME NEW t \in Threads, Publish(t) PROVE Types'
  BY <1>6 DEF Publish, locals
<1>7. ASSUME NEW t \in Threads, ClearError(t) PROVE Types'
  BY <1>7 DEF ClearError, Return, locals
<1>8. ASSUME NEW t \in Threads, EmitApplied(t) PROVE Types'
  <2>1. Applied(before[t], staged[t]) \in Events
    BY DEF Events
  <2> QED
    BY <1>8, <2>1, AppendProperties DEF EmitApplied, Return
<1>9. ASSUME NEW t \in Threads, RecordError(t) PROVE Types'
  BY <1>9 DEF RecordError, locals
<1>10. ASSUME NEW t \in Threads, EmitRejected(t) PROVE Types'
  <2>1. Rejected(t, attempts[t]) \in Events
    BY DEF Events
  <2> QED
    BY <1>10, <2>1, AppendProperties DEF EmitRejected, Return
<1>11. CASE UNCHANGED vars
  BY <1>11 DEF vars, locals
<1> QED
  BY <1>1, <1>2, <1>3, <1>4, <1>5, <1>6, <1>7, <1>8, <1>9, <1>10, <1>11
     DEF Next, ReloadStep

-----------------------------------------------------------------------------
LEMMA EarlierTransitive ==
  ASSUME NEW a \in Configs, NEW b \in Configs, NEW c \in Configs,
         Earlier(a, b), Earlier(b, c)
  PROVE  Earlier(a, c)
  BY VersionsTyped DEF Earlier

LEMMA EarlierIsNotNewer ==
  ASSUME NEW a \in Configs, NEW b \in Configs, Earlier(a, b)
  PROVE  NotNewer(a, b)
  BY VersionsTyped DEF Earlier, NotNewer

\* Files only get newer.
LEMMA DiskStep == Types /\ [Next]_vars => Earlier(disk, disk')
<1> SUFFICES ASSUME Types, [Next]_vars PROVE Earlier(disk, disk')
  OBVIOUS
<1>1. disk \in Configs
  BY DEF Types
<1>2. ASSUME NEW f \in Files, Write(f) PROVE Earlier(disk, disk')
  <2>1. disk'[f].ver = disk[f].ver + 1 /\ \A g \in Files : g # f => disk'[g] = disk[g]
    BY <1>1, <1>2 DEF Write, Configs
  <2> QED
    BY <1>1, <2>1, VersionsTyped DEF Earlier
<1>3. CASE disk' = disk
  BY <1>3 DEF Earlier
<1> QED
  BY <1>2, <1>3 DEF Next, ReloadStep, Begin, ReadFile, FinishLoad, FailLoad, Publish,
                    ClearError, EmitApplied, RecordError, EmitRejected, vars

\* The layers an attempt has once it has read the file at its cursor are as old
\* as the disk and as recent as what it captured on entry.
LEMMA ReadLayers ==
  ASSUME Core, NEW q \in Threads, pc[q] = "load"
  PROVE  /\ Earlier(LayersOf(q), disk)
         /\ \A f \in Files : f <= cursor[q] =>
               /\ before[q][f].ver <= LayersOf(q)[f].ver
               /\ began[q][f].ver <= LayersOf(q)[f].ver
         /\ \A f \in Files : f < cursor[q] => LayersOf(q)[f].ok
<1> USE DEF Core
<1>1. /\ disk \in Configs /\ before[q] \in Configs /\ began[q] \in Configs
      /\ staged[q] \in Configs /\ cursor[q] \in Files
  BY DEF Types
<1>2. /\ LayersOf(q)[cursor[q]] = disk[cursor[q]]
      /\ \A f \in Files : f # cursor[q] => LayersOf(q)[f] = staged[q][f]
  BY LayersTyped
<1>3. /\ NotNewer(before[q], disk) /\ NotNewer(began[q], disk)
      /\ Earlier(staged[q], disk)
  BY <1>1, EarlierIsNotNewer DEF Past
<1>4. Earlier(LayersOf(q), disk)
  BY <1>1, <1>2, <1>3 DEF Earlier
<1>5. ASSUME NEW f \in Files, f <= cursor[q]
      PROVE  /\ before[q][f].ver <= LayersOf(q)[f].ver
             /\ began[q][f].ver <= LayersOf(q)[f].ver
             /\ f < cursor[q] => LayersOf(q)[f].ok
  <2>1. CASE f = cursor[q]
    BY <1>1, <1>2, <1>3, <2>1 DEF NotNewer, Files
  <2>2. CASE f # cursor[q]
    <3>1. f < cursor[q]
      BY <1>1, <1>5, <2>2 DEF Files
    <3> QED
      BY <1>2, <2>2, <3>1 DEF Reading
  <2> QED
    BY <2>1, <2>2
<1>6. \A f \in Files : f < cursor[q] => f <= cursor[q]
  BY <1>1 DEF Files
<1> QED
  BY <1>4, <1>5, <1>6

\* What a thread knows is as old as the disk, and what it has read is as recent
\* as what it captured on entry; one step per action it may take.
LEMMA ThreadStep ==
  ASSUME Core, Types', [Next]_vars, NEW q \in Threads
  PROVE  Past(q)' /\ Reading(q)' /\ Loaded(q)' /\ Refused(q)'
<1> USE DEF Core
<1>1. /\ disk \in Configs /\ disk' \in Configs /\ state \in Configs
      /\ before[q] \in Configs /\ began[q] \in Configs /\ staged[q] \in Configs
      /\ cursor[q] \in Files /\ Earlier(disk, disk')
  BY DiskStep DEF Types
<1>2. CASE UNCHANGED <<pc[q], before[q], began[q], staged[q], cursor[q]>>
  <2>1. Past(q)'
    BY <1>1, <1>2, EarlierTransitive DEF Past
  <2>2. ASSUME SameVersions(began'[q], disk') PROVE SameVersions(began[q], disk) /\ disk' = disk
    <3>1. \A f \in Files : /\ began[q][f].ver <= disk[f].ver
                           /\ disk[f].ver < disk'[f].ver \/ disk[f] = disk'[f]
                           /\ began[q][f].ver = disk'[f].ver
      BY <1>1, <1>2, <2>2, EarlierIsNotNewer DEF Past, NotNewer, Earlier, SameVersions
    <3>2. \A f \in Files : disk[f] = disk'[f]
      BY <1>1, <3>1, VersionsTyped
    <3>3. disk' = disk
      BY <1>1, <3>2 DEF Configs
    <3> QED
      BY <1>2, <2>2, <3>3
  <2>3. Refused(q)'
    BY <1>2, <2>2 DEF Refused
  <2> QED
    BY <1>2, <2>1, <2>3 DEF Reading, Loaded
<1>3. ASSUME NEW t \in Threads, t # q, Begin(t) \/ ReloadStep(t)
      PROVE  UNCHANGED <<pc[q], before[q], began[q], staged[q], cursor[q]>>
  BY <1>3 DEF Types, ReloadStep, Begin, ReadFile, FinishLoad, FailLoad, Publish,
              ClearError, EmitApplied, RecordError, EmitRejected, Return, locals
<1>4. CASE Begin(q)
  <2>1. /\ pc'[q] = "load" /\ cursor'[q] = 1 /\ disk' = disk
        /\ before'[q] = state /\ began'[q] = disk /\ staged'[q] = FirstConfig
    BY <1>4 DEF Begin, Types
  <2>2. Past(q)'
    BY <1>1, <2>1 DEF Past
  <2> QED
    BY <2>1, <2>2 DEF Reading, Loaded, Refused, Files
<1>5. CASE ReadFile(q)
  <2>1. /\ pc'[q] = "load" /\ cursor'[q] = cursor[q] + 1 /\ disk' = disk
        /\ before'[q] = before[q] /\ began'[q] = began[q] /\ staged'[q] = LayersOf(q)
    BY <1>5 DEF ReadFile, Types
  <2>2. Past(q)'
    BY <1>5, <2>1, ReadLayers DEF ReadFile, Past
  <2>3. \A f \in Files : f < cursor[q] + 1 => f <= cursor[q]
    BY <1>1 DEF Files
  <2>4. ASSUME NEW f \in Files, f <= cursor[q] PROVE LayersOf(q)[f].ok
    <3>1. f < cursor[q] \/ f = cursor[q]
      BY <1>1, <2>4 DEF Files
    <3> QED
      BY <1>5, <3>1, ReadLayers, LayersTyped DEF ReadFile
  <2> QED
    BY <1>5, <2>1, <2>2, <2>3, <2>4, ReadLayers DEF ReadFile, Reading, Loaded, Refused
<1>6. CASE FinishLoad(q)
  <2>1. /\ pc'[q] = "publish" /\ disk' = disk
        /\ before'[q] = before[q] /\ began'[q] = began[q] /\ staged'[q] = LayersOf(q)
    BY <1>6 DEF FinishLoad, Types
  <2>2. Past(q)'
    BY <1>6, <2>1, ReadLayers DEF FinishLoad, Past
  <2>3. cursor[q] = NumFiles /\ \A f \in Files : f <= cursor[q]
    BY <1>6, ReloadAssumption DEF FinishLoad, Files
  <2>4. ASSUME NEW f \in Files PROVE LayersOf(q)[f].ok
    <3>1. f < cursor[q] \/ f = cursor[q]
      BY <1>1, <2>3 DEF Files
    <3> QED
      BY <1>6, <3>1, <2>3, ReadLayers, LayersTyped DEF FinishLoad
  <2>5. Good(LayersOf(q)) /\ NotNewer(before[q], LayersOf(q)) /\ NotNewer(began[q], LayersOf(q))
    BY <1>6, <2>3, <2>4, ReadLayers DEF FinishLoad, Good, NotNewer
  <2> QED
    BY <2>1, <2>2, <2>5 DEF Reading, Loaded, Refused
<1>7. CASE FailLoad(q)
  <2>1. pc'[q] = "fail" /\ UNCHANGED <<disk, before[q], began[q], staged[q]>>
    BY <1>7 DEF FailLoad, locals, Types
  <2>2. ASSUME SameVersions(began[q], disk) PROVE ~ Good(disk)
    <3>1. CASE ~ disk[cursor[q]].ok
      BY <1>1, <3>1 DEF Good
    <3>2. CASE cursor[q] = NumFiles /\ Vals(LayersOf(q)) \notin Acceptable
      <4>1. \A f \in Files : f <= cursor[q]
        BY <3>2, ReloadAssumption DEF Files
      <4>2. \A f \in Files : LayersOf(q)[f].ver >= disk[f].ver
        BY <1>7, <2>2, <4>1, ReadLayers DEF FailLoad, SameVersions
      <4>3. Earlier(LayersOf(q), disk) /\ LayersOf(q) \in Configs
        BY <1>7, ReadLayers, LayersTyped DEF FailLoad
      <4>4. \A f \in Files : LayersOf(q)[f] = disk[f]
        BY <1>1, <4>2, <4>3, VersionsTyped DEF Earlier
      <4>5. LayersOf(q) = disk
        BY <1>1, <4>3, <4>4 DEF Configs
      <4> QED
        BY <3>2, <4>5 DEF Good
    <3> QED
      BY <1>7, <3>1, <3>2 DEF FailLoad
  <2> QED
    BY <2>1, <2>2 DEF Past, Reading, Loaded, Refused
<1>8. CASE Publish(q) \/ RecordError(q)
  <2>1. /\ pc'[q] \in {"clear", "reject"}
        /\ pc'[q] = "clear" => pc[q] = "publish"
        /\ pc'[q] = "reject" => pc[q] = "fail"
        /\ UNCHANGED <<disk, before[q], began[q], staged[q]>>
    BY <1>8 DEF Publish, RecordError, locals, Types
  <2> QED
    BY <2>1 DEF Past, Reading, Loaded, Refused
<1>9. CASE ClearError(q) \/ EmitApplied(q) \/ EmitRejected(q)
  <2>1. CASE pc'[q] = "announce" /\ pc[q] = "clear"
             /\ UNCHANGED <<disk, before[q], began[q], staged[q]>>
    BY <2>1 DEF Past, Reading, Loaded, Refused
  <2>2. CASE pc'[q] = "idle" /\ disk' = disk /\ before'[q] = FirstConfig
             /\ began'[q] = FirstConfig /\ staged'[q] = FirstConfig
    BY <2>2 DEF Past, Reading, Loaded, Refused
  <2> QED
    BY <1>9, <2>1, <2>2 DEF ClearError, EmitApplied, EmitRejected, Return, locals, Types
<1>10. CASE (\E f \in Files : Write(f)) \/ UNCHANGED vars
  <2>1. UNCHANGED <<pc[q], before[q], began[q], staged[q], cursor[q]>>
    BY <1>10 DEF Write, locals, vars
  <2> QED
    BY <1>2, <2>1
<1> QED
  BY <1>2, <1>3, <1>4, <1>5, <1>6, <1>7, <1>8, <1>9, <1>10 DEF Next, ReloadStep

\* The active configuration is replaced by Publish only, with what a loader
\* returned, and that is as old as the disk.
LEMMA StateStep ==
  ASSUME Core, Types', [Next]_vars
  PROVE  StateIsGood' /\ Earlier(state, disk)' /\ Earlier(FirstConfig, disk)'
<1> USE DEF Core
<1>1. /\ disk \in Configs /\ disk' \in Configs /\ state \in Configs
      /\ FirstConfig \in Configs
      /\ \A t \in Threads : staged[t] \in Configs
      /\ Earlier(disk, disk')
  BY DiskStep, FirstConfigOK DEF Types
<1>2. Earlier(FirstConfig, disk')
  BY <1>1, EarlierTransitive
<1>3. ASSUME NEW t \in Threads, Publish(t) PROVE Good(state') /\ Earlier(state', disk')
  BY <1>1, <1>3 DEF Publish, Past, Loaded
<1>4. CASE state' = state
  BY <1>1, <1>2, <1>4, EarlierTransitive DEF StateIsGood, Good
<1>5. (\E t \in Threads : Publish(t)) \/ state' = state
  BY DEF Next, ReloadStep, Begin, ReadFile, FinishLoad, FailLoad, ClearError,
         EmitApplied, RecordError, EmitRejected, Write, vars
<1> QED
  BY <1>2, <1>3, <1>4, <1>5 DEF StateIsGood

\* The stream grows by one event or not at all.
LEMMA AppendedEvent ==
  ASSUME Types, NEW e \in Events
  PROVE  /\ Len(Append(stream, e)) = Len(stream) + 1
         /\ Len(stream) \in Nat
         /\ Append(stream, e)[Len(stream) + 1] = e
         /\ \A i \in 1..Len(stream) : Append(stream, e)[i] = stream[i]
  BY AppendProperties, LenProperties DEF Types

LEMMA ForwardStep ==
  ASSUME Core, [Next]_vars
  PROVE  EventsLeadForward'
<1> USE DEF Core
<1>1. ASSUME NEW e \in Events, stream' = Append(stream, e),
             e.kind = "Applied" => NotNewer(e.before, e.after)
      PROVE  EventsLeadForward'
  <2>1. ASSUME NEW i \in 1..Len(stream'), stream'[i].kind = "Applied"
        PROVE  \A f \in Files : stream'[i].before[f].ver <= stream'[i].after[f].ver
    <3>1. CASE i \in 1..Len(stream)
      <4>1. stream'[i] = stream[i]
        BY <1>1, <3>1, AppendedEvent
      <4> QED
        BY <2>1, <3>1, <4>1 DEF EventsLeadForward
    <3>2. CASE i = Len(stream) + 1
      <4>1. stream'[i] = e
        BY <1>1, <3>2, AppendedEvent
      <4> QED
        BY <1>1, <2>1, <4>1 DEF NotNewer
    <3>3. i \in 1..Len(stream) \/ i = Len(stream) + 1
      BY <1>1, AppendedEvent
    <3> QED
      BY <3>1, <3>2, <3>3
  <2> QED
    BY <2>1 DEF EventsLeadForward
<1>2. ASSUME NEW t \in Threads, EmitApplied(t) PROVE EventsLeadForward'
  <2>1. Applied(before[t], staged[t]) \in Events
    BY DEF Events, Types
  <2>2. NotNewer(before[t], staged[t])
    BY <1>2 DEF EmitApplied, Loaded
  <2> QED
    BY <1>1, <1>2, <2>1, <2>2 DEF EmitApplied, Applied
<1>3. ASSUME NEW t \in Threads, EmitRejected(t) PROVE EventsLeadForward'
  <2>1. Rejected(t, attempts[t]) \in Events
    BY DEF Events, Types
  <2> QED
    BY <1>1, <1>3, <2>1 DEF EmitRejected, Rejected
<1>4. CASE stream' = stream
  BY <1>4 DEF EventsLeadForward
<1>5. (\E t \in Threads : EmitApplied(t) \/ EmitRejected(t)) \/ stream' = stream
  BY DEF Next, ReloadStep, Begin, ReadFile, FinishLoad, FailLoad, Publish, ClearError,
         RecordError, Write, vars
<1> QED
  BY <1>2, <1>3, <1>4, <1>5

\* An error is announced in the stream, which only grows, or its thread stands
\* before EmitRejected; clearing it settles the claim.
LEMMA AnnouncedStep ==
  ASSUME IInv, Types', [Next]_vars
  PROVE  ErrorIsAnnounced'
<1> USE DEF IInv, Core
<1> DEFINE Told == \E i \in 1..Len(stream) :
                      stream[i].kind = "Rejected" /\ stream[i].error = lastError
           Owed(t) == pc[t] = "reject" /\ lastError = <<t, attempts[t]>>
<1>1. ErrorIsAnnounced <=> (lastError # NoError => Told \/ \E t \in Threads : Owed(t))
  BY DEF ErrorIsAnnounced
<1>2. ErrorIsAnnounced' <=> (lastError' # NoError => Told' \/ \E t \in Threads : Owed(t)')
  BY DEF ErrorIsAnnounced
<1>3. ASSUME NEW e \in Events, stream' = Append(stream, e), lastError' = lastError, Told
      PROVE  Told'
  <2>1. PICK i \in 1..Len(stream) : stream[i].kind = "Rejected" /\ stream[i].error = lastError
    BY <1>3
  <2>2. i \in 1..Len(stream') /\ stream'[i] = stream[i]
    BY <1>3, AppendedEvent
  <2> QED
    BY <1>3, <2>1, <2>2
<1> HIDE DEF Told, Owed
<1>4. ASSUME NEW t \in Threads, RecordError(t) PROVE ErrorIsAnnounced'
  <2>1. Owed(t)'
    BY <1>4 DEF RecordError, Owed, Types
  <2> QED
    BY <1>2, <2>1
<1>5. ASSUME NEW t \in Threads, ClearError(t) PROVE ErrorIsAnnounced'
  BY <1>2, <1>5 DEF ClearError
<1>6. ASSUME NEW t \in Threads, EmitApplied(t) PROVE ErrorIsAnnounced'
  <2>1. Applied(before[t], staged[t]) \in Events
    BY DEF Events, Types
  <2>2. \A u \in Threads : Owed(u) => Owed(u)'
    BY <1>6 DEF EmitApplied, Return, Owed, Types
  <2> QED
    BY <1>1, <1>2, <1>3, <1>6, <2>1, <2>2 DEF EmitApplied
<1>7. ASSUME NEW t \in Threads, EmitRejected(t) PROVE ErrorIsAnnounced'
  <2>1. Rejected(t, attempts[t]) \in Events
    BY DEF Events, Types
  <2>2. \A u \in Threads : u # t /\ Owed(u) => Owed(u)'
    BY <1>7 DEF EmitRejected, Return, Owed, Types
  <2>3. ASSUME Owed(t) PROVE Told'
    <3>1. Len(stream) + 1 \in 1..Len(stream') /\ stream'[Len(stream) + 1] = Rejected(t, attempts[t])
      BY <1>7, <2>1, AppendedEvent DEF EmitRejected
    <3>2. lastError' = <<t, attempts[t]>>
      BY <1>7, <2>3 DEF EmitRejected, Owed
    <3> QED
      BY <3>1, <3>2 DEF Told, Rejected
  <2> QED
    BY <1>1, <1>2, <1>3, <1>7, <2>1, <2>2, <2>3 DEF EmitRejected
<1>8. CASE /\ stream' = stream /\ lastError' = lastError
           /\ \A u \in Threads : Owed(u) => Owed(u)'
  <2>1. Told => Told'
    BY <1>8 DEF Told
  <2> QED
    BY <1>1, <1>2, <1>8, <2>1
<1>9. ASSUME NEW t \in Threads,
             Begin(t) \/ ReadFile(t) \/ FinishLoad(t) \/ FailLoad(t) \/ Publish(t)
      PROVE  ErrorIsAnnounced'
  <2>1. \A u \in Threads : Owed(u) => Owed(u)'
    BY <1>9 DEF Begin, ReadFile, FinishLoad, FailLoad, Publish, Owed, Types, locals
  <2> QED
    BY <1>8, <1>9, <2>1 DEF Begin, ReadFile, FinishLoad, FailLoad, Publish
<1>10. CASE (\E f \in Files : Write(f)) \/ UNCHANGED vars
  <2>1. UNCHANGED <<stream, lastError, pc, attempts>>
    BY <1>10 DEF Write, vars
  <2> QED
    BY <1>8, <2>1 DEF Owed
<1> QED
  BY <1>4, <1>5, <1>6, <1>7, <1>9, <1>10 DEF Next, ReloadStep

LEMMA CoreStep == Core /\ [Next]_vars => Core'
<1> SUFFICES ASSUME Core, [Next]_vars PROVE Core'
  OBVIOUS
<1>1. Types'
  BY TypesStep DEF Core
<1> QED
  BY <1>1, ThreadStep, StateStep, ForwardStep DEF Core

LEMMA IInvStep == IInv /\ [Next]_vars => IInv'
  BY CoreStep, AnnouncedStep DEF IInv, Core

LEMMA Inductive == Spec => []IInv
  BY InitIInv, IInvStep, PTL DEF Spec

-----------------------------------------------------------------------------
(***************************************************************************)
(* Whatever attempts overlap.                                              *)
(***************************************************************************)
LEMMA EventsTyped == Types => TypeOK
<1> SUFFICES ASSUME Types PROVE TypeOK
  OBVIOUS
<1>1. ASSUME NEW e \in Events
      PROVE  \/ /\ e.kind = "Applied"
                /\ e.before \in Configs
                /\ e.after \in Configs
                /\ e.hadChanges = (Vals(e.before) # Vals(e.after))
             \/ /\ e.kind = "Rejected"
                /\ e.error \in Threads \X Nat
                /\ e.watcherStopped \in BOOLEAN
  <2>1. ASSUME NEW c \in Configs, NEW d \in Configs, e = Applied(c, d)
        PROVE  /\ e.kind = "Applied"
               /\ e.before \in Configs
               /\ e.after \in Configs
               /\ e.hadChanges = (Vals(e.before) # Vals(e.after))
    <3>1. e.kind = "Applied" /\ e.before = c /\ e.after = d /\ e.hadChanges = (Vals(c) # Vals(d))
      BY <2>1, Zenon DEF Applied
    <3> QED
      BY <3>1, Zenon
  <2>2. ASSUME NEW t \in Threads, NEW n \in Nat, e = Rejected(t, n)
        PROVE  /\ e.kind = "Rejected"
               /\ e.error \in Threads \X Nat
               /\ e.watcherStopped \in BOOLEAN
    BY <2>2 DEF Rejected
  <2> QED
    BY <2>1, <2>2 DEF Events
<1>2. \A i \in 1..Len(stream) : stream[i] \in Events
  BY ElementOfSeq DEF Types
<1> QED
  BY <1>1, <1>2 DEF Types, TypeOK

\* Every variable has its type, and every event of the stream is one that
\* reload_with_options can emit.
THEOREM TypeCorrect == Spec => []TypeOK
<1>1. IInv => TypeOK
  BY EventsTyped DEF IInv, Core
<1> QED
  BY <1>1, Inductive, PTL

\* Failed reloads never replace the active configuration, for any files,
\* threads and overlaps (Publish stores only what the loader accepted).
THEOREM StateAlwaysGood == Spec => []StateIsGood
<1>1. IInv => StateIsGood
  BY DEF IInv, Core
<1> QED
  BY <1>1, Inductive, PTL

\* No Applied event leads back to older files (before is captured on entry,
\* before the loader reads).
THEOREM EventsForward == Spec => []EventsLeadForward
<1>1. IInv => EventsLeadForward
  BY DEF IInv, Core
<1> QED
  BY <1>1, Inductive, PTL

\* Every recorded error reaches the event stream (RecordError is always
\* followed by EmitRejected, whoever clears or overwrites last_error).
THEOREM ErrorsAnnounced == Spec => []ErrorIsAnnounced
<1>1. IInv => ErrorIsAnnounced
  BY DEF IInv, Core
<1> QED
  BY <1>1, Inductive, PTL

\* What an attempt publishes is at least as recent as the disk was when the
\* attempt was entered.
THEOREM Publishes == Spec => PublishesWhatWasWritten
<1>1. ASSUME IInv, [Next]_vars, NEW t \in Threads, pc[t] = "publish", pc'[t] = "clear"
      PROVE  \A f \in Files : began[t][f].ver <= state'[f].ver
  <2>1. state' = staged[t]
    BY <1>1 DEF IInv, Core, Types, Next, ReloadStep, Begin, ReadFile, FinishLoad, FailLoad,
                Publish, ClearError, EmitApplied, RecordError, EmitRejected, Return,
                Write, vars
  <2> QED
    BY <1>1, <2>1 DEF IInv, Core, Loaded, NotNewer
<1>2. IInv /\ [Next]_vars =>
        [\A t \in Threads : (pc[t] = "publish" /\ pc'[t] = "clear") =>
            \A f \in Files : began[t][f].ver <= state'[f].ver]_vars
  BY <1>1
<1> QED
  BY <1>2, Inductive, PTL DEF Spec, PublishesWhatWasWritten

-----------------------------------------------------------------------------
(***************************************************************************)
(* As long as no two attempts have overlapped.                             *)
(*                                                                         *)
(* An attempt that is alone finds the handle as it left it.  SerialInv and *)
(* ErrorInv say how state, last_error and the loader relate at each of its *)
(* steps, and FollowInv what the events emitted so far have told a         *)
(* subscriber: the active values, except between Publish and EmitApplied,  *)
(* where they are those the attempt captured on entry.                     *)
(***************************************************************************)
\* At most one attempt is under way, and what it has done so far tells how the
\* active configuration (SerialInv) and last_error (ErrorInv) relate to what the
\* loader did.  Only ErrorInv depends on last_error, which the native watcher also
\* sets by itself.
AtMostOne == \A t, u \in Threads : pc[t] # "idle" /\ pc[u] # "idle" => t = u

SerialInv ==
  ~ overlapped =>
    /\ AtMostOne
    /\ \A t \in Threads : pc[t] = "publish" => staged[t] = lastLoaded
    /\ (\A t \in Threads : pc[t] # "publish") => state = lastLoaded

ErrorInv ==
  ~ overlapped =>
    /\ \A t \in Threads :
          /\ pc[t] \in {"publish", "clear", "announce"} => lastOutcome = "ok"
          /\ pc[t] \in {"fail", "reject"} => lastOutcome = "err"
          /\ pc[t] = "announce" => lastError = NoError
          /\ pc[t] = "reject" => lastError # NoError
    /\ (\A t \in Threads : pc[t] \in {"idle", "load"}) =>
          (lastError = NoError <=> lastOutcome = "ok")

\* What the Applied events among the first n of s have told.
LastTold(s, n) ==
    LET told == {j \in 1..n : s[j].kind = "Applied"}
    IN  IF told = {} THEN Vals(FirstConfig)
        ELSE Vals(s[CHOOSE j \in told : \A k \in told : k <= j].after)

FollowInv ==
  ~ overlapped =>
    /\ \A i \in 1..Len(stream) :
          stream[i].kind = "Applied" =>
              Vals(stream[i].before) = LastTold(stream, i - 1)
    /\ \A t \in Threads :
          /\ pc[t] \in {"load", "publish"} => before[t] = state
          /\ pc[t] \in {"clear", "announce"} =>
                /\ staged[t] = state
                /\ Vals(before[t]) = LastTold(stream, Len(stream))
    /\ (\A t \in Threads : pc[t] \notin {"clear", "announce"}) =>
          Vals(state) = LastTold(stream, Len(stream))

-----------------------------------------------------------------------------
LEMMA InitSerial == Init => SerialInv
  BY DEF Init, SerialInv, AtMostOne

LEMMA InitError == Init => ErrorInv
  BY DEF Init, ErrorInv

\* The attempt under way is alone, so what it reads of the handle is what it
\* left there; Begin is the only action that could end this.
LEMMA SerialStep == Types /\ SerialInv /\ [Next]_vars => SerialInv'
<1> SUFFICES ASSUME Types, SerialInv, [Next]_vars, ~ overlapped' PROVE SerialInv'
  BY DEF SerialInv
<1>0. ~ overlapped
  BY DEF Next, ReloadStep, Begin, ReadFile, FinishLoad, FailLoad, Publish, ClearError,
         EmitApplied, RecordError, EmitRejected, Write, vars, Types
<1> USE <1>0 DEF SerialInv, AtMostOne, Types
<1>1. ASSUME NEW t \in Threads, Begin(t) PROVE SerialInv'
  BY <1>1 DEF Begin
<1>2. ASSUME NEW t \in Threads, ReadFile(t) PROVE SerialInv'
  BY <1>2 DEF ReadFile
<1>3. ASSUME NEW t \in Threads, FinishLoad(t) PROVE SerialInv'
  BY <1>3 DEF FinishLoad
<1>4. ASSUME NEW t \in Threads, FailLoad(t) PROVE SerialInv'
  BY <1>4 DEF FailLoad, locals
<1>5. ASSUME NEW t \in Threads, Publish(t) PROVE SerialInv'
  BY <1>5 DEF Publish, locals
<1>6. ASSUME NEW t \in Threads, ClearError(t) PROVE SerialInv'
  BY <1>6 DEF ClearError, Return, locals
<1>7. ASSUME NEW t \in Threads, EmitApplied(t) PROVE SerialInv'
  BY <1>7 DEF EmitApplied, Return
<1>8. ASSUME NEW t \in Threads, RecordError(t) PROVE SerialInv'
  BY <1>8 DEF RecordError, locals
<1>9. ASSUME NEW t \in Threads, EmitRejected(t) PROVE SerialInv'
  BY <1>9 DEF EmitRejected, Return
<1>10. CASE (\E f \in Files : Write(f)) \/ UNCHANGED vars
  BY <1>10 DEF Write, locals, vars
<1> QED
  BY <1>1, <1>2, <1>3, <1>4, <1>5, <1>6, <1>7, <1>8, <1>9, <1>10 DEF Next, ReloadStep

LEMMA ErrorStep == Types /\ SerialInv /\ ErrorInv /\ [Next]_vars => ErrorInv'
<1> SUFFICES ASSUME Types, SerialInv, ErrorInv, [Next]_vars, ~ overlapped' PROVE ErrorInv'
  BY DEF ErrorInv
<1>0. ~ overlapped
  BY DEF Next, ReloadStep, Begin, ReadFile, FinishLoad, FailLoad, Publish, ClearError,
         EmitApplied, RecordError, EmitRejected, Write, vars, Types
<1> USE <1>0 DEF SerialInv, ErrorInv, AtMostOne, Types
<1>1. ASSUME NEW t \in Threads, Begin(t) PROVE ErrorInv'
  BY <1>1 DEF Begin
<1>2. ASSUME NEW t \in Threads, ReadFile(t) PROVE ErrorInv'
  BY <1>2 DEF ReadFile
<1>3. ASSUME NEW t \in Threads, FinishLoad(t) PROVE ErrorInv'
  BY <1>3 DEF FinishLoad
<1>4. ASSUME NEW t \in Threads, FailLoad(t) PROVE ErrorInv'
  BY <1>4 DEF FailLoad, locals
<1>5. ASSUME NEW t \in Threads, Publish(t) PROVE ErrorInv'
  BY <1>5 DEF Publish, locals
<1>6. ASSUME NEW t \in Threads, ClearError(t) PROVE ErrorInv'
  BY <1>6 DEF ClearError, Return, locals
<1>7. ASSUME NEW t \in Threads, EmitApplied(t) PROVE ErrorInv'
  BY <1>7 DEF EmitApplied, Return
<1>8. ASSUME NEW t \in Threads, RecordError(t) PROVE ErrorInv'
  BY <1>8, ReloadAssumption DEF RecordError, locals
<1>9. ASSUME NEW t \in Threads, EmitRejected(t) PROVE ErrorInv'
  BY <1>9 DEF EmitRejected, Return
<1>10. CASE (\E f \in Files : Write(f)) \/ UNCHANGED vars
  BY <1>10 DEF Write, locals, vars
<1> QED
  BY <1>1, <1>2, <1>3, <1>4, <1>5, <1>6, <1>7, <1>8, <1>9, <1>10 DEF Next, ReloadStep

LEMMA InductiveSerial == Spec => [](SerialInv /\ ErrorInv)
<1>1. IInv => Types
  BY DEF IInv, Core
<1> QED
  BY <1>1, InitSerial, InitError, SerialStep, ErrorStep, Inductive, PTL DEF Spec

\* Between attempts that take turns the active configuration is the most
\* recent one the loader returned, and last_error is None exactly when the most
\* recent attempt succeeded.
THEOREM SerialTellsLast == Spec => []SerialTellsLastAttempt
<1>1. SerialInv /\ ErrorInv => SerialTellsLastAttempt
  BY DEF SerialInv, ErrorInv, SerialTellsLastAttempt, KeepsMostRecentSuccess, Quiet
<1> QED
  BY <1>1, InductiveSerial, PTL

-----------------------------------------------------------------------------
(***************************************************************************)
(* What a subscriber has been told.                                        *)
(***************************************************************************)
\* The last of some positions: the least distance to n.
LEMMA LastOne ==
  ASSUME NEW n \in Nat, NEW S \in SUBSET (1..n), S # {}
  PROVE  \E m \in S : \A k \in S : k <= m
<1> DEFINE D == {n - s : s \in S}
<1>1. D \subseteq Nat /\ D # {}
  <2>1. \A s \in S : s \in 1..n
    OBVIOUS
  <2>2. \A s \in S : n - s \in Nat /\ n - s \in D
    BY <2>1
  <2> QED
    BY <2>2
<1> DEFINE Less == {p \in Nat \X Nat : p[1] < p[2]}
<1>2. IsWellFoundedOn(Less, Nat)
  BY NatLessThanWellFounded DEF OpToRel
<1> HIDE DEF Less
<1>3. PICK d \in D : \A e \in D : ~ (<<e, d>> \in Less)
  BY <1>1, <1>2, WFMin
<1>4. \A e \in D : ~ (e < d)
  BY <1>1, <1>3 DEF Less
<1>5. PICK m \in S : d = n - m
  OBVIOUS
<1>6. ASSUME NEW k \in S PROVE k <= m
  <2>1. n - k \in D
    OBVIOUS
  <2>2. ~ (n - k < n - m)
    BY <1>4, <1>5, <2>1
  <2> QED
    BY <2>2
<1> QED
  BY <1>6

LEMMA ToldIsLastTold ==
  ASSUME NEW i \in Nat \ {0} PROVE ToldBefore(i) = LastTold(stream, i - 1)
  BY DEF ToldBefore, LastTold

\* Only the events themselves count.
LEMMA ToldSame ==
  ASSUME NEW s, NEW u, NEW n \in Nat, \A j \in 1..n : s[j] = u[j]
  PROVE  LastTold(s, n) = LastTold(u, n)
<1> DEFINE S == {j \in 1..n : s[j].kind = "Applied"}
           U == {j \in 1..n : u[j].kind = "Applied"}
           m == CHOOSE j \in S : \A k \in S : k <= j
<1>1. S = U
  OBVIOUS
<1>2. CASE S = {}
  BY <1>1, <1>2 DEF LastTold
<1>3. CASE S # {}
  <2>1. m \in S
    BY <1>3, LastOne
  <2>2. s[m] = u[m]
    BY <2>1
  <2>3. LastTold(s, n) = Vals(s[m].after) /\ LastTold(u, n) = Vals(u[m].after)
    BY <1>1, <1>3 DEF LastTold
  <2> QED
    BY <2>2, <2>3
<1> QED
  BY <1>2, <1>3

LEMMA ToldApplied ==
  ASSUME NEW s, NEW n \in Nat, s[n + 1].kind = "Applied"
  PROVE  LastTold(s, n + 1) = Vals(s[n + 1].after)
<1> DEFINE S == {j \in 1..(n + 1) : s[j].kind = "Applied"}
           m == CHOOSE j \in S : \A k \in S : k <= j
<1>1. n + 1 \in S /\ \A k \in S : k <= n + 1
  OBVIOUS
<1>2. m \in S /\ \A k \in S : k <= m
  BY <1>1
<1>3. m = n + 1
  <2>1. m <= n + 1 /\ n + 1 <= m /\ m \in Int
    BY <1>1, <1>2
  <2> QED
    BY <2>1
<1>4. LastTold(s, n + 1) = Vals(s[m].after)
  BY <1>1 DEF LastTold
<1> QED
  BY <1>3, <1>4

LEMMA ToldRejected ==
  ASSUME NEW s, NEW n \in Nat, s[n + 1].kind # "Applied"
  PROVE  LastTold(s, n + 1) = LastTold(s, n)
<1> DEFINE S == {j \in 1..(n + 1) : s[j].kind = "Applied"}
           U == {j \in 1..n : s[j].kind = "Applied"}
           m == CHOOSE j \in S : \A k \in S : k <= j
<1>1. S = U
  <2>1. ASSUME NEW j \in 1..(n + 1), s[j].kind = "Applied" PROVE j \in 1..n
    BY <2>1
  <2>2. \A j \in 1..n : j \in 1..(n + 1)
    OBVIOUS
  <2> QED
    BY <2>1, <2>2
<1>2. CASE S = {}
  BY <1>1, <1>2 DEF LastTold
<1>3. CASE S # {}
  <2>1. LastTold(s, n + 1) = Vals(s[m].after) /\ LastTold(s, n) = Vals(s[m].after)
    BY <1>1, <1>3 DEF LastTold
  <2> QED
    BY <2>1
<1> QED
  BY <1>2, <1>3
-----------------------------------------------------------------------------
\* A new event says what it says, and the events before it what they said.
LEMMA ToldAppend ==
  ASSUME Types, NEW e \in Events
  PROVE  LET n == Len(stream)
             longer == Append(stream, e)
         IN  /\ \A k \in 0..n : LastTold(longer, k) = LastTold(stream, k)
             /\ e.kind = "Applied" => LastTold(longer, n + 1) = Vals(e.after)
             /\ e.kind # "Applied" => LastTold(longer, n + 1) = LastTold(stream, n)
<1> DEFINE n == Len(stream)
           longer == Append(stream, e)
<1>1. /\ n \in Nat /\ longer[n + 1] = e
      /\ \A i \in 1..n : longer[i] = stream[i]
  BY AppendedEvent
<1> HIDE DEF n, longer
<1>2. ASSUME NEW k \in 0..n PROVE LastTold(longer, k) = LastTold(stream, k)
  <2>1. k \in Nat /\ \A i \in 1..k : longer[i] = stream[i]
    BY <1>1
  <2> QED
    BY <2>1, ToldSame
<1>3. e.kind = "Applied" => LastTold(longer, n + 1) = Vals(e.after)
  BY <1>1, ToldApplied
<1>4. e.kind # "Applied" => LastTold(longer, n + 1) = LastTold(stream, n)
  BY <1>1, <1>2, ToldRejected
<1> QED
  BY <1>2, <1>3, <1>4 DEF n, longer

LEMMA InitFollow == Init => FollowInv
<1> SUFFICES ASSUME Init PROVE FollowInv
  OBVIOUS
<1>1. Len(stream) = 0
  BY EmptySeq DEF Init
<1>2. LastTold(stream, 0) = Vals(FirstConfig)
  BY DEF LastTold
<1> QED
  BY <1>1, <1>2 DEF Init, FollowInv

\* An event is emitted by the only attempt under way, from what it captured on
\* entry; a success that is left out has changed nothing.
LEMMA FollowStep == Types /\ SerialInv /\ FollowInv /\ [Next]_vars => FollowInv'
<1> SUFFICES ASSUME Types, SerialInv, FollowInv, [Next]_vars, ~ overlapped' PROVE FollowInv'
  BY DEF FollowInv
<1>0. ~ overlapped /\ AtMostOne
  BY DEF Next, ReloadStep, Begin, ReadFile, FinishLoad, FailLoad, Publish, ClearError,
         EmitApplied, RecordError, EmitRejected, Write, vars, Types, SerialInv
<1> USE <1>0 DEF FollowInv, AtMostOne, Types
<1> DEFINE told == LastTold(stream, Len(stream))
<1>1. ASSUME NEW t \in Threads, Begin(t) PROVE FollowInv'
  BY <1>1 DEF Begin
<1>2. ASSUME NEW t \in Threads, ReadFile(t) PROVE FollowInv'
  BY <1>2 DEF ReadFile
<1>3. ASSUME NEW t \in Threads, FinishLoad(t) PROVE FollowInv'
  BY <1>3 DEF FinishLoad
<1>4. ASSUME NEW t \in Threads, FailLoad(t) PROVE FollowInv'
  BY <1>4 DEF FailLoad, locals
<1>5. ASSUME NEW t \in Threads, Publish(t) PROVE FollowInv'
  BY <1>5 DEF Publish, locals
<1>6. ASSUME NEW t \in Threads, ClearError(t) PROVE FollowInv'
  BY <1>6 DEF ClearError, HadChanges, Return, locals
<1>7. ASSUME NEW t \in Threads, NEW e \in Events, stream' = Append(stream, e),
             pc[t] # "idle", pc' = [pc EXCEPT ![t] = "idle"], state' = state,
             e.kind = "Applied" => Vals(e.before) = told /\ Vals(e.after) = Vals(state),
             e.kind # "Applied" => Vals(state) = told
      PROVE  FollowInv'
  <2>1. LastTold(stream', Len(stream')) = Vals(state')
    BY <1>7, AppendedEvent, ToldAppend
  <2>2. ASSUME NEW i \in 1..Len(stream'), stream'[i].kind = "Applied"
        PROVE  Vals(stream'[i].before) = LastTold(stream', i - 1)
    <3>1. CASE i \in 1..Len(stream)
      <4>1. stream'[i] = stream[i] /\ i - 1 \in 0..Len(stream)
        BY <1>7, <3>1, AppendedEvent
      <4>2. LastTold(stream', i - 1) = LastTold(stream, i - 1)
        BY <1>7, <4>1, ToldAppend
      <4> QED
        BY <2>2, <3>1, <4>1, <4>2
    <3>2. CASE i = Len(stream) + 1
      <4>1. stream'[i] = e /\ i - 1 = Len(stream) /\ Len(stream) \in 0..Len(stream)
        BY <1>7, <3>2, AppendedEvent
      <4>2. LastTold(stream', i - 1) = told
        BY <1>7, <4>1, ToldAppend
      <4> QED
        BY <1>7, <2>2, <4>1, <4>2
    <3> QED
      BY <1>7, <3>1, <3>2, AppendedEvent
  <2>3. \A u \in Threads : pc'[u] = "idle"
    BY <1>7
  <2> QED
    BY <2>1, <2>2, <2>3
<1>8. ASSUME NEW t \in Threads, EmitApplied(t) PROVE FollowInv'
  <2>1. Applied(before[t], staged[t]) \in Events
    BY DEF Events
  <2>2. Vals(before[t]) = told /\ staged[t] = state /\ pc[t] = "announce"
    BY <1>8 DEF EmitApplied
  <2> QED
    BY <1>7, <1>8, <2>1, <2>2 DEF EmitApplied, Applied, Return
<1>9. ASSUME NEW t \in Threads, RecordError(t) PROVE FollowInv'
  BY <1>9 DEF RecordError, locals
<1>10. ASSUME NEW t \in Threads, EmitRejected(t) PROVE FollowInv'
  <2>1. Rejected(t, attempts[t]) \in Events
    BY DEF Events
  <2>2. Vals(state) = told /\ pc[t] = "reject"
    BY <1>10 DEF EmitRejected
  <2> QED
    BY <1>7, <1>10, <2>1, <2>2 DEF EmitRejected, Rejected, Return
<1>11. CASE (\E f \in Files : Write(f)) \/ UNCHANGED vars
  BY <1>11 DEF Write, locals, vars
<1> QED
  BY <1>1, <1>2, <1>3, <1>4, <1>5, <1>6, <1>8, <1>9, <1>10, <1>11 DEF Next, ReloadStep

LEMMA InductiveFollow == Spec => []FollowInv
<1>1. IInv => Types
  BY DEF IInv, Core
<1> QED
  BY <1>1, InitFollow, FollowStep, Inductive, InductiveSerial, PTL DEF Spec

LEMMA FollowTells ==
  ASSUME Types, FollowInv
  PROVE  SerialSubscribersFollow
<1> SUFFICES ASSUME ~ overlapped PROVE SerialSubscribersFollow
  BY DEF SerialSubscribersFollow
<1>1. Len(stream) \in Nat
  BY LenProperties DEF Types
<1>2. ASSUME NEW i \in 1..Len(stream), stream[i].kind = "Applied"
      PROVE  Vals(stream[i].before) = ToldBefore(i)
  BY <1>1, <1>2, ToldIsLastTold DEF FollowInv
<1>3. Quiet => Vals(state) = ToldBefore(Len(stream) + 1)
  BY <1>1, ToldIsLastTold DEF FollowInv, Quiet
<1> QED
  BY <1>2, <1>3 DEF SerialSubscribersFollow

\* With attempts that take turns a subscriber who applies the announced changes
\* has the active configuration between attempts, whoever leaves out no-ops.
THEOREM SubscribersFollow == Spec => []SerialSubscribersFollow
<1>1. IInv /\ FollowInv => SerialSubscribersFollow
  BY FollowTells DEF IInv, Core
<1> QED
  BY <1>1, Inductive, InductiveFollow, PTL

-----------------------------------------------------------------------------
(***************************************************************************)
(* A reload that nobody disturbs.                                          *)
(***************************************************************************)
\* Where an attempt stands that returns in the next step.
LEMMA ReturnSteps ==
  ASSUME Types, [Next]_vars, NEW t \in Threads, pc[t] # "idle", pc'[t] = "idle"
  PROVE  /\ UNCHANGED <<disk, state>>
         /\ \A u \in Threads : u # t => pc'[u] = pc[u]
         /\ \/ pc[t] = "clear" /\ lastError' = NoError
            \/ pc[t] = "announce" /\ UNCHANGED lastError
            \/ pc[t] = "reject" /\ UNCHANGED lastError
<1> USE DEF Types
<1>1. PICK u \in Threads : Begin(u) \/ ReloadStep(u)
  BY DEF Next, Write, vars
<1>2. u = t
  BY <1>1 DEF ReloadStep, Begin, ReadFile, FinishLoad, FailLoad, Publish, ClearError,
              EmitApplied, RecordError, EmitRejected, Return
<1>3. ClearError(t) \/ EmitApplied(t) \/ EmitRejected(t)
  BY <1>1, <1>2 DEF ReloadStep, Begin, ReadFile, FinishLoad, FailLoad, Publish, RecordError
<1> QED
  BY <1>3 DEF ClearError, EmitApplied, EmitRejected, Return

\* The layers of a successful load in which nobody wrote are the files' content.
LEMMA LoadedIsDisk ==
  ASSUME Core, NEW t \in Threads, pc[t] \in {"publish", "clear", "announce"},
         SameVersions(began[t], disk)
  PROVE  staged[t] = disk /\ Good(disk)
<1>1. staged[t] \in Configs /\ disk \in Configs /\ began[t] \in Configs
  BY DEF Core, Types
<1>2. Good(staged[t]) /\ NotNewer(began[t], staged[t]) /\ Earlier(staged[t], disk)
  BY DEF Core, Loaded, Past
<1>3. \A f \in Files : staged[t][f] = disk[f]
  BY <1>1, <1>2, VersionsTyped DEF NotNewer, Earlier, SameVersions
<1>4. staged[t] = disk
  BY <1>1, <1>3 DEF Configs
<1> QED
  BY <1>2, <1>4

\* Either the attempt has published what the files say, or it tells of an error
\* they have.
LEMMA ReturnShowsDisk ==
  ASSUME Core, FollowInv, [Next]_vars, ~ overlapped,
         NEW t \in Threads, pc[t] # "idle", pc'[t] = "idle", SameVersions(began[t], disk)
  PROVE  \/ Good(disk) /\ state = disk /\ pc[t] \in {"clear", "announce"}
         \/ ~ Good(disk) /\ pc[t] = "reject"
<1>1. Types
  BY DEF Core
<1>2. CASE pc[t] \in {"clear", "announce"}
  <2>1. staged[t] = disk /\ Good(disk)
    BY <1>2, LoadedIsDisk
  <2>2. state = staged[t]
    BY <1>2 DEF FollowInv
  <2> QED
    BY <1>2, <2>1, <2>2
<1>3. CASE pc[t] = "reject"
  BY <1>3 DEF Core, Refused
<1> QED
  BY <1>1, <1>2, <1>3, ReturnSteps

LEMMA ReturnReflectsDisk ==
  ASSUME Core, SerialInv, ErrorInv, FollowInv, [Next]_vars, Types', FollowInv',
         ~ overlapped, ~ overlapped',
         NEW t \in Threads, pc[t] # "idle", pc'[t] = "idle", SameVersions(began[t], disk)
  PROVE  ReflectsDisk'
<1>1. Types /\ AtMostOne
  BY DEF Core, SerialInv
<1>2. UNCHANGED <<disk, state>>
  BY <1>1, ReturnSteps
<1>3. CASE Good(disk) /\ state = disk /\ pc[t] \in {"clear", "announce"}
  <2>1. lastError' = NoError
    BY <1>1, <1>3, ReturnSteps DEF ErrorInv
  <2>2. \A u \in Threads : pc'[u] = "idle"
    BY <1>1, ReturnSteps DEF AtMostOne
  <2>3. Vals(state') = LastTold(stream', Len(stream'))
    BY <2>2 DEF FollowInv
  <2>4. Len(stream') \in Nat
    BY LenProperties DEF Types
  <2>5. ToldBefore(Len(stream) + 1)' = LastTold(stream', Len(stream'))
    BY <2>4 DEF ToldBefore, LastTold
  <2> QED
    BY <1>2, <1>3, <2>1, <2>3, <2>5 DEF ReflectsDisk, Good
<1>4. CASE ~ Good(disk) /\ pc[t] = "reject"
  <2>1. lastError' # NoError
    BY <1>1, <1>4, ReturnSteps DEF ErrorInv
  <2> QED
    BY <1>2, <1>4, <2>1 DEF ReflectsDisk, Good
<1> QED
  BY <1>3, <1>4, ReturnShowsDisk

\* A reload during which nobody writes, with attempts that take turns, leaves the
\* configuration, last_error and the events in accord with the files.
THEOREM UndisturbedReload == Spec => UndisturbedReloadReflectsDisk
<1>1. ASSUME IInv, SerialInv, ErrorInv, FollowInv, [Next]_vars, IInv', FollowInv',
             NEW t \in Threads, ~ overlapped, pc[t] # "idle", pc'[t] = "idle",
             \A f \in Files : began[t][f].ver = disk[f].ver
      PROVE  ReflectsDisk'
  <2>1. ~ overlapped'
    BY <1>1 DEF IInv, Core, Types, Next, ReloadStep, Begin, ReadFile, FinishLoad, FailLoad,
                Publish, ClearError, EmitApplied, RecordError, EmitRejected, Write, vars
  <2> QED
    BY <1>1, <2>1, ReturnReflectsDisk DEF IInv, Core, SameVersions
<1>2. IInv /\ SerialInv /\ ErrorInv /\ FollowInv /\ [Next]_vars /\ IInv' /\ FollowInv' =>
        [\A t \in Threads :
            /\ ~ overlapped
            /\ pc[t] # "idle" /\ pc'[t] = "idle"
            /\ \A f \in Files : began[t][f].ver = disk[f].ver
            => ReflectsDisk']_vars
  BY <1>1
<1> QED
  BY <1>2, Inductive, InductiveSerial, InductiveFollow, PTL
     DEF Spec, UndisturbedReloadReflectsDisk
=============================================================================
