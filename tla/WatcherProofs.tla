---------------------------- MODULE WatcherProofs ----------------------------
(***************************************************************************)
(* Proofs about the two watchers of a reload handle, PollingWatcher and    *)
(* NativeWatcher: for any number of threads, files, values and attempts,   *)
(* any debounce interval and any noise.                                    *)
(***************************************************************************)
EXTENDS PollingWatcher, NativeWatcher, ReloadHandleProofs, FiniteSetTheorems, FunctionTheorems

-----------------------------------------------------------------------------
(***************************************************************************)
(* Proofs about PollingWatcher, for any number of threads, files, values   *)
(* and attempts.  The watcher is a client of the handle (PollSpec implies  *)
(* ReloadHandle's Spec), and the only one, so all that ReloadHandleProofs  *)
(* shows of attempts that take turns holds without condition.              *)
(*                                                                         *)
(* PollInv says where the watcher is.  LookInv orders the times it works   *)
(* with: those of its first look, of its last look, of the scan under way, *)
(* of the disk when the reload began and of the disk now; as versions only *)
(* grow, two of them that are equal leave nothing between them.            *)
(***************************************************************************)
PollInv ==
    /\ poller \in Threads \cup {NoThread}
    /\ ppc \in {"unspawned", "first", "check", "sleep", "scan", "compare", "reload", "done"}
    /\ seen \in [Files -> Nat]
    /\ current \in [Files -> Nat]
    /\ base \in [Files -> Nat]
    /\ scan \in Files
    /\ stop \in BOOLEAN
    /\ owner \in {"none", "running", "joining", "gone"}
    /\ lateReloads \in Nat
    /\ ppc = "unspawned" <=> owner = "none"
    /\ ppc = "unspawned" <=> poller = NoThread
    /\ \A t \in Threads : pc[t] # "idle" => t = poller /\ ppc = "reload"
    /\ ~ overlapped

\* The flag, and how the watcher ends.
StopInv ==
    /\ stop <=> owner \in {"joining", "gone"}
    /\ owner = "gone" => ppc = "done"
    /\ ~ stop \/ ppc \in {"sleep", "scan", "compare"} => lateReloads = 0
    /\ lateReloads <= 1
    /\ ppc = "done" => stop \/ (poller \in StopOnError /\ result[poller] = "err")

\* If these are still the files' times, the program has caught up with them.
LoadedAt(times) == times = Times => ReflectsDisk

LookInv ==
    /\ \A f \in Files :
          /\ base[f] <= seen[f] /\ seen[f] <= Times[f] /\ current[f] <= Times[f]
          /\ ppc = "scan" /\ f < scan => seen[f] <= current[f]
          /\ ppc \in {"compare", "reload"} => seen[f] <= current[f]
          /\ ppc = "reload" /\ pc[poller] # "idle" => current[f] <= began[poller][f].ver
    /\ ppc \notin {"first", "scan"} => scan = 1
    /\ ppc \in {"unspawned", "first"} => seen = base
    /\ ppc = "reload" /\ pc[poller] = "idle" => LoadedAt(current)
    /\ ppc # "reload" /\ seen # base => LoadedAt(seen)

\* Whenever the watcher is not reloading, the times it saw last are those it has
\* reloaded for: if nothing was written since, and something was since its first
\* look, the program is in accord with the files.  So a change is never lost: it
\* is reloaded, or the next scan finds times other than those seen.
SeenIsLoaded == ppc # "reload" /\ seen = Times /\ Times # base => ReflectsDisk

-----------------------------------------------------------------------------
LEMMA InitPollInv == PollInit => PollInv
<1> SUFFICES ASSUME PollInit PROVE PollInv
  OBVIOUS
<1>1. NoTimes \in [Files -> Nat] /\ 1 \in Files
  BY FirstConfigOK DEF NoTimes
<1>2. pc = [t \in Threads |-> "idle"] /\ overlapped = FALSE
  BY DEF PollInit, Init
<1> QED
  BY <1>1, <1>2 DEF PollInit, PollInv

\* Each action of the watcher and its surroundings is one of the handle, or none.
LEMMA ClientStep == PollInv /\ [PollNext]_allvars => [Next]_vars
<1> SUFFICES ASSUME PollInv, [PollNext]_allvars PROVE [Next]_vars
  OBVIOUS
<1>1. ASSUME StartReload PROVE Next
  <2>1. poller \in Threads
    BY <1>1 DEF StartReload, PollInv
  <2> QED
    BY <1>1, <2>1 DEF StartReload, Next
<1>2. ASSUME poller # NoThread, ReloadStep(poller) PROVE Next
  <2>1. poller \in Threads
    BY <1>2 DEF PollInv
  <2> QED
    BY <1>2, <2>1 DEF Next
<1>3. ASSUME NEW f \in Files, Write(f) PROVE Next
  BY <1>3 DEF Next
<1>4. CASE UNCHANGED vars
  BY <1>4
<1> QED
  BY <1>1, <1>2, <1>3, <1>4
     DEF PollNext, PollerStep, Spawn, FirstLook, CheckStop, Wake, Look, SameTimes,
         AfterReload, Stop, Join, allvars

\* The files' times are natural numbers.
LEMMA TimesTyped == Types => Times \in [Files -> Nat]
  BY VersionsTyped DEF Types, Times

\* What a step of a reload leaves alone: it ends the attempt of its own thread or
\* goes on with it.
LEMMA ReloadStepFrame ==
  ASSUME Types, NEW t \in Threads, ReloadStep(t)
  PROVE  /\ pc[t] # "idle"
         /\ \A u \in Threads : u # t => pc'[u] = pc[u]
         /\ UNCHANGED <<disk, overlapped>>
         /\ pc'[t] # "idle" => began'[t] = began[t]
  BY DEF ReloadStep, ReadFile, FinishLoad, FailLoad, Publish, ClearError, EmitApplied,
         RecordError, EmitRejected, Return, locals, Types

LEMMA PollInvStep == Types /\ PollInv /\ [PollNext]_allvars => PollInv'
<1> SUFFICES ASSUME Types, PollInv, [PollNext]_allvars PROVE PollInv'
  OBVIOUS
<1> USE FirstConfigOK DEF PollInv
<1>0. Times \in [Files -> Nat]
  BY TimesTyped
<1>1. ASSUME NEW t \in Threads, Spawn(t) PROVE PollInv'
  BY <1>1, PollingAssumption DEF Spawn, vars
<1>2. ASSUME ppc \in {"first", "scan"}, scan # NumFiles PROVE scan + 1 \in Files
  BY <1>2, ReloadAssumption DEF Files
<1>3. CASE FirstLook
  <2>1. seen' \in [Files -> Nat] /\ base' = seen'
    BY <1>0, <1>3 DEF FirstLook
  <2>2. scan' \in Files /\ ppc' \in {"first", "check"}
    BY <1>2, <1>3 DEF FirstLook
  <2> QED
    BY <1>3, <2>1, <2>2 DEF FirstLook, vars
<1>4. CASE CheckStop \/ Wake \/ SameTimes
  BY <1>4 DEF CheckStop, Wake, SameTimes, vars
<1>10. CASE Stop \/ Join
  <2>1. stop' \in BOOLEAN
    BY <1>10, Zenon DEF Stop, Join
  <2>2. /\ owner \in {"running", "joining"} /\ owner' \in {"joining", "gone"}
        /\ UNCHANGED <<pc, overlapped, poller, ppc, seen, current, scan, base, lateReloads>>
    BY <1>10 DEF Stop, Join, vars
  <2> QED
    BY <2>1, <2>2
<1>5. CASE Look
  BY <1>0, <1>2, <1>5 DEF Look, vars
<1>6. CASE StartReload
  BY <1>6 DEF StartReload, Begin, Types
<1>7. CASE AfterReload
  BY <1>7 DEF AfterReload, vars
<1>8. CASE poller # NoThread /\ ReloadStep(poller) /\ UNCHANGED pvars
  BY <1>8, ReloadStepFrame DEF pvars
<1>9. CASE (\E f \in Files : Write(f) /\ UNCHANGED pvars) \/ UNCHANGED allvars
  BY <1>9 DEF Write, pvars, allvars, vars
<1> QED
  BY <1>1, <1>3, <1>4, <1>5, <1>6, <1>7, <1>8, <1>9, <1>10 DEF PollNext, PollerStep

LEMMA InductivePoll == PollSpec => [](Types /\ PollInv)
<1>1. PollInit => Types /\ PollInv
  BY InitTypes, InitPollInv DEF PollInit
<1>2. Types /\ PollInv /\ [PollNext]_allvars => Types' /\ PollInv'
  BY ClientStep, TypesStep, PollInvStep
<1> QED
  BY <1>1, <1>2, PTL DEF PollSpec

\* The polling watcher, its owner and the writers of the files do with the handle
\* only what ReloadHandle allows, so what is proved of it holds of them.
THEOREM PollingIsClient == PollSpec => Spec
<1>1. PollInit => Init
  BY DEF PollInit
<1>2. Types /\ PollInv /\ [PollNext]_allvars => [Next]_vars
  BY ClientStep
<1> QED
  BY <1>1, <1>2, InductivePoll, PTL DEF PollSpec, Spec

\* Where the polling watcher is the only one that reloads, attempts never overlap:
\* the active configuration is always the most recent one the loader returned,
\* last_error tells how the last attempt ended, and subscribers can follow.
THEOREM PollingIsSerial ==
    PollSpec => [](KeepsMostRecentSuccess /\ SerialTellsLastAttempt
                    /\ SerialSubscribersFollow /\ ~ overlapped)
<1>1. PollInv => ~ overlapped
  BY DEF PollInv
<1>2. ~ overlapped /\ SerialTellsLastAttempt => KeepsMostRecentSuccess
  BY DEF SerialTellsLastAttempt
<1> QED
  BY <1>1, <1>2, InductivePoll, PollingIsClient, SerialTellsLast, SubscribersFollow, PTL

-----------------------------------------------------------------------------
(***************************************************************************)
(* stop() and the end of the watcher.                                      *)
(***************************************************************************)
LEMMA InitStopInv == PollInit => StopInv
  BY DEF PollInit, StopInv

LEMMA StopInvStep == Types /\ PollInv /\ StopInv /\ [PollNext]_allvars => StopInv'
<1> SUFFICES ASSUME Types, PollInv, StopInv, [PollNext]_allvars PROVE StopInv'
  OBVIOUS
<1> USE DEF StopInv
<1>1. ASSUME NEW t \in Threads, Spawn(t) PROVE StopInv'
  BY <1>1 DEF Spawn, vars, PollInv
<1>2. CASE FirstLook
  BY <1>2 DEF FirstLook, vars
<1>3. CASE CheckStop
  BY <1>3 DEF CheckStop, vars
<1>4. CASE Wake \/ SameTimes
  BY <1>4 DEF Wake, SameTimes, vars
<1>5. CASE Look
  BY <1>5 DEF Look, vars
<1>6. CASE StartReload
  BY <1>6 DEF StartReload, Begin
<1>7. CASE AfterReload
  BY <1>7 DEF AfterReload, vars
<1>8. CASE Stop \/ Join
  BY <1>8 DEF Stop, Join, vars
<1>9. CASE poller # NoThread /\ ReloadStep(poller) /\ UNCHANGED pvars
  <2>1. ppc = "reload"
    BY <1>9, ReloadStepFrame DEF PollInv
  <2> QED
    BY <1>9, <2>1 DEF pvars
<1>10. CASE (\E f \in Files : Write(f) /\ UNCHANGED pvars) \/ UNCHANGED allvars
  BY <1>10 DEF Write, pvars, allvars, vars
<1> QED
  BY <1>1, <1>2, <1>3, <1>4, <1>5, <1>6, <1>7, <1>8, <1>9, <1>10 DEF PollNext, PollerStep

\* Once stop() has returned the watcher does nothing, at most one reload begins
\* after the flag is set, and the watcher ends by itself only after a failure and
\* under StopWatcher.
THEOREM StopsWhenTold == PollSpec => []StopsAsTold
<1>1. PollInv /\ StopInv => StopsAsTold
  BY DEF PollInv, StopInv, StopsAsTold
<1> QED
  BY <1>1, InitStopInv, StopInvStep, InductivePoll, PTL DEF PollSpec

-----------------------------------------------------------------------------
(***************************************************************************)
(* No change is lost.                                                      *)
(***************************************************************************)
LEMMA InitLookInv == PollInit => LookInv
<1> SUFFICES ASSUME PollInit PROVE LookInv
  OBVIOUS
<1>1. \A f \in Files : Times[f] = 0
  BY DEF PollInit, Init, Times, FirstConfig
<1> QED
  BY <1>1 DEF PollInit, LookInv, NoTimes

\* Without a step of the handle, what the program has caught up with stays.
LEMMA CaughtUpFrame == UNCHANGED vars => (Times' = Times) /\ (ReflectsDisk => ReflectsDisk')
  BY DEF Times, ReflectsDisk, ToldBefore, Good, Vals, vars

\* After a write the times of an earlier look are no longer the files' times.
LEMMA NewTimes ==
  ASSUME Types, NEW times \in [Files -> Nat], \A f \in Files : times[f] <= Times[f],
         NEW f \in Files, Write(f)
  PROVE  times # Times' /\ \A g \in Files : Times[g] <= Times'[g]
<1>0. disk \in Configs /\ \A g \in Files : disk[g].ver \in Nat
  BY VersionsTyped DEF Types
<1>1. disk'[f].ver = disk[f].ver + 1 /\ \A g \in Files : g # f => disk'[g] = disk[g]
  BY <1>0 DEF Write, Configs
<1>2. \A g \in Files : Times'[g] = disk'[g].ver /\ Times[g] = disk[g].ver
  BY DEF Times
<1>3. times[f] # Times'[f]
  BY <1>0, <1>1, <1>2
<1> QED
  BY <1>0, <1>1, <1>2, <1>3

\* The attempt of the watcher that returns: the scan came before it, so times that
\* are still the same mean that nobody wrote while it ran.
LEMMA ReloadLookStep ==
  ASSUME Core, PollInv, LookInv, SerialInv, ErrorInv, FollowInv, Types', FollowInv',
         poller # NoThread, ReloadStep(poller), UNCHANGED pvars
  PROVE  LookInv'
<1>1. /\ poller \in Threads /\ Types /\ ~ overlapped /\ ~ overlapped'
      /\ UNCHANGED disk
      /\ pc[poller] # "idle" /\ ppc = "reload"
      /\ pc'[poller] # "idle" => began'[poller] = began[poller]
  BY ReloadStepFrame DEF PollInv, Core
<1>2. Next
  BY <1>1 DEF Next
<1>3. Times' = Times /\ Times \in [Files -> Nat]
  BY <1>1, TimesTyped DEF Times
<1>4. ASSUME pc'[poller] = "idle", current = Times PROVE ReflectsDisk'
  <2>1. \A f \in Files : current[f] <= began[poller][f].ver
    BY <1>1 DEF LookInv
  <2>2. NotNewer(began[poller], disk) /\ began[poller] \in Configs /\ disk \in Configs
    BY <1>1, EarlierIsNotNewer DEF Core, Past, Types
  <2>3. SameVersions(began[poller], disk)
    BY <1>4, <2>1, <2>2, VersionsTyped DEF NotNewer, SameVersions, Times
  <2> QED
    BY <1>1, <1>2, <1>4, <2>3, ReturnReflectsDisk
<1> QED
  BY <1>1, <1>3, <1>4 DEF LookInv, LoadedAt, pvars

LEMMA LookInvStep ==
  ASSUME Core, PollInv, LookInv, SerialInv, ErrorInv, FollowInv, Types', FollowInv',
         [PollNext]_allvars
  PROVE  LookInv'
<1>1. /\ Types /\ Times \in [Files -> Nat] /\ scan \in Files
      /\ seen \in [Files -> Nat] /\ current \in [Files -> Nat] /\ base \in [Files -> Nat]
  BY TimesTyped DEF Core, PollInv
<1>2. UNCHANGED vars =>
        /\ Times' = Times /\ pc' = pc /\ began' = began
        /\ ReflectsDisk => ReflectsDisk'
  BY CaughtUpFrame DEF vars, locals
<1> USE DEF LookInv, LoadedAt
<1>3. ASSUME NEW t \in Threads, Spawn(t) PROVE LookInv'
  BY <1>1, <1>2, <1>3 DEF Spawn, PollInv
<1>4. CASE FirstLook
  <2>1. /\ ppc = "first" /\ base' = seen' /\ UNCHANGED <<vars, current, poller>>
        /\ seen' = [seen EXCEPT ![scan] = Times[scan]]
        /\ ppc' \in {"first", "check"} /\ (ppc' = "check" => scan' = 1)
    BY <1>4 DEF FirstLook
  <2>2. \A f \in Files : base'[f] <= seen'[f] /\ seen'[f] <= Times[f]
    BY <1>1, <2>1
  <2> QED
    BY <1>2, <2>1, <2>2
<1>5. CASE CheckStop
  BY <1>1, <1>2, <1>5 DEF CheckStop
<1>14. CASE Wake
  BY <1>1, <1>2, <1>14 DEF Wake, Files
<1>13. CASE Stop \/ Join
  BY <1>1, <1>2, <1>13 DEF Stop, Join
<1>6. CASE Look
  <2>1. /\ ppc = "scan" /\ UNCHANGED <<vars, poller, seen, base>>
        /\ current' = [current EXCEPT ![scan] = Times[scan]]
        /\ \/ ppc' = "compare" /\ scan = NumFiles /\ scan' = 1
           \/ ppc' = "scan" /\ scan' = scan + 1
    BY <1>6 DEF Look
  <2>2. \A f \in Files : current'[f] <= Times[f] /\ (f <= scan => seen[f] <= current'[f])
    <3>1. current'[scan] = Times[scan] /\ seen[scan] <= Times[scan]
      BY <1>1, <2>1
    <3>2. \A f \in Files : f # scan => current'[f] = current[f] /\ (f <= scan => f < scan)
      BY <1>1, <2>1 DEF Files
    <3> QED
      BY <1>1, <2>1, <3>1, <3>2
  <2>3. ASSUME NEW f \in Files PROVE (scan = NumFiles => f <= scan) /\ (f < scan + 1 => f <= scan)
    <3>1. f \in Nat /\ scan \in Nat /\ f <= NumFiles
      BY <1>1, ReloadAssumption DEF Files
    <3> QED
      BY <3>1
  <2> QED
    BY <1>2, <2>1, <2>2, <2>3
<1>7. CASE SameTimes
  BY <1>1, <1>2, <1>7 DEF SameTimes
<1>8. CASE StartReload
  BY <1>1, <1>8 DEF StartReload, Begin, Times, Types, PollInv
<1>9. CASE AfterReload
  BY <1>1, <1>2, <1>9 DEF AfterReload
<1>10. CASE poller # NoThread /\ ReloadStep(poller) /\ UNCHANGED pvars
  BY <1>10, ReloadLookStep
<1>11. ASSUME NEW f \in Files, Write(f), UNCHANGED pvars PROVE LookInv'
  <2>1. /\ seen # Times' /\ current # Times'
        /\ \A g \in Files : Times[g] <= Times'[g] /\ Times'[g] \in Nat
    BY <1>1, <1>11, NewTimes, VersionsTyped DEF Types, Times
  <2>2. \A g \in Files : seen[g] <= Times'[g] /\ current[g] <= Times'[g]
    BY <1>1, <2>1
  <2>3. UNCHANGED <<pc, began, poller, ppc, seen, current, base, scan>>
    BY <1>11 DEF Write, locals, pvars
  <2> QED
    BY <2>1, <2>2, <2>3
<1>12. CASE UNCHANGED allvars
  BY <1>1, <1>2, <1>12 DEF allvars, pvars
<1> QED
  BY <1>3, <1>4, <1>5, <1>6, <1>7, <1>8, <1>9, <1>10, <1>11, <1>12, <1>13,
     <1>14 DEF PollNext, PollerStep

LEMMA InductiveLook == PollSpec => []LookInv
<1>1. /\ IInv => Core
      /\ Core => Types
  BY DEF IInv, Core
<1>2. Core /\ PollInv /\ LookInv /\ SerialInv /\ ErrorInv /\ FollowInv /\ Types' /\ FollowInv'
        /\ [PollNext]_allvars => LookInv'
  BY LookInvStep
<1> QED
  BY <1>1, <1>2, InitLookInv, InductivePoll, PollingIsClient, Inductive, InductiveSerial,
     InductiveFollow, PTL DEF PollSpec

\* The safety part of WatcherCatchesUp: with fairness it remains that the watcher
\* comes round to its next look.
THEOREM NoChangeIsLost == PollSpec => []SeenIsLoaded
<1>1. LookInv => SeenIsLoaded
  BY DEF LookInv, LoadedAt, SeenIsLoaded
<1> QED
  BY <1>1, InductiveLook, PTL

-----------------------------------------------------------------------------
(***************************************************************************)
(* Proofs about NativeWatcher, for any number of threads, files, values    *)
(* and attempts, any debounce interval and any noise.                      *)
(*                                                                         *)
(* The watcher is not quite a client of the handle: it records watch errors*)
(* in last_error by itself.  All else it does there is ReloadHandle's, so  *)
(* what is proved of the handle without last_error holds here as well.     *)
(*                                                                         *)
(* A relevant event is somewhere between a write and the reload it causes: *)
(* not yet delivered, in the channel, or turned into a deadline.  CauseInv *)
(* counts these, and SettledInv says that while there are none the files   *)
(* are as the last reload found them.  EndInv says that Stop stays in the  *)
(* channel until the loop receives it, which is why at most one reload     *)
(* begins that late: a wait ends only on an empty channel.                 *)
(***************************************************************************)
FileEvents == {WriteOf(f) : f \in Files} \cup {ReadOf(f) : f \in Files}
Received == FileEvents \cup {Rescan, Neighbour, WatchError, StopMessage}

NativeInv ==
    /\ native \in Threads \cup {NoLoop}
    /\ npc \in {"unspawned", "recv", "debounce", "due", "reload", "done"}
    /\ timer \in Nat
    /\ registered \in BOOLEAN
    /\ reported \in Seq(FileEvents)
    /\ channel \in Seq(Received)
    /\ nativeOwner \in {"none", "starting", "running", "stopping", "joining", "gone", "failed"}
    /\ causes \in Nat
    /\ reloadsAfterStop \in Nat
    /\ npc = "unspawned" <=> native = NoLoop
    /\ npc = "unspawned" <=> nativeOwner \in {"none", "starting", "failed"}
    /\ nativeOwner \in {"starting", "running"} => registered
    /\ \A t \in Threads :
          /\ pc[t] # "idle" => t = native /\ npc = "reload"
          /\ t # native => attempts[t] = 0
    /\ ~ overlapped

\* A message that makes the watcher reload.
Relevant(m) == m.type = "event" /\ RequiresReload(m)

RelevantIn(s) == {i \in 1..Len(s) : Relevant(s[i])}

CountRelevant(s) == Cardinality(RelevantIn(s))

CauseInv ==
    (IF native = NoLoop THEN 0 ELSE attempts[native])
      + (IF npc \in {"debounce", "due"} THEN 1 ELSE 0)
      + CountRelevant(channel) + CountRelevant(reported)
      <= causes

\* Stop is in the channel only while its sender waits for the loop, and a reload that
\* has begun in spite of it was the last: it stays until the loop has received it.
EndInv ==
    /\ StopWaits(channel) => nativeOwner = "joining" /\ npc # "done"
    /\ reloadsAfterStop <= 1
    /\ reloadsAfterStop = 1 => \/ npc \in {"recv", "debounce", "reload"} /\ StopWaits(channel)
                               \/ npc = "done"
    /\ nativeOwner = "gone" => npc = "done"
    /\ npc = "done" => \/ nativeOwner \in {"joining", "gone"}
                       \/ native \in StopOnError /\ result[native] = "err"

\* No relevant event is under way.
Settled == RelevantIn(reported) = {} /\ RelevantIn(channel) = {}

CaughtUp == IF Good(disk) THEN state = disk ELSE lastError # NoError

SettledInv ==
    /\ \A t \in Threads : pc[t] = "reject" => lastError # NoError
    /\ nativeOwner = "running" /\ Settled =>
          /\ npc = "reload" =>
                IF pc[native] = "idle" THEN CaughtUp ELSE SameVersions(began[native], disk)
          /\ npc = "recv" /\ WatchedTimes # startTimes => CaughtUp

\* While a running watcher waits and no relevant event is under way, the program
\* has caught up with every write since start_native returned: each was reloaded,
\* also one made while a reload was reading the files.
NothingIsLost ==
    nativeOwner = "running" /\ npc = "recv" /\ Settled /\ WatchedTimes # startTimes => CaughtUp

-----------------------------------------------------------------------------
(***************************************************************************)
(* Counting the relevant events of a queue.                                *)
(***************************************************************************)
LEMMA RelevantMessages ==
  /\ \A f \in Files : Relevant(WriteOf(f)) /\ ~ Relevant(ReadOf(f))
  /\ Relevant(Rescan) /\ ~ Relevant(Neighbour)
  /\ ~ Relevant(WatchError) /\ ~ Relevant(StopMessage)
  BY ReloadAssumption DEF Relevant, RequiresReload, WriteOf, ReadOf, Rescan, Neighbour, OtherPath,
     WatchError, StopMessage, Files

LEMMA CountTyped ==
  ASSUME NEW S, NEW s \in Seq(S)
  PROVE  /\ IsFiniteSet(RelevantIn(s))
         /\ CountRelevant(s) \in Nat
         /\ RelevantIn(s) = {} <=> CountRelevant(s) = 0
<1>1. Len(s) \in Nat /\ IsFiniteSet(1..Len(s))
  BY LenProperties, FS_Interval
<1>2. RelevantIn(s) \in SUBSET (1..Len(s))
  BY DEF RelevantIn
<1>3. IsFiniteSet(RelevantIn(s))
  BY <1>1, <1>2, FS_Subset
<1> QED
  BY <1>3, FS_CardinalityType, FS_EmptySet DEF CountRelevant

LEMMA CountEmpty == RelevantIn(<<>>) = {} /\ CountRelevant(<<>>) = 0
<1>1. RelevantIn(<<>>) = {}
  BY DEF RelevantIn
<1> QED
  BY <1>1, FS_EmptySet DEF CountRelevant

LEMMA CountAppend ==
  ASSUME NEW S, NEW s \in Seq(S), NEW m \in S
  PROVE  CountRelevant(Append(s, m)) = CountRelevant(s) + (IF Relevant(m) THEN 1 ELSE 0)
<1> DEFINE n == Len(s)
           longer == Append(s, m)
<1>1. /\ n \in Nat /\ Len(longer) = n + 1 /\ longer[n + 1] = m
      /\ \A i \in 1..n : longer[i] = s[i]
  BY AppendProperties, LenProperties
<1>2. IsFiniteSet(RelevantIn(s)) /\ CountRelevant(s) \in Nat
  BY CountTyped
<1>3. n + 1 \notin RelevantIn(s)
  BY <1>1 DEF RelevantIn
<1>4. \A i : i \in 1..(n + 1) <=> i \in 1..n \/ i = n + 1
  BY <1>1
<1> HIDE DEF n, longer
<1>5. CASE Relevant(m)
  <2>1. RelevantIn(longer) = RelevantIn(s) \cup {n + 1}
    BY <1>1, <1>4, <1>5 DEF RelevantIn, n
  <2> QED
    BY <1>2, <1>3, <1>5, <2>1, FS_AddElement DEF CountRelevant, longer
<1>6. CASE ~ Relevant(m)
  <2>1. RelevantIn(longer) = RelevantIn(s)
    BY <1>1, <1>4, <1>6 DEF RelevantIn, n
  <2> QED
    BY <1>2, <1>6, <2>1 DEF CountRelevant, longer
<1> QED
  BY <1>5, <1>6

\* The positions of the tail's relevant events are those of the others, shifted.
LEMMA CountTail ==
  ASSUME NEW S, NEW s \in Seq(S), s # <<>>
  PROVE  CountRelevant(s) = CountRelevant(Tail(s)) + (IF Relevant(Head(s)) THEN 1 ELSE 0)
<1> DEFINE n == Len(s)
           T == RelevantIn(Tail(s))
           U == RelevantIn(s) \ {1}
           shift == [i \in T |-> i + 1]
<1>1. /\ n \in Nat \ {0} /\ Head(s) = s[1] /\ Tail(s) \in Seq(S)
      /\ Len(Tail(s)) = n - 1 /\ \A i \in 1..(n - 1) : Tail(s)[i] = s[i + 1]
  BY HeadTailProperties, LenProperties, EmptySeq
<1>2. IsFiniteSet(T) /\ IsFiniteSet(RelevantIn(s)) /\ Cardinality(RelevantIn(s)) \in Nat
  BY <1>1, CountTyped DEF CountRelevant
<1>3. \A i : i \in T <=> i \in 1..(n - 1) /\ Relevant(s[i + 1])
  BY <1>1 DEF RelevantIn
<1>4. \A i : i \in U <=> i \in 2..n /\ Relevant(s[i])
  BY <1>1 DEF RelevantIn
<1> HIDE DEF n, T, U
<1>5. shift \in Bijection(T, U)
  <2>1. \A i \in T : i \in Int /\ i + 1 \in U
    BY <1>1, <1>3, <1>4
  <2>2. shift \in [T -> U]
    BY <2>1
  <2>3. \A i, j \in T : shift[i] = shift[j] => i = j
    BY <2>1
  <2>4. ASSUME NEW k \in U PROVE \E i \in T : shift[i] = k
    <3>1. k - 1 \in T /\ (k - 1) + 1 = k
      BY <1>1, <1>3, <1>4
    <3> QED
      BY <3>1
  <2> QED
    BY <2>2, <2>3, <2>4, Fun_IsBij
<1>6. Cardinality(U) = Cardinality(T)
  BY <1>2, <1>5, FS_Bijection DEF ExistsBijection
<1>7. 1 \in RelevantIn(s) <=> Relevant(Head(s))
  BY <1>1 DEF RelevantIn, n
<1>8. Cardinality(U) = IF 1 \in RelevantIn(s) THEN Cardinality(RelevantIn(s)) - 1
                       ELSE Cardinality(RelevantIn(s))
  BY <1>2, FS_RemoveElement DEF U
<1> QED
  BY <1>2, <1>6, <1>7, <1>8 DEF CountRelevant, T
-----------------------------------------------------------------------------
(***************************************************************************)
(* What the watcher does with the handle.                                  *)
(***************************************************************************)
\* A watch error is recorded, and nothing else of the handle changes.
NoteError ==
    /\ lastError' \in Threads \X Nat
    /\ UNCHANGED <<disk, state, stream, pc, attempts, result, before, staged, cursor,
                   began, lastLoaded, lastOutcome, overlapped>>

LEMMA InitNativeInv == NativeInit => NativeInv
<1> SUFFICES ASSUME NativeInit PROVE NativeInv
  OBVIOUS
<1>1. reported \in Seq(FileEvents) /\ channel \in Seq(Received)
  BY EmptySeq, Zenon DEF NativeInit
<1>2. /\ pc = [t \in Threads |-> "idle"] /\ attempts = [t \in Threads |-> 0]
      /\ overlapped = FALSE
  BY DEF NativeInit, Init
<1> QED
  BY <1>1, <1>2 DEF NativeInit, NativeInv

LEMMA HandleStep ==
  ASSUME NativeInv, [NativeNext]_nativevars
  PROVE  [Next]_vars \/ (npc \in {"recv", "debounce"} /\ NoteError)
<1>1. ASSUME NEW m, npc \in {"recv", "debounce"}, HandleMessage(m)
      PROVE  UNCHANGED vars \/ NoteError
  <2>1. native \in Threads
    BY <1>1 DEF NativeInv
  <2>2. <<native, 0>> \in Threads \X Nat
    BY <2>1
  <2> QED
    BY <1>1, <2>2 DEF HandleMessage, NoteError, vars, locals
<1>2. ASSUME Recv PROVE UNCHANGED vars \/ (npc \in {"recv", "debounce"} /\ NoteError)
  BY <1>1, <1>2 DEF Recv
<1>3. ASSUME StartNativeReload \/ Reload PROVE Next
  <2>1. native \in Threads
    BY <1>3 DEF StartNativeReload, Reload, NativeInv
  <2> QED
    BY <1>3, <2>1 DEF StartNativeReload, Reload, Next
<1>4. ASSUME NEW f \in Files, WriteWatched(f) PROVE Next
  BY <1>4 DEF WriteWatched, Next
<1>5. CASE UNCHANGED vars
  BY <1>5
<1> QED
  BY <1>2, <1>3, <1>4, <1>5
     DEF NativeNext, LoopStep, Register, RegisterFails, SpawnLoop, Tick, Timeout, AfterNativeReload,
         Deliver, Noise, DropWatcher, SendStop, JoinLoop, nativevars

LEMMA NativeHandle ==
  ASSUME Core, SerialInv, FollowInv, NativeInv, [NativeNext]_nativevars
  PROVE  Core' /\ SerialInv' /\ FollowInv'
<1>1. Types
  BY DEF Core
<1>2. CASE [Next]_vars
  BY <1>1, <1>2, CoreStep, SerialStep, FollowStep
<1>3. CASE NoteError
  <2>1. Types'
    BY <1>1, <1>3 DEF NoteError, Types
  <2>2. /\ StateIsGood' /\ Earlier(state, disk)' /\ Earlier(FirstConfig, disk)'
        /\ EventsLeadForward'
    BY <1>3 DEF NoteError, Core, StateIsGood, EventsLeadForward, Earlier, Good, Vals
  <2>3. ASSUME NEW t \in Threads PROVE Past(t)' /\ Reading(t)' /\ Loaded(t)' /\ Refused(t)'
    BY <1>3 DEF NoteError, Core, Past, Reading, Loaded, Refused, Earlier, NotNewer,
                SameVersions, Good, Vals
  <2>4. SerialInv' /\ FollowInv'
    BY <1>3 DEF NoteError, SerialInv, FollowInv, AtMostOne
  <2> QED
    BY <2>1, <2>2, <2>3, <2>4 DEF Core
<1> QED
  BY <1>2, <1>3, HandleStep

\* What the step of a reload leaves alone.
LEMMA NativeReloadFrame ==
  ASSUME Types, NEW t \in Threads, ReloadStep(t)
  PROVE  /\ pc[t] # "idle"
         /\ \A u \in Threads : u # t => pc'[u] = pc[u]
         /\ UNCHANGED <<disk, attempts, overlapped>>
         /\ pc'[t] # "idle" => began'[t] = began[t]
  BY DEF ReloadStep, ReadFile, FinishLoad, FailLoad, Publish, ClearError, EmitApplied,
         RecordError, EmitRejected, Return, locals, Types

LEMMA QueueTypes ==
  ASSUME NativeInv
  PROVE  /\ FileEvents \subseteq Received
         /\ \A m \in Received : Append(channel, m) \in Seq(Received)
         /\ channel # <<>> => Head(channel) \in Received /\ Tail(channel) \in Seq(Received)
         /\ \A m \in FileEvents : Append(reported, m) \in Seq(FileEvents)
         /\ reported # <<>> => Head(reported) \in FileEvents /\ Tail(reported) \in Seq(FileEvents)
         /\ <<>> \in Seq(Received) /\ <<>> \in Seq(FileEvents)
  BY AppendProperties, HeadTailProperties, EmptySeq DEF NativeInv, Received

LEMMA NativeInvStep ==
  ASSUME Types, NativeInv, [NativeNext]_nativevars
  PROVE  NativeInv'
<1> USE DEF NativeInv
<1>1. CASE Register
  BY <1>1 DEF Register, vars
<1>2. CASE RegisterFails
  BY <1>2, QueueTypes DEF RegisterFails, vars
<1>3. ASSUME NEW t \in Threads, SpawnLoop(t) PROVE NativeInv'
  <2>1. \A u \in Threads : pc[u] = "idle" /\ attempts[u] = 0
    BY <1>3, NativeAssumption DEF SpawnLoop
  <2>2. native' \in Threads /\ native' # NoLoop
    BY <1>3, NativeAssumption DEF SpawnLoop
  <2> QED
    BY <1>3, <2>1, <2>2 DEF SpawnLoop, vars
<1>4. CASE Recv
  BY <1>4, QueueTypes, NativeAssumption DEF Recv, HandleMessage, vars
<1>5. CASE Tick \/ Timeout
  BY <1>5 DEF Tick, Timeout, vars
<1>6. CASE StartNativeReload
  <2>1. reloadsAfterStop' \in Nat
    BY <1>6 DEF StartNativeReload
  <2> QED
    BY <1>6, <2>1 DEF StartNativeReload, Begin, Types
<1>7. CASE Reload
  <2>1. native \in Threads /\ cursor[native] \in Files /\ ReadOf(cursor[native]) \in FileEvents
    BY <1>7 DEF Reload, Types, FileEvents
  <2>2. reported' \in Seq(FileEvents)
    BY <1>7, <2>1, QueueTypes DEF Reload
  <2> QED
    BY <1>7, <2>1, <2>2, NativeReloadFrame DEF Reload
<1>8. CASE AfterNativeReload
  BY <1>8, QueueTypes DEF AfterNativeReload, vars
<1>9. CASE Deliver
  BY <1>9, QueueTypes DEF Deliver, Receivable, vars
<1>10. CASE Noise
  <2>1. channel' \in Seq(Received)
    BY <1>10, QueueTypes DEF Noise, Receivable, Received
  <2> QED
    BY <1>10, <2>1 DEF Noise, vars
<1>11. CASE DropWatcher
  BY <1>11, QueueTypes DEF DropWatcher, vars
<1>12. CASE SendStop
  <2>1. channel' \in Seq(Received)
    BY <1>12, QueueTypes DEF SendStop, Receivable, Received
  <2> QED
    BY <1>12, <2>1 DEF SendStop, vars
<1>13. CASE JoinLoop
  BY <1>13 DEF JoinLoop, vars
<1>14. ASSUME NEW f \in Files, WriteWatched(f) PROVE NativeInv'
  <2>1. WriteOf(f) \in FileEvents
    BY DEF FileEvents
  <2> QED
    BY <1>14, <2>1, QueueTypes DEF WriteWatched, Write
<1>15. CASE UNCHANGED nativevars
  BY <1>15 DEF nativevars, wvars, vars
<1> QED
  BY <1>1, <1>2, <1>3, <1>4, <1>5, <1>6, <1>7, <1>8, <1>9, <1>10, <1>11, <1>12, <1>13,
     <1>14, <1>15 DEF NativeNext, LoopStep

LEMMA InductiveNative == NativeSpec => [](Core /\ SerialInv /\ FollowInv /\ NativeInv)
<1>1. NativeInit => Core /\ SerialInv /\ FollowInv /\ NativeInv
  BY InitIInv, InitSerial, InitFollow, InitNativeInv DEF NativeInit, IInv
<1>2. Core /\ SerialInv /\ FollowInv /\ NativeInv /\ [NativeNext]_nativevars
        => Core' /\ SerialInv' /\ FollowInv' /\ NativeInv'
  BY NativeHandle, NativeInvStep DEF Core
<1> QED
  BY <1>1, <1>2, PTL DEF NativeSpec

\* Under the native watcher, too, a failed reload never replaces the active
\* configuration, attempts never overlap, the active configuration is the most
\* recent one the loader returned, and subscribers can follow.
THEOREM NativeIsSerial ==
    NativeSpec => [](StateIsGood /\ KeepsMostRecentSuccess /\ SerialSubscribersFollow
                      /\ ~ overlapped)
<1>1. Core /\ SerialInv /\ FollowInv /\ NativeInv
        => StateIsGood /\ KeepsMostRecentSuccess /\ SerialSubscribersFollow /\ ~ overlapped
  <2> SUFFICES ASSUME Core, SerialInv, FollowInv, NativeInv
               PROVE  /\ StateIsGood /\ KeepsMostRecentSuccess /\ SerialSubscribersFollow
                      /\ ~ overlapped
    OBVIOUS
  <2>1. StateIsGood /\ Types /\ ~ overlapped
    BY DEF Core, NativeInv
  <2>2. KeepsMostRecentSuccess
    BY <2>1 DEF SerialInv, KeepsMostRecentSuccess, Quiet
  <2> QED
    BY <2>1, <2>2, FollowTells
<1> QED
  BY <1>1, InductiveNative, PTL

-----------------------------------------------------------------------------
(***************************************************************************)
(* Every reload has a cause.                                               *)
(***************************************************************************)
LEMMA QueueCounts ==
  ASSUME NativeInv
  PROVE  /\ CountRelevant(channel) \in Nat /\ CountRelevant(reported) \in Nat
         /\ \A m \in Received :
               CountRelevant(Append(channel, m))
                 = CountRelevant(channel) + (IF Relevant(m) THEN 1 ELSE 0)
         /\ \A m \in FileEvents :
               CountRelevant(Append(reported, m))
                 = CountRelevant(reported) + (IF Relevant(m) THEN 1 ELSE 0)
         /\ channel # <<>> =>
               CountRelevant(channel)
                 = CountRelevant(Tail(channel)) + (IF Relevant(Head(channel)) THEN 1 ELSE 0)
         /\ channel # <<>> => CountRelevant(Tail(channel)) \in Nat
         /\ reported # <<>> =>
               CountRelevant(reported)
                 = CountRelevant(Tail(reported)) + (IF Relevant(Head(reported)) THEN 1 ELSE 0)
         /\ reported # <<>> => CountRelevant(Tail(reported)) \in Nat
<1> USE DEF NativeInv
<1>1. CountRelevant(channel) \in Nat /\ CountRelevant(reported) \in Nat
  BY CountTyped
<1>2. /\ \A m \in Received :
            CountRelevant(Append(channel, m))
              = CountRelevant(channel) + (IF Relevant(m) THEN 1 ELSE 0)
      /\ \A m \in FileEvents :
            CountRelevant(Append(reported, m))
              = CountRelevant(reported) + (IF Relevant(m) THEN 1 ELSE 0)
  BY CountAppend
<1>3. /\ channel # <<>> =>
            CountRelevant(channel)
              = CountRelevant(Tail(channel)) + (IF Relevant(Head(channel)) THEN 1 ELSE 0)
      /\ reported # <<>> =>
            CountRelevant(reported)
              = CountRelevant(Tail(reported)) + (IF Relevant(Head(reported)) THEN 1 ELSE 0)
  BY CountTail
<1>4. /\ channel # <<>> => CountRelevant(Tail(channel)) \in Nat
      /\ reported # <<>> => CountRelevant(Tail(reported)) \in Nat
  BY CountTyped, QueueTypes
<1> QED
  BY <1>1, <1>2, <1>3, <1>4

LEMMA InitCause == NativeInit => CauseInv
  BY CountEmpty DEF NativeInit, Init, CauseInv

LEMMA CauseStep ==
  ASSUME Types, NativeInv, NativeInv', CauseInv, [NativeNext]_nativevars
  PROVE  CauseInv'
<1> DEFINE begun == IF native = NoLoop THEN 0 ELSE attempts[native]
           due == IF npc \in {"debounce", "due"} THEN 1 ELSE 0
           c == CountRelevant(channel)
           r == CountRelevant(reported)
<1>1. begun \in Nat /\ due \in Nat /\ c \in Nat /\ r \in Nat /\ causes \in Nat
  BY QueueCounts DEF NativeInv, Types
<1>2. begun + due + c + r <= causes
  BY DEF CauseInv
<1>3. CountRelevant(<<>>) = 0
  BY CountEmpty
<1>4. ASSUME begun' + due' + c' + r' <= causes' PROVE CauseInv'
  BY <1>4 DEF CauseInv
\* What the loop does with the first message: its count becomes a deadline.
<1>5. CASE Recv
  <2>1. begun' = begun /\ r' = r /\ causes' = causes
    BY <1>5 DEF Recv, HandleMessage, vars
  <2>2. CASE Head(channel).type = "stop"
    <3>1. c' = 0 /\ due' = 0
      BY <1>3, <1>5, <2>2 DEF Recv
    <3> QED
      BY <1>1, <1>2, <1>4, <2>1, <3>1
  <2>3. CASE Head(channel).type # "stop"
    <3>1. /\ channel # <<>> /\ channel' = Tail(channel) /\ HandleMessage(Head(channel))
      BY <1>5, <2>3 DEF Recv
    <3>2. c = c' + (IF Relevant(Head(channel)) THEN 1 ELSE 0) /\ c' \in Nat
      BY <3>1, QueueCounts
    <3>3. due' = IF Relevant(Head(channel)) THEN 1 ELSE due
      BY <3>1 DEF HandleMessage, Relevant
    <3> QED
      BY <1>1, <1>2, <1>4, <2>1, <3>2, <3>3
  <2> QED
    BY <2>2, <2>3
\* The deadline becomes an attempt.
<1>6. CASE StartNativeReload
  <2>1. due = 1 /\ due' = 0 /\ c' = c /\ r' = r /\ causes' = causes
    BY <1>6 DEF StartNativeReload
  <2>2. begun' = begun + 1
    BY <1>6, NativeAssumption DEF StartNativeReload, Begin, NativeInv, Types
  <2> QED
    BY <1>1, <1>2, <1>4, <2>1, <2>2
<1>7. CASE Reload
  <2>1. begun' = begun /\ due' = due /\ c' = c /\ causes' = causes
    BY <1>7, NativeReloadFrame DEF Reload, NativeInv
  <2>2. r' = r
    <3>1. /\ native \in Threads /\ cursor[native] \in Files
          /\ ReadOf(cursor[native]) \in FileEvents /\ ~ Relevant(ReadOf(cursor[native]))
      BY <1>7, RelevantMessages DEF Reload, NativeInv, Types, FileEvents
    <3>2. CountRelevant(Append(reported, ReadOf(cursor[native]))) = r
      BY <1>1, <3>1, QueueCounts
    <3> QED
      BY <1>7, <3>2 DEF Reload
  <2> QED
    BY <1>1, <1>2, <1>4, <2>1, <2>2
<1>8. CASE AfterNativeReload
  <2>1. begun' = begun /\ due = 0 /\ due' = 0 /\ r' = r /\ causes' = causes
    BY <1>8 DEF AfterNativeReload, vars
  <2>2. c' = c \/ c' = 0
    BY <1>3, <1>8 DEF AfterNativeReload
  <2> QED
    BY <1>1, <1>2, <1>4, <2>1, <2>2
<1>9. CASE Deliver
  <2>1. begun' = begun /\ due' = due /\ causes' = causes
    BY <1>9 DEF Deliver, vars
  <2>2. /\ r = r' + (IF Relevant(Head(reported)) THEN 1 ELSE 0) /\ r' \in Nat
        /\ Head(reported) \in Received
    BY <1>9, QueueCounts, QueueTypes DEF Deliver
  <2>3. c' = 0 \/ c' = c + (IF Relevant(Head(reported)) THEN 1 ELSE 0)
    BY <1>3, <1>9, <2>2, QueueCounts DEF Deliver, Receivable
  <2> QED
    BY <1>1, <1>2, <1>4, <2>1, <2>2, <2>3
<1>10. CASE Noise
  <2>1. begun' = begun /\ due' = due /\ r' = r
    BY <1>10 DEF Noise, vars
  <2>2. PICK m \in {Rescan, Neighbour, WatchError} :
          /\ channel' = Receivable(Append(channel, m))
          /\ causes' = IF m = Rescan THEN causes + 1 ELSE causes
    BY <1>10 DEF Noise
  <2>3. m \in Received /\ (Relevant(m) => m = Rescan)
    BY <2>2, RelevantMessages DEF Received
  <2>4. c' = 0 \/ c' = c + (IF Relevant(m) THEN 1 ELSE 0)
    BY <1>3, <2>2, <2>3, QueueCounts DEF Receivable
  <2> QED
    BY <1>1, <1>2, <1>4, <2>1, <2>2, <2>3, <2>4
<1>11. CASE SendStop
  <2>1. begun' = begun /\ due' = due /\ r' = r /\ causes' = causes
    BY <1>11 DEF SendStop, vars
  <2>2. StopMessage \in Received /\ ~ Relevant(StopMessage)
    BY RelevantMessages DEF Received
  <2>3. CountRelevant(Append(channel, StopMessage)) = c
    BY <1>1, <2>2, QueueCounts
  <2>4. c' = 0 \/ c' = c
    BY <1>3, <1>11, <2>3 DEF SendStop, Receivable
  <2> QED
    BY <1>1, <1>2, <1>4, <2>1, <2>4
<1>12. ASSUME NEW f \in Files, WriteWatched(f) PROVE CauseInv'
  <2>1. begun' = begun /\ due' = due /\ c' = c
    BY <1>12 DEF WriteWatched, Write
  <2>2. WriteOf(f) \in FileEvents /\ Relevant(WriteOf(f))
    BY RelevantMessages DEF FileEvents
  <2>3. CountRelevant(Append(reported, WriteOf(f))) = r + 1
    BY <2>2, QueueCounts
  <2>4. \/ r' = r + 1 /\ causes' = causes + 1
        \/ r' = r /\ causes' = causes
    BY <1>12, <2>3 DEF WriteWatched
  <2> QED
    BY <1>1, <1>2, <1>4, <2>1, <2>4
\* The rest starts and stops the watcher, and may drop what is queued.
<1>13. ASSUME NEW t \in Threads, SpawnLoop(t) PROVE CauseInv'
  <2>1. begun = 0 /\ begun' = 0 /\ due' = 0 /\ c' = c /\ r' = r /\ causes' = causes
    BY <1>13, NativeAssumption DEF SpawnLoop, NativeInv, vars
  <2> QED
    BY <1>1, <1>2, <1>4, <2>1
<1>14. CASE Register \/ Tick \/ Timeout \/ JoinLoop \/ UNCHANGED nativevars
  <2>1. begun' = begun /\ due' = due /\ c' = c /\ r' = r /\ causes' = causes
    BY <1>14 DEF Register, Tick, Timeout, JoinLoop, vars, wvars, nativevars
  <2> QED
    BY <1>1, <1>2, <1>4, <2>1
<1>15. CASE RegisterFails \/ DropWatcher
  <2>1. begun' = begun /\ due' = due /\ causes' = causes
    BY <1>15 DEF RegisterFails, DropWatcher, vars
  <2>2. (c' = c \/ c' = 0) /\ (r' = r \/ r' = 0)
    BY <1>3, <1>15 DEF RegisterFails, DropWatcher
  <2> QED
    BY <1>1, <1>2, <1>4, <2>1, <2>2
<1> QED
  BY <1>5, <1>6, <1>7, <1>8, <1>9, <1>10, <1>11, <1>12, <1>13, <1>14, <1>15
     DEF NativeNext, LoopStep

\* The watcher's own reads of the files never make it reload again: every reload
\* answers a write or a rescan, one that no other reload has answered.
THEOREM EveryReloadHasACause == NativeSpec => []ReloadsHaveCauses
<1>1. Core /\ NativeInv /\ CauseInv => ReloadsHaveCauses
  <2> SUFFICES ASSUME Types, NativeInv, CauseInv, native # NoLoop
               PROVE  attempts[native] <= causes
    BY DEF Core, ReloadsHaveCauses
  <2>1. attempts[native] \in Nat /\ causes \in Nat
    BY DEF Types, NativeInv
  <2> QED
    BY <2>1, QueueCounts DEF CauseInv
<1>2. Core => Types
  BY DEF Core
<1> QED
  BY <1>1, <1>2, InitCause, CauseStep, InductiveNative, PTL DEF NativeSpec

-----------------------------------------------------------------------------
(***************************************************************************)
(* stop() and the end of the loop.                                         *)
(***************************************************************************)
LEMMA InitEnd == NativeInit => EndInv
  BY DEF NativeInit, EndInv, StopWaits

\* Stop stays in a queue that others join, and in what is behind another message.
LEMMA StopQueued ==
  ASSUME NEW S, NEW s \in Seq(S)
  PROVE  /\ \A m \in S : StopWaits(Append(s, m)) <=> StopWaits(s) \/ m = StopMessage
         /\ s # <<>> => (StopWaits(s) <=> StopWaits(Tail(s)) \/ Head(s) = StopMessage)
<1>1. PICK n \in Nat : n = Len(s) /\ DOMAIN s = 1..n
  BY LenProperties
<1>2. ASSUME NEW m \in S
      PROVE  StopWaits(Append(s, m)) <=> StopWaits(s) \/ m = StopMessage
  <2>1. /\ DOMAIN Append(s, m) = 1..(n + 1) /\ Append(s, m)[n + 1] = m
        /\ \A i \in 1..n : Append(s, m)[i] = s[i]
    BY <1>1, AppendProperties, LenProperties
  <2>2. \A i : i \in 1..(n + 1) <=> i \in 1..n \/ i = n + 1
    BY <1>1
  <2> QED
    BY <1>1, <2>1, <2>2 DEF StopWaits
<1>3. ASSUME s # <<>>
      PROVE  StopWaits(s) <=> StopWaits(Tail(s)) \/ Head(s) = StopMessage
  <2>1. /\ n # 0 /\ Head(s) = s[1] /\ DOMAIN Tail(s) = 1..(n - 1)
        /\ \A i \in 1..(n - 1) : Tail(s)[i] = s[i + 1]
    BY <1>1, <1>3, HeadTailProperties, LenProperties, EmptySeq
  <2>2. \A i \in 1..n : i # 1 => i - 1 \in 1..(n - 1) /\ (i - 1) + 1 = i
    BY <1>1
  <2>3. 1 \in 1..n /\ \A i \in 1..(n - 1) : i + 1 \in 1..n
    BY <1>1, <2>1
  <2>4. ASSUME StopWaits(s), Head(s) # StopMessage PROVE StopWaits(Tail(s))
    <3>1. PICK i \in 1..n : s[i] = StopMessage
      BY <1>1, <2>4 DEF StopWaits
    <3>2. i - 1 \in 1..(n - 1) /\ (i - 1) + 1 = i
      BY <2>1, <2>2, <2>4, <3>1
    <3> QED
      BY <2>1, <3>1, <3>2 DEF StopWaits
  <2>5. ASSUME StopWaits(Tail(s)) \/ Head(s) = StopMessage PROVE StopWaits(s)
    BY <1>1, <2>1, <2>3, <2>5 DEF StopWaits
  <2> QED
    BY <2>4, <2>5
<1> QED
  BY <1>2, <1>3

LEMMA EndStep ==
  ASSUME Types, NativeInv, EndInv, [NativeNext]_nativevars
  PROVE  EndInv'
<1> USE DEF EndInv
<1>1. /\ \A m \in Received : StopWaits(Append(channel, m)) <=> StopWaits(channel) \/ m = StopMessage
      /\ channel # <<>> => (StopWaits(channel) <=> StopWaits(Tail(channel)) \/ Head(channel) = StopMessage)
  BY StopQueued DEF NativeInv
<1>2. ~ StopWaits(<<>>)
  BY DEF StopWaits
<1>3. /\ \A m \in Received : m.type = "stop" <=> m = StopMessage
      /\ StopMessage \in Received /\ StopMessage \notin FileEvents
      /\ StopMessage \notin {Rescan, Neighbour, WatchError}
      /\ FileEvents \cup {Rescan, Neighbour, WatchError} \subseteq Received
  <2>1. \A m \in FileEvents \cup {Rescan, Neighbour} : m.type = "event"
    BY DEF FileEvents, WriteOf, ReadOf, Rescan, Neighbour
  <2>2. WatchError.type = "error" /\ StopMessage.type = "stop"
    BY DEF WatchError, StopMessage
  <2> QED
    BY <2>1, <2>2 DEF Received
\* Where Stop is first in the channel the loop ends, and where it is not it stays.
<1>4. CASE Recv
  <2>1. channel # <<>> /\ Head(channel) \in Received
    BY <1>4, QueueTypes DEF Recv
  <2>2. CASE Head(channel).type = "stop"
    <3>1. StopWaits(channel) /\ npc' = "done" /\ channel' = <<>>
      BY <1>1, <1>3, <1>4, <2>1, <2>2 DEF Recv
    <3> QED
      BY <1>2, <1>4, <3>1 DEF Recv
  <2>3. CASE Head(channel).type # "stop"
    <3>1. StopWaits(channel') <=> StopWaits(channel)
      BY <1>1, <1>3, <1>4, <2>1, <2>3 DEF Recv
    <3>2. npc \in {"recv", "debounce"} /\ npc' \in {"recv", "debounce"}
      BY <1>4, <2>3 DEF Recv, HandleMessage
    <3> QED
      BY <1>4, <3>1, <3>2 DEF Recv
  <2> QED
    BY <2>2, <2>3
\* The wait ends on an empty channel: after a reload that Stop did not keep from
\* beginning, no other one becomes due.
<1>5. CASE Timeout
  BY <1>2, <1>5 DEF Timeout
<1>6. CASE StartNativeReload
  BY <1>6 DEF StartNativeReload, NativeInv
<1>7. CASE Reload
  BY <1>7 DEF Reload
<1>8. CASE AfterNativeReload
  BY <1>2, <1>8 DEF AfterNativeReload, vars
<1>9. CASE Deliver
  <2>1. Head(reported) \in FileEvents
    BY <1>9, QueueTypes DEF Deliver
  <2>2. StopWaits(channel') <=> StopWaits(channel)
    BY <1>1, <1>2, <1>3, <1>9, <2>1 DEF Deliver, Receivable
  <2> QED
    BY <1>9, <2>2 DEF Deliver, vars
<1>10. CASE Noise
  <2>1. StopWaits(channel') <=> StopWaits(channel)
    BY <1>1, <1>2, <1>3, <1>10 DEF Noise, Receivable
  <2> QED
    BY <1>10, <2>1 DEF Noise, vars
<1>11. CASE SendStop
  <2>1. StopWaits(channel') <=> npc # "done"
    BY <1>1, <1>2, <1>3, <1>11 DEF SendStop, Receivable
  <2> QED
    BY <1>11, <2>1 DEF SendStop, vars
<1>12. CASE Register \/ RegisterFails
  BY <1>2, <1>12 DEF Register, RegisterFails, NativeInv, vars
<1>13. ASSUME NEW t \in Threads, SpawnLoop(t) PROVE EndInv'
  BY <1>13 DEF SpawnLoop, NativeInv, vars
<1>14. CASE Tick \/ DropWatcher \/ JoinLoop \/ UNCHANGED nativevars
  BY <1>14 DEF Tick, DropWatcher, JoinLoop, nativevars, wvars, vars
<1>15. ASSUME NEW f \in Files, WriteWatched(f) PROVE EndInv'
  BY <1>15 DEF WriteWatched, Write
<1> QED
  BY <1>4, <1>5, <1>6, <1>7, <1>8, <1>9, <1>10, <1>11, <1>12, <1>13, <1>14, <1>15
     DEF NativeNext, LoopStep

\* Stop may come between the end of the wait and the reload, which begins all the same;
\* but at most one reload begins with Stop in the channel, nothing runs once stop() has
\* returned, and the loop ends by itself only after a failure and under StopWatcher.
THEOREM NativeStopsWhenTold == NativeSpec => []NativeStopsAsTold
<1>1. NativeInv /\ EndInv => NativeStopsAsTold
  <2> SUFFICES ASSUME NativeInv, EndInv PROVE NativeStopsAsTold
    OBVIOUS
  <2>1. npc = "done" => native \in Threads /\ pc[native] = "idle"
    BY DEF NativeInv
  <2> QED
    BY <2>1 DEF EndInv, NativeStopsAsTold
<1>2. Core => Types
  BY DEF Core
<1> QED
  BY <1>1, <1>2, InitEnd, EndStep, InductiveNative, PTL DEF NativeSpec
-----------------------------------------------------------------------------
(***************************************************************************)
(* No change is lost.                                                      *)
(***************************************************************************)
LEMMA InitSettled == NativeInit => SettledInv
  BY DEF NativeInit, Init, SettledInv

\* A queue that grows or loses an irrelevant message holds a relevant one if it
\* held one before.
LEMMA QueueSettled ==
  ASSUME NativeInv
  PROVE  /\ \A m \in FileEvents :
               RelevantIn(Append(reported, m)) = {} <=> RelevantIn(reported) = {} /\ ~ Relevant(m)
         /\ \A m \in Received :
               RelevantIn(Append(channel, m)) = {} <=> RelevantIn(channel) = {} /\ ~ Relevant(m)
         /\ channel # <<>> =>
               (RelevantIn(channel) = {} <=> RelevantIn(Tail(channel)) = {} /\ ~ Relevant(Head(channel)))
         /\ reported # <<>> =>
               (RelevantIn(reported) = {} <=> RelevantIn(Tail(reported)) = {} /\ ~ Relevant(Head(reported)))
<1> DEFINE Empty(s) == RelevantIn(s) = {} <=> CountRelevant(s) = 0
<1>1. /\ Empty(channel) /\ Empty(reported)
      /\ \A m \in Received : Empty(Append(channel, m))
      /\ \A m \in FileEvents : Empty(Append(reported, m))
      /\ channel # <<>> => Empty(Tail(channel))
      /\ reported # <<>> => Empty(Tail(reported))
  BY CountTyped, QueueTypes DEF NativeInv
<1> QED
  BY <1>1, QueueCounts

\* The attempt of the watcher that returns.
LEMMA ReloadSettles ==
  ASSUME Core, FollowInv, NativeInv, NativeInv', SettledInv, Reload
  PROVE  SettledInv'
<1>1. /\ native \in Threads /\ Types /\ ~ overlapped /\ pc[native] # "idle"
      /\ npc = "reload" /\ ReloadStep(native) /\ Next
      /\ UNCHANGED <<native, npc, nativeOwner, channel, disk>>
  BY NativeReloadFrame DEF Reload, NativeInv, Core, Next
<1>2. \A u \in Threads : u # native => pc'[u] = "idle"
  BY <1>1 DEF NativeInv
<1>3. pc'[native] = "reject" => lastError' # NoError
  BY <1>1, ReloadAssumption DEF ReloadStep, ReadFile, FinishLoad, FailLoad, Publish, ClearError,
         EmitApplied, RecordError, EmitRejected, Return, Types
<1>4. ASSUME nativeOwner = "running", Settled' PROVE SameVersions(began[native], disk)
  <2>1. /\ cursor[native] \in Files /\ ReadOf(cursor[native]) \in FileEvents
    BY <1>1 DEF Types, FileEvents
  <2>2. Settled
    BY <1>1, <1>4, <2>1, QueueSettled DEF Reload, Settled
  <2> QED
    BY <1>1, <1>4, <2>2 DEF SettledInv
<1>5. ASSUME nativeOwner = "running", Settled', pc'[native] = "idle" PROVE CaughtUp'
  <2>1. SameVersions(began[native], disk)
    BY <1>4, <1>5
  <2>2. \/ Good(disk) /\ state = disk /\ pc[native] \in {"clear", "announce"}
        \/ ~ Good(disk) /\ pc[native] = "reject"
    BY <1>1, <1>5, <2>1, ReturnShowsDisk
  <2>3. /\ UNCHANGED <<disk, state>>
        /\ pc[native] = "reject" => UNCHANGED lastError
    BY <1>1, <1>5, ReturnSteps
  <2> QED
    BY <1>1, <2>2, <2>3 DEF CaughtUp, Good, SettledInv
<1>6. pc'[native] # "idle" => began'[native] = began[native]
  BY <1>1, NativeReloadFrame
<1> QED
  BY <1>1, <1>2, <1>3, <1>4, <1>5, <1>6 DEF SettledInv, SameVersions

LEMMA SettledStep ==
  ASSUME Core, FollowInv, NativeInv, NativeInv', SettledInv, [NativeNext]_nativevars
  PROVE  SettledInv'
<1> USE DEF SettledInv
<1>1. UNCHANGED vars =>
        /\ UNCHANGED <<pc, lastError, began>> /\ WatchedTimes' = WatchedTimes /\ CaughtUp' = CaughtUp
        /\ \A t \in Threads : SameVersions(began[t], disk)' = SameVersions(began[t], disk)
  BY DEF vars, locals, WatchedTimes, CaughtUp, Good, Vals, SameVersions
<1>2. ASSUME UNCHANGED vars, UNCHANGED <<native, npc, nativeOwner, startTimes>>,
              npc # "done" /\ Settled' => Settled
       PROVE  SettledInv'
  <2>1. UNCHANGED <<pc, began, disk, lastError>> /\ WatchedTimes' = WatchedTimes /\ CaughtUp' = CaughtUp
    BY <1>1, <1>2 DEF vars
  <2>2. SameVersions(began[native], disk)' = SameVersions(began[native], disk)
    BY <1>2, <2>1 DEF SameVersions
  <2> QED
    BY <1>2, <2>1, <2>2
<1>3. CASE Recv
  <2>1. CASE Head(channel).type = "stop"
    BY <1>1, <1>3, <2>1 DEF Recv
  <2>2. CASE Head(channel).type # "stop"
    <3>1. /\ channel # <<>> /\ channel' = Tail(channel) /\ HandleMessage(Head(channel))
          /\ npc \in {"recv", "debounce"}
          /\ UNCHANGED <<native, reported, nativeOwner, startTimes>>
      BY <1>3, <2>2 DEF Recv
    <3>2. UNCHANGED <<disk, state, pc, began>> /\ (lastError' = lastError \/ lastError' # NoError)
      BY <3>1, ReloadAssumption DEF HandleMessage, locals, NativeInv
    <3>3. WatchedTimes' = WatchedTimes /\ (CaughtUp => CaughtUp')
      BY <3>2 DEF WatchedTimes, CaughtUp, Good
    <3>4. CASE Relevant(Head(channel))
      <4>1. npc' = "debounce"
        BY <3>1, <3>4 DEF HandleMessage, Relevant
      <4> QED
        BY <3>2, <4>1
    <3>5. CASE ~ Relevant(Head(channel))
      <4>1. npc' = npc
        BY <3>1, <3>5 DEF HandleMessage, Relevant
      <4>2. Settled' => Settled
        BY <3>1, <3>5, QueueSettled DEF Settled
      <4> QED
        BY <3>1, <3>2, <3>3, <4>1, <4>2
    <3> QED
      BY <3>4, <3>5
  <2> QED
    BY <2>1, <2>2
<1>4. CASE StartNativeReload
  <2>1. /\ native \in Threads /\ npc' = "reload" /\ native' = native /\ disk' = disk
        /\ lastError' = lastError
        /\ pc' = [pc EXCEPT ![native] = "load"]
        /\ began' = [began EXCEPT ![native] = disk]
    BY <1>4 DEF StartNativeReload, Begin, NativeInv
  <2>2. pc'[native] = "load" /\ began'[native] = disk
    BY <2>1 DEF Core, Types
  <2> QED
    BY <2>1, <2>2 DEF SameVersions, Core, Types
<1>5. CASE Reload
  BY <1>5, ReloadSettles
<1>6. CASE AfterNativeReload
  <2>1. UNCHANGED vars /\ npc = "reload" /\ pc[native] = "idle" /\ npc' \in {"recv", "done"}
        /\ UNCHANGED <<native, reported, nativeOwner>>
    BY <1>6 DEF AfterNativeReload
  <2>2. npc' = "recv" => (Settled' <=> Settled)
    BY <1>6, <2>1 DEF AfterNativeReload, Settled
  <2> QED
    BY <1>1, <2>1, <2>2
<1>7. CASE Deliver
  <2>1. /\ UNCHANGED vars /\ UNCHANGED <<native, npc, nativeOwner, startTimes>>
        /\ reported # <<>> /\ reported' = Tail(reported)
        /\ npc # "done" => channel' = Append(channel, Head(reported))
    BY <1>7 DEF Deliver, Receivable
  <2>2. Head(reported) \in Received
    BY <2>1, QueueTypes
  <2>3. npc # "done" /\ Settled' => Settled
    BY <2>1, <2>2, QueueSettled DEF Settled
  <2> QED
    BY <1>2, <2>1, <2>3
<1>8. CASE Noise
  <2>1. /\ UNCHANGED vars /\ UNCHANGED <<native, npc, nativeOwner, reported, startTimes>>
        /\ \E m \in Received : npc # "done" => channel' = Append(channel, m)
    BY <1>8 DEF Noise, Receivable, Received
  <2>2. npc # "done" /\ Settled' => Settled
    BY <2>1, QueueSettled DEF Settled
  <2> QED
    BY <1>2, <2>1, <2>2
\* A write is reported as long as the watcher is registered.
<1>9. ASSUME NEW f \in Files, WriteWatched(f) PROVE SettledInv'
  <2>1. UNCHANGED <<pc, lastError, native, npc, nativeOwner>>
    BY <1>9 DEF WriteWatched, Write
  <2>2. nativeOwner = "running" => ~ Settled'
    <3>1. WriteOf(f) \in FileEvents /\ Relevant(WriteOf(f))
      BY RelevantMessages DEF FileEvents
    <3>2. nativeOwner = "running" => reported' = Append(reported, WriteOf(f))
      BY <1>9 DEF WriteWatched, NativeInv
    <3> QED
      BY <3>1, <3>2, QueueSettled DEF Settled
  <2> QED
    BY <2>1, <2>2
<1>10. ASSUME NEW t \in Threads, SpawnLoop(t) PROVE SettledInv'
  <2>1. UNCHANGED vars /\ npc' = "recv" /\ startTimes' = WatchedTimes
    BY <1>10 DEF SpawnLoop
  <2> QED
    BY <1>1, <2>1
<1>11. CASE Register \/ RegisterFails \/ DropWatcher \/ SendStop \/ JoinLoop
  <2>1. UNCHANGED vars /\ nativeOwner' # "running"
    BY <1>11 DEF Register, RegisterFails, DropWatcher, SendStop, JoinLoop
  <2> QED
    BY <1>1, <2>1
<1>12. CASE Tick \/ UNCHANGED nativevars
  <2>1. UNCHANGED vars /\ UNCHANGED <<native, npc, nativeOwner, reported, channel, startTimes>>
    BY <1>12 DEF Tick, nativevars, wvars
  <2>2. Settled' <=> Settled
    BY <2>1 DEF Settled
  <2> QED
    BY <1>2, <2>1, <2>2
<1>13. CASE Timeout
  <2>1. UNCHANGED vars /\ npc' = "due"
    BY <1>13 DEF Timeout
  <2> QED
    BY <1>1, <2>1
<1> QED
  BY <1>3, <1>4, <1>5, <1>6, <1>7, <1>8, <1>9, <1>10, <1>11, <1>12, <1>13
     DEF NativeNext, LoopStep

\* The safety part of EveryChangeIsLoaded: with fairness it remains that what is
\* queued is delivered, received and, once the timer has run out, reloaded for.
THEOREM NoEventIsLost == NativeSpec => []NothingIsLost
<1>1. SettledInv => NothingIsLost
  BY DEF SettledInv, NothingIsLost
<1> QED
  BY <1>1, InitSettled, SettledStep, InductiveNative, PTL DEF NativeSpec
=============================================================================
