--------------------------- MODULE NativeWatcher ---------------------------
(***************************************************************************)
(* NativeWatcher of crates/tier/src/reload.rs (feature "watch") on top of  *)
(* ReloadHandle.  The notify crate observes the directories of the watched *)
(* files and calls a closure that sends each event, or error, into an mpsc *)
(* channel; run_native_watch_loop receives them, waits until `debounce` has*)
(* passed without a relevant one, and reloads.  shutdown drops the notify  *)
(* watcher, sends Stop through the same channel, and joins the thread.     *)
(*                                                                         *)
(* External and modelled from its use: the operating system reports every  *)
(* write of a watched file made after the registration, and every read of  *)
(* it as an access event, some time later and in order.  All files of the  *)
(* loader are watched.  Noise stands for what else arrives: events of other*)
(* files in the directory, events without paths (a rescan after an event   *)
(* queue overflow) and errors.                                             *)
(***************************************************************************)
EXTENDS ReloadHandle

CONSTANTS
    NoLoop,   \* no watcher has been started
    Debounce,   \* the debounce interval, in ticks
    MaxNoise    \* bound: events that are not about the loader's files

ASSUME NativeAssumption == NoLoop \notin Threads /\ Debounce \in Nat

VARIABLES
    native,     \* the watcher's thread, or NoLoop
    npc,        \* where run_native_watch_loop is
    timer,      \* ticks until the deadline
    registered, \* whether the notify watcher exists
    reported,   \* events the operating system has not delivered yet
    channel,    \* the mpsc channel
    nativeOwner,      \* "none", "starting", "running", "stopping", "joining", "gone", "failed"
    noise,      \* noise so far
    \* History, read by no action:
    startTimes, \* the files' versions when start_native returned
    causes,     \* writes and rescans since the registration
    reloadsAfterStop  \* reloads begun while Stop waited in the channel

wvars == <<native, npc, timer, registered, reported, channel, nativeOwner, noise,
           startTimes, causes, reloadsAfterStop>>
nativevars == <<vars, wvars>>

OtherPath == 0
WatchEvents == [type : {"event"}, access : BOOLEAN, paths : SUBSET (Files \cup {OtherPath})]
Messages == WatchEvents \cup [type : {"error", "stop"}]

WriteOf(f) == [type |-> "event", access |-> FALSE, paths |-> {f}]
ReadOf(f) == [type |-> "event", access |-> TRUE, paths |-> {f}]
Rescan == [type |-> "event", access |-> FALSE, paths |-> {}]
Neighbour == [type |-> "event", access |-> FALSE, paths |-> {OtherPath}]
WatchError == [type |-> "error"]
StopMessage == [type |-> "stop"]

WatchedTimes == [f \in Files |-> disk[f].ver]

NativeInit ==
    /\ Init
    /\ native = NoLoop
    /\ npc = "unspawned"
    /\ timer = 0
    /\ registered = FALSE
    /\ reported = <<>>
    /\ channel = <<>>
    /\ nativeOwner = "none"
    /\ noise = 0
    /\ startTimes = [f \in Files |-> 0]
    /\ causes = 0
    /\ reloadsAfterStop = 0

\* NativeWatcher::spawn: the watcher is created and every root registered ...
Register ==
    /\ nativeOwner = "none"
    /\ nativeOwner' = "starting"
    /\ registered' = TRUE
    /\ UNCHANGED <<vars, native, npc, timer, reported, channel, noise, startTimes, causes,
                   reloadsAfterStop>>

\* ... or the registration of a root fails and the watcher is dropped again ...
RegisterFails ==
    /\ nativeOwner = "starting"
    /\ nativeOwner' = "failed"
    /\ registered' = FALSE
    /\ reported' = <<>>
    /\ channel' = <<>>
    /\ UNCHANGED <<vars, native, npc, timer, noise, startTimes, causes, reloadsAfterStop>>

\* ... then the loop's thread is spawned and start_native returns.
SpawnLoop(t) ==
    /\ nativeOwner = "starting"
    /\ nativeOwner' = "running"
    /\ native' = t
    /\ npc' = "recv"
    /\ startTimes' = WatchedTimes
    /\ UNCHANGED <<vars, timer, registered, reported, channel, noise, causes,
                   reloadsAfterStop>>

\* The operator writes a file, and the operating system notes it.
WriteWatched(f) ==
    /\ Write(f)
    /\ reported' = IF registered THEN Append(reported, WriteOf(f)) ELSE reported
    /\ causes' = IF registered THEN causes + 1 ELSE causes
    /\ UNCHANGED <<native, npc, timer, registered, channel, nativeOwner, noise,
                   startTimes, reloadsAfterStop>>

\* The callback sends into the channel; the send fails silently when the loop,
\* and with it the receiver, is gone.
Receivable(ms) == IF npc = "done" THEN <<>> ELSE ms

Deliver ==
    /\ reported # <<>>
    /\ reported' = Tail(reported)
    /\ channel' = Receivable(Append(channel, Head(reported)))
    /\ UNCHANGED <<vars, native, npc, timer, registered, nativeOwner, noise, startTimes,
                   causes, reloadsAfterStop>>

Noise ==
    /\ registered
    /\ noise < MaxNoise
    /\ noise' = noise + 1
    /\ \E m \in {Rescan, Neighbour, WatchError} :
          /\ channel' = Receivable(Append(channel, m))
          /\ causes' = IF m = Rescan THEN causes + 1 ELSE causes
    /\ UNCHANGED <<vars, native, npc, timer, registered, reported, nativeOwner,
                   startTimes, reloadsAfterStop>>

\* Seeded fault: access events count like the others.
RequiresReloadAnyKind(e) == e.paths = {} \/ e.paths \cap Files # {}

\* event_requires_reload
RequiresReload(e) == ~ e.access /\ (e.paths = {} \/ e.paths \cap Files # {})

\* handle_watch_message, for a message that is not Stop: a relevant event sets
\* the deadline anew; an error is recorded, without event, and sets none.
HandleMessage(m) ==
    /\ IF m.type = "event" /\ RequiresReload(m)
         THEN npc' = "debounce" /\ timer' = Debounce
         ELSE UNCHANGED <<npc, timer>>
    /\ IF m.type = "error"
         THEN lastError' = <<native, 0>>
         ELSE UNCHANGED lastError
    /\ UNCHANGED <<disk, state, stream, pc, attempts, result, locals,
                   lastLoaded, lastOutcome, overlapped>>

\* rx.recv() of the outer loop and a message from rx.recv_timeout(..) of the
\* inner one: both end the loop on Stop, dropping a reload that is due.
Recv ==
    /\ npc \in {"recv", "debounce"}
    /\ channel # <<>>
    /\ IF Head(channel).type = "stop"
         THEN npc' = "done" /\ channel' = <<>> /\ UNCHANGED <<vars, timer>>
         ELSE channel' = Tail(channel) /\ HandleMessage(Head(channel))
    /\ UNCHANGED <<native, registered, reported, nativeOwner, noise, startTimes, causes,
                   reloadsAfterStop>>

Tick ==
    /\ npc = "debounce"
    /\ timer > 0
    /\ timer' = timer - 1
    /\ UNCHANGED <<vars, native, npc, registered, reported, channel, nativeOwner, noise,
                   startTimes, causes, reloadsAfterStop>>

\* Seeded fault: a deadline that has passed is looked at before the channel.
TimeoutFirst ==
    /\ npc = "debounce"
    /\ timer = 0
    /\ npc' = "due"
    /\ UNCHANGED <<vars, native, timer, registered, reported, channel, nativeOwner, noise,
                   startTimes, causes, reloadsAfterStop>>

\* recv_timeout times out: the deadline has passed and no message waits.
Timeout ==
    /\ npc = "debounce"
    /\ timer = 0
    /\ channel = <<>>
    /\ npc' = "due"
    /\ UNCHANGED <<vars, native, timer, registered, reported, channel, nativeOwner, noise,
                   startTimes, causes, reloadsAfterStop>>

StopWaits(ms) == \E i \in DOMAIN ms : ms[i] = StopMessage

\* The loop has left the wait behind and reloads, whatever has come meanwhile.
StartNativeReload ==
    /\ npc = "due"
    /\ Begin(native)
    /\ npc' = "reload"
    /\ reloadsAfterStop' = reloadsAfterStop + (IF StopWaits(channel) THEN 1 ELSE 0)
    /\ UNCHANGED <<native, timer, registered, reported, channel, nativeOwner, noise,
                   startTimes, causes>>

\* The loader runs; each file it opens is reported as an access.
Reload ==
    /\ npc = "reload"
    /\ ReloadStep(native)
    /\ reported' = IF pc[native] = "load" /\ registered
                     THEN Append(reported, ReadOf(cursor[native])) ELSE reported
    /\ UNCHANGED <<native, npc, timer, registered, channel, nativeOwner, noise,
                   startTimes, causes, reloadsAfterStop>>

\* Seeded fault: after a reload the loop starts with an empty channel.
AfterNativeReloadDrained ==
    /\ npc = "reload"
    /\ pc[native] = "idle"
    /\ npc' = IF result[native] = "err" /\ native \in StopOnError THEN "done" ELSE "recv"
    /\ channel' = <<>>
    /\ UNCHANGED <<vars, native, timer, registered, reported, nativeOwner, noise,
                   startTimes, causes, reloadsAfterStop>>

\* The loop goes on, or returns under StopWatcher and the receiver is dropped.
AfterNativeReload ==
    /\ npc = "reload"
    /\ pc[native] = "idle"
    /\ npc' = IF result[native] = "err" /\ native \in StopOnError THEN "done" ELSE "recv"
    /\ channel' = IF npc' = "done" THEN <<>> ELSE channel
    /\ UNCHANGED <<vars, native, timer, registered, reported, nativeOwner, noise,
                   startTimes, causes, reloadsAfterStop>>

\* shutdown: the notify watcher is dropped; what it had not delivered may or
\* may not still come.
DropWatcher ==
    /\ nativeOwner = "running"
    /\ nativeOwner' = "stopping"
    /\ registered' = FALSE
    /\ reported' \in {reported, <<>>}
    /\ UNCHANGED <<vars, native, npc, timer, channel, noise, startTimes, causes,
                   reloadsAfterStop>>

\* Seeded fault: shutdown forgets the message and relies on the dropped watcher.
SendNoStop ==
    /\ nativeOwner = "stopping"
    /\ nativeOwner' = "joining"
    /\ UNCHANGED <<vars, native, npc, timer, registered, reported, channel, noise,
                   startTimes, causes, reloadsAfterStop>>

SendStop ==
    /\ nativeOwner = "stopping"
    /\ nativeOwner' = "joining"
    /\ channel' = Receivable(Append(channel, StopMessage))
    /\ UNCHANGED <<vars, native, npc, timer, registered, reported, noise, startTimes,
                   causes, reloadsAfterStop>>

JoinLoop ==
    /\ nativeOwner = "joining"
    /\ npc = "done"
    /\ nativeOwner' = "gone"
    /\ UNCHANGED <<vars, native, npc, timer, registered, reported, channel, noise,
                   startTimes, causes, reloadsAfterStop>>

LoopStep == Recv \/ Tick \/ Timeout \/ StartNativeReload \/ Reload \/ AfterNativeReload

NativeNext ==
    \/ Register \/ RegisterFails \/ \E t \in Threads : SpawnLoop(t)
    \/ LoopStep
    \/ Deliver \/ Noise
    \/ DropWatcher \/ SendStop \/ JoinLoop
    \/ \E f \in Files : WriteWatched(f)

NativeSpec == NativeInit /\ [][NativeNext]_nativevars

\* The operating system runs the loop's thread, its loader ends, and time passes;
\* events are delivered; an owner that has begun shutdown goes through with it.
NativeFairSpec ==
    /\ NativeSpec
    /\ WF_nativevars(LoopStep)
    /\ WF_nativevars(Deliver)
    /\ WF_nativevars(SendStop \/ JoinLoop)

-----------------------------------------------------------------------------
(***************************************************************************)
(* Properties.                                                             *)
(***************************************************************************)
NativeWatching == nativeOwner = "running" /\ npc # "done"

\* Every change after start_native has returned is picked up in the end: also
\* one made while a reload reads the files or while the debounce timer runs,
\* and the repair of a broken file.  A watch error recorded after the reload
\* leaves last_error set, so only the configuration is compared.
EveryChangeIsLoaded ==
    <>[](NativeWatching /\ WatchedTimes # startTimes =>
            IF Good(disk) THEN state = disk ELSE lastError # NoError)

\* The watcher's own reads of the files are reported to it as access events; they
\* never make it reload again: every reload answers a write or a rescan.
ReloadsHaveCauses == native # NoLoop => attempts[native] <= causes

\* Once Stop is in the channel at most one more reload begins, the one whose wait was
\* over when Stop came: not another one, whatever events wait before or behind Stop.
\* When stop() has returned nothing runs, and the loop ends by itself only after a
\* failure and under StopWatcher.
NativeStopsAsTold ==
    /\ reloadsAfterStop <= 1
    /\ nativeOwner = "gone" => npc = "done" /\ pc[native] = "idle"
    /\ npc = "done" => \/ nativeOwner \in {"joining", "gone"}
                       \/ native \in StopOnError /\ result[native] = "err"

\* stop() returns, wherever the loop is, and nothing runs after it.
NativeStopReturns == nativeOwner = "stopping" ~> nativeOwner = "gone"

=============================================================================
