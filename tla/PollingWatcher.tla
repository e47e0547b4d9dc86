--------------------------- MODULE PollingWatcher ---------------------------
(***************************************************************************)
(* PollingWatcher of crates/tier/src/reload.rs on top of ReloadHandle: a   *)
(* thread that compares the modification times of the watched files with   *)
(* those of its last look and reloads when they differ, and the owner that *)
(* starts it and stops it (stop() and Drop are the same shutdown).         *)
(*                                                                         *)
(* All files of the loader are watched.  Every write, replacement or       *)
(* removal is assumed to leave a modification time (or the absence of one) *)
(* the file did not have before, so the time of f is disk[f].ver.  A scan  *)
(* looks at one path after the other while others write.  Which of the     *)
(* threads of ReloadHandle the watcher is, and so its options, is decided  *)
(* when it is started.  Nobody else reloads: what overlapping reloads do to*)
(* each other is ReloadHandle's subject.                                   *)
(***************************************************************************)
EXTENDS ReloadHandle

CONSTANTS
    NoThread    \* no watcher has been started

ASSUME PollingAssumption == NoThread \notin Threads

VARIABLES
    poller,     \* the watcher's thread, or NoThread
    ppc,        \* where the watcher is in its loop
    seen,       \* seen[f]: modification time at the last look
    current,    \* current[f]: modification time found by the scan under way
    scan,       \* the path the scan looks at next
    stop,       \* the AtomicBool
    owner,      \* "none", "running", "joining", "gone"
    \* History, read by no action:
    base,       \* base[f]: seen[f] after the first look
    lateReloads \* reloads the watcher began after stop was set

pvars == <<poller, ppc, seen, current, scan, stop, owner, base, lateReloads>>
allvars == <<vars, pvars>>

Times == [f \in Files |-> disk[f].ver]
NoTimes == [f \in Files |-> 0]

PollInit ==
    /\ Init
    /\ poller = NoThread
    /\ ppc = "unspawned"
    /\ seen = NoTimes
    /\ current = NoTimes
    /\ scan = 1
    /\ stop = FALSE
    /\ owner = "none"
    /\ base = NoTimes
    /\ lateReloads = 0

\* start_polling_with_options: thread::spawn, and the owner goes on at once.
Spawn(t) ==
    /\ owner = "none"
    /\ owner' = "running"
    /\ poller' = t
    /\ ppc' = "first"
    /\ UNCHANGED <<vars, seen, current, scan, stop, base, lateReloads>>

\* let mut seen = collect_mtimes(&paths), one path at a time, in the thread.
FirstLook ==
    /\ ppc = "first"
    /\ seen' = [seen EXCEPT ![scan] = Times[scan]]
    /\ base' = seen'
    /\ IF scan = NumFiles
         THEN ppc' = "check" /\ scan' = 1
         ELSE scan' = scan + 1 /\ UNCHANGED ppc
    /\ UNCHANGED <<vars, poller, current, stop, owner, lateReloads>>

\* Seeded fault: the loop does not look at the flag.
CheckNothing ==
    /\ ppc = "check"
    /\ ppc' = "sleep"
    /\ UNCHANGED <<vars, poller, seen, current, scan, stop, owner, base, lateReloads>>

\* while !join_stop.load(..)
CheckStop ==
    /\ ppc = "check"
    /\ ppc' = IF stop THEN "done" ELSE "sleep"
    /\ UNCHANGED <<vars, poller, seen, current, scan, stop, owner, base, lateReloads>>

\* thread::sleep(interval) is over.
Wake ==
    /\ ppc = "sleep"
    /\ ppc' = "scan"
    /\ UNCHANGED <<vars, poller, seen, current, scan, stop, owner, base, lateReloads>>

\* let current = collect_mtimes(&paths)
Look ==
    /\ ppc = "scan"
    /\ current' = [current EXCEPT ![scan] = Times[scan]]
    /\ IF scan = NumFiles
         THEN ppc' = "compare" /\ scan' = 1
         ELSE scan' = scan + 1 /\ UNCHANGED ppc
    /\ UNCHANGED <<vars, poller, seen, stop, owner, base, lateReloads>>

SameTimes ==
    /\ ppc = "compare"
    /\ current = seen
    /\ ppc' = "check"
    /\ UNCHANGED <<vars, poller, seen, current, scan, stop, owner, base, lateReloads>>

StartReload ==
    /\ ppc = "compare"
    /\ current # seen
    /\ Begin(poller)
    /\ ppc' = "reload"
    /\ lateReloads' = IF stop THEN lateReloads + 1 ELSE lateReloads
    /\ UNCHANGED <<poller, seen, current, scan, stop, owner, base>>

\* Seeded fault: the times to compare with are taken after the reload.
AfterReloadRescan ==
    /\ ppc = "reload"
    /\ pc[poller] = "idle"
    /\ seen' = Times
    /\ ppc' = IF result[poller] = "err" /\ poller \in StopOnError THEN "done" ELSE "check"
    /\ UNCHANGED <<vars, poller, current, scan, stop, owner, base, lateReloads>>

\* Seeded fault: after a reload the watcher sleeps without a look at the flag.
AfterReloadSleep ==
    /\ ppc = "reload"
    /\ pc[poller] = "idle"
    /\ seen' = current
    /\ ppc' = IF result[poller] = "err" /\ poller \in StopOnError THEN "done" ELSE "sleep"
    /\ UNCHANGED <<vars, poller, current, scan, stop, owner, base, lateReloads>>

\* seen = current, the times collected before the reload; then the policy.
AfterReload ==
    /\ ppc = "reload"
    /\ pc[poller] = "idle"
    /\ seen' = current
    /\ ppc' = IF result[poller] = "err" /\ poller \in StopOnError THEN "done" ELSE "check"
    /\ UNCHANGED <<vars, poller, current, scan, stop, owner, base, lateReloads>>

\* shutdown: the flag, then join.
Stop ==
    /\ owner = "running"
    /\ owner' = "joining"
    /\ stop' = TRUE
    /\ UNCHANGED <<vars, poller, ppc, seen, current, scan, base, lateReloads>>

Join ==
    /\ owner = "joining"
    /\ ppc = "done"
    /\ owner' = "gone"
    /\ UNCHANGED <<vars, poller, ppc, seen, current, scan, stop, base, lateReloads>>

PollerStep ==
    \/ FirstLook \/ CheckStop \/ Wake \/ Look \/ SameTimes \/ StartReload \/ AfterReload
    \/ poller # NoThread /\ ReloadStep(poller) /\ UNCHANGED pvars

PollNext ==
    \/ \E t \in Threads : Spawn(t)
    \/ PollerStep
    \/ Stop \/ Join
    \/ \E f \in Files : Write(f) /\ UNCHANGED pvars

PollSpec == PollInit /\ [][PollNext]_allvars

\* The operating system runs the watcher's thread, its sleeps end and so does
\* its loader; a join returns once the thread has ended.  Nobody has to write,
\* to start a watcher or to stop it.
PollFairSpec == PollSpec /\ WF_allvars(PollerStep) /\ WF_allvars(Join)

-----------------------------------------------------------------------------
(***************************************************************************)
(* Properties.                                                             *)
(***************************************************************************)
Watching == owner = "running" /\ ppc # "done"

\* Every change after the watcher's first look is picked up in the end: also one
\* that falls between the reads of a running load, between the scan and the
\* reload, or between the looks at two paths of one scan; also the repair of a
\* broken file.  (Writes are bounded, so the disk stops changing.)
WatcherCatchesUp ==
    <>[](Watching /\ ppc # "first" /\ Times # base => ReflectsDisk)

\* The watcher does what it is told: once stop() has returned it does nothing any
\* more, before that at most one more reload begins after the flag is set, and it ends
\* by itself only under StopWatcher and after a failed reload; KeepLastGood never gives
\* up.
StopsAsTold ==
    /\ owner = "gone" => ppc = "done" /\ pc[poller] = "idle"
    /\ lateReloads <= 1
    /\ ppc = "done" => stop \/ (poller \in StopOnError /\ result[poller] = "err")

\* stop() returns, wherever the watcher is in its loop.
StopReturns == owner = "joining" ~> owner = "gone"

=============================================================================
