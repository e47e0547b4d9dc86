---------------------------- MODULE ReloadHandle ----------------------------
(***************************************************************************)
(* ReloadHandle of crates/tier/src/reload.rs: the active configuration, the*)
(* last error and the event stream, and the reload attempts that change    *)
(* them.  Any number of threads run reload_with_options at the same time:  *)
(* callers of reload() and reload_detailed(), and the watchers.  The       *)
(* handle has three locks (state, last_error, subscribers); an attempt     *)
(* takes each for one statement and holds none while the loader runs, so   *)
(* each statement is an action.                                            *)
(*                                                                         *)
(* The loader closure is ConfigLoader::load over the files 1..NumFiles: it *)
(* reads them one after the other while others may write them, fails on a  *)
(* file that is missing or does not parse (ok = FALSE), and fails at the   *)
(* end when deserialization or a validator refuses the merged values.      *)
(* A configuration is modelled by the content of the file layers it was    *)
(* loaded from; ver counts the writes of a file and is not visible to the  *)
(* program.  The stream of events is EventStream's, which ReloadEvents     *)
(* implements.                                                             *)
(***************************************************************************)
EXTENDS Naturals, Sequences, FiniteSets

CONSTANTS
    Threads,        \* threads that reload
    EmitUnchanged,  \* threads whose options have emit_unchanged = true
    StopOnError,    \* threads whose options have on_error = StopWatcher
    NumFiles,       \* number of configuration files
    Values,         \* what a file can say
    FirstValue,     \* what the files say at first
    Acceptable,     \* merged values that deserialize and validate
    MaxVersion,     \* bound: MaxVersion[f] writes of file f
    MaxAttempts,    \* bound: reload attempts of each thread
    NoError         \* last_error is None

Files == 1..NumFiles
Docs == [ver : Nat, val : Values, ok : BOOLEAN]
Configs == [Files -> Docs]

\* The final value of a configuration: what build_reload_summary compares.
Vals(c) == [f \in Files |-> c[f].val]

FirstConfig ==
    [f \in Files |-> [ver |-> 0, val |-> FirstValue, ok |-> TRUE]]

ASSUME ReloadAssumption ==
    /\ EmitUnchanged \subseteq Threads
    /\ StopOnError \subseteq Threads
    /\ NumFiles \in Nat /\ NumFiles > 0
    /\ FirstValue \in Values
    /\ Vals(FirstConfig) \in Acceptable
    /\ MaxVersion \in [Files -> Nat]
    /\ NoError \notin Threads \X Nat

VARIABLES
    disk,        \* disk[f]: the file f as it is now
    state,       \* the RwLock: the active configuration
    lastError,   \* the Mutex: <<thread, attempt>> of the error, or NoError
    stream,      \* the events emitted so far (EventStream)
    pc,          \* where each thread is in reload_with_options
    attempts,    \* attempts[t]: reloads t has begun
    result,      \* result[t]: what the last reload of t returned
    before,      \* before[t]: the report captured on entry
    staged,      \* staged[t]: the layers the running loader has read
    cursor,      \* cursor[t]: the file the running loader reads next
    \* History, read by no action:
    began,       \* began[t]: the disk when the attempt of t began
    lastLoaded,  \* the configuration the loader returned last
    lastOutcome, \* how the loader ended last: "ok" or "err"
    overlapped   \* whether two attempts have ever run at the same time

locals == <<before, staged, cursor, began>>
vars == <<disk, state, lastError, stream, pc, attempts, result, locals,
          lastLoaded, lastOutcome, overlapped>>

PCs == {"idle", "load", "publish", "clear", "announce", "fail", "reject"}

Applied(c, d) ==
    [kind |-> "Applied", before |-> c, after |-> d,
     hadChanges |-> Vals(c) # Vals(d)]

Rejected(t, n) ==
    [kind |-> "Rejected", error |-> <<t, n>>,
     watcherStopped |-> t \in StopOnError]

Events ==
    {Applied(c, d) : c \in Configs, d \in Configs}
        \cup {Rejected(t, n) : t \in Threads, n \in Nat}

TypeOK ==
    /\ disk \in Configs
    /\ state \in Configs
    /\ lastError \in (Threads \X Nat) \cup {NoError}
    /\ pc \in [Threads -> PCs]
    /\ attempts \in [Threads -> Nat]
    /\ result \in [Threads -> {"none", "ok", "err"}]
    /\ before \in [Threads -> Configs]
    /\ staged \in [Threads -> Configs]
    /\ cursor \in [Threads -> Files]
    /\ began \in [Threads -> Configs]
    /\ lastLoaded \in Configs
    /\ lastOutcome \in {"ok", "err"}
    /\ overlapped \in BOOLEAN
    /\ \A i \in 1..Len(stream) :
          \/ /\ stream[i].kind = "Applied"
             /\ stream[i].before \in Configs
             /\ stream[i].after \in Configs
             /\ stream[i].hadChanges = (Vals(stream[i].before) # Vals(stream[i].after))
          \/ /\ stream[i].kind = "Rejected"
             /\ stream[i].error \in Threads \X Nat
             /\ stream[i].watcherStopped \in BOOLEAN

\* ReloadHandle::new: the initial load has succeeded.
Init ==
    /\ disk = FirstConfig
    /\ state = FirstConfig
    /\ lastError = NoError
    /\ stream = <<>>
    /\ pc = [t \in Threads |-> "idle"]
    /\ attempts = [t \in Threads |-> 0]
    /\ result = [t \in Threads |-> "none"]
    /\ before = [t \in Threads |-> FirstConfig]
    /\ staged = [t \in Threads |-> FirstConfig]
    /\ cursor = [t \in Threads |-> 1]
    /\ began = [t \in Threads |-> FirstConfig]
    /\ lastLoaded = FirstConfig
    /\ lastOutcome = "ok"
    /\ overlapped = FALSE

\* The operator edits or replaces a file, or breaks or removes it: then it says
\* nothing, and its val is not looked at.
Write(f) ==
    /\ disk[f].ver < MaxVersion[f]
    /\ \/ \E v \in Values :
             disk' = [disk EXCEPT ![f] = [ver |-> @.ver + 1, val |-> v, ok |-> TRUE]]
       \/ disk' = [disk EXCEPT ![f] = [ver |-> @.ver + 1, val |-> FirstValue, ok |-> FALSE]]
    /\ UNCHANGED <<state, lastError, stream, pc, attempts, result, locals,
                   lastLoaded, lastOutcome, overlapped>>

\* reload_with_options: a short read lock on the state, from which the
\* summary will be computed, then the loader starts.
Begin(t) ==
    /\ pc[t] = "idle"
    /\ attempts[t] < MaxAttempts
    /\ pc' = [pc EXCEPT ![t] = "load"]
    /\ attempts' = [attempts EXCEPT ![t] = @ + 1]
    /\ before' = [before EXCEPT ![t] = state]
    /\ staged' = [staged EXCEPT ![t] = FirstConfig]
    /\ cursor' = [cursor EXCEPT ![t] = 1]
    /\ began' = [began EXCEPT ![t] = disk]
    /\ overlapped' = (overlapped \/ \E u \in Threads : pc[u] # "idle")
    /\ UNCHANGED <<disk, state, lastError, stream, result, lastLoaded, lastOutcome>>

\* Seeded fault: a loader that reads the first file again and takes the others
\* from the active configuration.
LayersOfIncremental(t) ==
    [staged[t] EXCEPT ![cursor[t]] =
        IF cursor[t] = 1 THEN disk[1] ELSE state[cursor[t]]]

\* The layers the loader has once it has read the file at its cursor.
LayersOf(t) == [staged[t] EXCEPT ![cursor[t]] = disk[cursor[t]]]

\* load_file_layer reads and parses one file; more files follow.
ReadFile(t) ==
    /\ pc[t] = "load"
    /\ cursor[t] < NumFiles
    /\ disk[cursor[t]].ok
    /\ staged' = [staged EXCEPT ![t] = LayersOf(t)]
    /\ cursor' = [cursor EXCEPT ![t] = @ + 1]
    /\ UNCHANGED <<disk, state, lastError, stream, pc, attempts, result, before,
                   began, lastLoaded, lastOutcome, overlapped>>

\* The last file is read, and the merged values deserialize and validate.
FinishLoad(t) ==
    /\ pc[t] = "load"
    /\ cursor[t] = NumFiles
    /\ disk[NumFiles].ok
    /\ Vals(LayersOf(t)) \in Acceptable
    /\ staged' = [staged EXCEPT ![t] = LayersOf(t)]
    /\ pc' = [pc EXCEPT ![t] = "publish"]
    /\ lastLoaded' = LayersOf(t)
    /\ lastOutcome' = "ok"
    /\ UNCHANGED <<disk, state, lastError, stream, attempts, result, before,
                   cursor, began, overlapped>>

\* Seeded fault: the loader's error is recorded but what was read is kept.
FailLoadKept(t) ==
    /\ pc[t] = "load"
    /\ \/ ~ disk[cursor[t]].ok
       \/ cursor[t] = NumFiles /\ Vals(LayersOf(t)) \notin Acceptable
    /\ pc' = [pc EXCEPT ![t] = "publish"]
    /\ staged' = [staged EXCEPT ![t] = LayersOf(t)]
    /\ lastOutcome' = "err"
    /\ UNCHANGED <<disk, state, lastError, stream, attempts, result, before,
                   cursor, began, lastLoaded, overlapped>>

\* A file is missing or malformed, or the merged values are refused.
FailLoad(t) ==
    /\ pc[t] = "load"
    /\ \/ ~ disk[cursor[t]].ok
       \/ cursor[t] = NumFiles /\ Vals(LayersOf(t)) \notin Acceptable
    /\ pc' = [pc EXCEPT ![t] = "fail"]
    /\ lastOutcome' = "err"
    /\ UNCHANGED <<disk, state, lastError, stream, attempts, result, locals,
                   lastLoaded, overlapped>>

\* Seeded fault: the report to compare with is captured when the load is over.
PublishLateCapture(t) ==
    /\ pc[t] = "publish"
    /\ state' = staged[t]
    /\ before' = [before EXCEPT ![t] = state]
    /\ pc' = [pc EXCEPT ![t] = "clear"]
    /\ UNCHANGED <<disk, lastError, stream, attempts, result, staged, cursor,
                   began, lastLoaded, lastOutcome, overlapped>>

\* Seeded fault: a load that changed no value is not stored.
PublishIfChanged(t) ==
    /\ pc[t] = "publish"
    /\ state' = IF Vals(before[t]) # Vals(staged[t]) THEN staged[t] ELSE state
    /\ pc' = [pc EXCEPT ![t] = "clear"]
    /\ UNCHANGED <<disk, lastError, stream, attempts, result, locals,
                   lastLoaded, lastOutcome, overlapped>>

\* *write_lock(&self.state) = next
Publish(t) ==
    /\ pc[t] = "publish"
    /\ state' = staged[t]
    /\ pc' = [pc EXCEPT ![t] = "clear"]
    /\ UNCHANGED <<disk, lastError, stream, attempts, result, locals,
                   lastLoaded, lastOutcome, overlapped>>

\* The summary of the attempt: before is what was captured on entry, not what
\* Publish overwrote.
HadChanges(t) == Vals(before[t]) # Vals(staged[t])

\* The locals of an attempt go out of scope when it returns.
Return(t, r) ==
    /\ pc' = [pc EXCEPT ![t] = "idle"]
    /\ result' = [result EXCEPT ![t] = r]
    /\ before' = [before EXCEPT ![t] = FirstConfig]
    /\ staged' = [staged EXCEPT ![t] = FirstConfig]
    /\ cursor' = [cursor EXCEPT ![t] = 1]
    /\ began' = [began EXCEPT ![t] = FirstConfig]

\* Seeded fault: a no-op success returns before last_error is cleared.
ClearErrorIfChanged(t) ==
    /\ pc[t] = "clear"
    /\ lastError' = IF HadChanges(t) THEN NoError ELSE lastError
    /\ IF t \in EmitUnchanged \/ HadChanges(t)
         THEN pc' = [pc EXCEPT ![t] = "announce"] /\ UNCHANGED <<result, locals>>
         ELSE Return(t, "ok")
    /\ UNCHANGED <<disk, state, stream, attempts, lastLoaded, lastOutcome, overlapped>>

\* Seeded fault: emit_unchanged = false silences every success.
ClearErrorThenSilence(t) ==
    /\ pc[t] = "clear"
    /\ lastError' = NoError
    /\ IF t \in EmitUnchanged
         THEN pc' = [pc EXCEPT ![t] = "announce"] /\ UNCHANGED <<result, locals>>
         ELSE Return(t, "ok")
    /\ UNCHANGED <<disk, state, stream, attempts, lastLoaded, lastOutcome, overlapped>>

\* *mutex_lock(&self.last_error) = None; a success that changed nothing is
\* announced only to those who asked for it.
ClearError(t) ==
    /\ pc[t] = "clear"
    /\ lastError' = NoError
    /\ IF t \in EmitUnchanged \/ HadChanges(t)
         THEN pc' = [pc EXCEPT ![t] = "announce"] /\ UNCHANGED <<result, locals>>
         ELSE Return(t, "ok")
    /\ UNCHANGED <<disk, state, stream, attempts, lastLoaded, lastOutcome, overlapped>>

EmitApplied(t) ==
    /\ pc[t] = "announce"
    /\ stream' = Append(stream, Applied(before[t], staged[t]))
    /\ Return(t, "ok")
    /\ UNCHANGED <<disk, state, lastError, attempts, lastLoaded, lastOutcome, overlapped>>

RecordError(t) ==
    /\ pc[t] = "fail"
    /\ lastError' = <<t, attempts[t]>>
    /\ pc' = [pc EXCEPT ![t] = "reject"]
    /\ UNCHANGED <<disk, state, stream, attempts, result, locals,
                   lastLoaded, lastOutcome, overlapped>>

\* Seeded fault: failures are announced under the rule for no-op successes.
EmitRejectedQuietly(t) ==
    /\ pc[t] = "reject"
    /\ stream' = IF t \in EmitUnchanged
                   THEN Append(stream, Rejected(t, attempts[t])) ELSE stream
    /\ Return(t, "err")
    /\ UNCHANGED <<disk, state, lastError, attempts, lastLoaded, lastOutcome, overlapped>>

EmitRejected(t) ==
    /\ pc[t] = "reject"
    /\ stream' = Append(stream, Rejected(t, attempts[t]))
    /\ Return(t, "err")
    /\ UNCHANGED <<disk, state, lastError, attempts, lastLoaded, lastOutcome, overlapped>>

\* Everything reload_with_options does after it was entered.
ReloadStep(t) ==
    \/ ReadFile(t) \/ FinishLoad(t) \/ FailLoad(t)
    \/ Publish(t) \/ ClearError(t) \/ EmitApplied(t)
    \/ RecordError(t) \/ EmitRejected(t)

Next ==
    \/ \E t \in Threads : Begin(t) \/ ReloadStep(t)
    \/ \E f \in Files : Write(f)

Spec == Init /\ [][Next]_vars

-----------------------------------------------------------------------------
(***************************************************************************)
(* Properties that hold whatever attempts overlap.                         *)
(***************************************************************************)
Good(c) == (\A f \in Files : c[f].ok) /\ Vals(c) \in Acceptable

\* Failed reloads never replace the active configuration: what is active is
\* always something the loader accepted as a whole, never a broken file, a
\* refused mixture or a half-read set of layers.
StateIsGood == Good(state)

\* The diff an Applied event shows never leads back to older files: before was
\* captured before the loader read anything, so every layer of after is at
\* least as recent.  Holds even when attempts overlap and publish out of order.
EventsLeadForward ==
    \A i \in 1..Len(stream) :
        stream[i].kind = "Applied" =>
            \A f \in Files : stream[i].before[f].ver <= stream[i].after[f].ver

\* reload() called after a write shows that write: what an attempt publishes is
\* at least as recent as the disk was when the attempt was entered.
PublishesWhatWasWritten ==
    [][\A t \in Threads : (pc[t] = "publish" /\ pc'[t] = "clear") =>
          \A f \in Files : began[t][f].ver <= state'[f].ver]_vars

\* last_error is never an error nobody is told of: its Rejected event is in
\* the stream or about to be emitted by the thread that recorded it.
ErrorIsAnnounced ==
    lastError # NoError =>
        \/ \E i \in 1..Len(stream) :
              stream[i].kind = "Rejected" /\ stream[i].error = lastError
        \/ \E t \in Threads : pc[t] = "reject" /\ lastError = <<t, attempts[t]>>

(***************************************************************************)
(* Properties of behaviours in which no two attempts have overlapped: one  *)
(* watcher, or callers that take turns.                                    *)
(***************************************************************************)
Quiet == \A t \in Threads : pc[t] = "idle"

\* "ReloadHandle<T> keeps the most recent successful LoadedConfig in memory".
KeepsMostRecentSuccess == Quiet => state = lastLoaded

\* ... and last_error is None exactly when the most recent attempt succeeded.
SerialTellsLastAttempt ==
    ~ overlapped =>
        /\ KeepsMostRecentSuccess
        /\ Quiet => (lastError = NoError <=> lastOutcome = "ok")

\* Where each Applied event takes up, according to those before it.
ToldBefore(i) ==
    LET earlier == {j \in 1..(i - 1) : stream[j].kind = "Applied"}
    IN  IF earlier = {} THEN Vals(FirstConfig)
        ELSE Vals(stream[CHOOSE j \in earlier : \A k \in earlier : k <= j].after)

\* A subscriber that applies the announced changes one after the other always
\* has the active configuration: each Applied event starts where the one before
\* it ended, and between attempts the last one ends at the active values.  Holds
\* for every mix of emit_unchanged, as only no-ops are left out.
SerialSubscribersFollow ==
    ~ overlapped =>
        /\ \A i \in 1..Len(stream) :
              stream[i].kind = "Applied" => Vals(stream[i].before) = ToldBefore(i)
        /\ Quiet => Vals(state) = ToldBefore(Len(stream) + 1)

\* What the program shows when it has caught up with the disk: the active
\* configuration and the announced one are the files' content, or last_error
\* says that the files are unusable.
ReflectsDisk ==
    IF Good(disk)
      THEN state = disk /\ lastError = NoError /\ ToldBefore(Len(stream) + 1) = Vals(disk)
      ELSE lastError # NoError

\* A reload during which nobody writes, with attempts that take turns, leaves all
\* three in accord with the files: when reload() returns, what the caller wrote is
\* active and announced and last_error is None, or last_error tells that the files
\* are unusable, whatever failed or was refused before.
UndisturbedReloadReflectsDisk ==
    [][\A t \in Threads :
          /\ ~ overlapped
          /\ pc[t] # "idle" /\ pc'[t] = "idle"
          /\ \A f \in Files : began[t][f].ver = disk[f].ver
          => ReflectsDisk']_vars
=============================================================================
