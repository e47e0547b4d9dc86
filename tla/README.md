# tier: a verification project

TLA+ models of `tier`, a Rust library that loads typed configuration from
layers (defaults, files, environment, command line) and reloads it while the
program runs. The models are translated from `src/crates/tier/src`; paths below
are relative to that directory unless they say otherwise. TLC checks each model
on small instances; TLAPS proves for every instance most of the safety properties
of the reload handle, its events and its watchers, of migrations, of metadata and
their aliases, and of the syntax of paths, and of the layers which one decides at
which path.

## 1. The system

| Part | State | Operations | Talks to |
|---|---|---|---|
| **ReloadHandle** (`reload.rs` 104-331) | `state` (RwLock), `last_error` (Mutex), `subscribers` (Mutex around a vector of senders), the loader closure | `new`, `reload`, `reload_detailed`, `reload_with_options`, `subscribe`, `last_error`, `snapshot`, `start_polling`, `start_native` | runs the loader; sends `ReloadEvent`s through channels; watchers call it |
| **PollingWatcher** (`reload.rs` 333-391, 693-722) | modification times of the last look, the stop flag, a thread | `spawn`, the loop, `stop`/`Drop` | file system; `reload_with_options` |
| **NativeWatcher** (`reload.rs` 393-690, feature `watch`) | the notify watcher, a channel of `WatchMessage`s, the debounce deadline, a thread | `spawn`, `run_native_watch_loop`, `stop`/`Drop` | notify's callback; `reload_with_options` |
| **Loader pipeline** (`loader/load.rs` 8-270, `loader/mod.rs`) | the sources in precedence order, the merged values, metadata, secrets, the report | `load`: prepare metadata, read and rewrite layers, check policies, merge, migrate, deserialize, normalize, validate | every part below; it is the closure the handle runs |
| **Metadata** (`metadata/`) | fields by path, aliases, checks, strategies, allowed and denied sources | `push`, `push_check`, `extend`, `prefixed_metadata`, `effective_*`, `validate_paths`, `canonicalize_env_decoder_paths` | merge, policies, rewriting, validation |
| **Aliases and canonical paths** (`loader/canonical.rs`, `report.rs` 823-902) | none; rewrites layers, metadata, checks, secrets | `canonicalize_layer_paths`, `canonicalize_metadata_against_*`, `canonicalize_path_with_aliases` | values of all layers |
| **Path syntax** (`metadata/paths.rs`, `loader/path.rs`, `report.rs`, `patch.rs`) | the locals of four parsers | one loop, four ways to end | everybody who is given a path as text |
| **Layer merge** (`loader/merge.rs`) | merged values, strategies by path, indexed paths | `merge_values`, `merge_indexed_array_patch`, `merged_shape_from_layers` | metadata; called per layer |
| **Override layers** (`loader/env.rs`, `loader/overrides.rs`, `loader/mod.rs` 1556-1793) | a layer under construction: tree, traces, claimed paths, state of indexed and direct arrays | `into_layer`, `parse_args`, `claim_*`, `insert_*` | the shape of the layers below; aliases |
| **Typed patches** (`patch.rs`) | a layer under construction and the shape it is written for | `insert_value`, `insert_path_with_shape`, deferred patches | the shape of the layers below |
| **Migrations** (`loader/load.rs` 408-564) | merged values, working version | `apply_config_migrations` | path operations; the report |
| **Deserialization and unknown fields** (`loader/de.rs`, `loader/unknown.rs`) | paths asked for, paths ignored | `deserialize_with_path`, the scan, the policies | the user's type; metadata; report |
| **Declared validation** (`loader/validation.rs`) | none | rules by path, checks across fields, levels | metadata; the canonical values; secrets |
| **Report** (`report.rs`) | resolution steps by path, migrations, warnings, secrets | `record_*`, `explain`, `audit_report`, redaction | the pipeline, the reload summary |
| Errors, CLI flags, export, schema, environment docs, `Secret`, derive macros | | pure conversions and code generation | |

How they interact. A program builds a `ConfigLoader`, loads once and wraps the
result, with the loader as a closure, in a `ReloadHandle`. From then on any
thread may call `reload`, and watchers do: the handle runs the closure without
holding a lock, then stores the result, clears or sets `last_error`, and sends
an event to every subscriber, each in a critical section of its own. The
closure reads the files one after the other while others edit them. Inside one
load everything is sequential, but each part leaves records (entries of a
layer, aliases in the spelling of a value, paths of plain text, secret paths)
that later parts use after the values have been rewritten, merged and upgraded.

What is hard here, by kind; `PROJECT.json` lists each at its line with the
properties that would catch it going wrong:

* **interleaving**: overlapping reloads publish in an order of their own;
  receivers are dropped while an emit walks the senders; files change between
  the reads of one load, between a scan and the reload it causes, between the
  looks at two paths of one scan.
* **stale data**: the report an attempt compares with is captured before the
  loader runs; modification times are remembered across a reload; patches are
  accepted for one shape and replayed for another; metadata, secrets and
  steps are spelled for values that later steps change.
* **partial failure**: a loader that fails after reading some of the files;
  a rename whose value has been taken and cannot be inserted; a layer that is
  taken apart and cannot be put together under canonical paths.
* **shutdown and timing**: a debounce deadline that passes while messages wait;
  stop during a reload; late events after the notify watcher was dropped.
* **order dependence**: migrations of one version; overlapping overrides;
  strategies of parent and child paths; declarations that fit one path; aliases
  that overlap; normalizers after the rules were respelled.

What makes each part correct:

* handle: a failed reload changes nothing; what is active was accepted as a
  whole; a reload shows what was written before it; events tell the change.
* events: every subscriber sees one stream, each event once, in one order, and
  no subscriber can delay another or the reloading thread.
* watchers: every change is loaded in the end, stop returns and is final, a
  watcher ends by itself only under `StopWatcher`, and does not feed itself.
* migrations: every rule newer than the values has done its work, and the
  report tells exactly what happened; nothing else changes.
* merge, overrides and patches: at every path the last layer that speaks about
  it wins, as its strategy says; what was accepted is in effect, and what was
  refused had a cause.
* metadata: of all declarations that fit a path the most specific one decides,
  however they were put together; accepted aliases mean one thing.
* rewriting: nothing a layer was given is lost, and what was declared for a
  path is found where its value ends up.
* the load as a whole: the configuration returned keeps the rules declared for
  it, what was given is in it or is reported, explanations end with what is in
  effect, and secrets are not among the values it shows.

## 2. The modules

    PathSyntax* --- EnvNames        EventStream <- ReloadEvents*
    PathPatterns* --- Metadata* -------------.
    JsonTree* - JsonNodes* - OverrideLayer --+- Canonical ----------------.
        |            '--- LayerMerge --- PatchLayer --- Layering*         |
        |                     '-------------------------------------------+- Pipeline
        |--- Report --- Validation ---------------------------------------|
        |--- Deserialize -------------------------------------------------|
        '--- Migrations* (INSTANCE) --------------------------------------'
    ReloadHandle* --- PollingWatcher*
              '------ NativeWatcher*

A module with a star has its theorems and their proofs in a module of its own, named
after it (`MigrationsProofs`); those of a module that extends another use the other's.
`JsonTreeProofs` has the lemmas about values and paths (also of `JsonNodes`) that the
proofs of migrations and of layers share.
The modules TLC runs are named after the first of theirs (`MCPipeline`).

### EventStream and ReloadEvents

`EventStream` is what `subscribe` promises: one stream, and each receiver
takes, from the moment it joined, the next event of it. `ReloadEvents` is
`emit_event` and `subscribe` as written: a mutex (`holder`), the vector of
senders (`subscribers`), the `retain` loop that visits them (`pending`, with
`SendTo` for a successful send and `Prune` for a failed one), one unbounded
channel per receiver (`inbox`), and receivers that take and go away at any
moment. Channels are external (`std::sync::mpsc`) and modelled from their use:
in order, without loss, a send fails only when the receiver is gone. Abstracted:
the order of the vector, what an event says. `stream`, `start` and `received`
are history; the refinement maps `members` to the open receivers.

### ReloadHandle

`reload_with_options`, for any set of threads. Each statement that takes a lock
is an action:

| Action | Code |
|---|---|
| `Begin` | the read lock under which the report is captured (265), then the loader is called |
| `ReadFile`, `FinishLoad`, `FailLoad` | `ConfigLoader::load`: one file per step, then acceptance or refusal of the merged values as a whole |
| `Publish` | `*write_lock(&self.state) = next` (279) |
| `ClearError` | `last_error = None` (280) and the decision whether to emit (281) |
| `EmitApplied`, `EmitRejected` | `emit_event`, one `Append` to the stream, which `ReloadEvents` justifies |
| `RecordError` | `last_error = Some(..)` (287) |
| `Write` | somebody edits, breaks, removes or replaces a file |

Data: a configuration is the content of the file layers it was loaded from; a
file says one of `Values`, or is unusable (`ok = FALSE`). `ver` counts writes;
the program does not see it, the properties and the watchers' modification times
are stated with it. `Acceptable` stands for everything `Pipeline` models.
`before`, `staged` and `cursor` are the locals of an attempt; `began`,
`lastLoaded`, `lastOutcome` and `overlapped` are history. Not modelled: the
redaction of the change list, lock poisoning (the code recovers the inner value),
a panicking loader.

### PollingWatcher

Extends `ReloadHandle`: `Spawn`, `FirstLook` (in the new thread), and the loop
`CheckStop`, `Wake`, `Look`, `SameTimes`/`StartReload`, the steps of the reload,
`AfterReload` with the failure policy; `Stop` and `Join` are `shutdown`, which
`stop()` and `Drop` share. A scan looks at one path per step. Assumed of the
file system: a write leaves a modification time the file did not have before
(two writes within its resolution, or behind a symlink, would escape the
program too; see the hazards).

### NativeWatcher

Extends `ReloadHandle` too. `Register` and `RegisterFails` are the two outcomes
of the registration, `SpawnLoop` the rest of `spawn`. The operating system
reports writes and reads of the files (`reported`), some time later and in order
(`Deliver`), and `Noise` adds what else arrives: a rescan (an event without
paths), a neighbour's event, an error. `Recv`, `Tick`, `Timeout` are the
debounce loop; `Timeout` requires an empty channel, as `recv_timeout` returns a
waiting message first. It only ends the wait (534-536): `StartNativeReload` (547)
is a step of its own, and `Stop` may be sent in between, so a reload can begin with
`Stop` in the channel (`reloadsAfterStop`, history, counts them). `Reload` reports
each file it opens as an access. Which directory is registered for a path, and how
paths are matched, is abstracted to the set of the loader's files.

### PathSyntax and EnvNames

The loop four parsers of written paths share, one character per step (`Write`,
`Read`), and what each of them returns when the text ends: `ExternalPath`
(`loader/path.rs`), `LookupPath` (`report.rs`), `PatchPath` (`patch.rs`),
`MetadataPath` (`metadata/paths.rs`). They differ in an index that does not fit
`usize`, an error for the first two and a panic for the others, and in wildcards.

`EnvNames` says which path the name of an environment variable stands for
(`PathForEnvVar`: prefix, boundary, separator, case, reserved characters) and
which name the generated documents give to a path (`EnvName` of `EnvDocOptions`).
Prefix, separator and case are set twice by a program; the model sets both alike
(`Options`) and asks whether one undoes the other.

### JsonTree and Migrations

`JsonTree` has values as trees and the path operations everything else is made
of, including what they do to arrays: `insert_path` grows them, removal moves
elements up, "00" and "0" are the same index. What goes along a path is a recursive
function of the depth reached (`Walk`, `Pruned`, `Containers`, `Filled`), which
proofs can unroll; `JsonNodes` has what visits a whole tree (`Nodes`, `Leaves`), level
by level down to `MaxDepth`, the depth no value exceeds. `Migrations` is
`apply_config_migrations`: `ReadVersion`, then one action per rule (`ApplyRename`,
`ApplyRemove`, or `PassOver` when nothing is at the old path) in the order of the
sort, then `Stamp`. `Values` are the values that may occur, closed under taking
parts; `Watched` the paths the properties look at. Abstracted: strings (model
strings), numbers up to `MaxU32`.

### OverrideLayer, LayerMerge, PatchLayer and Layering

`OverrideLayer` is the `Layer` under construction that environment and command
line share: the value made by `insert_path`, the paths written (`entries`), the
arrays written by element (`indexed`) and as a whole (`direct`), the `lengths`
and `base` lengths kept for them (`record_indexed_array_state`,
`record_direct_array_state`), the strings that are plain text (`coercible`), and
the claims (`ArgClaimable`, `EnvClaimable`). `LayerMerge` is `merge_values` with
its strategies and element patches, and `validate_indexed_array_paths`: what one turn
of the recursion makes of two values at a path is `MergedAt`, and `Merged` is the
function over the paths both values have that ties the turns together.
`PatchLayer` is `PatchLayerBuilder`: what an index means in a shape
(`PatchPath`), the claim, `insert_path_with_shape` (`InsertShaped`), the records,
and a deferred patch replayed for the shape of the layers (`Replayed`, `ShapeOf`).

`Layering` is `load()` from the command line to the merged values:

| Action | Code |
|---|---|
| `WritePatch` | `insert_value`, one write of a typed patch for a shape that is not known yet |
| `PatchEnds` | how the patch is used: as a layer made at once (`Layer::from_patch`), as a deferred custom patch, as the typed arguments of a command line |
| `ParseSet`, `ParseArgsEnds` | `parse_args`, one `--set` option per step; it runs before everything else |
| `LoadFile`, `FilesEnd` | `load_file_layer` and the push on the stack; a custom patch is replayed against what is on the stack. `Layer::custom` layers of values behave as files |
| `SetEnv`, `VariablesEnd`, `Fallback` | `EnvSource::into_layer`: variables in the order of their names, which is any order of their targets, then the fallback bindings |
| `Stack` | the layers of environment and command line go on top, and above them the typed arguments |
| `MergeLayer` | one turn of the loop: array check, source policies, merge |

The model keeps the values given (`claimed`), of which the code keeps a rendering,
because the properties compare with them. Abstracted: the decoding of values, and
aliases and wildcards. Names of variables are in `EnvNames`, aliases in the modules
below.

### PathPatterns, Metadata and Canonical

`PathPatterns` has which pattern fits a path and how well (`metadata_match_score`),
which alias rewrites a path (`canonicalize_path_with_aliases`), and which sets of
aliases are accepted (`alias_mapping_is_lossless`, `alias_patterns_are_ambiguous`).

`Metadata` is `ConfigMetadata`: `Push`, `PushCheck` and `Extend` (with the metadata
of a nested type, `Prefixed`) in any order, each followed by `normalize`; `Prepare`
is what `load()` does first: environment decoders move to where aliases point
(`DecodersMoved`), then `validate_paths` (`Accepted`). What a field declares is one
function, `says`, from attributes to values; the attributes only matter by name
where the code treats them differently. `Effective` is `effective_field_for` and,
restricted to an attribute, `effective_validations_for`,
`effective_source_policy_for` and the strategy.

`Canonical` extends it with layers:

| Action | Code |
|---|---|
| `Build` | a step of `Metadata` |
| `ReadLayer` | `canonicalize_layer_paths`: aliases in the spelling of the layer, its leaves put where they point, its records moved along |
| `Respell` | `canonicalize_metadata_against_layers`, before the environment and the patches |
| `Resolve` | the same a last time, and `canonicalize_secret_paths` |

### Deserialize, Report, Validation and Pipeline

`Deserialize` is how a type asks for its parts: a type is a record, reading is one
recursive definition (`Scan`) that gives the value, where it failed, the paths that
were asked for and those that were ignored; `Deserialized` has the two attempts.
`Report` has the steps, redaction, `collect_diff_paths`, the look-up of a path and
`explain`. `Validation` has the declared rules, their levels, and the checks across
fields with the wildcards they bind.

`Pipeline` is `load()` from its layers to its end, with `Canonical` in front and
`Migrations` as an instance whose variables are those of the load:

| Action | Code (`loader/load.rs`) |
|---|---|
| `ReadSources` | 9-97: metadata and layers, the defaults first, in the order of the sources |
| `Begin` | 99-125: the last rewriting, and the report that begins with the defaults |
| `MergeLayer` | 127-144: array check, source policies by the effective metadata, steps, deprecation warnings, merge |
| `Migrate` | 146-155: a step of `Migrations` |
| `ReadConfig`, `CheckFields` | 157-209: deserialization, the scan, the policy for unknown fields; they are the error when the values do not fit, too |
| `RunNormalizer` | 211-230: the normalizer, its steps, and the rewriting of metadata and secrets for what it has left |
| `Validate` | 232-267: declared rules and checks, warnings, validators, the final report |

The user's parts are parameters: the type (`Target`), what the texts parse to
(`Reads`), the normalizers. The policy for unknown fields and the migrations are
chosen where they are first read, which makes no difference to a load.

## 3. What TLC checks

| Run | Question | States |
|---|---|---|
| `reload_events` | two emitters, two receivers, three emits: exactly once and in order, every emit ends, the fan-out implements `EventStream` | 40 thousand |
| `reload_handle` | two threads, two attempts each, two files, three writes: what holds whatever overlaps (`StateIsGood`, `EventsLeadForward`, `ErrorIsAnnounced`, `PublishesWhatWasWritten`) and what holds while nothing does (`SerialTellsLastAttempt`, `SerialSubscribersFollow`, `UndisturbedReloadReflectsDisk`) | 1.6 million |
| `reload_overlap` | *violated*: does the handle keep the most recent success? | |
| `polling` | one polling watcher of either policy, a file broken and repaired, one changed: it catches up, stops, and stops as it is told only | 46 thousand |
| `native` | one native watcher of either policy, two writes, one noise event: it catches up, does not feed itself, stops, and begins at most one reload once it has been told to (with "none" for "at most one" TLC finds the late reload) | 583 thousand |
| `migrations` | all pairs of nine rules and triples of four, any order of registration, 126 documents: legacy paths gone, report true, the rest untouched | 53 thousand |
| `migrations_same_version` | *violated*: are all legacy paths gone, also with two rules of one version? | |
| `layering` | defaults, a file, a typed patch of each use, environment and command line with up to three overrides, three sets of strategies and policies: the highest layer decides at each path, with appended arrays complete, no element is left out, refusals have a cause, what was accepted is in effect, a patch leaves the rest alone, policies go by the kind of the layer that decides | 1.8 million |
| `paths` | every text of up to six characters through the four parsers, and as the name of a variable under 24 settings (prefix, separator, case): the grammar, the canonical form that is parsed again, and that the documented variable of a path is read as this path | 300 thousand |
| `metadata` | up to two declarations out of 17 fields, two checks and four nested types, two of six layers, any secrets: the most specific decides, aliases and nesting are unambiguous, decoders and declarations reach their values, rewriting loses nothing | 91 thousand |
| `canonical_conflict` | *violated*: do conflicting alias and canonical paths fail? | |
| `pipeline` | whole loads: at most one of ten declarations, the defaults and up to two of thirteen layers, migrations or none, each policy, a normalizer or none: rules hold of the result, explanations tell it, texts of secrets stay hidden, outside of the exceptions below, nothing is ignored, text is read as the target asks | 122 thousand |

Why the bounds are enough for the cases to happen. Two threads and two attempts
each are what it takes for one attempt to start, run and end inside another, and
for a third to see the result; two files are what it takes for a load to see one
of them before and one after a change, and the refused mixture (new first file,
old second) makes that visible. Two writes of the first file allow broken and
repaired, or changed again while a reload that has read it is running. Three
emits let a receiver join before, between and after. A debounce interval of one
tick separates "deadline not yet", "deadline passed" and "message waiting".
`MaxAttempts = 4` with at most three writes (polling) or two writes and one noise
event (native) is more than the watcher can use, so it never cuts a behaviour
short. Version numbers 0 to 4 with a supported version of 2 and `MaxU32 = 3`
have a version and a rule at, below and above each boundary.

Three overrides are what it takes to write an element, replace the array and write
another element; the options, variables and writes of the model have two spellings
of an index, elements of lists in lists, of lists in maps and of a list of lists,
whole lists and maps, a null element and a numeric key where there is a map. Every
text is used by one source, so it says where it comes from. `HighestLayerDecides`
is stated path by path and from the overrides as they were given, not with the
operators of the merge: no text a layer decides is lost (`TextsAreKept`), every text of
the result comes from a layer that decides it (`TextsAreFound`), and an array that is
only appended to is the arrays of all layers in their order (`ElementsAreAppended`).
`Values` is everything the sources can hold, with all its parts, and `MaxDepth = 5` one
level more than any value of the model reaches. A second file adds nothing: the merge does not tell it from
the custom layer.

The separators of names are the default, one that is also a character of names, and a
letter, which is left out where letters are folded. Six characters hold the shortest path with a name behind an index behind a name,
and every way to leave a bracket or a dot open; `MaxIndex = 10` makes two-digit
indices that fit and do not fit. Two declarations are what it takes for two of
them to fit one path, or for an alias to meet a declaration or another alias; a
nested type brings its own, so that three meet. Two layers are what it takes for
one to spell an index in a way the other knows better.

In `pipeline` each layer was chosen for what it does to another: plain text where
the target has a number, a text or a loose number; a whole list above elements,
elements above it; a secret in a container given as a whole; legacy, aliased and
unknown names. With the defaults, three layers are what it takes for one to be
overridden by another and recorded beneath it. One normalizer has the steps, the
redaction and the rules follow a value that has changed since they were respelled.

`CHECK_DEADLOCK FALSE` everywhere, because every one of these systems may really
come to rest: no more writes, a stopped watcher, a load that has ended.

Each property is accompanied by a seeded fault: a definition marked
*Seeded fault* beside the one it would replace, under which TLC refutes it.

### Fairness

* `ReloadEvents`: weak fairness of the thread inside `emit_event`; the mutex is
  held only across non-blocking sends. Nothing is assumed of receivers.
* `PollingWatcher`: weak fairness of the watcher's thread, whose sleeps and
  loader end, and of `Join`. The stop flag is a relaxed atomic: that a store
  becomes visible in the end is part of this assumption.
* `NativeWatcher`: weak fairness of the loop, of the delivery of events, and of
  a shutdown that has begun. Nobody has to write, start or stop anything.

Writes and noise are bounded, so "in the end" means after the files have stopped
changing. A stream of events denser than the debounce interval postpones the
reload for as long as it lasts, and the model does not claim otherwise. A load
ends by the shape of `load()`: it has no loop that waits, and no fairness is
assumed where only safety is checked.

### What the violated properties show

1. `reload.rs:106` says the handle keeps the most recent successful
   configuration. With overlapping reloads the attempt that loaded first may
   store last (279), and the older success stays.
2. `loader/mod.rs:105`: a migration is applied when upgrading older payloads.
   The first of two rules with one `since_version` advances the working version
   (`loader/load.rs:492`), and the second is skipped for good.
3. `tests/loading.rs:2990`: conflicting alias and canonical paths must fail. They
   do when two values come to one path; an alias that moves a value into another,
   or onto a path with values in it, writes over it (`loader/canonical.rs:433`).

### Exceptions the properties state

Where the code is weaker than one would wish and nothing in the repository
promises otherwise, the property that comes near says so by name. They are worth
a reader's time:

* *Reloads.* `had_changes` compares with the report captured on entry
  (`reload.rs:265`), which another attempt may have replaced; with
  `emit_unchanged = false` a change can then go unannounced (hence the `Serial...`
  properties). A file changed between the return of `start_polling` and the first
  look of the thread (352) belongs to the baseline: `WatcherCatchesUp` speaks of
  the changes after it.
* *Arrays in overrides.* Elements in front of one that is written through are made
  up as empty containers (`loader/de.rs:661`) and merged like values: `--set
  grid.1.0=x` empties `grid.0` (`MadeUp`). An array inside something given as a
  whole has no base length (`loader/load.rs:573`): a sparse index is checked
  against the values about to be replaced, and a null element is loaded (`Resets`).
  An option that gives an array erases an earlier one that wrote an element of it,
  and two spellings of one path (`list.00`, `list.0`) are no conflict on the
  command line (`SetOptionsApply`). Elements an earlier option wrote still count
  after a later one has replaced the array (`Rewrites`). What was given inside a
  larger override has no resolution step and no policy of its own (`GivenInside`).
* *Typed patches.* A patch that sets an element to null writes what the merge takes
  for "not written" (`SetsNull`, `PatchApplies`), and one that sets a map to the empty map
  leaves what is in it: the merge of two objects. A patch without a shape
  (`Layer::from_patch`) takes indices for keys unless they are in brackets, which
  is why `PatchLeavesTheRest` speaks of deferred patches. The shape a deferred patch is
  replayed for (`merged_shape_from_layers`, `loader/merge.rs:29`) begins with the
  defaults and merges their layer once more, which `load()` does not: in an array that is
  appended to, it has the elements of the defaults twice, and what the files appended
  further behind. With `[{sub: [..]}]` in the defaults and `["f"]` in a file, a patch of
  `list[1].sub[0]` is accepted, where `patch.rs:711` means to refuse it, and replaces
  `"f"` (`Misplaced`).
* *Paths.* An index that does not fit `usize` panics where it is parsed with
  `expect` (`metadata/paths.rs:167`, `patch.rs:503`). A separator of variable names
  with letters is looked for as it was set, in names whose segments are in upper case
  (`docs/mod.rs:160`, `loader/env.rs:549`): a documented variable may be taken apart
  elsewhere, or nowhere, than it was joined (`KeepsSeparator`).
* *Aliases.* They are not applied twice: a path one alias leads to may begin with
  another (`Chained`). An alias of a field that is shorter than the field's path is
  also, with more behind it, an alias of paths of the nested type
  (`NestingKeepsMeaning`). A decoder declared with something else for an aliased path
  stays there (`DecoderAlone`). A declaration under a pattern that begins with an alias of
  another field stays where no value is (`Hidden`). An alias of an array element
  leaves a null behind (`OfElements`). A secret container whose contents an alias
  moves away no longer covers them (`Emptied`). As soon as any alias is
  configured, objects with numbers as keys come back as arrays (`NumericKeys`).
* *Text.* Which strings are plain text is the union over all layers, whichever
  decides, and is not moved by `Append` and migrations. The second attempt reads
  all texts at once, so one that must stay text (a name that looks like a number)
  can fail it, and the error reported is that of the first attempt
  (`TextIsReadAsTheTargetAsks`). A version given as plain text is refused as
  `InvalidConfigVersion`.
* *Migrations in a load.* They see the merged values: the version of the defaults
  hides that a file is old, and a legacy key of a low layer overwrites the new key
  of a higher one. Explanations of a moved value end with the old steps
  (`Upgraded`).
* *Explanations.* A value appended to an array is elsewhere than its layer recorded
  it (`Shifted`), and a value that was in a container a higher layer has replaced
  keeps the steps it had (`Replaced`). The audit leaves out steps at paths that no
  longer fit the shape of the result.
* *Unknown fields.* A path the metadata declares is never unknown, whether the
  target has it or not (`NothingIsIgnored`).
* *Secrets.* `SecretsStayHidden` is about the values a load shows, and there are two
  that show a secret (`TellsSecrets`): what is said of a rule on a container tells what
  is inside the container, and when a secret is not of the type the configuration has
  for it, the message of `ConfigError::Deserialize` quotes it as it was given
  (`loader/de.rs` 43, 62 and 111; nothing redacts it). Without the second exception TLC
  finds a file with a text at the secret `db.mode`, which is a number, and the text in
  the error. Reports, explanations and declared validation redact; no document, comment or test
  says that this message does, so it is an exception here and not a violated property. The names of sources are not values: `loader/mod.rs` 1634 makes
  `--set path=value` the name of the source of an option, and with it reports,
  explanations, warnings and errors show the text of a secret given on the command
  line (`tests/loading.rs` 2343 expects it). Not in the model: the errors of sources
  that cannot be read, which quote options and variables (`loader/mod.rs` 1612-1660),
  and what validators and normalizers of the program say.

## 4. What TLAPS proves

All proofs are for any constants that satisfy the assumptions of the modules, which
TLC evaluates on its runs:

* `FreeAssumption`, `ReloadAssumption`, `PollingAssumption`, `NativeAssumption`: the
  values for "no thread" and "no error" are none; there is at least one file, and the
  first configuration is one the loader accepted; the debounce interval is a number.
* `OrderAssumption`: strings are ordered. `MetadataAssumption`: declared paths are
  sequences of strings, probes have no wildcard, the fields of a nested type are
  finitely many.
* `MigrationAssumption`: versions are `u32`, paths are sequences of strings and not
  empty, documents are trees.
* `DepthAssumption`, `LayeringAssumption`: the values of the sources are closed under
  taking parts, the defaults and the files are objects; paths are sequences of strings
  and not empty, and none with a merge strategy is longer than `MaxDepth`, the depth down
  to which the properties look for texts.
* `SyntaxAssumption`: `usize::MAX` is a number. Letters may be anything.

| Theorem | Says | Bounded run |
|---|---|---|
| `ReloadEventsProofs`: `Subscribed`, `Delivery`, `Refinement` | live receivers stay subscribed; exactly once and in order; the fan-out implements `EventStream` | `reload_events` |
| `ReloadHandleProofs`: `StateAlwaysGood`, `EventsForward`, `ErrorsAnnounced`, `Publishes` | hold however attempts overlap | `reload_handle` |
| `SerialTellsLast`, `SubscribersFollow`, `UndisturbedReload` | hold as long as no attempts have overlapped | `reload_handle` |
| `WatcherProofs`: `PollingIsClient`, `PollingIsSerial`, `StopsWhenTold`, `NoChangeIsLost` | a polling watcher implements the handle's specification and never overlaps itself; how it ends; what it last saw has been loaded | `polling` |
| `WatcherProofs`: `NativeIsSerial`, `EveryReloadHasACause`, `NativeStopsWhenTold`, `NoEventIsLost` | the same of the native watcher; it does not feed itself; at most one reload begins after Stop, and none once the loop has ended; a write is loaded or on its way | `native` |
| `MigrationsProofs`: `ReportTells`, `LeavesTheRest`, `LegacyGone` | the report is a true history; what no rule names stays; no legacy path survives if versions are distinct | `migrations` |
| `LayeringProofs`: `HighestLayerWins`, with the invariant `StackIsMerged` | a loaded value has at every path what the highest layer that speaks about it has there, of any layers, values and strategies; appended arrays are complete | `layering` |
| `LayeringProofs`: `DeniedDoNotDecide` | no text at a path comes from a source of a kind denied to it, unless given inside something larger | `layering` |
| `LayeringProofs`: `PatchLeaves` | a deferred patch changes what it writes and nothing else, unless its shape has an element in another place | `layering` |
| `MetadataProofs`: `AliasesUnambiguous`, `MostSpecific`, `NestingKeeps`, `DecodersReach` | of whole metadata, however they were put together, nested and moved | `metadata` |
| `MetadataProofs`: `LosslessRewriting`, `OneRewriting`, `AnyBestAlias`, `SortedLists` | of any aliases and paths | `metadata`, by what rests on them |
| `PathSyntaxProofs`: `GrammarAccepted`, `CanonicalForm`, `DocumentedVariables` | the parser accepts the grammar; what it returns is read back; the documented variable of a path is the one read for it | `paths` |

### Arguments

**ReloadEvents.** `ExactlyOnceInOrder` speaks of concatenated sequences and is not
inductive by itself; `IInv` states it by index (`InStep`: what was received continues
in the channel where it stopped), and adds that unused receivers are unconnected and
that the event being sent is the last of the stream. `Glue` takes the indexed form
back to `\o` and `SubSeq`. With the same invariant every step maps to a step of
`EventStream` or a stutter: `EmitEvent` to `Emit` at the moment the mutex is
acquired, `Receive` to `Take`, the visits to stutters. `Subscribed` (a live receiver
is never pruned) is a part of what the refinement needs.

**ReloadHandle.** The invariant follows the layers of a running load: nothing anybody
knows is newer than the disk (`Past`), so each layer read is good and at least as
recent as what the attempt captured on entry (`Reading`), and when the loader has
returned that is true of all layers (`Loaded`). `ErrorIsAnnounced` is inductive by
itself once the stream is known to be a sequence of events. In the second half,
`SerialInv` says that at most one thread is inside an attempt and that the state is
the last configuration loaded, or about to be; `ErrorInv` the same of `last_error`;
`FollowInv` that a subscriber who replays the stream has the active values, except
between `Publish` and `EmitApplied`, where they are those the attempt captured.
`UndisturbedReload` is about a step (a return) and follows what the attempt has read
so far (`LoadedIsDisk`).

**PollingWatcher.** Each of its steps is a step of the handle or a stutter
(`PollingIsClient`), so every theorem about the handle holds with a watcher beside
it; and as the watcher is the only client, the condition of the serial ones is always
true (`PollInv`). `StopInv` relates the flag, the owner and the loop. `LookInv` orders
the times the loop works with: first look, last look, scan under way, disk when the
reload began, disk now. Versions only grow, so two that are equal leave nothing
between them, and what the watcher remembers is never newer than what it has loaded.

**NativeWatcher.** It writes `last_error` by itself, so it is no client of the handle,
and the parts of the invariants that do not depend on `last_error` are used
(`NativeIsSerial`). `CauseInv` counts: reloads, deadlines and relevant messages in
the channel or not yet delivered are together no more than the relevant events there
were. `SettledInv` says that while no relevant event is under way and no deadline
runs, the files are as the last reload found them. `EndInv` says where `Stop` is: its
sender waits for the loop, and it stays in the channel until the loop receives it. A
wait ends only on an empty channel, so while `Stop` is there no other wait ends, and
the reload that had left its wait behind before `Stop` came is the only one to begin.

`NoChangeIsLost` and `NoEventIsLost` are the safety parts of the liveness properties
TLC checks; with fairness it only remains that the loop comes round.

**Migrations.** `ReportInv` (the steps of the report, done to the original, give the
values at hand) is nearly inductive; the rest is about trees. A walk along a path is
a recursive function, and its steps are the lemma `WalkSteps`; a change at a path is a
tower of containers, each with one child replaced (`Towers`), so what it does to
another path is found where the two part. `TreeInv` keeps values trees. `OthersInv`
says of a path no rule names that it has what it had, or an element a growing array
made up. `LegacyInv` says which rules the loop has passed, and that their old paths
are empty or were filled by a later rule. The properties hold for rules the program
can be given, not only those of the run: `OthersUntouched` and
`LegacyPathsGoneIfDistinct` were first stated too strongly (a removed array element
moves those behind it; a rename can bring something back to an old path by a container
it moves), which the proof attempt showed and a run with one more rule confirmed.

**LayerMerge and Layering.** `MergedFields` and its neighbours are stated one turn at a
time; `Merged` ties the turns into a function over the paths both values have, which
`MergeSteps` unrolls downwards: at every path both values lead to, the result has what
`MergedAt` makes of the two, and where they part it has what one of them has (`Onward`).
From this follow the three facts about a single merge the induction over the stack
needs: a text the layer leaves alone stays (`LeftStays`), a text of the layer arrives
unless it is shifted, and a text of the result is one or the other.

The property speaks of what the overrides were given for (`WritesElements`, by
`claimed` and `Place`), the merge goes by the records (`indexed \ direct`). That the two
agree for every layer on the stack is `Linked`, and most of the proof: `IsRecorded` says
it of a layer under construction, through options that replace each other, two spellings
of an index and arrays that appear and go; `IsPatchLayer` says it of typed patches, whose
containers stay where they are once written (`Sturdy`); and canonical paths (`Place`) are
the same in all spellings. `StackInv = SourcesInv /\ MergeInv` has these facts of every
layer, and of the merged value (`IsMerged`) that what the layers so far decide is in it
(`Kept`), that nothing else is (`Found`), and that appended arrays are complete
(`HasAll`). `HighestLayerDecides` is not inductive: it says that a text is where it was,
not that the containers on its way are still of the same kinds, and whether the next
layer leaves it alone depends on those. `SameKinds` is the strengthening.

`DeniedDoNotDecide` goes the other way, from what is loaded to an entry the policy looked
at. `Told`: every text of a layer has an entry, or is inside something an override gave;
for layers under construction, `Given`: every text is in the place of an override, and
each override has its entry. A write may make containers, but no text other than what it
writes (`WriteGrows`). `PolicyInv`: every layer merged so far was allowed all of its entries.
Then the layer `HighestLayerDecides` names for a text is one whose entries include it.

`PatchLeaves` compares two merges of the same layers: the shape the patch was replayed for,
which has merged the defaults into themselves, and the value it is merged into. They are not
equal, and not even of the same structure. `AgreeInv` says what is left: along every path, as
far as it does not go behind the elements of the defaults in an appended array (`Aligned`),
the two have containers of the same kinds, nothing in the same places, and arrays that are
equally long or both have those elements (`Alike`). Less is not inductive: the kinds alone do
not tell where the next layer appends, nor which of its elements fill a hole. `PatchInv`
says that the patches on the stack were replayed for the layers beneath them. What such a
patch holds follows write by write (`Follows`): on the way to a text it does not write it has
nothing, a null in front of an element it writes, or a container of the kind the shape has
there, with that element recorded. That is all the merge leaves alone (`LeftAlone`). The
first attempt had no `Misplaced`, and failed on the elements the shape has twice.

**PathPatterns and Metadata.** `alias_patterns_are_ambiguous` rewrites one sample;
`OneRewriting` shows that if the samples agree, all paths do, segment by segment.
`SortedLists` makes the order of `sort()` a function of the set. `TableInv` keeps
what is registered a table of fields; `ToldInv` says that for each attribute the table
has the last value declared for a path. `MostSpecific` then needs what the loop of
`effective_field_for` leaves behind: of each attribute, the last in the sorted list
that declares it. `DecodersReach` follows the fields through
`canonicalize_env_decoder_paths`: a decoder by itself is the only one at its path
(`Solitary`), the accepted decoders go to different places, and what the second
normalization has at a place is what was declared for one of the paths that lead
there. `NestingKeeps` describes the nested table field by field (`Nests`); putting a
prefix before paths and patterns keeps whatever the order of fields and aliases is
made of (the `Under...` lemmas), so the same field decides (`NestedEffective`); and
unless rewritten paths meet aliases again (`Chained`), the aliases that fit a nested
field are those that fitted it before (`NestedFits`). Both properties were first
stated too strongly, which the proof attempts showed and TLC confirmed: a field with
more than a decoder under an aliased path stays where it is, and an alias of the
prefix that is shorter than the prefix fits paths that are not below it.

**PathSyntax.** `ReaderInv`: the reader is the fold of the text so far, and `Between`
two characters. `CanonicalForm` follows the reader through the text `Joined` makes.
`Grammar` says that a reader can still end well (`Alive`) if and only if no place of
the text can be objected to by one who has read no further (`BadAt`); a text is
written by the grammar if there is no such place and it does not end in the middle of
something (`WrittenIs`), which relates the places to the pieces between the dots.
`Keeps`: segments and name hold all the characters of the text in their order.
`DocumentedVariables` needs of the prefix only that `normalize_env_prefix` makes some
text of it, and of `str::split` that joining undoes it where no piece is empty
(`SplitRejoins`) and that upper case changes neither (`SplitInUpperCase`,
`JoinedInUpperCase`), which is true of separators without letters. A name is then taken
apart into the pieces it was made of (`ReadBack`), and these are not empty and not
reserved: because a variable was accepted with them (`Judged`), or because the parser
of written paths never returns others (`AcceptedSegments`).

Some of this is forced by the prover. Loops are written as folds or recursive
functions, whose definitions are a `CHOOSE`: that there is such a function is proved
first, by the least length for which there is none (`LeastOne`), and then its turns
are read off (`IsRun`). The library's induction theorems take an operator and cannot
be used; every induction is a least counterexample. Strings are constants the prover
knows nothing of, so paths are over any set of segments.

The type invariants of `ReloadEvents` and `ReloadHandle` and
`LiveReceiversStaySubscribed` are proved and no longer among the invariants of the
runs: every step of the proofs uses them.

### Only model-checked

* Liveness (`EmitEnds`, `WatcherCatchesUp`, `EveryChangeIsLoaded`, `StopReturns`,
  `NativeStopReturns`): fairness is beyond this prover.
* Of `Layering`: `AcceptedWritesApply`, `NoHolesUnlessReset`, `RefusalsHaveCause`. The
  first speaks of what a layer holds of each of its overrides after all of them, the other
  two of nulls and empty containers, which the invariant leaves out because the merge takes
  some of them for nothing.
* Of `Canonical`: `RewritingKeepsWhatWasGiven`, `DeclarationsReachTheValue`. They are
  about a layer that is taken apart into its leaves and put together one by one in an
  order of their own.
* `Pipeline`: deserialization, the report and validation are recursive over whole trees,
  with recursive operators, which the prover does not take.

## 5. Plan

In this order; each step is checked and its theorems proved before the next.

1. **The writes of a layer**: that each override of an accepted layer is in its value
   (`AcceptedWritesApply`), from `IsRecorded` and what a later write leaves of an earlier
   one (`Follows` says it of a typed patch, for what it does not write).
2. **Environment variables** (`loader/env.rs` 192-237, 357-480): bindings that
   collide after a path was rewritten, the choice of a decoder; on top of
   `Canonical` and `EnvNames`.
3. **Reloads with the pipeline**: the acceptance of `ReloadHandle` (`Acceptable`,
   `FinishLoad`) as the outcome of `Pipeline`, with the summary computed from two
   reports.

## 6. Not modelled, and why

Parts that change no state of their own: rendering (`export.rs`, `schema/`,
the lists in `docs/`, the texts of errors), `cli.rs` (argument definitions), `secret.rs` (a
wrapper), and the derive macros (compile-time code generation; what they generate
is `ConfigMetadata`, which `Metadata` builds in any order). Finding and parsing
files is I/O and the work of other libraries: layers begin as values.

Abstracted in what is modelled:

* `Layering` treats overrides as values, explicit JSON; plain text is in
  `Pipeline`. Variables have targets there, not names;
  `EnvNames` has names, without the template tokens documents show for wildcards.
* Look-ups (`explain`, `latest_source_for`) are by dotted paths; what
  brackets mean is in `PathSyntax`.
* Numbers are integers; booleans and floats are read as integers are. Enums, units
  and byte strings have no type here.
* Formats (`email`, `url`, patterns) are a parameter that says which texts have
  them.
* The suggestions for unknown fields (string distances), the text, hints and
  details of errors, and the counts of an audit are left out.
* `config_version` without migrations (nothing but the stamp) is not in `Pipeline`.
* Lock poisoning, and panics of a loader, a normalizer or a validator.

`PROJECT.json` gives the status of every part.
