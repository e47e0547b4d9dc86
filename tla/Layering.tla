------------------------------ MODULE Layering ------------------------------
(***************************************************************************)
(* How load() (loader/load.rs) makes one value of all its sources: it      *)
(* parses the command line, puts the defaults, the files, a typed patch,   *)
(* the environment and the command line on a stack of layers, and merges   *)
(* the stack from the bottom.  Custom layers made of a value               *)
(* (Layer::custom) are built and merged as files are.                      *)
(***************************************************************************)
EXTENDS PatchLayer

CONSTANTS
    Values,        \* the values there are
    Defaults,      \* the values the defaults serialize to
    FileValues,    \* the values the files hold
    ArgOverrides,  \* the --set options, records of a path and a value
    EnvOverrides,  \* the environment variables, by their target and value
    Fallbacks,     \* the variables that are fallback bindings
    PatchWrites,   \* what typed patches set: path, the indices in brackets, value
    Metadata,      \* what the metadata says on merging, and on the sources of paths
    MaxFiles,      \* bound: files of one load
    MaxOverrides   \* bound: options and variables of one load

ASSUME LayeringAssumption ==
    /\ MaxFiles \in Nat /\ MaxOverrides \in Nat
    /\ Closed(Values)
    /\ \A v \in Defaults \cup FileValues : v \in Values /\ v.kind = "object"
    /\ \A o \in ArgOverrides \cup EnvOverrides \cup Fallbacks \cup PatchWrites :
          o.path \in Seq(STRING) \ {<<>>} /\ o.value \in Values \ {Missing}
    /\ \A m \in Metadata : /\ DOMAIN m.merge \cup DOMAIN m.denied \subseteq Seq(STRING) \ {<<>>}
                           /\ \A p \in DOMAIN m.merge : Len(p) <= MaxDepth

VARIABLES
    metadata,    \* the merge strategies, and the kinds of sources denied to paths
    patch,       \* a typed patch: its writes, and the builder that recorded them
    args,        \* the layer of the command line
    env,         \* the layer of the environment
    layers,      \* the stack, the defaults first
    merged,      \* what the layers make together
    next,        \* the layer to be merged next
    phase        \* where load() is: "patch", "args", "files", "env",
                 \* "fallbacks", "merge", "done", "refused"

vars == <<metadata, patch, args, env, layers, merged, next, phase>>

Init ==
    /\ metadata \in Metadata
    /\ args = NewLayer("args")
    /\ env = NewLayer("env")
    /\ \E v \in Defaults : layers = <<FromValue("defaults", v)>> /\ merged = v
    /\ patch = [use |-> "none", writes |-> <<>>, builder |-> NewBuilder("custom", EmptyObject)]
    /\ next = 1
    /\ phase = "patch"

MayOverride == Len(args.claimed) + Len(env.claimed) + Len(patch.writes) < MaxOverrides

\* insert_value, of a builder that does not know the shape yet: of a patch that is
\* deferred, or of a layer that is made at once (Layer::from_patch).
WritePatch ==
    /\ phase = "patch"
    /\ MayOverride
    /\ \E w \in PatchWrites :
          LET b == WithWrite(patch.builder, w)
          IN  IF Refused(b) THEN phase' = "refused" /\ UNCHANGED patch
              ELSE patch' = [patch EXCEPT !.writes = Append(@, w), !.builder = b] /\ UNCHANGED phase
    /\ UNCHANGED <<metadata, args, env, layers, merged, next>>

\* The patch is given to the loader: as a layer, as a patch of the files, or as
\* the typed arguments of a command line.
PatchEnds ==
    /\ phase = "patch"
    /\ phase' = "args"
    /\ \E use \in IF patch.writes = <<>> THEN {"none"} ELSE {"layer", "custom", "typed"} :
          patch' = [patch EXCEPT !.use = use]
    /\ UNCHANGED <<metadata, args, env, layers, merged, next>>

\* parse_args: one --set option, refused when it is in conflict with an earlier
\* one, or does not fit into the value.
ParseSet ==
    /\ phase = "args"
    /\ MayOverride
    /\ \E o \in ArgOverrides :
          LET l == WithOverride(args, o.path, o.value)
          IN  \/ /\ ArgClaimable(args, o.path, o.value)
                 /\ l.value # Conflict
                 /\ args' = l
                 /\ UNCHANGED phase
              \/ /\ ~ ArgClaimable(args, o.path, o.value) \/ l.value = Conflict
                 /\ phase' = "refused"
                 /\ UNCHANGED args
    /\ UNCHANGED <<metadata, patch, env, layers, merged, next>>

ParseArgsEnds ==
    /\ phase = "args"
    /\ phase' = "files"
    /\ UNCHANGED <<metadata, patch, args, env, layers, merged, next>>

\* load_file_layer, of a file that is there
LoadFile ==
    /\ phase = "files"
    /\ Len(layers) <= MaxFiles
    /\ \E v \in FileValues : layers' = Append(layers, Canonicalized(FromValue("file", v)))
    /\ UNCHANGED <<metadata, patch, args, env, merged, next, phase>>

\* The custom layers come after the files; a deferred patch is replayed against what
\* is on the stack.
FilesEnd ==
    /\ phase = "files"
    /\ LET b == IF patch.use = "layer" THEN patch.builder
                ELSE Replayed("custom", ShapeOf(metadata.merge, layers), patch.writes)
       IN  IF patch.use \notin {"layer", "custom"} THEN phase' = "env" /\ UNCHANGED layers
           ELSE IF Refused(b) THEN phase' = "refused" /\ UNCHANGED layers
           ELSE phase' = "env" /\ layers' = Append(layers, Canonicalized(b.layer))
    /\ UNCHANGED <<metadata, patch, args, env, merged, next>>

\* canonicalize_runtime_env_target_path
EnvPath(p) ==
    CanonicalPath(env.value, FoldLeft(LAMBDA q, l : CanonicalPath(l.value, q), p, layers))

\* insert_env_value
InsertEnv(p, x) ==
    LET l == WithOverride(env, p, x)
    IN  \/ /\ EnvClaimable(env, p)
           /\ l.value # Conflict
           /\ env' = l
           /\ UNCHANGED phase
        \/ /\ ~ EnvClaimable(env, p) \/ l.value = Conflict
           /\ phase' = "refused"
           /\ UNCHANGED env

\* into_layer: the variables in the order of their names, which is any order of
\* their targets.
SetEnv ==
    /\ phase = "env"
    /\ MayOverride
    /\ \E o \in EnvOverrides : InsertEnv(EnvPath(o.path), o.value)
    /\ UNCHANGED <<metadata, patch, args, layers, merged, next>>

VariablesEnd ==
    /\ phase = "env"
    /\ phase' = "fallbacks"
    /\ UNCHANGED <<metadata, patch, args, env, layers, merged, next>>

\* A fallback binding is left out when the other variables have made something
\* of its target.
Fallback ==
    /\ phase = "fallbacks"
    /\ MayOverride
    /\ \E o \in Fallbacks :
          /\ ~ Has(env.value, EnvPath(o.path))
          /\ InsertEnv(EnvPath(o.path), o.value)
    /\ UNCHANGED <<metadata, patch, args, layers, merged, next>>

\* The layers of the environment and of the command line go on top, in this
\* order, when they hold anything, and above them the typed arguments.
Stack ==
    /\ phase = "fallbacks"
    /\ LET sources == layers \o [i \in 1..Cardinality({l \in {args, env} : l.entries # {}}) |->
                                   Canonicalized(IF i = 1 /\ env.entries # {} THEN env ELSE args)]
           b == Replayed("typed", ShapeOf(metadata.merge, sources), patch.writes)
       IN  IF patch.use # "typed" THEN phase' = "merge" /\ layers' = sources
           ELSE IF Refused(b) THEN phase' = "refused" /\ UNCHANGED layers
           ELSE phase' = "merge" /\ layers' = Append(sources, Canonicalized(b.layer))
    /\ UNCHANGED <<metadata, patch, args, env, merged, next>>

\* SourceKind: typed arguments are arguments, as the options of the command line are.
KindOf(source) == IF source = "typed" THEN "args" ELSE source

\* Seeded fault: only the paths the overrides were given for are looked at.
SourcesAllowedClaimed(l) ==
    \A e \in ClaimedPaths(l) \cap DOMAIN metadata.denied : KindOf(l.source) \notin metadata.denied[e]

\* enforce_source_policies: a path a layer has an entry for may come from it.
\* allow_sources denies all kinds of sources but those it lists.
SourcesAllowed(l) ==
    \A e \in l.entries \cap DOMAIN metadata.denied : KindOf(l.source) \notin metadata.denied[e]

\* One turn of the loop over the layers: check its array overrides and its source,
\* merge it.  The defaults are what the merge begins with.
MergeLayer ==
    /\ phase = "merge"
    /\ next <= Len(layers)
    /\ LET l == layers[next]
       IN  \/ /\ NoSparseOverride(merged, l) /\ SourcesAllowed(l)
              /\ merged' = IF l.source = "defaults" THEN merged
                           ELSE Merged(metadata.merge, merged, l.value, l)
              /\ next' = next + 1
              /\ phase' = IF next = Len(layers) THEN "done" ELSE phase
           \/ /\ ~ (NoSparseOverride(merged, l) /\ SourcesAllowed(l))
              /\ phase' = "refused"
              /\ UNCHANGED <<merged, next>>
    /\ UNCHANGED <<metadata, patch, args, env, layers>>

Next ==
    \/ WritePatch \/ PatchEnds
    \/ ParseSet \/ ParseArgsEnds
    \/ LoadFile \/ FilesEnd
    \/ SetEnv \/ VariablesEnd \/ Fallback
    \/ Stack \/ MergeLayer

Spec == Init /\ [][Next]_vars

Loaded == phase = "done"

\* Where the i-th override of l ends up.
Place(l, i) == CanonicalPath(l.value, l.claimed[i].path)

\* l writes elements of the array at c, but not the array.
WritesElements(l, c) ==
    /\ \E i \in DOMAIN l.claimed : ElementOf(c, Place(l, i))
    /\ ~ \E i \in DOMAIN l.claimed : Place(l, i) = c /\ l.claimed[i].value.kind = "array"

\* l has a null at c, which merging l takes for an element nobody wrote.
Skips(l, c) ==
    /\ GetAt(l.value, c) = Null
    /\ GetAt(l.value, Front(c)).kind = "array" /\ WritesElements(l, Front(c))

\* Merging l, over a value like old, does not touch what is at p: l has nothing
\* there, and where it has something on the way it is merged into.
LeavesAlone(l, old, p) ==
    \A c \in Prefixes(p) \ {<<>>} :
        LET new == GetAt(l.value, c)
            Both(kind) == c # p /\ new.kind = kind /\ GetAt(old, c).kind = kind
        IN  \/ new = Missing
            \/ Skips(l, c)
            \/ Both("object") /\ Strategy(metadata.merge, c) # "Replace"
            \/ Both("array") /\ (WritesElements(l, c) \/ Strategy(metadata.merge, c) = "Append")

\* What layer k has at p may go behind other elements of an array.
Shifted(k, p) ==
    /\ k > 1
    /\ \E c \in Prefixes(p) : /\ Strategy(metadata.merge, c) = "Append"
                             /\ GetAt(layers[k].value, c).kind = "array"
                             /\ ~ WritesElements(layers[k], c)

\* Layer k has the last word on what is at p.
Decides(k, p) ==
    \A j \in (k + 1)..Len(layers) : LeavesAlone(layers[j], layers[k].value, p)

Texts(v) == {p \in Leaves(v) : GetAt(v, p).kind = "string"}

\* The arrays to be appended to that no layer writes single elements of, in objects that
\* no layer replaces.
OnlyAppended ==
    {c \in {d \in DOMAIN metadata.merge : metadata.merge[d] = "Append"} :
       /\ \A d \in Prefixes(c) \ {c} :
             /\ Strategy(metadata.merge, d) # "Replace"
             /\ \A k \in DOMAIN layers : Has(layers[k].value, d) => GetAt(layers[k].value, d).kind = "object"
       /\ \A k \in DOMAIN layers : /\ Has(layers[k].value, c) => GetAt(layers[k].value, c).kind = "array"
                                   /\ ~ WritesElements(layers[k], c)
       /\ \E k \in DOMAIN layers : Has(layers[k].value, c)}

\* The elements v has in an array at c.
Elements(v, c) == LET own == GetAt(v, c) IN IF own.kind = "array" THEN own.items ELSE <<>>

TextsAreKept ==
    \A k \in DOMAIN layers : \A p \in Texts(layers[k].value) :
       Decides(k, p) /\ ~ Shifted(k, p) => GetAt(merged, p) = GetAt(layers[k].value, p)

TextsAreFound ==
    \A p \in Texts(merged) :
       \E k \in DOMAIN layers :
          \/ Shifted(k, p)
          \/ Decides(k, p) /\ GetAt(layers[k].value, p) = GetAt(merged, p)

ElementsAreAppended ==
    \A c \in OnlyAppended :
       LET all == GetAt(merged, c)
       IN  /\ all.kind = "array"
           /\ all.items = FlattenSeq([k \in DOMAIN layers |-> Elements(layers[k].value, c)])

\* The loaded value has, at every path, what the highest layer whose value says
\* something about it has there, and nothing else: whatever containers the layers
\* in between have in common with it, whole or in part.  An array that is only
\* appended to has all elements of all layers, those of the lower layers first.
HighestLayerDecides == Loaded => TextsAreKept /\ TextsAreFound /\ ElementsAreAppended

\* The elements nobody wrote: insert_path makes up the elements in front of one that
\* is written, and no source has a null or an empty container in an array.
Holes(v) == {p \in Leaves(v) \ {<<>>} : IsIndex(Last(p)) /\ GetAt(v, p).kind # "string"}

\* Layer k replaces what the layers below it have at d.
Resets(k, d) ==
    \/ d \in layers[k].direct
    \/ Strategy(metadata.merge, d) = "Replace"
    \/ /\ GetAt(layers[k].value, d).kind = "array"
       /\ \E j \in 1..(k - 1) : GetAt(layers[j].value, d).kind = "object"

\* Layer k made up the element p, an empty container, where a layer below it had
\* an element.
MadeUp(k, p) ==
    /\ WritesElements(layers[k], Front(p))
    /\ p \notin layers[k].entries
    /\ \E j \in 1..(k - 1) : Has(layers[j].value, p)

\* One of the overrides of l has replaced what an earlier one wrote, but not the
\* entries the earlier one left.
Rewrites(l) ==
    \E j \in DOMAIN l.claimed : \E i \in 1..(j - 1) : IsPrefix(Place(l, j), Place(l, i))

\* A typed patch sets the element p to null, which the merge takes for an element
\* nobody wrote.
SetsNull(l, p) == \E i \in DOMAIN l.claimed : Place(l, i) = p /\ l.claimed[i].value = Null

\* A load that is accepted has left no element out, unless a layer that writes
\* elements of an array also replaces something the array is in, or has made up
\* an element in front of one it writes, or counts elements that are gone.
NoHolesUnlessReset ==
    Loaded =>
      \A p \in Holes(merged) :
         \E k \in DOMAIN layers :
            \/ MadeUp(k, p)
            \/ Rewrites(layers[k])
            \/ SetsNull(layers[k], p)
            \/ \E c \in layers[k].indexed :
                  /\ IsStrictPrefix(c, p) \/ Shifted(k, c)
                  /\ \E d \in Prefixes(c) \ {<<>>, c} : Resets(k, d)

\* When merging a layer leaves an element out, or the layer still counts elements that
\* are gone.
LayerRefusalHasCause ==
    phase = "refused" /\ ~ NoSparseOverride(merged, layers[next]) =>
      LET l == layers[next]
      IN  \/ Holes(Merged(metadata.merge, merged, l.value, l)) # {}
          \/ Rewrites(l)
          \/ \E p \in l.entries : SetsNull(l, p)

\* The --set options, but for what typed arguments or a later option replace: one that
\* gives the array the first wrote an element of, one that writes an element of the
\* array the first gave, or one that spells the path in another way.
SetOptionsApply ==
    LET Canonical(p) == CanonicalPath(args.value, p)
        Replaces(new, old, p) ==
            /\ IsPrefix(Canonical(new.path), Canonical(p))
            /\ new.value.kind = "array" \/ ~ IsPrefix(new.path, old.path)
    IN  \A i \in DOMAIN args.claimed : \A q \in Texts(args.claimed[i].value) :
          LET o == args.claimed[i]
              p == o.path \o q
          IN  \/ GetAt(merged, p) = GetAt(o.value, q)
              \/ \E k \in DOMAIN layers :
                    layers[k].source = "args" /\ (Shifted(k, Canonical(p)) \/ ~ Decides(k, Canonical(p)))
              \/ \E j \in (i + 1)..Len(args.claimed) : Replaces(args.claimed[j], o, p)

\* The typed patch, where no layer above it speaks; but for an element set to null,
\* which stays, and an empty object, which is merged into the object there is.
PatchApplies ==
    \A k \in {j \in DOMAIN layers : layers[j].source \in {"custom", "typed"}} :
      \A i \in DOMAIN patch.writes : \A q \in Leaves(patch.writes[i].value) :
        LET x == GetAt(patch.writes[i].value, q)
            p == CanonicalPath(layers[k].value, patch.writes[i].path \o q)
        IN  \/ GetAt(merged, p) = x
            \/ Shifted(k, p) \/ ~ Decides(k, p)
            \/ x = Null /\ Skips(layers[k], p)
            \/ x = EmptyObject /\ GetAt(merged, p).kind = "object"

\* Everything an accepted command line and an accepted patch say is in effect in the
\* loaded value, all of it (parse_args, PatchLayerBuilder and the merge).
AcceptedWritesApply == Loaded => SetOptionsApply /\ PatchApplies

\* An element the shape of a typed patch does not have in this place: of an array to be
\* appended to, merged_shape_from_layers has the elements of the defaults twice, and what
\* follows them behind the second ones.
Misplaced(p) ==
    \E c \in Prefixes(p) \ {p} :
       /\ Strategy(metadata.merge, c) = "Append" /\ GetAt(merged, c).kind = "array"
       /\ Elements(layers[1].value, c) # <<>>
       /\ ChildIndex(c, p) >= Len(Elements(layers[1].value, c))

\* A patch that knows the values beneath it, in the place they are in, changes what it
\* writes and nothing else: no container on the way is made anew, no other element moved
\* or lost.
PatchLeavesTheRest ==
    phase = "merge" /\ layers[next].source \in {"custom", "typed"} /\ patch.use # "layer" =>
      LET l == layers[next]
          new == Merged(metadata.merge, merged, l.value, l)
          Written(p) == \E i \in DOMAIN l.claimed :
             \/ IsPrefix(Place(l, i), p)
             \/ \E c \in Prefixes(Place(l, i)) : IsPrefix(c, p) /\ Strategy(metadata.merge, c) = "Replace"
      IN  \A p \in Texts(merged) : ~ Written(p) => Misplaced(p) \/ GetAt(new, p) = GetAt(merged, p)

\* What keeps a builder from a write: it overlaps an earlier one, in the spelling of
\* the shape, or the shape has something on the way that it does not fit into.
CannotWrite(b, w) ==
    LET p == PatchPath(b.shape, w.path, w.explicit).path
        OnTheWay(c) == GetAt(b.shape, c)
    IN  \/ \E e \in ClaimedPaths(b.layer) : IsPrefix(e, p) \/ IsPrefix(p, e)
        \/ \E i \in 1..(Len(p) - 1) : OnTheWay(SubSeq(p, 1, i)).kind \notin {"object", "array", "missing"}
        \/ \E i \in 1..(Len(p) - 1) : OnTheWay(SubSeq(p, 1, i)).kind = "array" /\ ~ IsIndex(p[i + 1])

\* When it is written, and when a patch that was accepted, for an empty shape, is
\* replayed for the shape of the files.
PatchRefusalHasCause ==
    /\ phase = "patch" =>
         \A w \in PatchWrites : Refused(WithWrite(patch.builder, w)) => CannotWrite(patch.builder, w)
    /\ phase = "files" =>
         LET After(n) == Replayed("custom", ShapeOf(metadata.merge, layers), SubSeq(patch.writes, 1, n))
         IN  \A i \in DOMAIN patch.writes :
               Refused(After(i)) => Refused(After(i - 1)) \/ CannotWrite(After(i - 1), patch.writes[i])

\* No load is refused without a reason: a layer only when it leaves an element of an
\* array out, and a patch only when its writes overlap or do not fit into the shape
\* (validate_indexed_array_paths, PatchLayerBuilder::insert_value).
RefusalsHaveCause == LayerRefusalHasCause /\ PatchRefusalHasCause

\* The environment or the command line gave something p is in as a whole, which
\* makes no entries but for what it gave; or p was appended.
GivenInside(p) ==
    \E k \in DOMAIN layers :
       \/ Shifted(k, p)
       \/ \E i \in DOMAIN layers[k].claimed : IsStrictPrefix(Place(layers[k], i), p)

\* A path some kinds of sources are denied to has a value of a source of another kind,
\* whether options or typed arguments write on the command line, unless the value was
\* given inside something else.
DeniedSourcesDoNotDecide ==
    Loaded =>
      \A p \in Texts(merged) \cap DOMAIN metadata.denied :
         \/ GivenInside(p)
         \/ \E k \in DOMAIN layers :
               /\ KindOf(layers[k].source) \notin metadata.denied[p]
               /\ Decides(k, p) /\ GetAt(layers[k].value, p) = GetAt(merged, p)
=============================================================================
