------------------------------ MODULE Canonical ------------------------------
(***************************************************************************)
(* Aliases and spellings against values (loader/canonical.rs): how the     *)
(* value and the records of a layer are rewritten to canonical paths, and  *)
(* how the metadata and the secret paths are rewritten to the spelling of  *)
(* the layers that have been read.                                         *)
(***************************************************************************)
EXTENDS Metadata, OverrideLayer

CONSTANTS
    RawLayers,    \* layers as they are read, of one of the kinds
    Secrets,      \* paths somebody registers as secret
    MaxLayers     \* bound: layers of one load

ASSUME CanonicalAssumption == MaxLayers \in Nat /\ \A l \in RawLayers : l.value.kind = "object"

VARIABLES
    raws,      \* the layers as they were read, and the aliases they were rewritten by
    layers,    \* the same layers, rewritten
    secrets    \* the secret paths, and what they are rewritten to

cvars == <<mvars, raws, layers, secrets>>

ToldOf(v) == Leaves(v) \ {<<>>}

\* Seeded fault: two leaves may come to the same path.
CanonicalValueLastWins(v, aliases) ==
    IF DOMAIN aliases = {} THEN v
    ELSE FoldLeft(LAMBDA acc, p : IF acc = Conflict THEN acc
                                  ELSE InsertPath(acc, WithAliases(p, aliases), GetAt(v, p)),
                  EmptyObject, Sorted(ToldOf(v)))

\* canonicalize_value_paths_with_aliases: what v is made of, one by one, put where the
\* aliases point; two of them in one place are a conflict.
CanonicalValue(v, aliases) ==
    IF DOMAIN aliases = {} THEN v
    ELSE IF Cardinality({WithAliases(p, aliases) : p \in ToldOf(v)}) < Cardinality(ToldOf(v))
      THEN Conflict
    ELSE FoldLeft(LAMBDA acc, p : IF acc = Conflict THEN acc
                                  ELSE InsertPath(acc, WithAliases(p, aliases), GetAt(v, p)),
                  EmptyObject, Sorted(ToldOf(v)))

\* canonicalize_alias_overrides_against_value: the aliases in the spelling of v, and
\* whether two of them are one alias of two paths.
Respelled(v, aliases) ==
    LET spelled == {<<CanonicalPath(v, a), CanonicalPath(v, aliases[a])>> : a \in DOMAIN aliases}
    IN  {m \in spelled : m[1] # m[2]}
AliasesAgainst(v, aliases) ==
    LET m == Respelled(v, aliases)
    IN  [a \in {x[1] : x \in m} |-> CHOOSE c \in {x[2] : x \in m} : <<a, c>> \in m]
AliasesClash(v, aliases) ==
    \E m, n \in Respelled(v, aliases) : m[1] = n[1] /\ m[2] # n[2]

\* canonicalize_layer_path
LayerPath(v, p, aliases) == WithAliases(CanonicalPath(v, p), aliases)

\* canonicalize_layer_paths; of two spellings of a path the one that sorts last keeps
\* its base length.
RewrittenLayer(l, known) ==
    LET aliases == AliasesAgainst(l.value, known)
        Path(p) == LayerPath(l.value, p, aliases)
        All(paths) == {Path(p) : p \in paths}
    IN  [l EXCEPT !.value = CanonicalValue(l.value, aliases),
                  !.entries = All(@), !.coercible = All(@), !.indexed = All(@), !.direct = All(@),
                  !.base = [c \in All(DOMAIN @) |->
                              @[Last(Sorted({p \in DOMAIN @ : Path(p) = c}))]]]

\* canonicalize_runtime_path_across_layers
AcrossLayers(p, ls) == FoldLeft(LAMBDA q, l : CanonicalPath(l.value, q), p, ls)

\* Seeded fault: the path stays as it was declared.
RespelledFieldAliasesOnly(f, ls) == [f EXCEPT !.aliases = {AcrossLayers(a, ls) : a \in @} \ {<<>>}]

RespelledField(f, ls) ==
    [f EXCEPT !.path = AcrossLayers(@, ls),
              !.aliases = {AcrossLayers(a, ls) : a \in @} \ {<<>>}]

\* canonicalize_check_against_layers, and canonicalize_check_with_aliases
CheckAgainst(c, ls, aliases) ==
    LET Place(p) == WithAliases(AcrossLayers(p, ls), aliases)
    IN  [c EXCEPT !.path = Place(@), !.paths = {Place(p) : p \in @} \ {<<>>}]

\* canonicalize_metadata_against_layers, where it is not an error
MetadataAgainst(m, ls) ==
    LET old == FieldsOf(m.fields)
        fields == Normalized([i \in DOMAIN old |-> RespelledField(old[i], ls)])
    IN  [fields |-> fields,
         checks |-> AddedChecks({}, {CheckAgainst(c, ls, AliasOverrides(fields)) : c \in m.checks})]

\* validate_canonical_explicit_env_targets, and the alias_overrides behind it
AgainstAccepted(m, ls) ==
    /\ \A q, r \in {p \in DOMAIN m.fields : Says(m.fields[p], "env")} :
          AcrossLayers(q, ls) = AcrossLayers(r, ls) =>
            m.fields[q].says["env"] = m.fields[r].says["env"]
    /\ AliasesAccepted(MetadataAgainst(m, ls).fields)

\* canonicalize_secret_paths, and canonicalize_secret_paths_against_layers
SecretsAgainst(paths, ls, aliases) ==
    [p \in paths |-> FoldLeft(LAMBDA q, l : LayerPath(l.value, q, aliases), WithAliases(p, aliases), ls)]

-----------------------------------------------------------------------------

CanonicalInit == Init /\ raws = <<>> /\ layers = <<>> /\ secrets = <<>>

Build == MetadataNext /\ UNCHANGED <<raws, layers, secrets>>

\* A layer is read and rewritten.
ReadLayer ==
    /\ phase = "ready" /\ Len(layers) < MaxLayers
    /\ \E l \in RawLayers :
          LET rewritten == RewrittenLayer(l, Aliases)
          IN  IF AliasesClash(l.value, Aliases) \/ rewritten.value = Conflict
                THEN phase' = "refused" /\ UNCHANGED <<raws, layers>>
                ELSE /\ raws' = Append(raws, [layer |-> l, aliases |-> AliasesAgainst(l.value, Aliases)])
                     /\ layers' = Append(layers, rewritten)
                     /\ UNCHANGED phase
    /\ UNCHANGED <<metadata, pushed, secrets>>

\* The metadata is rewritten to the layers, before the next layer is made of the
\* environment or of patches, and in the end.
Respell ==
    /\ phase = "ready" /\ layers # <<>>
    /\ IF AgainstAccepted(metadata, layers)
         THEN metadata' = MetadataAgainst(metadata, layers) /\ UNCHANGED phase
         ELSE phase' = "refused" /\ UNCHANGED metadata
    /\ UNCHANGED <<pushed, raws, layers, secrets>>

\* All layers are read: load() rewrites the metadata a last time, and the secrets,
\* first by the aliases and then by every layer.
Resolve ==
    /\ phase = "ready" /\ layers # <<>>
    /\ IF AgainstAccepted(metadata, layers)
         THEN LET m == MetadataAgainst(metadata, layers)
                  aliases == AliasOverrides(m.fields)
              IN  /\ metadata' = m
                  /\ \E paths \in SUBSET Secrets :
                       secrets' = SecretsAgainst(paths, layers, aliases)
                  /\ phase' = "resolved"
         ELSE phase' = "refused" /\ UNCHANGED <<metadata, secrets>>
    /\ UNCHANGED <<pushed, raws, layers>>

CanonicalNext == Build \/ ReadLayer \/ Respell \/ Resolve

-----------------------------------------------------------------------------
(* Properties *)

Raw(k) == raws[k].layer.value
Rewritten == {k \in DOMAIN raws : phase = "ready" /\ k = Len(raws)}

\* Where what the k-th layer has at p is in the rewritten layer.
Place(k, p) == LayerPath(Raw(k), p, raws[k].aliases)

\* An object with a key that is a number: insert_path takes the key for an index.
NumericKeys(v) == {p \in Nodes(v) : GetAt(v, p).kind = "object" /\ \E s \in DOMAIN GetAt(v, p).fields : IsIndex(s)}

\* One leaf of the layer ends up inside another.
Overlapping(k) == \E p, q \in ToldOf(Raw(k)) : IsStrictPrefix(Place(k, p), Place(k, q))

\* An alias of an element of an array leaves a null in the array, or makes one.
OfElements(aliases) == \E a \in DOMAIN aliases : \E s \in Range(a) \cup Range(aliases[a]) : IsIndex(s)

\* The value, unless one leaf ends up inside another or an alias is about one element
\* of an array.
ValueIsKept ==
    \A k \in Rewritten : NumericKeys(Raw(k)) = {} /\ ~ Overlapping(k) /\ ~ OfElements(raws[k].aliases) =>
      /\ \A p \in ToldOf(Raw(k)) : GetAt(layers[k].value, Place(k, p)) = GetAt(Raw(k), p)
      /\ Cardinality(ToldOf(layers[k].value)) = Cardinality(ToldOf(Raw(k)))

\* What tests/loading.rs:2990 says of a value under an alias and a value under its
\* canonical path in one layer, "conflicting alias and canonical paths must fail": a
\* layer that is accepted has lost nothing.
ConflictingPathsFail ==
    \A k \in Rewritten : NumericKeys(Raw(k)) = {} =>
      Cardinality(ToldOf(layers[k].value)) = Cardinality(ToldOf(Raw(k)))

\* The records: there is an entry, for reports and source policies, wherever the value
\* has something an override gave, and arrays of which elements were written are arrays.
RecordsFollow ==
    \A k \in Rewritten : NumericKeys(Raw(k)) = {} =>
      LET l == layers[k]
      IN  /\ \A i \in DOMAIN l.claimed : Place(k, l.claimed[i].path) \in l.entries
          /\ \A p \in ToldOf(Raw(k)) : p \in raws[k].layer.entries => Place(k, p) \in l.entries
          /\ \A c \in l.indexed \cup l.direct : GetAt(l.value, c).kind \in {"array", "missing"}

\* Rewriting a layer to canonical paths keeps what it was given: every leaf, at its
\* canonical path and nothing else, and what the layer knows of its overrides, however
\* they were spelled (but for objects that have numbers as keys).
RewritingKeepsWhatWasGiven == ValueIsKept /\ RecordsFollow

\* A declared pattern begins with an alias of another field: the values go where the
\* alias points, and the declaration stays where nothing is.
Hidden(i) ==
    LET aliases == UNION {pushed[j].aliases : j \in {k \in DOMAIN pushed : pushed[k].path # pushed[i].path}}
    IN  \E a \in aliases, s \in Patterns(i) : Len(a) <= Len(s) /\ PathOverlapsPattern(s, a)

\* An alias of what is in p: it leaves p, and what is declared for p as a whole.
Emptied(p, aliases) == \E a \in DOMAIN aliases : Len(a) > Len(p) /\ PathOverlapsPattern(p, a)

\* What was declared for a path, in any spelling or under any alias of it, is what
\* the metadata says, in the end, of the place where the loaded layers have the value
\* of that path (but for a declaration hidden by the alias of another field); and a
\* secret path is the place of the secret (unless an alias takes something out of it).
DeclarationsReachTheValue ==
    phase = "resolved" /\ ~ Chained(Aliases) =>
      \A k \in DOMAIN raws : \A p \in ToldOf(Raw(k)) :
        LET loaded == AcrossLayers(Place(k, p), layers)
        IN
        /\ \A i \in DOMAIN pushed : ~ Hidden(i) => \A s \in Patterns(i) :
              CanonicalPath(Raw(k), s) = p =>
                DOMAIN pushed[i].says \subseteq DOMAIN Effective(metadata.fields, loaded).says
        /\ \A s \in DOMAIN secrets :
              ~ Emptied(CanonicalPath(Raw(k), s), raws[k].aliases) /\ IsPrefix(CanonicalPath(Raw(k), s), p) => PathStartsWithPattern(loaded, secrets[s])
=============================================================================
