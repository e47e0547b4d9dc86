------------------------------- MODULE Metadata ------------------------------
(***************************************************************************)
(* ConfigMetadata (metadata/): how the metadata of a configuration type is *)
(* put together from fields, cross-field checks and the metadata of nested *)
(* types, what load() does with it before it reads anything, and what it   *)
(* then says of a path.                                                    *)
(*                                                                         *)
(* What a field declares is a function, says, from the attributes it sets: *)
(* secret, env, env_decode, doc, deprecated, has_default, merge, allowed   *)
(* and denied (sources), the code of each validation rule, and what        *)
(* Configures calls the configuration of a rule.                           *)
(***************************************************************************)
EXTENDS PathPatterns

CONSTANTS
    FieldPool,     \* the fields somebody declares: path, aliases, says
    CheckPool,     \* the cross-field checks: code, path, equals, paths
    Children,      \* the metadata of nested types: prefix, prefixAliases, metadata
    Configures,    \* the rule each configuration of a rule is for
    Probes,        \* the paths the metadata is asked about
    MaxPushed      \* bound: fields and checks of one type

Invalid == "!"     \* a segment of a path the parser refuses
Sources == {"defaults", "file", "env", "args"}

ASSUME MetadataAssumption ==
    /\ MaxPushed \in Nat
    /\ \A p \in Probes : Wild \notin Range(p) /\ Invalid \notin Range(p)
    /\ LET Path == Seq(Range(Order))
       IN  /\ Probes \subseteq Path
           /\ \A f \in FieldPool : f.path \in Path /\ f.aliases \subseteq Path
           /\ \A child \in Children :
                 /\ child.prefix \in Path /\ child.prefixAliases \subseteq Path
                 /\ IsFiniteSet(DOMAIN child.metadata.fields)
                 /\ DOMAIN child.metadata.fields \subseteq Path
                 /\ \A p \in DOMAIN child.metadata.fields :
                       child.metadata.fields[p].aliases \subseteq Path

VARIABLES
    metadata,   \* fields, a function from paths to what is known of them; checks
    pushed,     \* the fields in the order they were declared
    phase       \* "building", "ready" for a load, or "refused" by it

mvars == <<metadata, pushed, phase>>

\* FieldMetadata::new, and what its builder methods make of a field: aliases are
\* collected, of everything else the last word counts.
NewField(p) == [path |-> p, aliases |-> {}, says |-> <<>>]
WithAlias(f, a) == [f EXCEPT !.aliases = @ \cup {a}]
Saying(f, attribute, value) == [f EXCEPT !.says = attribute :> value @@ @]

\* merge_from: what the later field declares replaces what was declared before.
MergeFrom(old, new) ==
    [aliases |-> old.aliases \cup new.aliases,
     says |-> [a \in DOMAIN old.says \cup DOMAIN new.says |->
                 IF a \in DOMAIN new.says THEN new.says[a] ELSE old.says[a]]]

\* One turn of the loop of normalize.
Added(fields, f) ==
    LET own == [aliases |-> f.aliases \ {f.path}, says |-> f.says]
    IN  [q \in {f.path} \cup DOMAIN fields |->
           CASE q # f.path -> fields[q]
             [] q = f.path /\ q \in DOMAIN fields -> MergeFrom(fields[q], own)
             [] OTHER -> own]
Normalized(fields) == FoldLeft(Added, <<>>, fields)

\* normalize_checks: no check twice, and none without paths.
AddedChecks(checks, new) == checks \cup {c \in new : c.paths # {}}

FieldsOf(fields) ==
    [i \in DOMAIN Sorted(DOMAIN fields) |->
       LET p == Sorted(DOMAIN fields)[i]
       IN  [path |-> p, aliases |-> fields[p].aliases, says |-> fields[p].says]]

\* Seeded fault: the aliases of a nested field are not combined with those of its parent.
PrefixedAliasesOwn(prefix, prefixAliases, f) ==
    {prefix \o a : a \in f.aliases} \cup {a \o f.path : a \in prefixAliases}

PrefixedAliases(prefix, prefixAliases, f) ==
    {prefix \o a : a \in f.aliases}
      \cup IF f.path = <<>> THEN prefixAliases
           ELSE {a \o s : a \in prefixAliases, s \in {f.path} \cup f.aliases}

\* ValidationCheck::prefixed
PrefixedCheck(prefix, c) ==
    [c EXCEPT !.path = IF c.code \in {"required_with", "required_if"} THEN prefix \o @ ELSE @,
              !.paths = {prefix \o p : p \in @}]

\* prefixed_metadata
Prefixed(prefix, prefixAliases, m) ==
    IF prefix = <<>> THEN m
    ELSE LET Under(f) == [f EXCEPT !.path = prefix \o @,
                                   !.aliases = PrefixedAliases(prefix, prefixAliases, f)]
             fields == FieldsOf(m.fields)
         IN  [fields |-> Normalized([i \in DOMAIN fields |-> Under(fields[i])]),
              checks |-> AddedChecks({}, {PrefixedCheck(prefix, c) : c \in m.checks})]

\* The metadata of a secret, and of a collection of what has metadata m.
SecretMetadata == [fields |-> Normalized(<<Saying(NewField(<<>>), "secret", TRUE)>>), checks |-> {}]
ItemMetadata(m) == Prefixed(<<Wild>>, {}, m)

-----------------------------------------------------------------------------
(* What metadata says *)

Candidates(fields, q) == {q} \cup fields[q].aliases
Fitting(fields, q, p) == {c \in Candidates(fields, q) : c = p \/ PathMatchesPattern(p, c)}
Score(fields, q, p) ==
    LET scores == {MatchScore(c) : c \in Fitting(fields, q, p)}
    IN  CHOOSE s \in scores : ~ \E t \in scores : ScoreBelow(s, t)

\* Seeded fault: in the order of the paths.
MatchingFieldsByPath(fields, p) == Sorted({q \in DOMAIN fields : Fitting(fields, q, p) # {}})

\* matching_fields_for_path: the least specific first.
MatchingFields(fields, p) ==
    SortedBy({q \in DOMAIN fields : Fitting(fields, q, p) # {}},
        LAMBDA q, r : \/ ScoreBelow(Score(fields, q, p), Score(fields, r, p))
                      \/ Score(fields, q, p) = Score(fields, r, p) /\ Precedes(q, r))

\* effective_field_for, and with it the effective validations, sources and strategy
Effective(fields, p) ==
    FoldLeft(LAMBDA acc, q : MergeFrom(acc, fields[q]), [aliases |-> {}, says |-> <<>>],
             MatchingFields(fields, p))

Says(field, attribute) == attribute \in DOMAIN field.says

\* effective_source_policy_for, source_kind_allowed and source_kind_denied
SourceAllowed(fields, p, source) ==
    LET e == Effective(fields, p)
    IN  /\ Says(e, "allowed") => source \in e.says["allowed"]
        /\ Says(e, "denied") => source \notin e.says["denied"]

-----------------------------------------------------------------------------
(* What load() requires of it *)

ValidPath(p) == Invalid \notin Range(p)

Mappings(fields) == {m \in (UNION {fields[q].aliases : q \in DOMAIN fields}) \X DOMAIN fields :
                       m[1] \in fields[m[2]].aliases}

\* alias_overrides, where it is not an error
AliasesAccepted(fields) ==
    /\ \A q \in DOMAIN fields : ValidPath(q)
    /\ \A m \in Mappings(fields) :
          /\ ValidPath(m[1]) /\ m[1] # <<>> /\ m[2] # <<>>
          /\ AliasMappingIsLossless(m[1], m[2])
          /\ m[1] \notin DOMAIN fields
          /\ \A n \in Mappings(fields) \ {m} :
                n[1] # m[1] /\ ~ AliasPatternsAreAmbiguous(m[1], m[2], n[1], n[2])

AliasOverrides(fields) ==
    [a \in {m[1] : m \in Mappings(fields)} |-> CHOOSE q \in DOMAIN fields : <<a, q>> \in Mappings(fields)]

\* env_overrides, where it is not an error: every variable has one target, and
\* every target one variable.
EnvAccepted(fields) ==
    LET named == {q \in DOMAIN fields : Says(fields[q], "env")}
        Variable(q) == fields[q].says["env"]
        Meant(q) == WithAliases(q, AliasOverrides(fields))
    IN  /\ AliasesAccepted(fields)
        /\ \A q \in named : Variable(q) # "" /\ q # <<>> /\ Wild \notin Range(q)
        /\ \A q, r \in named : q # r => Variable(q) # Variable(r)
        /\ \A q, r \in named : Meant(q) = Meant(r) => Variable(q) = Variable(r)

\* The body of the loop of validate_paths: the root only has documentation, policies
\* leave a source, and rules that are configured are declared.
FieldAccepted(fields, q) ==
    LET f == fields[q]
    IN  /\ q = <<>> => f.aliases = {} /\ DOMAIN f.says \subseteq {"doc", "has_default"}
        /\ Says(f, "allowed") => f.says["allowed"] # {}
        /\ Says(f, "allowed") /\ Says(f, "denied") => f.says["allowed"] \cap f.says["denied"] = {}
        /\ \A c \in DOMAIN f.says \cap DOMAIN Configures : Says(Effective(fields, q), Configures[c])

CheckAccepted(c) ==
    \A p \in c.paths \cup (IF c.code \in {"required_with", "required_if"} THEN {c.path} ELSE {}) :
        ValidPath(p) /\ p # <<>>

\* validate_paths
Accepted(m) ==
    /\ EnvAccepted(m.fields)
    /\ \A q \in DOMAIN m.fields : FieldAccepted(m.fields, q)
    /\ \A c \in m.checks : CheckAccepted(c)

\* is_env_decoder_only
DecoderOnly(f) == f.aliases = {} /\ DOMAIN f.says = {"env_decode"}

\* Seeded fault: a decoder does not go where there is a field already.
DecodersMovedIfFree(fields) ==
    LET others == {q \in DOMAIN fields : ~ DecoderOnly(fields[q])}
        aliases == AliasOverrides([q \in others |-> fields[q]])
        old == SelectSeq(FieldsOf(fields), LAMBDA f : f.path \in others \/ WithAliases(f.path, aliases) \notin others)
    IN  Normalized(old)

\* canonicalize_env_decoder_paths, where it is not an error: the fields that only
\* declare a decoder go where the aliases of the others point, and all are
\* normalized again in the order of their former paths.
DecodersMoved(fields) ==
    LET others == {q \in DOMAIN fields : ~ DecoderOnly(fields[q])}
        aliases == AliasOverrides([q \in others |-> fields[q]])
        old == FieldsOf(fields)
    IN  Normalized([i \in DOMAIN old |->
          IF old[i].path \in others THEN old[i] ELSE [old[i] EXCEPT !.path = WithAliases(@, aliases)]])

DecodersAccepted(fields) ==
    LET others == {q \in DOMAIN fields : ~ DecoderOnly(fields[q])}
        aliases == AliasOverrides([q \in others |-> fields[q]])
    IN  /\ AliasesAccepted([q \in others |-> fields[q]])
        /\ \A q, r \in DOMAIN fields \ others : WithAliases(q, aliases) = WithAliases(r, aliases) => q = r

-----------------------------------------------------------------------------

Init ==
    /\ metadata = [fields |-> <<>>, checks |-> {}]
    /\ pushed = <<>>
    /\ phase = "building"

MayPush == Len(pushed) + Cardinality(metadata.checks) < MaxPushed

\* push
Push(f) ==
    /\ phase = "building" /\ MayPush
    /\ metadata' = [metadata EXCEPT !.fields = Added(@, f)]
    /\ pushed' = Append(pushed, f)
    /\ UNCHANGED phase

\* push_check
PushCheck(c) ==
    /\ phase = "building" /\ MayPush
    /\ metadata' = [metadata EXCEPT !.checks = AddedChecks(@, {c})]
    /\ UNCHANGED <<pushed, phase>>

\* extend, with the metadata of a nested type
Extend(child) ==
    /\ phase = "building" /\ MayPush
    /\ LET m == Prefixed(child.prefix, child.prefixAliases, child.metadata)
       IN  /\ metadata' = [fields |-> FoldLeft(Added, metadata.fields, FieldsOf(m.fields)),
                           checks |-> AddedChecks(metadata.checks, m.checks)]
           /\ pushed' = pushed \o FieldsOf(m.fields)
    /\ UNCHANGED phase

\* The first lines of load().
Prepare ==
    /\ phase = "building"
    /\ IF DecodersAccepted(metadata.fields)
         THEN LET m == [metadata EXCEPT !.fields = DecodersMoved(@)]
              IN  metadata' = m /\ phase' = IF Accepted(m) THEN "ready" ELSE "refused"
         ELSE phase' = "refused" /\ UNCHANGED metadata
    /\ UNCHANGED pushed

MetadataNext ==
    \/ \E f \in FieldPool : Push(f)
    \/ \E c \in CheckPool : PushCheck(c)
    \/ \E child \in Children : Extend(child)
    \/ Prepare

-----------------------------------------------------------------------------
(* Properties *)

Ready == phase = "ready"
Aliases == AliasOverrides(metadata.fields)

\* The patterns the i-th declared field is found by: its path, and all aliases
\* declared for this path.
Patterns(i) ==
    {pushed[i].path} \cup UNION {pushed[j].aliases : j \in {k \in DOMAIN pushed : pushed[k].path = pushed[i].path}}

\* Declaration j is about p, and more to the point than declaration i.
MoreToThePoint(i, j, p) ==
    LET Best(k) == {c \in Patterns(k) : PathMatchesPattern(p, c)}
    IN  \/ pushed[i].path = pushed[j].path /\ i < j
        \/ /\ pushed[i].path # pushed[j].path
           /\ \E c \in Best(j) : \A d \in Best(i) : ScoreBelow(MatchScore(d), MatchScore(c))

\* What the metadata says of a path, attribute by attribute, was declared by the
\* most specific declaration that declares it, and of those for one path by the
\* last: wherever it was declared, in whatever order, in a nested type or beside it.
MostSpecificDecides ==
    phase = "building" /\ AliasesAccepted(metadata.fields) =>
      \A p \in Probes :
        LET e == Effective(metadata.fields, p)
            about == {i \in DOMAIN pushed : \E c \in Patterns(i) : PathMatchesPattern(p, c)}
            Declare(a) == {i \in about : a \in DOMAIN pushed[i].says}
        IN  /\ DOMAIN e.says = UNION {DOMAIN pushed[i].says : i \in about}
            /\ \A a \in DOMAIN e.says : \E i \in Declare(a) :
                  /\ e.says[a] = pushed[i].says[a]
                  /\ ~ \E j \in Declare(a) : MoreToThePoint(i, j, p)

\* Aliases that are accepted rewrite every path in one way, whichever of them is
\* taken first, and no two paths in one place of the same alias.
AliasesAreUnambiguous ==
    AliasesAccepted(metadata.fields) =>
      LET Rewritten(p, a) == RewriteAliasPath(p, a, Aliases[a])
      IN  /\ \A p \in Probes : \A a, b \in BestAliases(p, Aliases) : Rewritten(p, a) = Rewritten(p, b)
          /\ \A p, q \in Probes : \A a \in BestAliases(p, Aliases) \cap BestAliases(q, Aliases) :
                p # q => Rewritten(p, a) # Rewritten(q, a)

\* A path that one alias has rewritten may begin with another.
Chained(aliases) == \E a, b \in DOMAIN aliases : PathOverlapsPattern(aliases[a], b)

\* Nesting a type under a field moves what its metadata says under the field: the
\* paths below the field mean what they meant (unless an alias of the field is shorter
\* than its path, and with more behind it is also a path below it), and each alias of
\* the field leads to the same place.
NestingKeepsMeaning ==
    \A child \in Children :
      LET fields == metadata.fields
          nested == Prefixed(child.prefix, child.prefixAliases, metadata).fields
      IN  /\ phase = "building" /\ child.prefix # <<>>
          /\ AliasesAccepted(fields) /\ AliasesAccepted(nested)
          => /\ \A p \in Probes :
                   \/ \E a \in child.prefixAliases : Len(a) < Len(child.prefix)
                   \/ Effective(nested, child.prefix \o p).says = Effective(fields, p).says
             /\ \A q \in DOMAIN fields \ {<<>>} : \A s \in Candidates(fields, q) :
                  \A prefix \in child.prefixAliases \cup {child.prefix} :
                     \/ Chained(AliasOverrides(nested))
                     \/ WithAliases(prefix \o s, AliasOverrides(nested))
                          = child.prefix \o WithAliases(s, Aliases)

\* Nothing but a decoder is declared for the path of the i-th declared field.
DecoderAlone(i) ==
    \A k \in DOMAIN pushed : pushed[k].path = pushed[i].path =>
        pushed[k].aliases \subseteq {pushed[k].path} /\ DOMAIN pushed[k].says \subseteq {"env_decode"}

\* Once a load begins, a decoder is where the aliases lead from the path it was
\* registered for, in whatever order decoders and aliases were declared (but with the
\* other things that are declared for this path it stays); where several meet there is
\* the last one of one path, and no decoder is lost to one registered for another alias.
DecodersReachTheirField ==
    Ready =>
      LET decoders == {i \in DOMAIN pushed : "env_decode" \in DOMAIN pushed[i].says}
          Place(i) == IF DecoderAlone(i) THEN WithAliases(pushed[i].path, Aliases) ELSE pushed[i].path
          Latest(i) == \A k \in decoders : pushed[k].path = pushed[i].path => k <= i
      IN  /\ \A i \in decoders :
               /\ Place(i) \in DOMAIN metadata.fields
               /\ Says(metadata.fields[Place(i)], "env_decode")
               /\ \E j \in decoders :
                     /\ Place(j) = Place(i) /\ Latest(j)
                     /\ metadata.fields[Place(i)].says["env_decode"] = pushed[j].says["env_decode"]
          /\ \A i, j \in decoders :
               DecoderAlone(i) /\ DecoderAlone(j) /\ Place(i) = Place(j) => pushed[i].path = pushed[j].path
=============================================================================
