------------------------------- MODULE Pipeline -------------------------------
(***************************************************************************)
(* What load() (loader/load.rs) does once its layers are read and rewritten*)
(* (Canonical): it merges them and records who wrote what (LayerMerge,     *)
(* Report), upgrades the values (Migrations), reads the configuration out  *)
(* of them (Deserialize), runs the normalizers of the program over it and  *)
(* validates what they have made of it (Validation).                       *)
(***************************************************************************)
EXTENDS Canonical, LayerMerge, Deserialize, Validation

CONSTANTS
    Target,           \* the type of the configuration
    Policies,         \* UnknownFieldPolicy: "Allow", "Warn", "Deny"
    MigrationLists,   \* the registered migrations; with none there is no version
    VersionPath, Supported, MaxU32,
    Normalizers,      \* the names of normalizers, and what they make of
    Normalize(_, _),  \* a configuration, Missing when they fail
    MaxNormalizers    \* bound: normalizers of one load

ASSUME PipelineAssumption ==
    /\ Policies \subseteq {"Allow", "Warn", "Deny"}
    /\ MaxNormalizers \in Nat
    /\ Target.type = "struct"

VARIABLES
    pending,     \* the secret paths, before any value was looked at
    policy,      \* what to do about unknown fields
    next,        \* the layer to be merged next
    merged,      \* what the layers make together, and the migrations of it
    report,      \* see Report; until the load ends its final value is the defaults
    original, rules, working, migrations, upgrade,   \* see Migrations
    read,        \* what reading the configuration has come to, see Deserialize
    config,      \* the configuration
    normalized,  \* how many normalizers have run
    warnings,    \* the warnings of the report
    faults,      \* what the error is about
    error        \* the kind of the error the load was refused with

upvars == <<original, rules, working, migrations, upgrade>>
pvars == <<cvars, pending, policy, next, merged, report, upvars, read, config,
           normalized, warnings, faults, error>>

Up == INSTANCE Migrations
        WITH Values <- {}, Documents <- {}, Watched <- {}, RuleLists <- MigrationLists,
             report <- migrations, outcome <- upgrade

Standing(source) == CASE source = "defaults" -> 0 [] source = "file" -> 1
                  [] source = "env" -> 2 [] source = "args" -> 3

Refuse(kind, about) == phase' = "refused" /\ error' = kind /\ faults' = about

PipelineInit ==
    /\ CanonicalInit
    /\ pending = {} /\ policy = "Deny" /\ next = 1
    /\ merged = EmptyObject
    /\ report = [final |-> EmptyObject, aliases |-> <<>>, secrets |-> {}, steps |-> <<>>]
    /\ original = EmptyObject /\ rules = <<>> /\ working = 0 /\ migrations = <<>> /\ upgrade = "reading"
    /\ read = Result(Missing, <<>>, {}) /\ config = EmptyObject /\ normalized = 0
    /\ warnings = {} /\ faults = {} /\ error = "none"

\* The metadata is built, and the layers are read: the defaults, then files, then
\* the environment and the command line, if any.
ReadSources ==
    /\ Build \/ ReadLayer
    /\ \A i \in DOMAIN layers' \ DOMAIN layers :
          LET source == layers'[i].source
          IN  IF i = 1 THEN source = "defaults"
              ELSE /\ Standing(layers[i - 1].source) <= Standing(source)
                   /\ source = layers[i - 1].source => source = "file"
    /\ error' = IF phase' = "refused" THEN "MetadataInvalid" ELSE error
    /\ UNCHANGED <<pending, policy, next, merged, report, upvars, read, config, normalized, warnings, faults>>

\* The last rewriting of metadata and secrets, and the report that begins with the
\* defaults.
Begin ==
    /\ Resolve
    /\ LET defaults == CanonicalValue(Raw(1), AliasOverrides(metadata'.fields))
       IN  IF phase' = "resolved"
             THEN /\ pending' = {WithAliases(p, AliasOverrides(metadata'.fields)) : p \in DOMAIN secrets'}
                  /\ merged' = defaults
                  /\ report' = [final |-> defaults, aliases |-> AliasOverrides(metadata'.fields),
                                secrets |-> Range(secrets'), steps |-> <<>>]
                  /\ UNCHANGED error
             ELSE error' = "MetadataInvalid" /\ UNCHANGED <<pending, merged, report>>
    /\ UNCHANGED <<next, policy, rules, original, working, migrations, upgrade, read, config, normalized, warnings, faults>>

\* The merge strategies the metadata declares, of all paths there are.
Strategies(l) ==
    LET fields == metadata.fields
    IN  [p \in {q \in Nodes(l.value) \cup Nodes(merged) : Says(Effective(fields, q), "merge")} |->
           Effective(fields, p).says["merge"]]

\* record_deprecation_warnings
Deprecated(l) ==
    {[kind |-> "deprecated", path |-> p, source |-> l.source] :
       p \in {q \in Nodes(l.value) \ {<<>>} : Says(Effective(metadata.fields, q), "deprecated")}}

\* One turn of the loop over the layers.
MergeLayer ==
    /\ phase = "resolved"
    /\ LET l == layers[next]
       IN  CASE ~ NoSparseOverride(merged, l) ->
                  Refuse("sparse", {}) /\ UNCHANGED <<report, warnings, merged, next, original, rules>>
             [] NoSparseOverride(merged, l) /\ \E p \in l.entries : ~ SourceAllowed(metadata.fields, p, l.source) ->
                  Refuse("SourcePolicyViolation", {}) /\ UNCHANGED <<report, warnings, merged, next, original, rules>>
             [] OTHER ->
                  /\ report' = [report EXCEPT !.steps = Recorded(@, LayerSteps(l, report.secrets))]
                  /\ warnings' = warnings \cup (IF next = 1 THEN {} ELSE Deprecated(l))
                  /\ merged' = IF next = 1 THEN merged
                               ELSE Merged(Strategies(l), merged, l.value, l)
                  /\ next' = next + 1
                  /\ IF next < Len(layers) THEN UNCHANGED <<phase, rules>>
                     ELSE /\ rules' \in MigrationLists
                          /\ phase' = IF rules' = <<>> THEN "reading" ELSE "migrating"
                  /\ original' = merged'
                  /\ UNCHANGED <<faults, error>>
    /\ UNCHANGED <<metadata, pushed, raws, layers, secrets, pending, policy, working, migrations,
                   upgrade, read, config, normalized>>

\* apply_config_migrations, a step at a time
Migrate ==
    /\ phase = "migrating"
    /\ Up!Next
    /\ CASE upgrade' = "done" -> phase' = "reading" /\ UNCHANGED <<faults, error>>
         [] upgrade' \in {"reading", "upgrading"} -> UNCHANGED <<phase, faults, error>>
         [] OTHER -> Refuse(upgrade', {})
    /\ UNCHANGED <<metadata, pushed, raws, layers, secrets, pending, policy, next, report, read, config,
                   normalized, warnings>>

\* The value the configuration serializes to, under canonical paths.
Final == CanonicalValue(config, Aliases)

\* The string paths of all layers, whichever of them decides.
CoerciblePaths == UNION {layers[i].coercible : i \in DOMAIN layers}

FieldPaths == UNION {Candidates(metadata.fields, q) : q \in DOMAIN metadata.fields}

\* collect_unknown_fields: what was ignored, unless the metadata or the configuration
\* knows it.
UnknownFields(r, known) == r.ignored \ (FieldPaths \cup known \cup r.known)

\* collect_unknown_fields_from_metadata_scope: what no field of the metadata covers,
\* where the values did not fit.
UncoveredFields(at) ==
    LET Covers(pattern, p) == Len(p) <= Len(pattern) /\ \A i \in DOMAIN p : Fits(p[i], pattern[i])
    IN  IF metadata.fields = <<>> THEN {}
        ELSE {p \in Nodes(merged) \ {<<>>} :
                IsPrefix(at, p) /\ ~ \E pattern \in FieldPaths : Covers(pattern, p)}

\* UnknownField
Unknown(paths) == {[kind |-> "unknown", path |-> p, source |-> SourceAbove(report, p)] : p \in paths}

\* deserialization_error: the message tells a scalar that does not fit (unexpected_value)
\* as the layer gave it; of a container it only tells the kind.
DoesNotFit(p) ==
    LET found == GetAt(merged, p)
    IN  [kind |-> "type", path |-> p, source |-> SourceAbove(report, p),
         actual |-> IF found.kind \in {"array", "object"} THEN Missing ELSE found]

\* deserialize_with_path, and the scan for unknown fields
ReadConfig ==
    /\ phase = "reading"
    /\ read' = Deserialized(Target, merged, CoerciblePaths)
    /\ phase' = "checking"
    /\ UNCHANGED <<metadata, pushed, raws, layers, secrets, pending, policy, next, merged, report, upvars,
                   config, normalized, warnings, faults, error>>

\* Unknown fields, by policy: they are the error when the values do not fit, too.
\* The policy is read here, as the migrations are when the last layer is merged.
CheckFields ==
    /\ phase = "checking"
    /\ policy' \in Policies
    /\ LET fits == read.value # Missing
           known == Nodes(IF fits THEN read.value ELSE report.final)
           ignored == IF policy' = "Allow" THEN {} ELSE UnknownFields(read, known)
           unknown == IF fits \/ ignored # {} \/ policy' = "Allow" THEN ignored ELSE UncoveredFields(read.at)
       IN  CASE unknown # {} /\ (~ fits \/ policy' = "Deny") ->
                  Refuse("UnknownFields", Unknown(unknown)) /\ UNCHANGED <<config, warnings>>
             [] unknown = {} /\ ~ fits ->
                  /\ Refuse("Deserialize", {DoesNotFit(read.at)})
                  /\ UNCHANGED <<config, warnings>>
             [] OTHER ->
                  /\ config' = read.value
                  /\ warnings' = warnings \cup Unknown(unknown)
                  /\ phase' = "normalizing"
                  /\ UNCHANGED <<faults, error>>
    /\ UNCHANGED <<metadata, pushed, raws, layers, secrets, pending, next, merged, report, upvars,
                   read, normalized>>

\* canonicalize_metadata_against_value: the value is looked at as a layer is.
Seen(v) == <<[value |-> v]>>

\* canonicalize_secret_paths_against_value
SecretsSeen(v, aliases) == [p \in pending |-> LayerPath(v, p, aliases)]

\* One of the normalizers; what it has done is recorded, and metadata and secrets
\* are rewritten to the spelling of the value it has left.
RunNormalizer ==
    /\ phase = "normalizing" /\ normalized < MaxNormalizers
    /\ \E n \in Normalizers :
         LET after == Normalize(n, config)
         IN  CASE after = Missing ->
                    Refuse("Normalize", {}) /\ UNCHANGED <<config, metadata, secrets, report, normalized>>
               [] after # Missing /\ ~ AgainstAccepted(metadata, Seen(after)) ->
                    Refuse("MetadataInvalid", {}) /\ UNCHANGED <<config, metadata, secrets, report, normalized>>
               [] OTHER ->
                    /\ config' = after
                    /\ metadata' = MetadataAgainst(metadata, Seen(after))
                    /\ secrets' = SecretsSeen(after, AliasOverrides(metadata'.fields))
                    /\ report' = [report EXCEPT !.steps = Recorded(@, DiffSteps(config, after, n, Range(secrets')))]
                    /\ normalized' = normalized + 1
                    /\ UNCHANGED <<phase, faults, error>>
    /\ UNCHANGED <<pushed, raws, layers, pending, policy, next, merged, upvars, read, warnings>>

\* The declared rules and checks: what fails at level warning is a warning, and
\* anything else refuses the load.  Then come the validators of the program, which
\* may refuse it as well.
Validate ==
    /\ phase = "normalizing"
    /\ LET v == Final
           found == DeclaredFaults(v, metadata.fields, Range(secrets))
           fatal == {f \in found : f.level = "error"} \cup CheckFaults(v, metadata.checks)
       IN
          /\ CASE v = Conflict -> Refuse("PathConflict", {}) /\ UNCHANGED warnings
               [] v # Conflict /\ fatal # {} -> Refuse("DeclaredValidation", fatal) /\ UNCHANGED warnings
               [] OTHER -> /\ \/ phase' = "loaded" /\ UNCHANGED <<faults, error>>
                              \/ Refuse("Validation", {})
                           /\ warnings' = warnings \cup (found \ fatal)
          /\ report' = [report EXCEPT !.final = IF phase' = "loaded" THEN v ELSE @,
                                      !.aliases = Aliases, !.secrets = Range(secrets)]
    /\ UNCHANGED <<metadata, pushed, raws, layers, secrets, pending, policy, next, merged, upvars,
                   read, config, normalized>>

PipelineNext ==
    \/ ReadSources \/ Begin
    \/ MergeLayer \/ Migrate
    \/ ReadConfig \/ CheckFields \/ RunNormalizer \/ Validate

-----------------------------------------------------------------------------
(* Properties *)

Loaded == phase = "loaded"

\* The values have just become a configuration.
JustRead == phase = "normalizing" /\ normalized = 0

\* A migration has written at p, or moved what is there.
Upgraded(p) ==
    /\ rules # <<>>
    /\ \E q \in Up!Paths(rules) \cup {VersionPath} : Up!Overlap(q, p)

\* p is in an array that layers append to: elements are not where their layer has them.
Shifted(p) ==
    \E q \in Prefixes(p) \ {p, <<>>} :
      /\ Says(Effective(metadata.fields, q), "merge")
      /\ Effective(metadata.fields, q).says["merge"] = "Append"

-----------------------------------------------------------------------------

\* What the declarations of a rule for p come to: the most specific ones decide.
Deciding(p, code) ==
    LET about == {q \in DOMAIN metadata.fields :
                    code \in DOMAIN metadata.fields[q].says /\ PathMatchesPattern(p, q)}
    IN  {q \in about : ~ \E r \in about : ScoreBelow(MatchScore(q), MatchScore(r))}

Warned(p, code) == \E w \in warnings : "code" \in DOMAIN w /\ w.path = p /\ w.code = code

Given(pattern) == {p \in Nodes(report.final) : PathMatchesPattern(p, pattern) /\ GetAt(report.final, p) # Null}

\* The n-th wildcard of one pattern stands in p for what the n-th wildcard of the
\* other stands for in q.
SameBindings(p, pattern, q, other) ==
    \A i \in DOMAIN pattern, j \in DOMAIN other :
      LET Rank(s, k) == Cardinality({h \in 1..k : s[h] = Wild})
      IN  pattern[i] = Wild /\ other[j] = Wild /\ Rank(pattern, i) = Rank(other, j) => p[i] = q[j]

CheckHolds(c) ==
    LET given == {p \in c.paths : Given(p) # {}}
        RequiredBy(m) == \A p \in c.paths : \E q \in Given(p) : SameBindings(q, p, m, c.path)
    IN  CASE c.code = "at_least_one_of" -> given # {}
          [] c.code = "exactly_one_of" -> Cardinality(given) = 1
          [] c.code = "mutually_exclusive" -> Cardinality(given) <= 1
          [] c.code = "required_with" -> \A m \in Given(c.path) : RequiredBy(m)
          [] c.code = "required_if" -> \A m \in Given(c.path) : GetAt(report.final, m) = c.equals => RequiredBy(m)

\* A configuration that is returned keeps the rules that are declared for its paths,
\* as the layers and the normalizers have left it, or there is a warning, where the
\* rule asks for no more; and it passes the checks across fields, each element of a
\* list with what is required of this element (validate_declared_rules and
\* validate_declared_checks, at the end of load()).
RulesHoldOfTheResult ==
    Loaded =>
      /\ \A p \in Nodes(report.final) \ {<<>>} : \A code \in Rules :
           LET deciding == Deciding(p, code)
           IN  deciding = {} \/ Warned(p, code)
                 \/ \E q \in deciding : RuleHolds(code, metadata.fields[q].says[code], GetAt(report.final, p))
      /\ \A c \in metadata.checks : CheckHolds(c)

-----------------------------------------------------------------------------

\* The configuration before the normalizers.
ConfigRead == CanonicalValue(read.value, Aliases)

\* A layer gave p as part of a container, which has the only entry.
GivenInside(p) == \E i \in DOMAIN layers : Has(layers[i].value, p) /\ p \notin layers[i].entries

\* The layers that have something at p.
Having(p) == {i \in DOMAIN layers : Has(layers[i].value, p)}

\* A higher layer has replaced something p was in, and has nothing at p.
Replaced(p) ==
    \E i \in DOMAIN layers : \E q \in Prefixes(p) \ {p, <<>>} :
      /\ \A j \in Having(p) : j < i
      /\ Has(layers[i].value, q)
      /\ GetAt(layers[i].value, q).kind # "object" \/ Says(Effective(metadata.fields, q), "merge")

\* What a report tells of a text that has been read as something else.
ReadFrom(told, v) == told = v \/ (told.kind = "string" /\ Parsed(told) = v)

\* What explain() tells last of a part of the configuration is what the configuration
\* has there, redacted where it is secret and as the layer spelled it: for what the
\* layers decided (but inside a container given as a whole, in an array others append
\* to or replace, and where migrations have been), and for everything the normalizers
\* have changed, added or removed.
ExplainTellsTheResult ==
    Loaded =>
      LET before == ConfigRead
      IN  \A p \in (Leaves(report.final) \cup Leaves(before)) \ {<<>>} :
        LET changed == GetAt(before, p) # GetAt(report.final, p)
            layered == /\ Having(p) # {}
                       /\ ~ (GivenInside(p) \/ Replaced(p) \/ Shifted(p) \/ Upgraded(p))
            told == Last(Explain(report, p).steps).value
        IN  /\ (changed \/ layered) /\ Has(report.final, p) =>
                 /\ Explainable(report, p)
                 /\ ReadFrom(told, Redacted(GetAt(report.final, p), p, Range(secrets)))
            /\ changed /\ ~ Has(report.final, p) /\ Explainable(report, p) =>
                 told = Redacted(Null, p, Range(secrets))

-----------------------------------------------------------------------------

Scalars(v) == {GetAt(v, p) : p \in Leaves(v)} \ {Null, EmptyObject, Array(<<>>)}

\* What layers and normalizers put at secret paths, and nowhere else.
SecretValues ==
    LET values == {layers[i].value : i \in DOMAIN layers} \cup {config}
        At(secret) == UNION {{GetAt(v, p) : p \in {q \in Leaves(v) : IsSecret(q, Range(secrets)) = secret}} : v \in values}
    IN  (At(TRUE) \ At(FALSE)) \cap [kind : {"string"}, text : STRING]

\* The values in the report of a load that has ended.
Reported ==
    LET recorded == UNION {{report.steps[p][i].value : i \in DOMAIN report.steps[p]} : p \in DOMAIN report.steps}
        explained == {e.final : e \in Audit(report)}
    IN  IF Loaded THEN recorded \cup explained ELSE {}

\* What tells a value in its warnings, or in its error.
Telling == {f \in (IF Loaded THEN warnings ELSE faults) : "actual" \in DOMAIN f}

\* The two faults that tell a secret: a rule on a container tells what is inside, and
\* a secret the configuration cannot take is told as it was given.
TellsSecrets(f) ==
    \/ \E s \in Range(secrets) : IsStrictPrefix(f.path, s)
    \/ phase = "refused" /\ error = "Deserialize" /\ IsSecret(f.path, Range(secrets))

\* No text that was only ever given for a secret appears among the values of a report
\* or its warnings, whichever layer gave it, whether it was decided against, and
\* wherever the normalizers have it, nor in the error of the load; but in what is said
\* of a rule on a container with a secret inside, and in the error of a secret that is
\* not of the type the configuration has for it (de.rs redacts nothing).  The names of
\* sources are not values: one that is an option has its text, secret or not.
SecretsStayHidden ==
    phase \in {"loaded", "refused"} /\ pending # {} =>
      LET shown == Reported \cup {f.actual : f \in {g \in Telling : ~ TellsSecrets(g)}}
      IN  \A v \in shown \ {Missing} : Scalars(v) \cap SecretValues = {}

-----------------------------------------------------------------------------

\* Under the policies Warn and Deny everything the layers have given is in the
\* configuration, is warned of, or is at a path the metadata declares; and a warning
\* names the last layer that has given it.
NothingIsIgnored ==
    JustRead /\ policy # "Allow" =>
      LET told == {w \in warnings : "kind" \in DOMAIN w /\ w.kind = "unknown"}
      IN  /\ \A p \in Leaves(merged) \ {<<>>} :
               \/ Has(config, p)
               \/ \E w \in told : policy = "Warn" /\ IsPrefix(w.path, p)
               \/ \E q \in FieldPaths : IsPrefix(q, p)
          /\ \A w \in told :
               Having(w.path) # {} /\ ~ (GivenInside(w.path) \/ Shifted(w.path) \/ Upgraded(w.path)) =>
                 w.source = layers[Max(Having(w.path))].source

-----------------------------------------------------------------------------

\* The type the target has for p.
RECURSIVE TypeAt(_, _)
TypeAt(t, p) ==
    IF t.type = "option" THEN TypeAt(t.of, p)
    ELSE IF p = <<>> THEN t
    ELSE CASE t.type \in {"seq", "map"} -> TypeAt(t.of, Tail(p))
           [] t.type = "struct" /\ Head(p) \in DOMAIN t.fields -> TypeAt(t.fields[Head(p)], Tail(p))
           [] t.type = "tuple" /\ Head(p) \in {ToString(i - 1) : i \in DOMAIN t.of} ->
                TypeAt(t.of[Indices[Head(p)] + 1], Tail(p))
           [] OTHER -> [type |-> "ignored"]

\* The text at p was given as plain text by some layer, there or elsewhere.
PlainText(p) ==
    \E i \in DOMAIN layers : \E q \in layers[i].coercible :
      GetAt(merged, p).kind = "string" /\ GetAt(merged, p) = GetAt(layers[i].value, q)

\* What the second attempt cannot read, where it is: texts that stand for no number,
\* and texts that do where the target has a text.
Unreadable ==
    {p \in Leaves(merged) :
       LET text == GetAt(merged, p)
           v == IF Coercible(text, p, CoerciblePaths) /\ Parsed(text) # Missing THEN Parsed(text) ELSE text
           t == TypeAt(Target, p)
       IN  \/ t.type = "text" /\ v.kind \notin {"string", "null"}
           \/ t.type \in {"number", "loose"} /\ v.kind \notin {"number", "null"}
           \/ t.type = "number" /\ v.kind = "number" /\ v.number > t.max}

\* Text is read as a number only where the target has a number and some layer gave
\* plain text, and stays text where the target has one; and a load is not refused for
\* plain text that stands for a number the target has (but where elements have moved;
\* and where the target takes a number of any kind, the error may be about a text that
\* could be read, when something else could not).
TextIsReadAsTheTargetAsks ==
    /\ JustRead =>
         \A p \in Leaves(merged) : GetAt(merged, p).kind = "string" /\ Has(config, p) =>
           CASE TypeAt(Target, p).type = "text" -> GetAt(config, p) \in {GetAt(merged, p), Null}
             [] OTHER -> p \in CoerciblePaths /\ GetAt(config, p) = Parsed(GetAt(merged, p))
    /\ phase = "refused" /\ error = "Deserialize" =>
         \A f \in faults :
           LET t == TypeAt(Target, f.path)
           IN  PlainText(f.path) /\ t.type \in {"number", "loose"} =>
                 \/ f.path \in Unreadable \/ Shifted(f.path) \/ Upgraded(f.path)
                 \/ t.type = "loose" /\ Unreadable # {}
=============================================================================
