------------------------------ MODULE Validation ------------------------------
(***************************************************************************)
(* Declared validation (loader/validation.rs): the rules the metadata      *)
(* declares for paths, and the checks it declares across fields, of the    *)
(* values a load has come to.  What a rule is given is a value: a number   *)
(* or NotFinite, the texts of an enumeration.  Numbers are integers.       *)
(***************************************************************************)
EXTENDS Metadata, Report

CONSTANT Formats  \* the texts that have each of the formats

NotFinite == [kind |-> "not finite"]

\* validation_length; Len also counts the characters of a string.
Length(v) ==
    CASE v.kind = "string" -> Len(v.text)
      [] v.kind = "array" -> Len(v.items)
      [] v.kind = "object" -> Cardinality(DOMAIN v.fields)

HasLength(v) == v.kind \in {"string", "array", "object"}

NotEmpty(v) == HasLength(v) => Length(v) > 0

\* compare_value_to_bound, as i128: what is no number is never within a bound, and
\* nothing is within a bound that is not finite.
WithinBound(code, bound, v) ==
    /\ bound # NotFinite
    /\ v.kind = "number"
    /\ IF code = "min" THEN v.number >= bound.number ELSE v.number <= bound.number

LengthWithin(code, bound, v) ==
    LET counted == CASE code \in {"min_length", "max_length"} -> HasLength(v)
                     [] code \in {"min_items", "max_items"} -> v.kind = "array"
                     [] OTHER -> v.kind = "object"
    IN  /\ counted
        /\ IF code \in {"min_length", "min_items", "min_properties"}
             THEN Length(v) >= bound.number ELSE Length(v) <= bound.number

\* number_is_multiple_of, of integers
IsMultiple(factor, v) ==
    factor # NotFinite /\ factor.number > 0 /\ v.kind = "number" /\ v.number % factor.number = 0

UniqueItems(v) == v.kind = "array" /\ \A i, j \in DOMAIN v.items : v.items[i] = v.items[j] => i = j

OneOf(values, v) == \E i \in DOMAIN values.items : values.items[i] = v

\* pattern, hostname, url, email, ip_addr, socket_addr, absolute_path
HasFormat(code, v) == v.kind = "string" /\ v.text \in Formats[code]

\* validate_declared_rule
RuleHolds(code, given, v) ==
    CASE code = "non_empty" -> NotEmpty(v)
      [] code \in {"min", "max"} -> WithinBound(code, given, v)
      [] code \in {"min_length", "max_length", "min_items", "max_items",
                   "min_properties", "max_properties"} -> LengthWithin(code, given, v)
      [] code = "multiple_of" -> IsMultiple(given, v)
      [] code = "unique_items" -> UniqueItems(v)
      [] code = "one_of" -> OneOf(given, v)
      [] OTHER -> HasFormat(code, v)

Rules == {"non_empty", "min", "max", "min_length", "max_length", "min_items", "max_items",
          "min_properties", "max_properties", "multiple_of", "unique_items", "one_of"} \cup DOMAIN Formats

\* collect_matching_values: the paths of v that fit a pattern; an index is spelled as
\* in the pattern.
RECURSIVE Matching(_, _)
Matching(v, pattern) ==
    IF pattern = <<>> THEN {<<>>}
    ELSE UNION {{<<s>> \o q : q \in Matching(Child(v, s), Tail(pattern))} :
                  s \in {t \in (IF Head(pattern) = Wild THEN Segments(v) ELSE {Head(pattern)}) :
                           Child(v, t) # Missing}}

\* validation_level_for
Level(field, code) ==
    LET configs == {c \in DOMAIN field.says \cap DOMAIN Configures : Configures[c] = code}
    IN  IF configs = {} THEN "error" ELSE field.says[CHOOSE c \in configs : TRUE]

\* validate_declared_rules: at each path some field declares rules for, the rules
\* that all fields together declare for it.
DeclaredFaults(v, fields, secrets) ==
    LET declaring == {q \in DOMAIN fields \ {<<>>} : DOMAIN fields[q].says \cap Rules # {}}
        FaultsAt(p) ==
            LET field == Effective(fields, p)
                actual == GetAt(v, p)
            IN  {[path |-> p, code |-> code, level |-> Level(field, code),
                  actual |-> IF IsSecret(p, secrets) THEN Redaction ELSE actual] :
                   code \in {c \in DOMAIN field.says \cap Rules : ~ RuleHolds(c, field.says[c], actual)}}
    IN  UNION {FaultsAt(p) : p \in UNION {Matching(v, q) : q \in declaring}}

\* path_is_present: something that fits is there, and not null.
Present(v, pattern) == \E p \in Matching(v, pattern) : GetAt(v, p) # Null

\* bind_required_paths: what the wildcards of the trigger stand for, in their order,
\* put for the wildcards of the path.
Bound(path, trigger, matched) ==
    LET wild == SortedBy({i \in DOMAIN trigger : trigger[i] = Wild}, <)
        Nth(i) == Cardinality({j \in 1..i : path[j] = Wild})
    IN  [i \in DOMAIN path |->
           IF path[i] = Wild /\ Nth(i) <= Len(wild) THEN matched[wild[Nth(i)]] ELSE path[i]]

\* Seeded fault: the wildcards of what is required stand for anything.
MissingWithAny(v, c, matched) == {q \in c.paths : ~ Present(v, q)}

\* missing_paths, of what a trigger that is there requires
MissingWith(v, c, matched) ==
    {q \in {Bound(p, c.path, matched) : p \in c.paths} : ~ Present(v, q)}

\* validate_declared_checks: the paths each check that fails is about
CheckFaults(v, checks) ==
    LET Fault(c, related) == [code |-> c.code, related |-> related]
        present(c) == {p \in c.paths : Present(v, p)}
        Triggers(c) == {m \in Matching(v, c.path) :
                          IF c.code = "required_if" THEN GetAt(v, m) = c.equals ELSE GetAt(v, m) # Null}
        groups == {c \in checks : \/ c.code = "at_least_one_of" /\ present(c) = {}
                                  \/ c.code = "exactly_one_of" /\ Cardinality(present(c)) # 1
                                  \/ c.code = "mutually_exclusive" /\ Cardinality(present(c)) > 1}
    IN  {Fault(c, c.paths) : c \in groups}
          \cup UNION {{Fault(c, {m} \cup MissingWith(v, c, m)) :
                         m \in {t \in Triggers(c) : MissingWith(v, c, t) # {}}} :
                      c \in {d \in checks : d.code \in {"required_with", "required_if"}}}
=============================================================================
