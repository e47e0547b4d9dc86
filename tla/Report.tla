-------------------------------- MODULE Report --------------------------------
(***************************************************************************)
(* ConfigReport (report.rs): which source wrote what at which path, with   *)
(* secrets redacted, as load() records it layer by layer and normalizer by *)
(* normalizer (loader/load.rs), and what explain() and the audit make of it*)
(* afterwards.                                                             *)
(*                                                                         *)
(* A report is a record: final, the value it explains; aliases; secrets,   *)
(* the secret paths; steps, a function from paths to the sequence of what  *)
(* was recorded for them.                                                  *)
(***************************************************************************)
EXTENDS PathPatterns, JsonNodes

Redaction == Text("***redacted***")

IsSecret(p, secrets) == \E s \in secrets : PathStartsWithPattern(p, s)

\* Seeded fault: only secrets that are whole parts of v are redacted, not what is in them.
RECURSIVE RedactedExactly(_, _, _)
RedactedExactly(v, p, secrets) ==
    LET In(s) == RedactedExactly(Child(v, s), Append(p, s), secrets)
    IN  IF \E s \in secrets : PathMatchesPattern(p, s) THEN Redaction
        ELSE CASE v.kind = "object" -> Object([s \in DOMAIN v.fields |-> In(s)])
               [] v.kind = "array" -> Array([i \in DOMAIN v.items |-> In(ToString(i - 1))])
               [] OTHER -> v

\* redact_value, of the value v that is at p
RECURSIVE Redacted(_, _, _)
Redacted(v, p, secrets) ==
    LET In(s) == Redacted(Child(v, s), Append(p, s), secrets)
    IN  IF IsSecret(p, secrets) THEN Redaction
        ELSE CASE v.kind = "object" -> Object([s \in DOMAIN v.fields |-> In(s)])
               [] v.kind = "array" -> Array([i \in DOMAIN v.items |-> In(ToString(i - 1))])
               [] OTHER -> v

\* record_step, for all paths in new, a function from paths to steps
Recorded(steps, new) ==
    [p \in DOMAIN steps \cup DOMAIN new |->
       (IF p \in DOMAIN steps THEN steps[p] ELSE <<>>) \o (IF p \in DOMAIN new THEN <<new[p]>> ELSE <<>>)]

\* record_layer_steps: the layer as a whole, and every entry it has a value for
LayerSteps(l, secrets) ==
    [p \in {<<>>} \cup {e \in l.entries : Has(l.value, e)} |->
       [source |-> l.source, value |-> Redacted(GetAt(l.value, p), p, secrets)]]

\* collect_diff_paths, beginning at p; what is missing counts as null
RECURSIVE DiffPaths(_, _, _)
DiffPaths(old, new, p) ==
    LET OrNull(v) == IF v = Missing THEN Null ELSE v
        Nested(v) == {p \o q : q \in Nodes(v)}
    IN  IF old = new THEN {}
        ELSE {p} \cup
             IF old.kind = new.kind /\ old.kind \in {"object", "array"}
               THEN UNION {DiffPaths(OrNull(Child(old, s)), OrNull(Child(new, s)), Append(p, s)) :
                             s \in Segments(old) \cup Segments(new)}
               ELSE Nested(old) \cup Nested(new)

\* Seeded fault: what a normalizer removed is not recorded.
DiffStepsKept(old, new, source, secrets) ==
    [p \in {q \in DiffPaths(old, new, <<>>) : Has(new, q)} |->
       [source |-> source, value |-> Redacted(GetAt(new, p), p, secrets)]]

\* record_diff_steps: what a normalizer changed, added and removed
DiffSteps(old, new, source, secrets) ==
    [p \in {q \in DiffPaths(old, new, <<>>) : Has(new, q) \/ Has(old, q)} |->
       [source |-> source,
        value |-> IF Has(new, p) THEN Redacted(GetAt(new, p), p, secrets) ELSE Null]]

-----------------------------------------------------------------------------
(* Looking things up, by dotted paths *)

\* canonicalize_runtime_lookup_path gives up at an array that is asked for a field.
FitsShape(v, p) == \A i \in DOMAIN p : GetAt(v, SubSeq(p, 1, i - 1)).kind = "array" => IsIndex(p[i])

\* normalize_lookup_path, of a path that fits
Lookup(r, p) ==
    LET There(q) == q \in DOMAIN r.steps \/ Has(r.final, q)
        runtime == WithAliases(CanonicalPath(r.final, p), r.aliases)
        plain == WithAliases(p, r.aliases)
    IN  IF ~ There(runtime) /\ There(plain) THEN plain ELSE runtime

\* Seeded fault: the first source instead of the last.
LatestSourceFirst(r, p) ==
    IF FitsShape(r.final, p) /\ Lookup(r, p) \in DOMAIN r.steps
      THEN Head(r.steps[Lookup(r, p)]).source ELSE "unknown"

\* latest_source_for
LatestSource(r, p) ==
    IF FitsShape(r.final, p) /\ Lookup(r, p) \in DOMAIN r.steps
      THEN Last(r.steps[Lookup(r, p)]).source ELSE "unknown"

\* find_source_for_unknown_path: of the path, or of the nearest it is in
SourceAbove(r, p) ==
    LET named == {q \in Prefixes(p) \ {<<>>} : LatestSource(r, q) # "unknown"}
    IN  IF named = {} THEN "unknown"
        ELSE LatestSource(r, CHOOSE q \in named : \A n \in named : Len(n) <= Len(q))

Explainable(r, p) == FitsShape(r.final, p) /\ Lookup(r, p) \in DOMAIN r.steps

\* explain, where there is something to explain: steps are redacted again, by the
\* secret paths the load has ended with.
Explain(r, p) ==
    LET q == Lookup(r, p)
        redacted == \E s \in r.secrets : PathOverlapsPattern(q, s)
        final == GetAt(r.final, q)
    IN  [path |-> q,
         redacted |-> redacted,
         final |-> IF final = Missing THEN Missing ELSE Redacted(final, q, r.secrets),
         steps |-> [i \in DOMAIN r.steps[q] |->
                      IF redacted THEN [r.steps[q][i] EXCEPT !.value = Redacted(@, q, r.secrets)]
                      ELSE r.steps[q][i]]]

\* audit_report: an explanation for each path that has steps and can be looked up
Audit(r) == {Explain(r, p) : p \in {q \in DOMAIN r.steps : Explainable(r, q)}}
=============================================================================
