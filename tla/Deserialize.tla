------------------------------ MODULE Deserialize ------------------------------
(***************************************************************************)
(* How the merged values become a configuration (loader/de.rs): the type of*)
(* the configuration asks for its parts one by one, strings that came as   *)
(* plain text are read as what it asks for, and what it does not ask for is*)
(* collected, to be reported as unknown (loader/unknown.rs).               *)
(*                                                                         *)
(* A type is a record: "number" (up to max), "text", "loose" (a number that*)
(* is read through deserialize_any, as untagged enums and flattened fields *)
(* are), "option", "seq" and "map" (of a type), "tuple" (of a sequence of  *)
(* types) or "struct" (fields, a function to types).  A configuration is   *)
(* what it serializes to.                                                  *)
(***************************************************************************)
EXTENDS PathPatterns, JsonTree

CONSTANT Reads  \* the scalar each text that stands for one parses to

\* coercible_string
Coercible(v, p, coercible) == v.kind = "string" /\ p \in coercible

\* str::parse of the text, as what the type asks for
Parsed(v) == IF v.text \in DOMAIN Reads THEN Reads[v.text] ELSE Missing

\* deserialize_integer_from_value
AsNumber(t, v, p, coercible) ==
    LET n == IF Coercible(v, p, coercible) THEN Parsed(v) ELSE v
    IN  IF n.kind = "number" /\ n.number <= t.max THEN n ELSE Missing

\* deserialize_option: null, or plain text that says so
IsNone(v, p, coercible) == v = Null \/ (Coercible(v, p, coercible) /\ Parsed(v) = Null)

\* What reading has come to: the value, or Missing and the path where it failed, the
\* paths the type asked for, and the paths it ignored.
Result(value, at, known) == [value |-> value, at |-> at, known |-> known, ignored |-> {}]

Ignored == [kind |-> "ignored"]

\* What a part was read to, in its place.
Put(v, s, x) ==
    IF x = Ignored THEN v
    ELSE IF v.kind = "array" THEN Array(Append(v.items, x))
    ELSE Object(s :> x @@ v.fields)

\* The keys of an object in the order of its map, the elements of an array in theirs.
InOrder(v) ==
    IF v.kind = "array" THEN [i \in DOMAIN v.items |-> ToString(i - 1)]
    ELSE SortedBy(DOMAIN v.fields, LAMBDA j, k : Position(j) < Position(k))

Under(p, segments) == {Append(p, s) : s \in segments}

RECURSIVE Scan(_, _, _, _)

\* CoercingSeqAccess and CoercingMapAccess: the parts one after the other, each as
\* its type says, up to the first that fails.
Parts(start, v, p, coercible, types) ==
    LET Visit(r, s) ==
          LET c == Scan(types[s], Child(v, s), Append(p, s), coercible)
          IN  IF r.value = Missing THEN r
              ELSE [value |-> IF c.value = Missing THEN Missing ELSE Put(r.value, s, c.value),
                    at |-> c.at,
                    known |-> r.known \cup c.known,
                    ignored |-> r.ignored \cup c.ignored]
    IN  FoldLeft(Visit, start, InOrder(v))

\* deserialize_struct: keys the type has no field for are ignored; fields that are
\* not there are absent options, or missing.
AsStruct(t, v, p, coercible) ==
    LET known == Under(p, DOMAIN t.fields)
        r == Parts(Result(EmptyObject, p, known), v, p, coercible,
                   [s \in DOMAIN v.fields |-> IF s \in DOMAIN t.fields THEN t.fields[s] ELSE [type |-> "ignored"]])
        absent == DOMAIN t.fields \ DOMAIN v.fields
    IN  IF v.kind # "object" THEN Result(Missing, p, known)
        ELSE IF r.value = Missing THEN r
        ELSE IF \E s \in absent : t.fields[s].type # "option" THEN [r EXCEPT !.value = Missing, !.at = p]
        ELSE [r EXCEPT !.value = Object([s \in absent |-> Null] @@ @.fields)]

\* deserialize_tuple: elements beyond the last one the type asks for are ignored.
AsTuple(t, v, p, coercible) ==
    LET size == Len(t.of)
        first == Array(SubSeq(v.items, 1, size))
        known == {Append(p, ToString(i - 1)) : i \in 1..size}
        r == Parts(Result(Array(<<>>), p, known), first, p, coercible, [s \in Segments(first) |-> t.of[Indices[s] + 1]])
    IN  IF v.kind # "array" THEN Result(Missing, p, {})
        ELSE IF Len(v.items) < size /\ r.value # Missing THEN [r EXCEPT !.value = Missing, !.at = p]
        ELSE [r EXCEPT !.ignored = @ \cup {Append(p, ToString(i - 1)) : i \in (size + 1)..Len(v.items)}]

\* What a value of type t makes of v, which is at p: scan_unknown_field_paths and
\* deserialize_attempt in one.
Scan(t, v, p, coercible) ==
    CASE t.type = "number" -> Result(AsNumber(t, v, p, coercible), p, {})
      [] t.type = "text" -> Result(IF v.kind = "string" THEN v ELSE Missing, p, {})
      [] t.type = "loose" -> Result(IF v.kind = "number" THEN v ELSE Missing, p, {})
      [] t.type = "option" -> IF IsNone(v, p, coercible) THEN Result(Null, p, {})
                              ELSE Scan(t.of, v, p, coercible)
      [] t.type = "seq" -> IF v.kind # "array" THEN Result(Missing, p, {})
                           ELSE Parts(Result(Array(<<>>), p, {}), v, p, coercible, [s \in Segments(v) |-> t.of])
      [] t.type = "map" -> IF v.kind # "object" THEN Result(Missing, p, {})
                           ELSE Parts(Result(EmptyObject, p, {}), v, p, coercible, [s \in Segments(v) |-> t.of])
      [] t.type = "tuple" -> AsTuple(t, v, p, coercible)
      [] t.type = "struct" -> AsStruct(t, v, p, coercible)
      [] t.type = "ignored" -> [Result(Ignored, p, {}) EXCEPT !.ignored = {p}]

\* coerce_retry_scalars: every text that stands for a scalar, as the scalar.
RECURSIVE RetryScalars(_, _, _)
RetryScalars(v, p, coercible) ==
    LET Retried(s) == RetryScalars(Child(v, s), Append(p, s), coercible)
    IN  CASE v.kind = "object" -> Object([s \in DOMAIN v.fields |-> Retried(s)])
          [] v.kind = "array" -> Array([i \in DOMAIN v.items |-> Retried(ToString(i - 1))])
          [] Coercible(v, p, coercible) /\ Parsed(v) # Missing -> Parsed(v)
          [] OTHER -> v

\* Seeded fault: there is only one attempt.
DeserializedOnce(t, v, coercible) == Scan(t, v, <<>>, coercible)

\* deserialize_with_path and scan_unknown_field_paths_with_retry: when the values do
\* not fit, they are tried again with all texts read as scalars, and when that does
\* not fit either, the first attempt counts.
Deserialized(t, v, coercible) ==
    LET first == Scan(t, v, <<>>, coercible)
        retried == RetryScalars(v, <<>>, coercible)
        second == Scan(t, retried, <<>>, coercible)
    IN  IF first.value = Missing /\ retried # v /\ second.value # Missing THEN second ELSE first
=============================================================================
