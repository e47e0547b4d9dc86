------------------------------ MODULE JsonTree ------------------------------
(***************************************************************************)
(* Configuration values (serde_json::Value) as trees, and the operations on*)
(* dotted paths the loader is built from: get_value_at_path (report.rs),   *)
(* insert_path (loader/de.rs), take_value_at_path (loader/load.rs) and     *)
(* canonicalize_runtime_path (loader/canonical.rs).  A path is a sequence  *)
(* of segments; a segment that parses as an index addresses an element of  *)
(* an array, and a key of an object like any other segment.                *)
(***************************************************************************)
EXTENDS Naturals, Sequences, TLC

Null == [kind |-> "null"]
Number(n) == [kind |-> "number", number |-> n]
Text(s) == [kind |-> "string", text |-> s]
Object(f) == [kind |-> "object", fields |-> f]
Array(s) == [kind |-> "array", items |-> s]

EmptyObject == Object(<<>>)

\* The result of a lookup that finds nothing, and of an insertion that fails.
Missing == [kind |-> "missing"]
Conflict == [kind |-> "conflict"]

\* str::parse::<usize> of the segments in use; "00" is another way to say 0.
\* Bound: no array has more than 8 elements.
Indices ==
    [s \in {"0", "00", "1", "2", "3", "4", "5", "6", "7"} |->
       CASE s \in {"0", "00"} -> 0 [] s = "1" -> 1 [] s = "2" -> 2 [] s = "3" -> 3
         [] s = "4" -> 4 [] s = "5" -> 5 [] s = "6" -> 6 [] s = "7" -> 7]
IsIndex(s) == s \in DOMAIN Indices
CanonicalIndex(s) == IF s = "00" THEN "0" ELSE s

\* usize::to_string, of the index of an element.
IndexName(n) == CHOOSE s \in DOMAIN Indices : Indices[s] = n /\ CanonicalIndex(s) = s

\* Values, and all there is in them.
Closed(V) ==
    \A u \in V : /\ u.kind = "object" => \A k \in DOMAIN u.fields : u.fields[k] \in V \ {Missing}
                 /\ u.kind = "array" => u.items \in Seq(V \ {Missing})

Child(v, s) ==
    CASE v.kind = "object" /\ s \in DOMAIN v.fields -> v.fields[s]
      [] v.kind = "array" /\ IsIndex(s) /\ Indices[s] < Len(v.items) -> v.items[Indices[s] + 1]
      [] OTHER -> Missing

\* v with the child c at s, in place of the one it has.
Replace(v, s, c) ==
    IF v.kind = "object"
      THEN Object([k \in DOMAIN v.fields \cup {s} |-> IF k = s THEN c ELSE v.fields[k]])
      ELSE Array([v.items EXCEPT ![Indices[s] + 1] = c])

\* What the first i segments of p lead to.
Walk(v, p) ==
    LET at[i \in 0..Len(p)] == IF i = 0 THEN v ELSE Child(at[i - 1], p[i]) IN at

GetAt(v, p) == Walk(v, p)[Len(p)]

Has(v, p) == GetAt(v, p) # Missing

\* What a container has its children at.
Segments(v) ==
    CASE v.kind = "object" -> DOMAIN v.fields
      [] v.kind = "array" -> {CanonicalIndex(s) : s \in {t \in DOMAIN Indices : Indices[t] < Len(v.items)}}
      [] OTHER -> {}

\* A container without its child at s: a key is removed from its object; an element is
\* removed from its array, and those behind it move up.
WithoutChild(v, s) ==
    IF v.kind = "object"
      THEN Object([k \in DOMAIN v.fields \ {s} |-> v.fields[k]])
      ELSE Array([i \in 1..(Len(v.items) - 1) |->
                    IF i <= Indices[s] THEN v.items[i] ELSE v.items[i + 1]])

\* take_value_at_segments, when there is a value at p: the containers on the way to it,
\* from the inside out.
Pruned(v, p) ==
    LET new[i \in 1..Len(p)] ==
          LET old == Walk(v, p)[i - 1]
          IN  IF i = Len(p) THEN WithoutChild(old, p[i]) ELSE Replace(old, p[i], new[i + 1])
    IN  new

Without(v, p) == Pruned(v, p)[1]

\* Seeded fault: values.resize also where the array is longer.
ResizedAlways(items, n, filler) ==
    [i \in 1..n |-> IF i <= Len(items) THEN items[i] ELSE filler]

\* values.resize(n, filler), never to fewer elements.
Resized(items, n, filler) ==
    [i \in 1..(IF n > Len(items) THEN n ELSE Len(items)) |-> IF i <= Len(items) THEN items[i] ELSE filler]

\* The container that is made for the i-th segment of p.
ContainerFor(p, i) == IF IsIndex(p[i]) THEN Array(<<>>) ELSE EmptyObject

\* An array grows up to the i-th segment of p, with nulls where it is the last one,
\* else with empty containers.
Widened(c, p, i) ==
    IF c.kind = "array" /\ IsIndex(p[i])
      THEN Array(Resized(c.items, Indices[p[i]] + 1, IF i = Len(p) THEN Null ELSE ContainerFor(p, i + 1)))
      ELSE c

\* A missing child is made, and so is a null element, but not a null field.
Entered(c, p, i) ==
    LET old == Child(c, p[i - 1])
    IN  IF old = Missing \/ (c.kind = "array" /\ old = Null) THEN ContainerFor(p, i) ELSE old

\* The containers the segments of p are put in, as they are found or made.
Containers(v, p) ==
    LET wide[i \in 1..Len(p)] == Widened(IF i = 1 THEN v ELSE Entered(wide[i - 1], p, i), p, i)
    IN  wide

\* A scalar, a container of the other kind, or an array and a name.
Unfit(c, p, i) ==
    \/ c.kind \notin {"object", "array"}
    \/ c.kind = "array" /\ ~ IsIndex(p[i])
    \/ i > 1 /\ c.kind # ContainerFor(p, i).kind

\* The containers c on the way along p, with x in them, from the inside out.
Filled(c, p, x) ==
    LET new[i \in 1..Len(p)] == Replace(c[i], p[i], IF i = Len(p) THEN x ELSE new[i + 1]) IN new

\* insert_path
InsertPath(v, p, x) ==
    IF \E i \in DOMAIN p : Unfit(Containers(v, p)[i], p, i) THEN Conflict ELSE Filled(Containers(v, p), p, x)[1]

\* canonicalize_runtime_path: the indices of the arrays v has on the way, written
\* the canonical way; the rest of the path as it is.
CanonicalPath(v, p) ==
    [i \in DOMAIN p |->
       IF Walk(v, p)[i - 1].kind = "array" /\ IsIndex(p[i]) THEN CanonicalIndex(p[i]) ELSE p[i]]
=============================================================================
