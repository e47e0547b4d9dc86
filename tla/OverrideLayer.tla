---------------------------- MODULE OverrideLayer ----------------------------
(***************************************************************************)
(* Layers, and how the environment and the command line build theirs one   *)
(* override at a time (Layer, parse_args and claim_arg_path in             *)
(* loader/mod.rs; insert_env_value and claim_env_path in loader/env.rs; the*)
(* records of array overrides in loader/path.rs).                          *)
(*                                                                         *)
(* Besides its value a layer says which paths it wrote (entries), which    *)
(* arrays it wrote elements of (indexed) and which it wrote as a whole     *)
(* (direct), how long an array written as a whole was when its first       *)
(* element was written after that (base), and which strings are plain text *)
(* that may be read as something else (coercible).  While it is being built*)
(* it also knows the present length of those arrays (lengths) and the      *)
(* overrides it has accepted, in order (claimed).                          *)
(***************************************************************************)
EXTENDS JsonNodes

\* Layer::from_value: every path of v but the root is an entry.
FromValue(source, v) ==
    [source |-> source, value |-> v, entries |-> Nodes(v) \ {<<>>}, coercible |-> {},
     indexed |-> {}, direct |-> {}, base |-> <<>>, lengths |-> <<>>, claimed |-> <<>>]

NewLayer(source) == FromValue(source, EmptyObject)

\* indexed_array_container_paths
IndexedContainers(p) == {SubSeq(p, 1, i - 1) : i \in {j \in 2..Len(p) : IsIndex(p[j])}}

\* direct_child_array_index, of a path that goes through an element of c
ChildIndex(c, p) == Indices[p[Len(c) + 1]]

\* record_indexed_array_state: an override of p writes elements of the arrays at
\* containers.  Those the layer has written as a whole keep the length they have at
\* the first such override, and grow.
NoteIndexed(l, p, containers) ==
    LET known == containers \cap DOMAIN l.lengths
    IN  [l EXCEPT !.base = @ @@ [c \in known |-> l.lengths[c]],
                  !.lengths = [c \in known |-> IF ChildIndex(c, p) >= @[c]
                                                 THEN ChildIndex(c, p) + 1 ELSE @[c]] @@ @]

\* record_direct_array_state: what is known of the arrays at p and in it is
\* replaced by the lengths of the arrays of x.
NoteDirect(l, p, x) ==
    LET Beyond(f) == [c \in {d \in DOMAIN f : ~ IsPrefix(p, d)} |-> f[c]]
        arrays == {q \in Nodes(x) : GetAt(x, q).kind = "array"}
    IN  [l EXCEPT !.base = Beyond(@),
                  !.lengths = [c \in {p \o q : q \in arrays} |->
                                 Len(GetAt(x, SubSeq(c, Len(p) + 1, Len(c))).items)] @@ Beyond(@)]

\* l with the records of an override of p by x, which writes elements of the arrays
\* at containers and makes value of the layer.
Noted(l, p, containers, x, value) ==
    LET isDirect == x.kind = "array"
        indexed == NoteIndexed(l, p, containers)
    IN  [(IF isDirect THEN NoteDirect(indexed, p, x) ELSE indexed)
           EXCEPT !.value = value,
                  !.entries = @ \cup (Prefixes(p) \ {<<>>}),
                  !.indexed = @ \cup containers,
                  !.direct = IF isDirect THEN @ \cup {p} ELSE @,
                  !.claimed = Append(@, [path |-> p, value |-> x])]

\* What accepting the override of p by x makes of l; its value is Conflict where
\* insert_path fails.
WithOverride(l, p, x) == Noted(l, p, IndexedContainers(p), x, InsertPath(l.value, p, x))

\* The same for plain text (parse_override_value), or for what a decoder made of it
\* (parse_env_override_value and collect_string_leaf_suffixes): its strings may be
\* read as what the target has there.
WithText(l, p, x) ==
    [WithOverride(l, p, x) EXCEPT
       !.coercible = @ \cup {p \o q : q \in {r \in Leaves(x) : GetAt(x, r).kind = "string"}}]

ClaimedPaths(l) == {l.claimed[i].path : i \in DOMAIN l.claimed}

\* direct_array_prefix_allows: other writes an element of the array that prefix
\* writes as a whole.
ElementOf(prefix, other) == IsStrictPrefix(prefix, other) /\ IsIndex(other[Len(prefix) + 1])

\* Seeded fault: only overrides of the same path are in conflict.
ArgClaimableEqualOnly(l, p, x) == p \notin ClaimedPaths(l)

\* claim_arg_path: no two overrides of a path, and none of a path and of something
\* in it, but of an array and of its elements, in whatever order.
ArgClaimable(l, p, x) ==
    \A e \in ClaimedPaths(l) :
        \/ ~ IsPrefix(e, p) /\ ~ IsPrefix(p, e)
        \/ ElementOf(e, p) /\ e \in l.direct
        \/ ElementOf(p, e) /\ x.kind = "array"

\* claim_env_path: the same, without the exception for arrays.
EnvClaimable(l, p) == \A e \in ClaimedPaths(l) : ~ IsPrefix(e, p) /\ ~ IsPrefix(p, e)

\* canonicalize_layer_paths: the records of l by the paths its value knows.  Of two
\* spellings of a path the one that sorts last keeps its base length.
Canonicalized(l) ==
    LET Canonical(p) == CanonicalPath(l.value, p)
        All(paths) == {Canonical(p) : p \in paths}
        Spelled(c) == CHOOSE p \in DOMAIN l.base :
                        /\ Canonical(p) = c
                        /\ \A q \in DOMAIN l.base : Canonical(q) = c => q = p \/ q = c
    IN  [l EXCEPT !.entries = All(@), !.coercible = All(@), !.indexed = All(@), !.direct = All(@),
                  !.base = [c \in All(DOMAIN @) |-> @[Spelled(c)]]]
=============================================================================
