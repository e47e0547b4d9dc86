----------------------------- MODULE PatchLayer -----------------------------
(***************************************************************************)
(* How a typed patch becomes a layer (PatchLayerBuilder in patch.rs), one  *)
(* write at a time.  What an index means depends on the shape the values   *)
(* beneath have: a builder is made for a shape, the empty object where the *)
(* values are not known yet, and follows it as it writes.                  *)
(***************************************************************************)
EXTENDS LayerMerge

NewBuilder(source, shape) == [layer |-> NewLayer(source), shape |-> shape]

\* A container that takes a child at s.
Takes(c, s) == c.kind = "object" \/ (c.kind = "array" /\ IsIndex(s))

\* The shapes the segments of p are looked up in.  Beyond the shape a segment is an
\* index when it was written in brackets (explicit).
ShapesAlong(shape, p, explicit) ==
    LET on[i \in 1..Len(p)] ==
          IF i = 1 THEN shape
          ELSE LET above == on[i - 1]
                   known == Child(above, p[i - 1])
               IN  IF ~ Takes(above, p[i - 1]) \/ known # Missing THEN known
                   ELSE IF i \in explicit THEN Array(<<>>) ELSE EmptyObject
    IN  on

\* canonicalize_patch_path: the segments, indices written the canonical way, and
\* which of them address elements of arrays.
PatchPath(shape, p, explicit) ==
    LET on == ShapesAlong(shape, p, explicit)
        arrays == {i \in DOMAIN p : on[i].kind = "array" /\ IsIndex(p[i])}
    IN  [path |-> [i \in DOMAIN p |-> IF i \in arrays THEN CanonicalIndex(p[i]) ELSE p[i]],
         arrays |-> arrays]

\* patch_next_container and ensure_patch_container: the kind of container the shape
\* asks for, and where it says nothing, the next segment.
ContainerKind(shape, isIndex) ==
    IF shape # Missing THEN shape.kind ELSE IF isIndex THEN "array" ELSE "object"

\* A missing child is made, and so is a null element, but not a null field.
OrEmpty(old, isElement, empty) == IF old = Missing \/ (isElement /\ old = Null) THEN empty ELSE old

\* An array grows with nulls only.
WithNulls(v, s) ==
    IF v.kind = "array" /\ IsIndex(s) THEN Array(Resized(v.items, Indices[s] + 1, Null)) ELSE v

\* The containers the segments of p are put in, as they are found or made, with the
\* shape that is asked for each.
ShapedContainers(v, shape, p, arrays) ==
    LET way[i \in 1..Len(p)] ==
          IF i = 1 THEN [value |-> WithNulls(v, p[1]), shape |-> shape]
          ELSE LET above == way[i - 1]
                   asked == IF above.shape.kind = above.value.kind THEN Child(above.shape, p[i - 1]) ELSE Missing
                   empty == IF ContainerKind(asked, i \in arrays) = "array" THEN Array(<<>>) ELSE EmptyObject
                   old == Child(above.value, p[i - 1])
               IN  [value |-> WithNulls(OrEmpty(old, above.value.kind = "array", empty), p[i]),
                    shape |-> asked]
    IN  way

\* A scalar, an array and a name, or not what the shape asks for.
UnfitShaped(c, p, arrays, i) ==
    \/ ~ Takes(c.value, p[i])
    \/ i > 1 /\ c.value.kind # ContainerKind(c.shape, i \in arrays)

\* The containers of way with x in them, if it fits into them.
FilledShaped(way, p, arrays, x) ==
    IF \E i \in DOMAIN p : UnfitShaped(way[i], p, arrays, i) THEN Conflict
    ELSE Filled([i \in DOMAIN p |-> way[i].value], p, x)[1]

\* insert_path_with_shape
InsertShaped(v, shape, p, arrays, x) == FilledShaped(ShapedContainers(v, shape, p, arrays), p, arrays, x)

\* claim_patch_path
PatchClaimable(l, p) == \A e \in ClaimedPaths(l) : ~ IsPrefix(e, p) /\ ~ IsPrefix(p, e)

\* Seeded fault: elements are not recorded where the shape has the array.
ContainersWrittenExplicit(w, canonical) == {SubSeq(canonical.path, 1, i - 1) : i \in canonical.arrays \cap w.explicit}

\* patch_indexed_array_container_paths
ContainersWritten(w, canonical) == {SubSeq(canonical.path, 1, i - 1) : i \in canonical.arrays}

\* insert_value, at a path that is canonical; the value of the layer is Conflict where
\* it fails.
WriteAt(b, w, canonical) ==
    LET p == canonical.path
        Inserted(v) == IF PatchClaimable(b.layer, p)
                         THEN InsertShaped(v, b.shape, p, canonical.arrays, w.value) ELSE Conflict
        shape == Inserted(b.shape)
    IN  [layer |-> Noted(b.layer, p, ContainersWritten(w, canonical), w.value,
                         IF shape = Conflict THEN Conflict ELSE Inserted(b.layer.value)),
         shape |-> shape]

WithWrite(b, w) == WriteAt(b, w, PatchPath(b.shape, w.path, w.explicit))

Refused(b) == b.layer.value = Conflict

\* DeferredPatchLayer::into_layer_with_shape: the writes again, for the shape the
\* layers beneath have.
Replayed(source, shape, writes) ==
    FoldLeft(LAMBDA b, w : IF Refused(b) THEN b ELSE WithWrite(b, w), NewBuilder(source, shape), writes)

\* merged_shape_from_layers: the layers, the defaults among them, over the defaults.
ShapeOf(how, layers) ==
    FoldLeft(LAMBDA v, l : Merged(how, v, l.value, l), layers[1].value, layers)
=============================================================================
