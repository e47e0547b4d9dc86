----------------------------- MODULE LayerMerge -----------------------------
(***************************************************************************)
(* What load() does with the finished layers: validate_indexed_array_paths *)
(* (loader/load.rs) and merge_values (loader/merge.rs).  The strategies of *)
(* the metadata are a function from the paths that have one to "Append" or *)
(* "Replace"; every other path has the default, "Merge".                   *)
(***************************************************************************)
EXTENDS OverrideLayer

\* Seeded fault: elements are patched into the array the layer replaces.
PatchesDirect(l, p) == p \in l.indexed /\ p # <<>>

\* The arrays of which l writes single elements, and only those.
Patches(l, p) == p \in l.indexed \ l.direct /\ p # <<>>

Strategy(how, p) == IF p \in DOMAIN how /\ p # <<>> THEN how[p] ELSE "Merge"

\* merge_indexed_array_patch: nulls of the patch stand for elements it does not
\* write, and a null element it does write is replaced; under is what the merge
\* makes of the children of the patch.
Patched(old, new, under) ==
    LET written == {i \in DOMAIN new : new[i] # Null}
        wide == Resized(old, IF written = {} THEN 0 ELSE Max(written), Null)
    IN  [i \in DOMAIN wide |->
           IF i \notin written THEN wide[i]
           ELSE IF wide[i] = Null THEN new[i]
           ELSE under[IndexName(i - 1)]]

MergedFields(old, under) ==
    [k \in DOMAIN old \cup DOMAIN under |-> IF k \in DOMAIN under THEN under[k] ELSE old[k]]

\* target.append(&mut overlay)
Appended(old, new) == old \o new

\* merge_values, of the value new of layer l over the value old, both at p, with what it
\* makes of their children.
MergedAt(how, l, p, old, new, under) ==
    LET Both(kind) == old.kind = kind /\ new.kind = kind
    IN  IF Both("array") /\ Patches(l, p) THEN Array(Patched(old.items, new.items, under))
        ELSE IF Strategy(how, p) = "Replace" THEN new
        ELSE IF Both("array") /\ Strategy(how, p) = "Append" THEN Array(Appended(old.items, new.items))
        ELSE IF Both("object") THEN Object(MergedFields(old.fields, under))
        ELSE new

\* The same from the root; what one of them does not have is taken from the other.
Merged(how, old, new, l) ==
    LET both == Nodes(old) \cap Nodes(new)
        at[p \in both] ==
          MergedAt(how, l, p, GetAt(old, p), GetAt(new, p),
                   [s \in Segments(GetAt(new, p)) |->
                      IF Append(p, s) \in both THEN at[Append(p, s)] ELSE GetAt(new, Append(p, s))])
    IN  at[<<>>]

\* Seeded fault: always what the layers beneath l have made.
BaseLengthBelow(below, l, c) ==
    LET v == GetAt(below, c) IN IF v.kind = "array" THEN Len(v.items) ELSE 0

\* The length elements of the array at c have to continue: as it was when l began
\* to write elements, if l wrote the array as a whole before, else as in below,
\* what the layers beneath l have made.
BaseLength(below, l, c) ==
    IF c \in DOMAIN l.base THEN l.base[c]
    ELSE LET v == GetAt(below, c) IN IF v.kind = "array" THEN Len(v.items) ELSE 0

\* Seeded fault: one element may be left out.
NoSparseOverrideLoose(below, l) ==
    \A c \in l.indexed :
        \/ c \notin DOMAIN l.base /\ c \in l.direct
        \/ LET base == BaseLength(below, l, c)
               added == {n \in {ChildIndex(c, e) : e \in {f \in l.entries : ElementOf(c, f)}} : n >= base}
           IN  added \subseteq base..(base + Cardinality(added))

\* validate_indexed_array_paths: behind the elements there are, l adds elements
\* without leaving one out.
NoSparseOverride(below, l) ==
    \A c \in l.indexed :
        \/ c \notin DOMAIN l.base /\ c \in l.direct
        \/ LET base == BaseLength(below, l, c)
               added == {n \in {ChildIndex(c, e) : e \in {f \in l.entries : ElementOf(c, f)}} : n >= base}
           IN  added = base..(base + Cardinality(added) - 1)
=============================================================================
