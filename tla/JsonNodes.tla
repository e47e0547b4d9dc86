----------------------------- MODULE JsonNodes ------------------------------
(***************************************************************************)
(* What a configuration value is made of (collect_paths of report.rs,      *)
(* collect_value_nodes of loader/canonical.rs).                            *)
(***************************************************************************)
EXTENDS JsonTree, FiniteSets, SequencesExt

CONSTANT MaxDepth  \* bound: no value is nested deeper

ASSUME DepthAssumption == MaxDepth \in Nat

\* The paths of v and of everything in it, level by level.
Nodes(v) ==
    LET upto[n \in 0..MaxDepth] ==
          IF n = 0 THEN {<<>>}
          ELSE LET above == upto[n - 1]
               IN  above \cup UNION {{Append(p, s) : s \in Segments(GetAt(v, p))} :
                                       p \in {q \in above : Len(q) = n - 1}}
    IN  upto[MaxDepth]

\* The paths of what v is made of: scalars, nulls and empty containers.
Leaves(v) == {p \in Nodes(v) : Segments(GetAt(v, p)) = {}}
=============================================================================
