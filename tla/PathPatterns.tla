---------------------------- MODULE PathPatterns ----------------------------
(***************************************************************************)
(* Patterns of paths and the rewriting of aliases (report.rs, and          *)
(* metadata/paths.rs for what makes a set of aliases acceptable).  A path  *)
(* is a sequence of segments; in a pattern the segment "*" stands for any  *)
(* segment.  Aliases are a function from patterns to canonical patterns.   *)
(***************************************************************************)
EXTENDS Naturals, Sequences, FiniteSets, SequencesExt, FiniteSetsExt

CONSTANT Order  \* the segments in use, in the order of their strings

ASSUME OrderAssumption == Order \in Seq(Range(Order)) /\ IsInjective(Order)

Wild == "*"

\* String comparison of dotted paths: "." sorts before what segments are made of.
Position(s) == CHOOSE i \in DOMAIN Order : Order[i] = s
Precedes(p, q) ==
    \/ IsStrictPrefix(p, q)
    \/ \E i \in DOMAIN p \cap DOMAIN q :
          /\ Position(p[i]) < Position(q[i])
          /\ \A j \in 1..(i - 1) : p[j] = q[j]

\* SetToSortSeq, for sets of any size; Before is a strict order of S.
SortedBy(S, Before(_, _)) ==
    [i \in 1..Cardinality(S) |-> CHOOSE x \in S : Cardinality({y \in S : Before(y, x)}) = i - 1]

Sorted(paths) == SortedBy(paths, Precedes)

Fits(actual, expected) == expected = Wild \/ actual = expected

PathMatchesPattern(p, pattern) ==
    Len(p) = Len(pattern) /\ \A i \in DOMAIN p : Fits(p[i], pattern[i])

PathStartsWithPattern(p, pattern) ==
    Len(p) >= Len(pattern) /\ \A i \in DOMAIN pattern : Fits(p[i], pattern[i])

PathOverlapsPattern(p, pattern) ==
    \A i \in DOMAIN p \cap DOMAIN pattern : p[i] = Wild \/ Fits(p[i], pattern[i])

Specificity(pattern) == Cardinality({i \in DOMAIN pattern : pattern[i] # Wild})

\* rewrite_alias_path, and rewrite_alias_sample: the canonical path with what the
\* wildcards stood for, and what p has behind the alias.
RewriteAliasPath(p, alias, canonical) ==
    [i \in DOMAIN canonical |->
       IF canonical[i] = Wild /\ i <= Len(alias) /\ alias[i] = Wild THEN p[i] ELSE canonical[i]]
      \o SubSeq(p, Len(alias) + 1, Len(p))

\* alias_rank, and the order in which canonicalize_path_with_aliases prefers aliases
AliasRank(alias) == <<Len(alias), Specificity(alias)>>
Outranks(a, b) == Len(a) > Len(b) \/ (Len(a) = Len(b) /\ Specificity(a) > Specificity(b))

\* The aliases p begins with that none outranks.
BestAliases(p, aliases) ==
    LET fitting == {a \in DOMAIN aliases : PathStartsWithPattern(p, a)}
    IN  {a \in fitting : ~ \E b \in fitting : Outranks(b, a)}

\* canonicalize_path_with_aliases: of equals the first one decides.
WithAliases(p, aliases) ==
    LET best == BestAliases(p, aliases)
    IN  IF p = <<>> \/ best = {} THEN p
        ELSE LET a == Sorted(best)[1] IN RewriteAliasPath(p, a, aliases[a])

\* alias_mapping_is_lossless
AliasMappingIsLossless(alias, canonical) ==
    /\ Len(canonical) >= Len(alias)
    /\ \A i \in DOMAIN alias : (alias[i] = Wild) <=> (canonical[i] = Wild)
    /\ \A i \in (Len(alias) + 1)..Len(canonical) : canonical[i] # Wild

\* alias_overlap_sample_path
OverlapSample(left, right) ==
    [i \in DOMAIN left |->
       IF left[i] # Wild THEN left[i] ELSE IF right[i] # Wild THEN right[i] ELSE "item"]

\* Seeded fault: overlapping aliases are only compared when one fits the other.
AliasPatternsAreAmbiguousNested(left, leftCanonical, right, rightCanonical) ==
    /\ AliasRank(left) = AliasRank(right)
    /\ PathMatchesPattern(left, right) \/ PathMatchesPattern(right, left)
    /\ LET sample == OverlapSample(left, right)
       IN  RewriteAliasPath(sample, left, leftCanonical)
             # RewriteAliasPath(sample, right, rightCanonical)

\* alias_patterns_are_ambiguous: neither is preferred, some path fits both, and they
\* rewrite it differently.
AliasPatternsAreAmbiguous(left, leftCanonical, right, rightCanonical) ==
    /\ AliasRank(left) = AliasRank(right)
    /\ PathOverlapsPattern(left, right)
    /\ LET sample == OverlapSample(left, right)
       IN  RewriteAliasPath(sample, left, leftCanonical)
             # RewriteAliasPath(sample, right, rightCanonical)

\* metadata_match_score, of a candidate that fits p: p and all candidates that fit it
\* are equally long.
MatchScore(candidate) ==
    <<Specificity(candidate), [i \in DOMAIN candidate |-> candidate[i] # Wild]>>

ScoreBelow(s, t) ==
    \/ s[1] < t[1]
    \/ /\ s[1] = t[1]
       /\ \E i \in DOMAIN s[2] : ~ s[2][i] /\ t[2][i] /\ \A j \in 1..(i - 1) : s[2][j] = t[2][j]
=============================================================================
