--------------------------- MODULE MetadataProofs ---------------------------
(***************************************************************************)
(* What is proved of the metadata of any configuration type, however it is *)
(* put together: the aliases load() accepts are unambiguous, and what is   *)
(* in force at a path is what the most specific declaration that fits it   *)
(* says.                                                                   *)
(***************************************************************************)
EXTENDS Metadata, SequenceTheorems, FiniteSetTheorems, WellFoundedInduction, TLAPS

-----------------------------------------------------------------------------
(***************************************************************************)
(* What metadata/paths.rs and report.rs rely on when they rewrite paths:   *)
(* aliases that are lossless and not ambiguous rewrite a path in one way,  *)
(* and no two paths to one.  The paths are over any set S of segments.     *)
(***************************************************************************)
-----------------------------------------------------------------------------
(***************************************************************************)
(* Ranks.                                                                  *)
(***************************************************************************)
LEMMA SpecificityType ==
  ASSUME NEW S, NEW a \in Seq(S)
  PROVE  Specificity(a) \in Nat
<1>1. DOMAIN a = 1..Len(a) /\ Len(a) \in Nat
  BY LenProperties
<1>2. IsFiniteSet(1..Len(a))
  BY <1>1, FS_Interval
<1>3. {i \in DOMAIN a : a[i] # Wild} \subseteq 1..Len(a)
  BY <1>1
<1> QED
  BY <1>2, <1>3, FS_Subset, FS_CardinalityType DEF Specificity

\* Of two aliases neither of which outranks the other both are as long and specific.
LEMMA EqualRank ==
  ASSUME NEW S, NEW a \in Seq(S), NEW b \in Seq(S), ~ Outranks(a, b), ~ Outranks(b, a)
  PROVE  Len(a) = Len(b) /\ AliasRank(a) = AliasRank(b)
<1>1. Len(a) \in Nat /\ Len(b) \in Nat
  BY LenProperties
<1>2. Specificity(a) \in Nat /\ Specificity(b) \in Nat
  BY SpecificityType
<1>3. Len(a) = Len(b)
  BY <1>1 DEF Outranks
<1>4. Specificity(a) = Specificity(b)
  BY <1>2, <1>3 DEF Outranks
<1> QED
  BY <1>3, <1>4 DEF AliasRank

-----------------------------------------------------------------------------
(***************************************************************************)
(* rewrite_alias_path, point by point.                                     *)
(***************************************************************************)
Rewritten(p, alias, canonical, i) ==
    IF canonical[i] = Wild /\ i <= Len(alias) /\ alias[i] = Wild THEN p[i] ELSE canonical[i]

HeadOf(p, alias, canonical) == [i \in DOMAIN canonical |-> Rewritten(p, alias, canonical, i)]

LEMMA RewriteParts ==
  ASSUME NEW p, NEW a, NEW c
  PROVE  RewriteAliasPath(p, a, c) = HeadOf(p, a, c) \o SubSeq(p, Len(a) + 1, Len(p))
BY DEF RewriteAliasPath, HeadOf, Rewritten

\* The part in front is a path as long as the canonical one.
LEMMA HeadType ==
  ASSUME NEW S, NEW p \in Seq(S), NEW a \in Seq(S), NEW c \in Seq(S), Len(a) <= Len(p)
  PROVE  /\ HeadOf(p, a, c) \in Seq(S)
         /\ Len(HeadOf(p, a, c)) = Len(c)
         /\ \A i \in 1..Len(c) : HeadOf(p, a, c)[i] = Rewritten(p, a, c, i)
<1>1. Len(c) \in Nat /\ DOMAIN c = 1..Len(c) /\ Len(p) \in Nat /\ Len(a) \in Nat
  BY LenProperties
<1>2. \A i \in 1..Len(c) : Rewritten(p, a, c, i) \in S
  BY <1>1, ElementOfSeq DEF Rewritten
<1>3. HeadOf(p, a, c) \in [1..Len(c) -> S]
  BY <1>1, <1>2 DEF HeadOf
<1>4. HeadOf(p, a, c) \in Seq(S)
  BY <1>1, <1>3, SeqDef
<1>5. Len(HeadOf(p, a, c)) = Len(c)
  BY <1>1, <1>3, <1>4, LenProperties
<1> QED
  BY <1>1, <1>4, <1>5 DEF HeadOf

LEMMA TailType ==
  ASSUME NEW S, NEW p \in Seq(S), NEW n \in Nat, n <= Len(p)
  PROVE  /\ SubSeq(p, n + 1, Len(p)) \in Seq(S)
         /\ Len(SubSeq(p, n + 1, Len(p))) = Len(p) - n
         /\ \A i \in 1..(Len(p) - n) : SubSeq(p, n + 1, Len(p))[i] = p[n + i]
<1>1. Len(p) \in Nat
  BY LenProperties
<1>2. \A i \in (n + 1)..Len(p) : p[i] \in S
  BY <1>1, ElementOfSeq
<1>3. /\ SubSeq(p, n + 1, Len(p)) \in Seq(S)
      /\ Len(SubSeq(p, n + 1, Len(p))) = IF n + 1 <= Len(p) THEN Len(p) - (n + 1) + 1 ELSE 0
      /\ \A i \in 1..(Len(p) - (n + 1) + 1) : SubSeq(p, n + 1, Len(p))[i] = p[(n + 1) + i - 1]
  BY <1>1, <1>2, SubSeqProperties
<1> QED
  BY <1>1, <1>3

-----------------------------------------------------------------------------
(***************************************************************************)
(* Two aliases that fit one path.                                          *)
(***************************************************************************)
\* They overlap, and the sample the code rewrites has a segment of one of them
\* wherever one of them has one.
LEMMA FittingOverlap ==
  ASSUME NEW S, NEW p \in Seq(S), NEW a \in Seq(S), NEW b \in Seq(S),
         PathStartsWithPattern(p, a), PathStartsWithPattern(p, b)
  PROVE  PathOverlapsPattern(a, b)
BY DEF PathStartsWithPattern, PathOverlapsPattern, Fits

\* alias_patterns_are_ambiguous compares the rewritten samples: where they agree, so
\* do the rewritten forms of every path both aliases fit.
LEMMA SampleDecides ==
  ASSUME NEW S, NEW p \in Seq(S),
         NEW a \in Seq(S), NEW ca \in Seq(S), NEW b \in Seq(S), NEW cb \in Seq(S),
         PathStartsWithPattern(p, a), PathStartsWithPattern(p, b), Len(a) = Len(b),
         AliasMappingIsLossless(a, ca), AliasMappingIsLossless(b, cb),
         RewriteAliasPath(OverlapSample(a, b), a, ca) = RewriteAliasPath(OverlapSample(a, b), b, cb)
  PROVE  RewriteAliasPath(p, a, ca) = RewriteAliasPath(p, b, cb)
<1> DEFINE s == OverlapSample(a, b)
           T == S \cup {"item"}
<1>1. /\ Len(a) \in Nat /\ DOMAIN a = 1..Len(a) /\ DOMAIN b = 1..Len(a)
      /\ Len(ca) \in Nat /\ DOMAIN ca = 1..Len(ca)
      /\ Len(cb) \in Nat /\ DOMAIN cb = 1..Len(cb)
      /\ Len(p) \in Nat /\ Len(a) <= Len(p)
  BY LenProperties DEF PathStartsWithPattern
<1>2. s \in Seq(T) /\ Len(s) = Len(a)
  <2>1. \A i \in 1..Len(a) : s[i] \in T
    BY <1>1, ElementOfSeq DEF OverlapSample
  <2>2. s \in [1..Len(a) -> T]
    BY <1>1, <2>1 DEF OverlapSample
  <2> HIDE DEF s, T
  <2>3. s \in Seq(T)
    BY <1>1, <2>2, SeqDef
  <2>4. DOMAIN s = 1..Len(s) /\ Len(s) \in Nat
    BY <2>3, LenProperties
  <2> QED
    BY <1>1, <2>2, <2>3, <2>4
<1>3. /\ a \in Seq(T) /\ b \in Seq(T) /\ ca \in Seq(T) /\ cb \in Seq(T)
  BY SeqMonotonic
<1>4. SubSeq(s, Len(a) + 1, Len(s)) = <<>> /\ SubSeq(s, Len(b) + 1, Len(s)) = <<>>
  BY <1>1, <1>2, SubSeqEmpty
<1>5. /\ HeadOf(s, a, ca) \in Seq(T) /\ Len(HeadOf(s, a, ca)) = Len(ca)
      /\ \A i \in 1..Len(ca) : HeadOf(s, a, ca)[i] = Rewritten(s, a, ca, i)
  BY <1>1, <1>2, <1>3, HeadType
<1>6. /\ HeadOf(s, b, cb) \in Seq(T) /\ Len(HeadOf(s, b, cb)) = Len(cb)
      /\ \A i \in 1..Len(cb) : HeadOf(s, b, cb)[i] = Rewritten(s, b, cb, i)
  BY <1>1, <1>2, <1>3, HeadType
<1>7. HeadOf(s, a, ca) = HeadOf(s, b, cb)
  <2>1. RewriteAliasPath(s, a, ca) = HeadOf(s, a, ca) \o <<>>
    BY <1>4, RewriteParts
  <2>2. RewriteAliasPath(s, b, cb) = HeadOf(s, b, cb) \o <<>>
    BY <1>4, RewriteParts
  <2>3. HeadOf(s, a, ca) \o <<>> = HeadOf(s, a, ca)
    BY <1>5, ConcatEmptySeq
  <2>4. HeadOf(s, b, cb) \o <<>> = HeadOf(s, b, cb)
    BY <1>6, ConcatEmptySeq
  <2> QED
    BY <2>1, <2>2, <2>3, <2>4
<1>8. Len(ca) = Len(cb)
  BY <1>5, <1>6, <1>7
<1>9. \A i \in 1..Len(ca) : Rewritten(s, a, ca, i) = Rewritten(s, b, cb, i)
  BY <1>5, <1>6, <1>7, <1>8
<1>10. \A i \in 1..Len(ca) : Rewritten(p, a, ca, i) = Rewritten(p, b, cb, i)
  <2> SUFFICES ASSUME NEW i \in 1..Len(ca)
               PROVE  Rewritten(p, a, ca, i) = Rewritten(p, b, cb, i)
    OBVIOUS
  <2>1. CASE i > Len(a)
    BY <1>1, <1>9, <2>1 DEF Rewritten
  <2>2. CASE i <= Len(a)
    <3>1. i \in 1..Len(a)
      BY <1>1, <2>2
    <3>2. (a[i] = Wild <=> ca[i] = Wild) /\ (b[i] = Wild <=> cb[i] = Wild)
      BY <1>1, <3>1 DEF AliasMappingIsLossless
    <3>3. (a[i] # Wild => p[i] = a[i]) /\ (b[i] # Wild => p[i] = b[i])
      BY <1>1, <3>1 DEF PathStartsWithPattern, Fits
    <3>4. s[i] = IF a[i] # Wild THEN a[i] ELSE IF b[i] # Wild THEN b[i] ELSE "item"
      BY <1>1, <3>1 DEF OverlapSample
    <3>5. Rewritten(s, a, ca, i) = Rewritten(s, b, cb, i)
      BY <1>9
    <3> HIDE DEF s
    <3> QED
      BY <1>1, <3>1, <3>2, <3>3, <3>4, <3>5 DEF Rewritten
  <2> QED
    BY <1>1, <2>1, <2>2
<1>11. HeadOf(p, a, ca) = HeadOf(p, b, cb)
  BY <1>1, <1>8, <1>10 DEF HeadOf
<1> QED
  BY <1>11, RewriteParts

-----------------------------------------------------------------------------
(***************************************************************************)
(* One alias that fits two paths.                                          *)
(***************************************************************************)
\* A lossless alias can be undone: the canonical path keeps what the wildcards stood
\* for and what was behind the alias, and the rest is the alias.
THEOREM LosslessRewriting ==
  ASSUME NEW S, NEW p \in Seq(S), NEW q \in Seq(S), NEW a \in Seq(S), NEW c \in Seq(S),
         PathStartsWithPattern(p, a), PathStartsWithPattern(q, a),
         AliasMappingIsLossless(a, c),
         RewriteAliasPath(p, a, c) = RewriteAliasPath(q, a, c)
  PROVE  p = q
<1> DEFINE n == Len(a)
           tp == SubSeq(p, n + 1, Len(p))
           tq == SubSeq(q, n + 1, Len(q))
<1>1. /\ n \in Nat /\ DOMAIN a = 1..n
      /\ Len(c) \in Nat /\ DOMAIN c = 1..Len(c) /\ n <= Len(c)
      /\ Len(p) \in Nat /\ n <= Len(p) /\ Len(q) \in Nat /\ n <= Len(q)
  BY LenProperties DEF PathStartsWithPattern, AliasMappingIsLossless
<1>2. /\ HeadOf(p, a, c) \in Seq(S) /\ Len(HeadOf(p, a, c)) = Len(c)
      /\ \A i \in 1..Len(c) : HeadOf(p, a, c)[i] = Rewritten(p, a, c, i)
  BY <1>1, HeadType
<1>3. /\ HeadOf(q, a, c) \in Seq(S) /\ Len(HeadOf(q, a, c)) = Len(c)
      /\ \A i \in 1..Len(c) : HeadOf(q, a, c)[i] = Rewritten(q, a, c, i)
  BY <1>1, HeadType
<1>4. /\ tp \in Seq(S) /\ Len(tp) = Len(p) - n
      /\ \A i \in 1..(Len(p) - n) : tp[i] = p[n + i]
  BY <1>1, TailType
<1>5. /\ tq \in Seq(S) /\ Len(tq) = Len(q) - n
      /\ \A i \in 1..(Len(q) - n) : tq[i] = q[n + i]
  BY <1>1, TailType
<1> HIDE DEF tp, tq
<1>6. HeadOf(p, a, c) \o tp = HeadOf(q, a, c) \o tq
  BY RewriteParts DEF tp, tq
<1>7. /\ Len(HeadOf(p, a, c) \o tp) = Len(c) + (Len(p) - n)
      /\ \A i \in 1..(Len(c) + (Len(p) - n)) :
            (HeadOf(p, a, c) \o tp)[i] =
               IF i <= Len(c) THEN Rewritten(p, a, c, i) ELSE tp[i - Len(c)]
  <2> DEFINE h == HeadOf(p, a, c)
  <2>1. /\ Len(h \o tp) = Len(h) + Len(tp)
        /\ \A i \in 1..(Len(h) + Len(tp)) :
              (h \o tp)[i] = IF i <= Len(h) THEN h[i] ELSE tp[i - Len(h)]
    BY <1>2, <1>4, ConcatProperties
  <2> HIDE DEF h
  <2>2. Len(h) = Len(c) /\ Len(tp) = Len(p) - n
    BY <1>2, <1>4 DEF h
  <2>3. \A i \in 1..Len(c) : h[i] = Rewritten(p, a, c, i)
    BY <1>2 DEF h
  <2> QED
    BY <1>1, <2>1, <2>2, <2>3 DEF h
<1>8. /\ Len(HeadOf(q, a, c) \o tq) = Len(c) + (Len(q) - n)
      /\ \A i \in 1..(Len(c) + (Len(q) - n)) :
            (HeadOf(q, a, c) \o tq)[i] =
               IF i <= Len(c) THEN Rewritten(q, a, c, i) ELSE tq[i - Len(c)]
  <2> DEFINE h == HeadOf(q, a, c)
  <2>1. /\ Len(h \o tq) = Len(h) + Len(tq)
        /\ \A i \in 1..(Len(h) + Len(tq)) :
              (h \o tq)[i] = IF i <= Len(h) THEN h[i] ELSE tq[i - Len(h)]
    BY <1>3, <1>5, ConcatProperties
  <2> HIDE DEF h
  <2>2. Len(h) = Len(c) /\ Len(tq) = Len(q) - n
    BY <1>3, <1>5 DEF h
  <2>3. \A i \in 1..Len(c) : h[i] = Rewritten(q, a, c, i)
    BY <1>3 DEF h
  <2> QED
    BY <1>1, <2>1, <2>2, <2>3 DEF h
<1>9. Len(p) = Len(q)
  BY <1>1, <1>6, <1>7, <1>8
<1>10. ASSUME NEW i \in 1..Len(p) PROVE p[i] = q[i]
  <2>1. CASE i <= n
    <3>1. i \in 1..(Len(c) + (Len(p) - n)) /\ i <= Len(c)
      BY <1>1, <2>1
    <3>4. Rewritten(p, a, c, i) = Rewritten(q, a, c, i)
      BY <1>6, <1>7, <1>8, <1>9, <3>1
    <3>2. i \in 1..n /\ (a[i] = Wild <=> c[i] = Wild)
      BY <1>1, <2>1 DEF AliasMappingIsLossless
    <3>3. a[i] # Wild => p[i] = a[i] /\ q[i] = a[i]
      BY <1>1, <3>2 DEF PathStartsWithPattern, Fits
    <3> QED
      BY <3>2, <3>3, <3>4 DEF Rewritten
  <2>2. CASE i > n
    <3> DEFINE j == i - n + Len(c)
    <3>1. j \in 1..(Len(c) + (Len(p) - n)) /\ ~ (j <= Len(c)) /\ j - Len(c) = i - n
      BY <1>1, <2>2
    <3>2. tp[i - n] = tq[i - n]
      BY <1>6, <1>7, <1>8, <1>9, <3>1
    <3>3. i - n \in 1..(Len(p) - n) /\ n + (i - n) = i
      BY <1>1, <2>2
    <3> QED
      BY <1>4, <1>5, <1>9, <3>2, <3>3
  <2> QED
    BY <1>1, <2>1, <2>2
<1> QED
  BY <1>9, <1>10, SeqEqual

-----------------------------------------------------------------------------
(***************************************************************************)
(* The order of paths.  Code(p, i) stands for the i-th segment of p, and 0 *)
(* for what is behind p: paths are ordered as the sequences of their codes.*)
(***************************************************************************)
Path == Seq(Range(Order))

Code(p, i) == IF i <= Len(p) THEN Position(p[i]) ELSE 0

DiffersFirst(p, q, k) ==
    Code(p, k) < Code(q, k) /\ \A j \in 1..(k - 1) : Code(p, j) = Code(q, j)

LEMMA Positions ==
  /\ \A s \in Range(Order) : Position(s) \in Nat \ {0} /\ Order[Position(s)] = s
  /\ \A s, t \in Range(Order) : Position(s) = Position(t) => s = t
<1>1. DOMAIN Order = 1..Len(Order) /\ Len(Order) \in Nat
  BY OrderAssumption, LenProperties
<1>2. ASSUME NEW s \in Range(Order)
      PROVE  Position(s) \in DOMAIN Order /\ Order[Position(s)] = s
  BY DEF Range, Position
<1> QED
  BY <1>1, <1>2

LEMMA CodeType ==
  ASSUME NEW p \in Path, NEW i \in Nat \ {0}
  PROVE  Code(p, i) \in Nat /\ (Code(p, i) = 0 <=> i > Len(p))
<1>1. Len(p) \in Nat
  BY LenProperties DEF Path
<1>2. i <= Len(p) => p[i] \in Range(Order)
  BY <1>1, ElementOfSeq DEF Path
<1> QED
  BY <1>1, <1>2, Positions DEF Code

LEMMA StrictPrefixPoints ==
  ASSUME NEW p \in Path, NEW q \in Path
  PROVE  IsStrictPrefix(p, q) <=> Len(p) < Len(q) /\ \A i \in 1..Len(p) : p[i] = q[i]
<1>1. Len(p) \in Nat /\ Len(q) \in Nat
  BY LenProperties DEF Path
<1>2. SubSeq(p, 1, Len(p)) = p
  BY SubSeqFull DEF Path
<1>3. ASSUME Len(p) <= Len(q)
      PROVE  /\ SubSeq(q, 1, Len(p)) \in Path /\ Len(SubSeq(q, 1, Len(p))) = Len(p)
             /\ \A i \in 1..Len(p) : SubSeq(q, 1, Len(p))[i] = q[i]
  <2>1. \A i \in 1..Len(p) : q[i] \in Range(Order)
    BY <1>1, <1>3, ElementOfSeq DEF Path
  <2>2. /\ SubSeq(q, 1, Len(p)) \in Seq(Range(Order))
        /\ Len(SubSeq(q, 1, Len(p))) = IF 1 <= Len(p) THEN Len(p) - 1 + 1 ELSE 0
        /\ \A i \in 1..(Len(p) - 1 + 1) : SubSeq(q, 1, Len(p))[i] = q[1 + i - 1]
    BY <1>1, <2>1, SubSeqProperties
  <2> QED
    BY <1>1, <2>2 DEF Path
<1>4. ASSUME IsStrictPrefix(p, q)
      PROVE  Len(p) < Len(q) /\ \A i \in 1..Len(p) : p[i] = q[i]
  <2>1. Len(p) <= Len(q) /\ p = SubSeq(q, 1, Len(p)) /\ p # q
    BY <1>2, <1>4 DEF IsStrictPrefix, IsPrefix
  <2>2. \A i \in 1..Len(p) : p[i] = q[i]
    BY <1>3, <2>1
  <2>3. Len(p) # Len(q)
    BY <2>1, <2>2, SeqEqual DEF Path
  <2> QED
    BY <1>1, <2>1, <2>2, <2>3
<1>5. ASSUME Len(p) < Len(q), \A i \in 1..Len(p) : p[i] = q[i]
      PROVE  IsStrictPrefix(p, q)
  <2>1. SubSeq(q, 1, Len(p)) = p
    BY <1>1, <1>3, <1>5, SeqEqual DEF Path
  <2> QED
    BY <1>1, <1>2, <1>5, <2>1 DEF IsStrictPrefix, IsPrefix
<1> QED
  BY <1>4, <1>5

\* The string comparison of the code is the order of the codes.
LEMMA PrecedesByCode ==
  ASSUME NEW p \in Path, NEW q \in Path
  PROVE  Precedes(p, q) <=> \E k \in Nat \ {0} : DiffersFirst(p, q, k)
<1>1. /\ Len(p) \in Nat /\ DOMAIN p = 1..Len(p) /\ Len(q) \in Nat /\ DOMAIN q = 1..Len(q)
  BY LenProperties DEF Path
<1>2. /\ \A i \in 1..Len(p) : p[i] \in Range(Order)
      /\ \A i \in 1..Len(q) : q[i] \in Range(Order)
  BY ElementOfSeq DEF Path
<1>3. ASSUME Precedes(p, q) PROVE \E k \in Nat \ {0} : DiffersFirst(p, q, k)
  <2>1. CASE IsStrictPrefix(p, q)
    <3>1. Len(p) < Len(q) /\ \A i \in 1..Len(p) : p[i] = q[i]
      BY <2>1, StrictPrefixPoints
    <3>2. Code(p, Len(p) + 1) = 0 /\ Code(q, Len(p) + 1) \in Nat \ {0}
      BY <1>1, <3>1, CodeType
    <3>3. \A j \in 1..Len(p) : Code(p, j) = Code(q, j)
      BY <1>1, <3>1 DEF Code
    <3>4. DiffersFirst(p, q, Len(p) + 1)
      BY <1>1, <3>2, <3>3 DEF DiffersFirst
    <3> QED
      BY <1>1, <3>4
  <2>2. CASE ~ IsStrictPrefix(p, q)
    <3>1. PICK i \in DOMAIN p \cap DOMAIN q :
             Position(p[i]) < Position(q[i]) /\ \A j \in 1..(i - 1) : p[j] = q[j]
      BY <1>3, <2>2 DEF Precedes
    <3>2. DiffersFirst(p, q, i)
      BY <1>1, <3>1 DEF DiffersFirst, Code
    <3> QED
      BY <1>1, <3>2
  <2> QED
    BY <2>1, <2>2
<1>4. ASSUME NEW k \in Nat \ {0}, DiffersFirst(p, q, k) PROVE Precedes(p, q)
  <2>1. Code(p, k) \in Nat /\ Code(q, k) \in Nat /\ Code(q, k) # 0
    BY <1>4, CodeType DEF DiffersFirst
  <2>2. k <= Len(q)
    BY <1>1, <2>1, CodeType
  <2>3. \A j \in 1..(k - 1) : j <= Len(p)
    <3> SUFFICES ASSUME NEW j \in 1..(k - 1) PROVE j <= Len(p)
      OBVIOUS
    <3>1. Code(p, j) = Code(q, j) /\ j \in Nat \ {0} /\ j <= Len(q)
      BY <1>1, <1>4, <2>2 DEF DiffersFirst
    <3> QED
      BY <1>1, <3>1, CodeType
  <2>4. k - 1 <= Len(p)
    BY <1>1, <2>3
  <2>5. \A j \in 1..(k - 1) : p[j] = q[j]
    <3> SUFFICES ASSUME NEW j \in 1..(k - 1) PROVE p[j] = q[j]
      OBVIOUS
    <3>1. j \in 1..Len(p) /\ j \in 1..Len(q) /\ Code(p, j) = Code(q, j)
      BY <1>1, <1>4, <2>2, <2>3 DEF DiffersFirst
    <3>2. Position(p[j]) = Position(q[j])
      BY <1>1, <3>1 DEF Code
    <3> QED
      BY <1>2, <3>1, <3>2, Positions
  <2>6. CASE k <= Len(p)
    BY <1>1, <1>4, <2>2, <2>5, <2>6 DEF Precedes, DiffersFirst, Code
  <2>7. CASE k > Len(p)
    <3>1. Len(p) = k - 1 /\ Len(p) < Len(q)
      BY <1>1, <2>2, <2>4, <2>7
    <3> QED
      BY <2>5, <3>1, StrictPrefixPoints DEF Precedes
  <2> QED
    BY <1>1, <2>6, <2>7
<1> QED
  BY <1>3, <1>4

\* Every set of numbers has a least one.
LEMMA LeastOne ==
  ASSUME NEW T \in SUBSET Nat, T # {}
  PROVE  \E m \in T : \A k \in T : m <= k
<1> DEFINE Less == {p \in Nat \X Nat : p[1] < p[2]}
<1>1. IsWellFoundedOn(Less, Nat)
  BY NatLessThanWellFounded DEF OpToRel
<1> HIDE DEF Less
<1>2. PICK m \in T : \A k \in T : ~ (<<k, m>> \in Less)
  BY <1>1, WFMin
<1>3. \A k \in T : ~ (k < m)
  BY <1>2 DEF Less
<1> QED
  BY <1>3

LEMMA PrecedesIrreflexive ==
  ASSUME NEW p \in Path PROVE ~ Precedes(p, p)
<1>1. \A k \in Nat \ {0} : Code(p, k) \in Nat
  BY CodeType
<1> QED
  BY <1>1, PrecedesByCode DEF DiffersFirst

LEMMA PrecedesTransitive ==
  ASSUME NEW p \in Path, NEW q \in Path, NEW r \in Path, Precedes(p, q), Precedes(q, r)
  PROVE  Precedes(p, r)
<1>1. PICK k \in Nat \ {0} : DiffersFirst(p, q, k)
  BY PrecedesByCode
<1>2. PICK l \in Nat \ {0} : DiffersFirst(q, r, l)
  BY PrecedesByCode
<1>3. \A i \in Nat \ {0} : Code(p, i) \in Nat /\ Code(q, i) \in Nat /\ Code(r, i) \in Nat
  BY CodeType
<1>4. CASE k < l
  <2>1. Code(q, k) = Code(r, k) /\ \A j \in 1..(k - 1) : Code(q, j) = Code(r, j)
    BY <1>2, <1>4 DEF DiffersFirst
  <2> QED
    BY <1>1, <2>1, PrecedesByCode DEF DiffersFirst
<1>5. CASE l <= k
  <2>1. Code(p, l) <= Code(q, l) /\ \A j \in 1..(l - 1) : Code(p, j) = Code(q, j)
    BY <1>1, <1>3, <1>5 DEF DiffersFirst
  <2>2. DiffersFirst(p, r, l)
    BY <1>2, <1>3, <2>1 DEF DiffersFirst
  <2> QED
    BY <2>2, PrecedesByCode
<1> QED
  BY <1>4, <1>5

LEMMA PrecedesTotal ==
  ASSUME NEW p \in Path, NEW q \in Path, p # q
  PROVE  Precedes(p, q) \/ Precedes(q, p)
<1> DEFINE D == {k \in Nat \ {0} : Code(p, k) # Code(q, k)}
<1>1. /\ Len(p) \in Nat /\ Len(q) \in Nat
      /\ \A i \in 1..Len(p) : p[i] \in Range(Order)
      /\ \A i \in 1..Len(q) : q[i] \in Range(Order)
  BY LenProperties, ElementOfSeq DEF Path
<1>2. \A k \in Nat \ {0} : Code(p, k) \in Nat /\ Code(q, k) \in Nat
  BY CodeType
<1>3. D # {}
  <2> SUFFICES ASSUME D = {} PROVE FALSE
    OBVIOUS
  <2>1. \A k \in Nat \ {0} : Code(p, k) = Code(q, k)
    OBVIOUS
  <2>2. Len(p) = Len(q)
    <3>1. Code(p, Len(p) + 1) = 0 /\ Code(q, Len(q) + 1) = 0
      BY <1>1, CodeType
    <3>2. Code(q, Len(p) + 1) = 0 /\ Code(p, Len(q) + 1) = 0
      BY <1>1, <2>1, <3>1
    <3>3. Len(p) + 1 > Len(q) /\ Len(q) + 1 > Len(p)
      BY <1>1, <3>2, CodeType
    <3> QED
      BY <1>1, <3>3
  <2>3. \A i \in 1..Len(p) : p[i] = q[i]
    <3> SUFFICES ASSUME NEW i \in 1..Len(p) PROVE p[i] = q[i]
      OBVIOUS
    <3>1. Code(p, i) = Code(q, i)
      BY <1>1, <2>1
    <3>2. Position(p[i]) = Position(q[i])
      BY <1>1, <2>2, <3>1 DEF Code
    <3> QED
      BY <1>1, <2>2, <3>2, Positions
  <2> QED
    BY <2>2, <2>3, SeqEqual DEF Path
<1>4. PICK k \in D : \A j \in D : k <= j
  BY <1>3, LeastOne
<1>5. \A j \in 1..(k - 1) : Code(p, j) = Code(q, j)
  BY <1>4
<1>6. DiffersFirst(p, q, k) \/ DiffersFirst(q, p, k)
  BY <1>2, <1>5 DEF DiffersFirst
<1> QED
  BY <1>6, PrecedesByCode

-----------------------------------------------------------------------------
(***************************************************************************)
(* Sorting a finite set S by a strict order, the relation R.               *)
(***************************************************************************)
StrictOrder(R, S) ==
    /\ \A x \in S : <<x, x>> \notin R
    /\ \A x, y, z \in S : <<x, y>> \in R /\ <<y, z>> \in R => <<x, z>> \in R
    /\ \A x, y \in S : x # y => <<x, y>> \in R \/ <<y, x>> \in R

Below(R, S, x) == {y \in S : <<y, x>> \in R}

Ranked(R, S) == [i \in 1..Cardinality(S) |-> CHOOSE x \in S : Cardinality(Below(R, S, x)) = i - 1]

LEMMA BelowCount ==
  ASSUME NEW S, IsFiniteSet(S), NEW R, StrictOrder(R, S), NEW x \in S
  PROVE  /\ Cardinality(Below(R, S, x)) \in 0..(Cardinality(S) - 1)
         /\ IsFiniteSet(Below(R, S, x))
<1>1. Below(R, S, x) \in SUBSET (S \ {x})
  BY DEF Below, StrictOrder
<1>2. IsFiniteSet(S \ {x}) /\ Cardinality(S \ {x}) = Cardinality(S) - 1
  BY FS_RemoveElement
<1>3. IsFiniteSet(Below(R, S, x)) /\ Cardinality(Below(R, S, x)) <= Cardinality(S \ {x})
  BY <1>1, <1>2, FS_Subset
<1> QED
  BY <1>2, <1>3, FS_CardinalityType

LEMMA BelowGrows ==
  ASSUME NEW S, IsFiniteSet(S), NEW R, StrictOrder(R, S),
         NEW x \in S, NEW y \in S, <<x, y>> \in R
  PROVE  Cardinality(Below(R, S, x)) < Cardinality(Below(R, S, y))
<1>1. Below(R, S, x) \in SUBSET Below(R, S, y)
  BY DEF Below, StrictOrder
<1>2. x \in Below(R, S, y) /\ x \notin Below(R, S, x)
  BY DEF Below, StrictOrder
<1>3. IsFiniteSet(Below(R, S, y)) /\ IsFiniteSet(Below(R, S, x))
  BY BelowCount
<1>4. /\ Cardinality(Below(R, S, x)) <= Cardinality(Below(R, S, y))
      /\ Cardinality(Below(R, S, y)) = Cardinality(Below(R, S, x))
            => Below(R, S, y) = Below(R, S, x)
  BY <1>1, <1>3, FS_Subset
<1>5. Cardinality(Below(R, S, x)) \in Nat /\ Cardinality(Below(R, S, y)) \in Nat
  BY <1>3, FS_CardinalityType
<1> QED
  BY <1>2, <1>4, <1>5

\* Every rank is taken, so that the members stand in the list in order, each once.
LEMMA RankedLists ==
  ASSUME NEW S, IsFiniteSet(S), NEW R, StrictOrder(R, S)
  PROVE  /\ Cardinality(S) \in Nat
         /\ Ranked(R, S) \in [1..Cardinality(S) -> S]
         /\ \A x \in S : \E i \in 1..Cardinality(S) : Ranked(R, S)[i] = x
         /\ \A i, j \in 1..Cardinality(S) : i < j <=> <<Ranked(R, S)[i], Ranked(R, S)[j]>> \in R
<1> DEFINE n == Cardinality(S)
           list == Ranked(R, S)
           rank == [x \in S |-> Cardinality(Below(R, S, x)) + 1]
<1>1. n \in Nat
  BY FS_CardinalityType
<1>2. rank \in [S -> 1..n]
  BY <1>1, BelowCount
<1>3. \A x, y \in S : <<x, y>> \in R => rank[x] < rank[y]
  BY BelowGrows, BelowCount
<1>4. ASSUME NEW x \in S, NEW y \in S, rank[x] = rank[y] PROVE x = y
  <2>1. rank[x] \in Int /\ rank[y] \in Int
    BY <1>2
  <2>2. <<x, y>> \notin R /\ <<y, x>> \notin R
    BY <1>3, <1>4, <2>1
  <2> QED
    BY <2>2 DEF StrictOrder
<1>5. \A i \in 1..n : \E x \in S : rank[x] = i
  <2>1. IsFiniteSet(1..n) /\ Cardinality(1..n) = n
    BY <1>1, FS_Interval
  <2>2. rank \in Injection(S, 1..n)
    BY <1>2, <1>4 DEF Injection, IsInjective
  <2>3. rank \in Surjection(S, 1..n)
    BY <2>1, <2>2, FS_Injection
  <2> QED
    BY <2>3 DEF Surjection
<1>6. list = [i \in 1..n |-> CHOOSE x \in S : Cardinality(Below(R, S, x)) = i - 1]
  BY DEF Ranked
<1>7. \A i \in 1..n : list[i] \in S /\ rank[list[i]] = i
  <2> SUFFICES ASSUME NEW i \in 1..n
               PROVE  list[i] \in S /\ rank[list[i]] = i
    OBVIOUS
  <2>1. list[i] = CHOOSE x \in S : Cardinality(Below(R, S, x)) = i - 1
    BY <1>6
  <2>2. \E x \in S : Cardinality(Below(R, S, x)) = i - 1
    <3>1. PICK x \in S : rank[x] = i
      BY <1>5
    <3>2. Cardinality(Below(R, S, x)) \in Nat
      BY BelowCount
    <3> QED
      BY <3>1, <3>2
  <2>3. list[i] \in S /\ Cardinality(Below(R, S, list[i])) = i - 1
    BY <2>1, <2>2
  <2> QED
    BY <2>3
<1> HIDE DEF rank, n, list
<1>8. \A x \in S : list[rank[x]] = x
  BY <1>2, <1>4, <1>7
<1>9. ASSUME NEW i \in 1..n, NEW j \in 1..n
      PROVE  i < j <=> <<list[i], list[j]>> \in R
  <2> DEFINE x == list[i]
             y == list[j]
  <2>1. x \in S /\ y \in S /\ rank[x] = i /\ rank[y] = j
    BY <1>7
  <2>2. ASSUME i < j PROVE <<x, y>> \in R
    <3>1. x # y /\ ~ (rank[y] < rank[x])
      BY <1>1, <2>1, <2>2
    <3> QED
      BY <1>3, <2>1, <3>1 DEF StrictOrder
  <2> QED
    BY <1>3, <2>1, <2>2
<1>10. list \in [1..n -> S]
  BY <1>6, <1>7
<1> QED
  BY <1>1, <1>2, <1>8, <1>9, <1>10 DEF n, list

\* A finite set has a member that nothing is above.
LEMMA GreatestOne ==
  ASSUME NEW S, IsFiniteSet(S), S # {}, NEW R, StrictOrder(R, S)
  PROVE  \E m \in S : \A x \in S : <<m, x>> \notin R
<1> DEFINE n == Cardinality(S)
<1>1. n \in Nat /\ n # 0
  BY FS_CardinalityType, FS_EmptySet
<1>2. /\ Ranked(R, S)[n] \in S
      /\ \A x \in S : \E i \in 1..n : Ranked(R, S)[i] = x
      /\ \A i, j \in 1..n : i < j <=> <<Ranked(R, S)[i], Ranked(R, S)[j]>> \in R
  BY <1>1, RankedLists
<1>3. \A x \in S : <<Ranked(R, S)[n], x>> \notin R
  BY <1>1, <1>2
<1> QED
  BY <1>2, <1>3

\* Sorted lists a finite set of paths: each once, in the order of their strings.
THEOREM SortedLists ==
  ASSUME NEW S \in SUBSET Path, IsFiniteSet(S)
  PROVE  /\ Cardinality(S) \in Nat
         /\ Sorted(S) \in [1..Cardinality(S) -> S]
         /\ \A x \in S : \E i \in 1..Cardinality(S) : Sorted(S)[i] = x
         /\ \A i, j \in 1..Cardinality(S) : i < j <=> Precedes(Sorted(S)[i], Sorted(S)[j])
<1> DEFINE R == {z \in S \X S : Precedes(z[1], z[2])}
<1>1. \A x, y \in S : <<x, y>> \in R <=> Precedes(x, y)
  OBVIOUS
<1>2. \A x \in S : Below(R, S, x) = {y \in S : Precedes(y, x)}
  BY <1>1 DEF Below
<1> HIDE DEF R
<1>3. StrictOrder(R, S)
  BY <1>1, PrecedesIrreflexive, PrecedesTransitive, PrecedesTotal DEF StrictOrder
<1>4. Sorted(S) = Ranked(R, S)
  <2>1. \A i \in 1..Cardinality(S) :
           (CHOOSE x \in S : Cardinality({y \in S : Precedes(y, x)}) = i - 1)
             = CHOOSE x \in S : Cardinality(Below(R, S, x)) = i - 1
    BY <1>2
  <2>2. Sorted(S) = [i \in 1..Cardinality(S) |->
                       CHOOSE x \in S : Cardinality({y \in S : Precedes(y, x)}) = i - 1]
    BY DEF Sorted, SortedBy
  <2> QED
    BY <2>1, <2>2 DEF Ranked
<1>5. /\ Cardinality(S) \in Nat
      /\ Ranked(R, S) \in [1..Cardinality(S) -> S]
      /\ \A x \in S : \E i \in 1..Cardinality(S) : Ranked(R, S)[i] = x
      /\ \A i, j \in 1..Cardinality(S) : i < j <=> <<Ranked(R, S)[i], Ranked(R, S)[j]>> \in R
  BY <1>3, RankedLists
<1> QED
  BY <1>1, <1>4, <1>5

-----------------------------------------------------------------------------
(***************************************************************************)
(* Tables of aliases.                                                      *)
(***************************************************************************)
AliasTable(aliases, S) ==
    DOMAIN aliases \subseteq Seq(S) /\ \A a \in DOMAIN aliases : aliases[a] \in Seq(S)

Lossless(aliases) == \A a \in DOMAIN aliases : AliasMappingIsLossless(a, aliases[a])

Unambiguous(aliases) ==
    \A a, b \in DOMAIN aliases :
        a # b => ~ AliasPatternsAreAmbiguous(a, aliases[a], b, aliases[b])

\* Of the aliases that nothing outranks every one rewrites the path alike.
THEOREM OneRewriting ==
  ASSUME NEW S, NEW aliases,
         AliasTable(aliases, S), Lossless(aliases), Unambiguous(aliases),
         NEW p \in Seq(S), NEW a \in BestAliases(p, aliases), NEW b \in BestAliases(p, aliases)
  PROVE  RewriteAliasPath(p, a, aliases[a]) = RewriteAliasPath(p, b, aliases[b])
<1>1. /\ a \in DOMAIN aliases /\ PathStartsWithPattern(p, a)
      /\ b \in DOMAIN aliases /\ PathStartsWithPattern(p, b)
      /\ ~ Outranks(a, b) /\ ~ Outranks(b, a)
  BY DEF BestAliases
<1>2. a \in Seq(S) /\ b \in Seq(S) /\ aliases[a] \in Seq(S) /\ aliases[b] \in Seq(S)
  BY <1>1 DEF AliasTable
<1>3. Len(a) = Len(b) /\ AliasRank(a) = AliasRank(b)
  BY <1>1, <1>2, EqualRank
<1>4. PathOverlapsPattern(a, b)
  BY <1>1, <1>2, FittingOverlap
<1>5. CASE a = b
  BY <1>5
<1>6. CASE a # b
  <2>1. RewriteAliasPath(OverlapSample(a, b), a, aliases[a])
          = RewriteAliasPath(OverlapSample(a, b), b, aliases[b])
    BY <1>1, <1>3, <1>4, <1>6 DEF Unambiguous, AliasPatternsAreAmbiguous
  <2>2. AliasMappingIsLossless(a, aliases[a]) /\ AliasMappingIsLossless(b, aliases[b])
    BY <1>1 DEF Lossless
  <2> QED
    BY <1>1, <1>2, <1>3, <2>1, <2>2, SampleDecides
<1> QED
  BY <1>5, <1>6

LEMMA RewriteType ==
  ASSUME NEW S, NEW p \in Seq(S), NEW a \in Seq(S), NEW c \in Seq(S), PathStartsWithPattern(p, a)
  PROVE  RewriteAliasPath(p, a, c) \in Seq(S)
<1>1. Len(a) \in Nat /\ Len(a) <= Len(p)
  BY LenProperties DEF PathStartsWithPattern
<1>2. HeadOf(p, a, c) \in Seq(S) /\ SubSeq(p, Len(a) + 1, Len(p)) \in Seq(S)
  BY <1>1, HeadType, TailType
<1> QED
  BY <1>2, RewriteParts, ConcatProperties

\* Only finitely many patterns fit a path: each is told by its length and its wildcards.
LEMMA FewFit ==
  ASSUME NEW S, NEW p \in Seq(S), NEW fitting \in SUBSET Seq(S),
         \A a \in fitting : PathStartsWithPattern(p, a)
  PROVE  IsFiniteSet(fitting)
<1> DEFINE T == (0..Len(p)) \X SUBSET (1..Len(p))
           f == [a \in fitting |-> <<Len(a), {i \in 1..Len(a) : a[i] = Wild}>>]
<1>1. Len(p) \in Nat
  BY LenProperties
<1>2. IsFiniteSet(T)
  <2>1. IsFiniteSet(0..Len(p)) /\ IsFiniteSet(1..Len(p))
    BY <1>1, FS_Interval
  <2>2. IsFiniteSet(SUBSET (1..Len(p)))
    BY <2>1, FS_SUBSET
  <2> QED
    BY <2>1, <2>2, FS_Product
<1>3. \A a \in fitting : /\ a \in Seq(S) /\ Len(a) \in 0..Len(p) /\ DOMAIN a = 1..Len(a)
                         /\ \A i \in 1..Len(a) : a[i] = Wild \/ a[i] = p[i]
  <2> SUFFICES ASSUME NEW a \in fitting
               PROVE  /\ a \in Seq(S) /\ Len(a) \in 0..Len(p) /\ DOMAIN a = 1..Len(a)
                      /\ \A i \in 1..Len(a) : a[i] = Wild \/ a[i] = p[i]
    OBVIOUS
  <2>1. a \in Seq(S) /\ PathStartsWithPattern(p, a)
    OBVIOUS
  <2>2. Len(a) \in Nat /\ DOMAIN a = 1..Len(a)
    BY <2>1, LenProperties
  <2> QED
    BY <1>1, <2>1, <2>2 DEF PathStartsWithPattern, Fits
<1>4. \A a \in fitting : f[a] \in T
  <2> SUFFICES ASSUME NEW a \in fitting PROVE f[a] \in T
    OBVIOUS
  <2>1. {i \in 1..Len(a) : a[i] = Wild} \in SUBSET (1..Len(p))
    BY <1>1, <1>3
  <2> QED
    BY <1>3, <2>1
<1>5. ASSUME NEW a \in fitting, NEW b \in fitting, f[a] = f[b] PROVE a = b
  <2>1. Len(a) = Len(b) /\ {i \in 1..Len(a) : a[i] = Wild} = {i \in 1..Len(b) : b[i] = Wild}
    BY <1>5
  <2>2. \A i \in 1..Len(a) : a[i] = b[i]
    <3> SUFFICES ASSUME NEW i \in 1..Len(a) PROVE a[i] = b[i]
      OBVIOUS
    <3>1. a[i] = Wild <=> b[i] = Wild
      BY <2>1
    <3> QED
      BY <1>3, <2>1, <3>1
  <2> QED
    BY <1>3, <2>1, <2>2, SeqEqual
<1>6. f \in Injection(fitting, T)
  BY <1>4, <1>5 DEF Injection, IsInjective
<1> HIDE DEF f, T
<1> QED
  BY <1>2, <1>6, FS_Injection

\* canonicalize_path_with_aliases takes one of the aliases that nothing outranks.
LEMMA TakesABestAlias ==
  ASSUME NEW aliases, AliasTable(aliases, Range(Order)),
         NEW p \in Path, p # <<>>, BestAliases(p, aliases) # {}
  PROVE  \E a \in BestAliases(p, aliases) :
            WithAliases(p, aliases) = RewriteAliasPath(p, a, aliases[a])
<1> DEFINE best == BestAliases(p, aliases)
<1>1. best \in SUBSET DOMAIN aliases
  BY DEF BestAliases
<1>2. best \in SUBSET Path /\ IsFiniteSet(best)
  <2>1. best \in SUBSET Path
    BY <1>1 DEF AliasTable, Path
  <2>2. \A a \in best : PathStartsWithPattern(p, a)
    BY DEF BestAliases
  <2> QED
    BY <2>1, <2>2, FewFit DEF Path
<1>3. /\ Cardinality(best) \in Nat
      /\ Sorted(best) \in [1..Cardinality(best) -> best]
  BY <1>2, SortedLists
<1>4. Cardinality(best) # 0
  BY <1>2, FS_EmptySet
<1>5. Sorted(best)[1] \in best
  BY <1>3, <1>4
<1> QED
  BY <1>5 DEF WithAliases

LEMMA WithAliasesType ==
  ASSUME NEW aliases, AliasTable(aliases, Range(Order)),
         NEW p \in Path
  PROVE  WithAliases(p, aliases) \in Path
<1>1. CASE p = <<>> \/ BestAliases(p, aliases) = {}
  BY <1>1 DEF WithAliases
<1>2. CASE p # <<>> /\ BestAliases(p, aliases) # {}
  <2>1. PICK a \in BestAliases(p, aliases) :
           WithAliases(p, aliases) = RewriteAliasPath(p, a, aliases[a])
    BY <1>2, TakesABestAlias
  <2>2. a \in DOMAIN aliases /\ PathStartsWithPattern(p, a)
    BY DEF BestAliases
  <2> QED
    BY <2>1, <2>2, RewriteType DEF AliasTable, Path
<1> QED
  BY <1>1, <1>2

\* So with aliases that are accepted the result does not depend on which one is taken:
\* the order of the map the code keeps them in says nothing.
THEOREM AnyBestAlias ==
  ASSUME NEW aliases, AliasTable(aliases, Range(Order)),
         Lossless(aliases), Unambiguous(aliases),
         NEW p \in Path, p # <<>>, NEW a \in BestAliases(p, aliases)
  PROVE  WithAliases(p, aliases) = RewriteAliasPath(p, a, aliases[a])
<1>1. PICK b \in BestAliases(p, aliases) :
         WithAliases(p, aliases) = RewriteAliasPath(p, b, aliases[b])
  BY TakesABestAlias
<1> QED
  BY <1>1, OneRewriting DEF Path

\* An alias leads where it is declared to lead, whatever else it begins with.
LEMMA ExactAlias ==
  ASSUME NEW aliases, AliasTable(aliases, Range(Order)),
         Lossless(aliases), Unambiguous(aliases),
         NEW a \in DOMAIN aliases, a # <<>>
  PROVE  WithAliases(a, aliases) = aliases[a]
<1> DEFINE c == aliases[a]
<1>1. a \in Path /\ c \in Path /\ \A b \in DOMAIN aliases : b \in Path
  BY DEF AliasTable, Path
<1>2. PathStartsWithPattern(a, a)
  BY <1>1, LenProperties DEF PathStartsWithPattern, Fits, Path
<1>3. ASSUME NEW b \in DOMAIN aliases, PathStartsWithPattern(a, b) PROVE ~ Outranks(b, a)
  <2>1. /\ Len(a) \in Nat /\ Len(b) \in Nat /\ Len(b) <= Len(a)
        /\ DOMAIN a = 1..Len(a) /\ DOMAIN b = 1..Len(b)
        /\ \A i \in DOMAIN b : Fits(a[i], b[i])
    BY <1>1, <1>3, LenProperties DEF Path, PathStartsWithPattern
  <2> DEFINE A == {i \in DOMAIN a : a[i] # Wild}
             B == {i \in DOMAIN b : b[i] # Wild}
  <2>2. B \in SUBSET A
    <3>1. DOMAIN b \subseteq DOMAIN a
      BY <2>1
    <3> QED
      BY <2>1, <3>1 DEF Fits
  <2>3. IsFiniteSet(A)
    <3>1. IsFiniteSet(DOMAIN a)
      BY <2>1, FS_Interval
    <3> QED
      BY <3>1, FS_Subset
  <2>4. Specificity(b) <= Specificity(a)
    BY <2>2, <2>3, FS_Subset DEF Specificity
  <2>5. Specificity(a) \in Nat /\ Specificity(b) \in Nat
    BY <1>1, SpecificityType DEF Path
  <2> QED
    <3>1. Len(a) \in Nat /\ Len(b) \in Nat /\ Len(b) <= Len(a)
      BY <2>1
    <3> QED
      BY <2>4, <2>5, <3>1 DEF Outranks
<1>4. a \in BestAliases(a, aliases)
  BY <1>2, <1>3 DEF BestAliases
<1>5. WithAliases(a, aliases) = RewriteAliasPath(a, a, c)
  BY <1>1, <1>4, AnyBestAlias
<1>6. HeadOf(a, a, c) = c
  <2>1. DOMAIN c = 1..Len(c) /\ c = [i \in DOMAIN c |-> c[i]]
    BY <1>1, LenProperties DEF Path
  <2>2. \A i \in DOMAIN c : HeadOf(a, a, c)[i] = c[i]
    BY DEF HeadOf, Rewritten
  <2>3. HeadOf(a, a, c) = [i \in DOMAIN c |-> HeadOf(a, a, c)[i]]
    BY DEF HeadOf
  <2> QED
    BY <2>1, <2>2, <2>3
<1>7. SubSeq(a, Len(a) + 1, Len(a)) = <<>>
  BY <1>1, LenProperties DEF Path
<1> QED
  BY <1>1, <1>5, <1>6, <1>7, RewriteParts, ConcatEmptySeq DEF Path

-----------------------------------------------------------------------------
(***************************************************************************)
(* Match scores.  The vector of a score is read as bits, a 1 for a segment *)
(* that is no wildcard.                                                    *)
(***************************************************************************)
Scores(n) == Nat \X [1..n -> BOOLEAN]

Bit(s, i) == IF s[2][i] THEN 1 ELSE 0

FirstLower(s, t, i) == Bit(s, i) < Bit(t, i) /\ \A j \in 1..(i - 1) : Bit(s, j) = Bit(t, j)

LEMMA ScoreType ==
  ASSUME NEW S, NEW c \in Seq(S)
  PROVE  MatchScore(c) \in Scores(Len(c))
<1>1. DOMAIN c = 1..Len(c)
  BY LenProperties
<1>2. Specificity(c) \in Nat
  BY SpecificityType
<1>3. [i \in DOMAIN c |-> c[i] # Wild] \in [1..Len(c) -> BOOLEAN]
  BY <1>1
<1> QED
  BY <1>2, <1>3 DEF MatchScore, Scores

LEMMA SameBits ==
  ASSUME NEW n \in Nat, NEW s \in Scores(n), NEW t \in Scores(n), NEW i \in 1..n
  PROVE  /\ Bit(s, i) \in {0, 1}
         /\ Bit(s, i) = Bit(t, i) <=> s[2][i] = t[2][i]
         /\ Bit(s, i) < Bit(t, i) <=> ~ s[2][i] /\ t[2][i]
<1>1. s[2][i] \in BOOLEAN /\ t[2][i] \in BOOLEAN
  BY DEF Scores
<1>2. (s[2][i] <=> Bit(s, i) = 1) /\ (~ s[2][i] <=> Bit(s, i) = 0)
  BY DEF Bit
<1>3. (t[2][i] <=> Bit(t, i) = 1) /\ (~ t[2][i] <=> Bit(t, i) = 0)
  BY DEF Bit
<1>4. s[2][i] = t[2][i] <=> (s[2][i] <=> t[2][i])
  BY <1>1, Zenon
<1> QED
  BY <1>2, <1>3, <1>4

LEMMA BelowByBits ==
  ASSUME NEW n \in Nat, NEW s \in Scores(n), NEW t \in Scores(n)
  PROVE  ScoreBelow(s, t) <=>
            \/ s[1] < t[1]
            \/ s[1] = t[1] /\ \E i \in 1..n : FirstLower(s, t, i)
<1>1. DOMAIN s[2] = 1..n
  BY DEF Scores
<1>2. ASSUME NEW i \in 1..n
      PROVE  FirstLower(s, t, i) <=>
                ~ s[2][i] /\ t[2][i] /\ \A j \in 1..(i - 1) : s[2][j] = t[2][j]
  <2>1. \A j \in 1..(i - 1) : j \in 1..n
    OBVIOUS
  <2>2. \A j \in 1..(i - 1) : Bit(s, j) = Bit(t, j) <=> s[2][j] = t[2][j]
    BY <2>1, SameBits
  <2>3. Bit(s, i) < Bit(t, i) <=> ~ s[2][i] /\ t[2][i]
    BY SameBits
  <2> QED
    BY <2>2, <2>3 DEF FirstLower
<1> QED
  BY <1>1, <1>2 DEF ScoreBelow

LEMMA ScoreIrreflexive ==
  ASSUME NEW n \in Nat, NEW s \in Scores(n) PROVE ~ ScoreBelow(s, s)
<1>1. s[1] \in Nat /\ \A i \in 1..n : Bit(s, i) \in {0, 1}
  BY SameBits DEF Scores
<1> QED
  BY <1>1, BelowByBits DEF FirstLower

LEMMA ScoreTransitive ==
  ASSUME NEW n \in Nat, NEW s \in Scores(n), NEW t \in Scores(n), NEW u \in Scores(n),
         ScoreBelow(s, t), ScoreBelow(t, u)
  PROVE  ScoreBelow(s, u)
<1>1. s[1] \in Nat /\ t[1] \in Nat /\ u[1] \in Nat
  BY DEF Scores
<1>2. CASE s[1] # t[1] \/ t[1] # u[1]
  <2>1. s[1] <= t[1] /\ t[1] <= u[1]
    BY <1>1, BelowByBits
  <2> QED
    BY <1>1, <1>2, <2>1, BelowByBits
<1>3. CASE s[1] = t[1] /\ t[1] = u[1]
  <2>1. PICK i \in 1..n : FirstLower(s, t, i)
    BY <1>1, <1>3, BelowByBits
  <2>2. PICK k \in 1..n : FirstLower(t, u, k)
    BY <1>1, <1>3, BelowByBits
  <2>3. \A j \in 1..n : Bit(s, j) \in Int /\ Bit(t, j) \in Int /\ Bit(u, j) \in Int
    BY DEF Bit
  <2>4. CASE i < k
    <3>1. Bit(t, i) = Bit(u, i) /\ \A j \in 1..(i - 1) : Bit(t, j) = Bit(u, j)
      BY <2>2, <2>4 DEF FirstLower
    <3>2. FirstLower(s, u, i)
      BY <2>1, <3>1 DEF FirstLower
    <3> QED
      BY <1>3, <3>2, BelowByBits
  <2>5. CASE k <= i
    <3>1. Bit(s, k) <= Bit(t, k) /\ \A j \in 1..(k - 1) : Bit(s, j) = Bit(t, j)
      BY <2>1, <2>3, <2>5 DEF FirstLower
    <3>2. FirstLower(s, u, k)
      BY <2>2, <2>3, <3>1 DEF FirstLower
    <3> QED
      BY <1>3, <3>2, BelowByBits
  <2> QED
    BY <2>4, <2>5
<1> QED
  BY <1>2, <1>3

LEMMA ScoreTotal ==
  ASSUME NEW n \in Nat, NEW s \in Scores(n), NEW t \in Scores(n), s # t
  PROVE  ScoreBelow(s, t) \/ ScoreBelow(t, s)
<1>1. s[1] \in Nat /\ t[1] \in Nat
  BY DEF Scores
<1>2. CASE s[1] # t[1]
  BY <1>1, <1>2, BelowByBits
<1>3. CASE s[1] = t[1]
  <2> DEFINE D == {i \in 1..n : Bit(s, i) # Bit(t, i)}
  <2>1. D # {}
    <3> SUFFICES ASSUME D = {} PROVE FALSE
      OBVIOUS
    <3>1. \A i \in 1..n : s[2][i] = t[2][i]
      BY SameBits
    <3>2. s[2] \in [1..n -> BOOLEAN] /\ t[2] \in [1..n -> BOOLEAN]
      BY DEF Scores
    <3>3. s[2] = t[2]
      BY <3>1, <3>2
    <3>4. s = <<s[1], s[2]>> /\ t = <<t[1], t[2]>>
      BY DEF Scores
    <3> QED
      BY <1>3, <3>3, <3>4
  <2>2. D \in SUBSET Nat
    OBVIOUS
  <2> HIDE DEF D
  <2>3. PICK i \in D : \A j \in D : i <= j
    BY <2>1, <2>2, LeastOne
  <2>4. i \in 1..n /\ Bit(s, i) # Bit(t, i) /\ \A j \in 1..(i - 1) : Bit(s, j) = Bit(t, j)
    BY <2>3 DEF D
  <2>5. Bit(s, i) \in Int /\ Bit(t, i) \in Int
    BY DEF Bit
  <2>6. FirstLower(s, t, i) \/ FirstLower(t, s, i)
    BY <2>4, <2>5 DEF FirstLower
  <2> QED
    BY <1>3, <2>4, <2>6, BelowByBits
<1> QED
  BY <1>2, <1>3
-----------------------------------------------------------------------------
(***************************************************************************)
(* Paths and patterns put under a prefix keep their relations.             *)
(***************************************************************************)
LEMMA UnderPoints ==
  ASSUME NEW p \in Path, NEW q \in Path
  PROVE  /\ p \o q \in Path /\ Len(p) \in Nat /\ Len(q) \in Nat
         /\ DOMAIN p = 1..Len(p) /\ DOMAIN q = 1..Len(q) /\ DOMAIN (p \o q) = 1..(Len(p) + Len(q))
         /\ Len(p \o q) = Len(p) + Len(q)
         /\ \A i \in 1..Len(p) : (p \o q)[i] = p[i]
         /\ \A i \in 1..Len(q) : (p \o q)[Len(p) + i] = q[i]
<1>1. /\ Len(p) \in Nat /\ Len(q) \in Nat
      /\ DOMAIN p = 1..Len(p) /\ DOMAIN q = 1..Len(q)
  BY LenProperties DEF Path
<1>2. /\ p \o q \in Path /\ Len(p \o q) = Len(p) + Len(q)
      /\ \A i \in 1..(Len(p) + Len(q)) : (p \o q)[i] = IF i <= Len(p) THEN p[i] ELSE q[i - Len(p)]
  BY ConcatProperties DEF Path
<1>3. DOMAIN (p \o q) = 1..(Len(p) + Len(q))
  BY <1>2, LenProperties DEF Path
<1>4. ASSUME NEW i \in 1..Len(p) PROVE (p \o q)[i] = p[i]
  BY <1>1, <1>2
<1>5. ASSUME NEW i \in 1..Len(q) PROVE (p \o q)[Len(p) + i] = q[i]
  <2>1. /\ Len(p) + i \in 1..(Len(p) + Len(q)) /\ ~ (Len(p) + i <= Len(p))
        /\ (Len(p) + i) - Len(p) = i
    BY <1>1
  <2> QED
    BY <1>2, <2>1
<1> QED
  BY <1>1, <1>2, <1>3, <1>4, <1>5

LEMMA Under ==
  ASSUME NEW p \in Path, NEW q \in Path, NEW r \in Path
  PROVE  /\ p \o q = p \o r <=> q = r
         /\ PathMatchesPattern(p \o q, p \o r) <=> PathMatchesPattern(q, r)
         /\ PathStartsWithPattern(p \o q, p \o r) <=> PathStartsWithPattern(q, r)
<1> DEFINE n == Len(p)
<1>1. /\ n \in Nat /\ Len(q) \in Nat /\ Len(r) \in Nat
      /\ DOMAIN q = 1..Len(q) /\ DOMAIN r = 1..Len(r)
      /\ DOMAIN (p \o q) = 1..(n + Len(q)) /\ DOMAIN (p \o r) = 1..(n + Len(r))
      /\ Len(p \o q) = n + Len(q) /\ Len(p \o r) = n + Len(r)
  BY UnderPoints
<1>2. /\ \A i \in 1..n : (p \o q)[i] = (p \o r)[i]
      /\ \A i \in 1..Len(q) : (p \o q)[n + i] = q[i]
      /\ \A i \in 1..Len(r) : (p \o r)[n + i] = r[i]
  <2>1. /\ \A i \in 1..n : (p \o q)[i] = p[i]
        /\ \A i \in 1..Len(q) : (p \o q)[n + i] = q[i]
    BY UnderPoints
  <2>2. /\ \A i \in 1..n : (p \o r)[i] = p[i]
        /\ \A i \in 1..Len(r) : (p \o r)[n + i] = r[i]
    BY UnderPoints
  <2> QED
    BY <2>1, <2>2
<1>0. n \in Nat /\ Len(q) \in Nat /\ Len(r) \in Nat
  BY <1>1
<1> HIDE DEF n
<1>3. ASSUME p \o q = p \o r PROVE q = r
  <2>1. n + Len(q) = n + Len(r)
    BY <1>1, <1>3
  <2>2. Len(q) = Len(r)
    BY <1>0, <2>1
  <2>3. \A i \in 1..Len(q) : q[i] = r[i]
    BY <1>2, <1>3, <2>2
  <2> QED
    BY <2>2, <2>3, SeqEqual DEF Path
<1>4. ASSUME NEW k \in Nat
      PROVE  \A j \in 1..(n + k) : j \in 1..n \/ \E i \in 1..k : j = n + i
  <2> SUFFICES ASSUME NEW j \in 1..(n + k), j \notin 1..n PROVE \E i \in 1..k : j = n + i
    OBVIOUS
  <2>1. j - n \in 1..k /\ j = n + (j - n)
    BY <1>1
  <2> QED
    BY <2>1
<1>5. \A k \in Nat : \A i \in 1..k : n + i \in 1..(n + k)
  BY <1>1
<1>6. n + Len(q) = n + Len(r) <=> Len(q) = Len(r)
  BY <1>0
<1>7. n + Len(q) >= n + Len(r) <=> Len(q) >= Len(r)
  BY <1>0
<1>8. Len(q) >= Len(r) => \A i \in 1..Len(r) : i \in 1..Len(q)
  BY <1>1
<1>9. ASSUME Len(q) >= Len(r)
      PROVE  (\A j \in 1..(n + Len(r)) : Fits((p \o q)[j], (p \o r)[j]))
                <=> \A i \in 1..Len(r) : Fits(q[i], r[i])
  <2>1. ASSUME \A j \in 1..(n + Len(r)) : Fits((p \o q)[j], (p \o r)[j]), NEW i \in 1..Len(r)
        PROVE  Fits(q[i], r[i])
    BY <1>1, <1>2, <1>5, <1>8, <1>9, <2>1
  <2>2. ASSUME \A i \in 1..Len(r) : Fits(q[i], r[i]), NEW j \in 1..(n + Len(r))
        PROVE  Fits((p \o q)[j], (p \o r)[j])
    <3>1. CASE j \in 1..n
      BY <1>2, <3>1 DEF Fits
    <3>2. CASE \E i \in 1..Len(r) : j = n + i
      <4>1. PICK i \in 1..Len(r) : j = n + i
        BY <3>2
      <4> QED
        BY <1>2, <1>8, <1>9, <2>2, <4>1
    <3> QED
      BY <1>1, <1>4, <3>1, <3>2
  <2> QED
    BY <2>1, <2>2
<1>10. PathStartsWithPattern(p \o q, p \o r) <=> PathStartsWithPattern(q, r)
  BY <1>1, <1>7, <1>9 DEF PathStartsWithPattern
<1>11. PathMatchesPattern(p \o q, p \o r) <=> PathMatchesPattern(q, r)
  <2>1. Len(q) = Len(r) => Len(q) >= Len(r) /\ n + Len(q) = n + Len(r)
    BY <1>1
  <2> QED
    BY <1>1, <1>6, <1>9, <2>1 DEF PathMatchesPattern
<1> QED
  BY <1>3, <1>10, <1>11

LEMMA UnderSpecificity ==
  ASSUME NEW p \in Path, NEW c \in Path
  PROVE  Specificity(p \o c) = Specificity(p) + Specificity(c)
<1> DEFINE n == Len(p)
           A == {i \in DOMAIN p : p[i] # Wild}
           C == {i \in DOMAIN c : c[i] # Wild}
           B == {n + i : i \in C}
           f == [i \in C |-> n + i]
<1>1. /\ n \in Nat /\ Len(c) \in Nat
      /\ DOMAIN p = 1..n /\ DOMAIN c = 1..Len(c) /\ DOMAIN (p \o c) = 1..(n + Len(c))
      /\ \A i \in 1..n : (p \o c)[i] = p[i]
      /\ \A i \in 1..Len(c) : (p \o c)[n + i] = c[i]
  BY UnderPoints
<1> HIDE DEF n
<1>2. IsFiniteSet(A) /\ IsFiniteSet(C)
  <2>1. IsFiniteSet(1..n) /\ IsFiniteSet(1..Len(c))
    BY <1>1, FS_Interval
  <2> QED
    BY <1>1, <2>1, FS_Subset
<1>3. IsFiniteSet(B) /\ Cardinality(B) = Cardinality(C)
  <2>1. f \in Bijection(C, B)
    <3>1. f \in Surjection(C, B)
      BY DEF Surjection
    <3>2. \A i, j \in C : f[i] = f[j] => i = j
      BY <1>1
    <3>3. f \in Injection(C, B)
      BY <3>1, <3>2 DEF Injection, IsInjective, Surjection
    <3> QED
      BY <3>1, <3>3 DEF Bijection
  <2>2. ExistsBijection(C, B)
    BY <2>1 DEF ExistsBijection
  <2> QED
    BY <1>2, <2>2, FS_Bijection
<1>4. A \cap B = {}
  BY <1>1
<1>5. {j \in DOMAIN (p \o c) : (p \o c)[j] # Wild} = A \cup B
  <2>1. ASSUME NEW j \in 1..(n + Len(c)), (p \o c)[j] # Wild PROVE j \in A \cup B
    <3>1. CASE j \in 1..n
      BY <1>1, <2>1, <3>1
    <3>2. CASE j \notin 1..n
      <4>1. j - n \in 1..Len(c) /\ j = n + (j - n)
        BY <1>1, <3>2
      <4>2. c[j - n] # Wild
        BY <1>1, <2>1, <4>1
      <4>3. j - n \in C
        BY <1>1, <4>1, <4>2
      <4> QED
        BY <4>1, <4>3
    <3> QED
      BY <3>1, <3>2
  <2>2. ASSUME NEW j \in A \cup B PROVE j \in 1..(n + Len(c)) /\ (p \o c)[j] # Wild
    <3>1. CASE j \in A
      BY <1>1, <3>1
    <3>2. CASE j \in B
      <4>1. PICK i \in C : j = n + i
        BY <3>2
      <4>2. i \in 1..Len(c) /\ c[i] # Wild
        BY <1>1
      <4> QED
        BY <1>1, <4>1, <4>2
    <3> QED
      BY <2>2, <3>1, <3>2
  <2> HIDE DEF A, B
  <2> QED
    BY <1>1, <2>1, <2>2
<1>6. Cardinality(A \cup B) = Cardinality(A) + Cardinality(B)
  <2>1. Cardinality(A \cup B) = Cardinality(A) + Cardinality(B) - Cardinality(A \cap B)
    BY <1>2, <1>3, FS_Union
  <2>2. Cardinality(A \cap B) = 0
    BY <1>4, FS_EmptySet
  <2>3. Cardinality(A) \in Nat /\ Cardinality(B) \in Nat
    BY <1>2, <1>3, FS_CardinalityType
  <2> QED
    BY <2>1, <2>2, <2>3
<1> QED
  BY <1>3, <1>5, <1>6 DEF Specificity

LEMMA UnderOutranks ==
  ASSUME NEW p \in Path, NEW a \in Path, NEW b \in Path
  PROVE  Outranks(p \o a, p \o b) <=> Outranks(a, b)
<1>1. /\ Len(p) \in Nat /\ Len(a) \in Nat /\ Len(b) \in Nat
      /\ Len(p \o a) = Len(p) + Len(a) /\ Len(p \o b) = Len(p) + Len(b)
  BY UnderPoints
<1>2. /\ Specificity(p) \in Nat /\ Specificity(a) \in Nat /\ Specificity(b) \in Nat
      /\ Specificity(p \o a) = Specificity(p) + Specificity(a)
      /\ Specificity(p \o b) = Specificity(p) + Specificity(b)
  BY SpecificityType, UnderSpecificity DEF Path
<1> QED
  BY <1>1, <1>2 DEF Outranks

LEMMA UnderScore ==
  ASSUME NEW p \in Path, NEW c \in Path, NEW d \in Path, Len(c) = Len(d)
  PROVE  /\ ScoreBelow(MatchScore(p \o c), MatchScore(p \o d))
               <=> ScoreBelow(MatchScore(c), MatchScore(d))
         /\ MatchScore(p \o c) = MatchScore(p \o d) <=> MatchScore(c) = MatchScore(d)
<1>1. ASSUME NEW x \in Path, NEW y \in Path, Len(x) = Len(y)
      PROVE  ScoreBelow(MatchScore(p \o x), MatchScore(p \o y))
                <=> ScoreBelow(MatchScore(x), MatchScore(y))
  <2> DEFINE n == Len(p)
             m == Len(x)
             s == MatchScore(x)
             t == MatchScore(y)
             u == MatchScore(p \o x)
             v == MatchScore(p \o y)
  <2>1. /\ n \in Nat /\ m \in Nat /\ DOMAIN x = 1..m /\ DOMAIN y = 1..m
        /\ DOMAIN (p \o x) = 1..(n + m) /\ DOMAIN (p \o y) = 1..(n + m)
    <3>1. /\ n \in Nat /\ m \in Nat /\ DOMAIN x = 1..m /\ DOMAIN (p \o x) = 1..(n + m)
      BY UnderPoints
    <3>2. DOMAIN y = 1..Len(y) /\ DOMAIN (p \o y) = 1..(n + Len(y))
      BY UnderPoints
    <3> QED
      BY <1>1, <3>1, <3>2
  <2>2. /\ \A i \in 1..n : (p \o x)[i] = p[i] /\ (p \o y)[i] = p[i]
        /\ \A i \in 1..m : (p \o x)[n + i] = x[i] /\ (p \o y)[n + i] = y[i]
    <3>1. /\ \A i \in 1..n : (p \o x)[i] = p[i]
          /\ \A i \in 1..m : (p \o x)[n + i] = x[i]
      BY UnderPoints
    <3>2. /\ \A i \in 1..n : (p \o y)[i] = p[i]
          /\ \A i \in 1..Len(y) : (p \o y)[n + i] = y[i]
      BY UnderPoints
    <3> QED
      BY <1>1, <3>1, <3>2
  <2>3. /\ s[1] \in Nat /\ t[1] \in Nat /\ Specificity(p) \in Nat
        /\ u[1] = Specificity(p) + s[1] /\ v[1] = Specificity(p) + t[1]
    BY SpecificityType, UnderSpecificity DEF MatchScore, Path
  <2>4. /\ DOMAIN s[2] = 1..m /\ DOMAIN u[2] = 1..(n + m)
        /\ \A i \in 1..m : s[2][i] = (x[i] # Wild) /\ t[2][i] = (y[i] # Wild)
        /\ \A i \in 1..(n + m) : u[2][i] = ((p \o x)[i] # Wild) /\ v[2][i] = ((p \o y)[i] # Wild)
    BY <2>1 DEF MatchScore
  <2> HIDE DEF n, m, s, t, u, v
  <2>5. \A i \in 1..n : u[2][i] = v[2][i]
    <3>1. \A i \in 1..n : i \in 1..(n + m)
      BY <2>1
    <3> QED
      BY <2>2, <2>4, <3>1
  <2>6. \A i \in 1..m : u[2][n + i] = s[2][i] /\ v[2][n + i] = t[2][i]
    <3>1. \A i \in 1..m : n + i \in 1..(n + m)
      BY <2>1
    <3> QED
      BY <2>2, <2>4, <3>1
  <2> DEFINE Low(i) == ~ s[2][i] /\ t[2][i] /\ \A j \in 1..(i - 1) : s[2][j] = t[2][j]
             LowUnder(i) == ~ u[2][i] /\ v[2][i] /\ \A j \in 1..(i - 1) : u[2][j] = v[2][j]
  <2>7. ASSUME NEW i \in 1..m, Low(i) PROVE LowUnder(n + i)
    <3>1. \A j \in 1..((n + i) - 1) : j \in 1..n \/ (j - n \in 1..(i - 1) /\ j = n + (j - n))
      BY <2>1
    <3>2. \A j \in 1..(i - 1) : j \in 1..m
      BY <2>1
    <3>3. ASSUME NEW j \in 1..((n + i) - 1) PROVE u[2][j] = v[2][j]
      <4>1. CASE j \in 1..n
        BY <2>5, <4>1
      <4>2. CASE j - n \in 1..(i - 1) /\ j = n + (j - n)
        <5>1. s[2][j - n] = t[2][j - n]
          BY <2>7, <4>2
        <5> QED
          BY <2>6, <3>2, <4>2, <5>1
      <4> QED
        BY <3>1, <4>1, <4>2
    <3>4. ~ u[2][n + i] /\ v[2][n + i]
      BY <2>6, <2>7, Zenon
    <3> QED
      BY <3>3, <3>4
  <2>8. ASSUME NEW k \in 1..(n + m), LowUnder(k) PROVE \E i \in 1..m : Low(i)
    <3>1. k \notin 1..n
      BY <2>5, <2>8
    <3>2. k - n \in 1..m /\ k = n + (k - n)
      BY <2>1, <3>1
    <3>3. \A j \in 1..((k - n) - 1) : j \in 1..m /\ n + j \in 1..(k - 1)
      BY <2>1, <3>2
    <3>4. Low(k - n)
      BY <2>6, <2>8, <3>2, <3>3
    <3> QED
      BY <3>2, <3>4
  <2>9. (\E i \in 1..m : Low(i)) <=> \E k \in 1..(n + m) : LowUnder(k)
    <3>1. \A i \in 1..m : n + i \in 1..(n + m)
      BY <2>1
    <3> HIDE DEF Low, LowUnder
    <3> QED
      BY <2>7, <2>8, <3>1
  <2>10. ScoreBelow(s, t) <=> s[1] < t[1] \/ (s[1] = t[1] /\ \E i \in 1..m : Low(i))
    BY <2>4 DEF ScoreBelow
  <2>11. ScoreBelow(u, v) <=> u[1] < v[1] \/ (u[1] = v[1] /\ \E k \in 1..(n + m) : LowUnder(k))
    BY <2>4 DEF ScoreBelow
  <2> HIDE DEF Low, LowUnder
  <2>12. (u[1] < v[1] <=> s[1] < t[1]) /\ (u[1] = v[1] <=> s[1] = t[1])
    BY <2>3
  <2> QED
    BY <2>9, <2>10, <2>11, <2>12 DEF s, t, u, v
<1>2. /\ MatchScore(c) \in Scores(Len(c)) /\ MatchScore(d) \in Scores(Len(c)) /\ Len(c) \in Nat
      /\ MatchScore(p \o c) \in Scores(Len(p \o c)) /\ MatchScore(p \o d) \in Scores(Len(p \o c))
      /\ Len(p \o c) \in Nat
  <2>1. /\ p \o c \in Path /\ Len(p) \in Nat /\ Len(c) \in Nat
        /\ Len(p \o c) = Len(p) + Len(c)
    BY UnderPoints
  <2>2. p \o d \in Path /\ Len(p \o d) = Len(p) + Len(d)
    BY UnderPoints
  <2>3. Len(p \o c) = Len(p \o d) /\ Len(p \o c) \in Nat
    BY <2>1, <2>2
  <2> QED
    BY <2>1, <2>2, <2>3, ScoreType DEF Path
<1>3. MatchScore(c) = MatchScore(d)
        <=> ~ ScoreBelow(MatchScore(c), MatchScore(d)) /\ ~ ScoreBelow(MatchScore(d), MatchScore(c))
  BY <1>2, ScoreTotal, ScoreIrreflexive
<1>4. MatchScore(p \o c) = MatchScore(p \o d)
        <=> /\ ~ ScoreBelow(MatchScore(p \o c), MatchScore(p \o d))
            /\ ~ ScoreBelow(MatchScore(p \o d), MatchScore(p \o c))
  BY <1>2, ScoreTotal, ScoreIrreflexive
<1> QED
  BY <1>1, <1>3, <1>4

LEMMA UnderPrecedes ==
  ASSUME NEW p \in Path, NEW q \in Path, NEW r \in Path
  PROVE  Precedes(p \o q, p \o r) <=> Precedes(q, r)
<1> DEFINE n == Len(p)
<1>1. /\ n \in Nat /\ p \o q \in Path /\ p \o r \in Path /\ Len(q) \in Nat /\ Len(r) \in Nat
      /\ Len(p \o q) = n + Len(q) /\ Len(p \o r) = n + Len(r)
  BY UnderPoints
<1>2. /\ \A i \in 1..n : (p \o q)[i] = p[i] /\ (p \o r)[i] = p[i]
      /\ \A i \in 1..Len(q) : (p \o q)[n + i] = q[i]
      /\ \A i \in 1..Len(r) : (p \o r)[n + i] = r[i]
  BY UnderPoints
<1> HIDE DEF n
<1>3. \A i \in 1..n : Code(p \o q, i) = Code(p \o r, i)
  BY <1>1, <1>2 DEF Code
<1>4. ASSUME NEW i \in Nat \ {0}
      PROVE  Code(p \o q, n + i) = Code(q, i) /\ Code(p \o r, n + i) = Code(r, i)
  <2>1. (n + i <= n + Len(q) <=> i <= Len(q)) /\ (n + i <= n + Len(r) <=> i <= Len(r))
    BY <1>1
  <2>2. (i <= Len(q) => i \in 1..Len(q)) /\ (i <= Len(r) => i \in 1..Len(r))
    BY <1>1
  <2> QED
    BY <1>1, <1>2, <2>1, <2>2 DEF Code
<1>5. \A i \in Nat \ {0} : n + i \in Nat \ {0}
  BY <1>1
<1>6. \A i \in 1..n : i \in Nat \ {0} /\ Code(p \o q, i) \in Nat /\ ~ Code(p \o q, i) < Code(p \o q, i)
  BY SMTT(30), <1>1, CodeType
<1>7. ASSUME NEW k \in Nat \ {0}, DiffersFirst(q, r, k) PROVE DiffersFirst(p \o q, p \o r, n + k)
  <2>1. ASSUME NEW j \in 1..((n + k) - 1) PROVE Code(p \o q, j) = Code(p \o r, j)
    <3>1. CASE j \in 1..n
      BY <1>3, <3>1
    <3>2. CASE j \notin 1..n
      <4>1. j - n \in Nat \ {0} /\ j - n \in 1..(k - 1) /\ j = n + (j - n)
        BY <1>1, <3>2
      <4>2. Code(q, j - n) = Code(r, j - n)
        BY <1>7, <4>1 DEF DiffersFirst
      <4> QED
        BY <1>4, <4>1, <4>2
    <3> QED
      BY <3>1, <3>2
  <2>2. Code(p \o q, n + k) < Code(p \o r, n + k)
    BY <1>4, <1>7 DEF DiffersFirst
  <2> QED
    BY <2>1, <2>2 DEF DiffersFirst
<1>8. ASSUME NEW k \in Nat \ {0}, DiffersFirst(p \o q, p \o r, k)
      PROVE  \E i \in Nat \ {0} : DiffersFirst(q, r, i)
  <2>1. k \notin 1..n
    BY <1>3, <1>6, <1>8 DEF DiffersFirst
  <2>2. k - n \in Nat \ {0} /\ k = n + (k - n)
    BY <1>1, <2>1
  <2>3. \A j \in 1..((k - n) - 1) : j \in Nat \ {0} /\ n + j \in 1..(k - 1)
    BY <1>1, <2>2
  <2>4. Code(q, k - n) < Code(r, k - n)
    BY <1>4, <1>8, <2>2 DEF DiffersFirst
  <2>5. \A j \in 1..((k - n) - 1) : Code(q, j) = Code(r, j)
    BY <1>4, <1>8, <2>3 DEF DiffersFirst
  <2>6. DiffersFirst(q, r, k - n)
    BY <2>4, <2>5 DEF DiffersFirst
  <2> QED
    BY <2>2, <2>6
<1>9. (\E k \in Nat \ {0} : DiffersFirst(p \o q, p \o r, k)) <=> \E k \in Nat \ {0} : DiffersFirst(q, r, k)
  BY <1>5, <1>7, <1>8
<1> QED
  BY <1>1, <1>9, PrecedesByCode

LEMMA UnderRewrite ==
  ASSUME NEW p \in Path, NEW q \in Path, NEW a \in Path, NEW c \in Path,
         PathStartsWithPattern(q, a), AliasMappingIsLossless(p \o a, p \o c)
  PROVE  RewriteAliasPath(p \o q, p \o a, p \o c) = p \o RewriteAliasPath(q, a, c)
<1> DEFINE n == Len(p)
           l == p \o HeadOf(q, a, c)
           tail == SubSeq(q, Len(a) + 1, Len(q))
<1>1. /\ n \in Nat /\ Len(q) \in Nat /\ Len(a) \in Nat /\ Len(c) \in Nat
      /\ p \o q \in Path /\ p \o a \in Path /\ p \o c \in Path
      /\ Len(p \o q) = n + Len(q) /\ Len(p \o a) = n + Len(a) /\ Len(p \o c) = n + Len(c)
      /\ DOMAIN (p \o c) = 1..(n + Len(c)) /\ DOMAIN (p \o a) = 1..(n + Len(a))
  BY UnderPoints
<1>2. /\ \A i \in 1..n : (p \o q)[i] = p[i] /\ (p \o a)[i] = p[i] /\ (p \o c)[i] = p[i]
      /\ \A i \in 1..Len(q) : (p \o q)[n + i] = q[i]
      /\ \A i \in 1..Len(a) : (p \o a)[n + i] = a[i]
      /\ \A i \in 1..Len(c) : (p \o c)[n + i] = c[i]
  BY ZenonT(30), UnderPoints
<1>3. Len(a) <= Len(q)
  BY <1>1 DEF PathStartsWithPattern
<1>4. /\ HeadOf(q, a, c) \in Path /\ Len(HeadOf(q, a, c)) = Len(c)
      /\ \A i \in 1..Len(c) : HeadOf(q, a, c)[i] = Rewritten(q, a, c, i)
  BY <1>3, HeadType DEF Path
<1>5. /\ HeadOf(p \o q, p \o a, p \o c) \in Path /\ Len(HeadOf(p \o q, p \o a, p \o c)) = n + Len(c)
      /\ \A i \in 1..(n + Len(c)) :
            HeadOf(p \o q, p \o a, p \o c)[i] = Rewritten(p \o q, p \o a, p \o c, i)
  <2> DEFINE pq == p \o q
             pa == p \o a
             pc == p \o c
  <2>1. pq \in Path /\ pa \in Path /\ pc \in Path /\ Len(pa) <= Len(pq) /\ Len(pc) = n + Len(c)
    BY <1>1, <1>3
  <2> HIDE DEF pq, pa, pc
  <2>2. /\ HeadOf(pq, pa, pc) \in Path /\ Len(HeadOf(pq, pa, pc)) = Len(pc)
        /\ \A i \in 1..Len(pc) : HeadOf(pq, pa, pc)[i] = Rewritten(pq, pa, pc, i)
    BY <2>1, HeadType DEF Path
  <2> QED
    BY <2>1, <2>2 DEF pq, pa, pc
<1>6. /\ l \in Path /\ Len(l) = n + Len(c)
      /\ \A i \in 1..n : l[i] = p[i]
      /\ \A i \in 1..Len(c) : l[n + i] = Rewritten(q, a, c, i)
  <2> HIDE DEF n
  <2>1. /\ l \in Path /\ Len(l) = Len(p) + Len(HeadOf(q, a, c))
        /\ \A i \in 1..Len(p) : l[i] = p[i]
        /\ \A i \in 1..Len(HeadOf(q, a, c)) : l[Len(p) + i] = HeadOf(q, a, c)[i]
    BY <1>4, UnderPoints
  <2> QED
    BY <1>4, <2>1 DEF n
<1> HIDE DEF n, l
<1>7. ASSUME NEW i \in 1..(n + Len(c))
      PROVE  Rewritten(p \o q, p \o a, p \o c, i) = l[i]
  <2>1. CASE i \in 1..n
    BY <1>2, <1>6, <2>1 DEF Rewritten
  <2>2. CASE i \notin 1..n
    <3>1. i - n \in 1..Len(c) /\ i = n + (i - n)
      BY <1>1, <2>2
    <3> DEFINE k == i - n
    <3>2. (n + k <= n + Len(a) <=> k <= Len(a)) /\ (k <= Len(a) => k \in 1..Len(a) /\ k \in 1..Len(q))
      BY <1>1, <1>3, <3>1
    <3>3. l[n + k] = Rewritten(q, a, c, k) /\ (p \o c)[n + k] = c[k]
      BY <1>2, <1>6, <3>1
    <3> HIDE DEF k
    <3>4. Rewritten(p \o q, p \o a, p \o c, n + k) = Rewritten(q, a, c, k)
      BY <1>1, <1>2, <3>2, <3>3 DEF Rewritten
    <3>5. i = n + k
      BY <3>1 DEF k
    <3> QED
      BY <3>3, <3>4, <3>5
  <2> QED
    BY <2>1, <2>2
<1>8. HeadOf(p \o q, p \o a, p \o c) = l
  <2>1. \A i \in 1..(n + Len(c)) : HeadOf(p \o q, p \o a, p \o c)[i] = l[i]
    BY <1>5, <1>7
  <2> QED
    BY <1>5, <1>6, <2>1, SeqEqual DEF Path
<1>9. SubSeq(p \o q, Len(p \o a) + 1, Len(p \o q)) = tail
  <2>1. /\ tail \in Path /\ Len(tail) = Len(q) - Len(a)
        /\ \A i \in 1..(Len(q) - Len(a)) : tail[i] = q[Len(a) + i]
    BY <1>1, <1>3, TailType DEF Path
  <2> DEFINE x == SubSeq(p \o q, (n + Len(a)) + 1, Len(p \o q))
  <2>2. n + Len(a) \in Nat /\ n + Len(a) <= Len(p \o q) /\ Len(p \o q) - (n + Len(a)) = Len(q) - Len(a)
    BY <1>1, <1>3
  <2>3. /\ x \in Path /\ Len(x) = Len(p \o q) - (n + Len(a))
        /\ \A i \in 1..(Len(p \o q) - (n + Len(a))) : x[i] = (p \o q)[(n + Len(a)) + i]
    BY <1>1, <2>2, TailType DEF Path
  <2>4. ASSUME NEW i \in 1..(Len(q) - Len(a)) PROVE x[i] = tail[i]
    <3>1. (n + Len(a)) + i = n + (Len(a) + i) /\ Len(a) + i \in 1..Len(q)
      BY <1>1, <1>3
    <3> QED
      BY <1>2, <2>1, <2>2, <2>3, <3>1
  <2> HIDE DEF x, tail
  <2>5. x = tail
    BY <2>1, <2>2, <2>3, <2>4, SeqEqual DEF Path
  <2> QED
    BY <1>1, <2>5 DEF x
<1>10. tail \in Path
  BY <1>1, <1>3, TailType DEF Path
<1> HIDE DEF tail
<1>11. l \o tail = p \o (HeadOf(q, a, c) \o tail)
  <2> DEFINE h == HeadOf(q, a, c)
  <2>1. p \in Seq(Range(Order)) /\ h \in Seq(Range(Order)) /\ tail \in Seq(Range(Order))
    BY <1>4, <1>10 DEF Path
  <2> HIDE DEF h
  <2>2. (p \o h) \o tail = p \o (h \o tail)
    BY <2>1, ConcatAssociative
  <2> QED
    BY <2>2 DEF l, h
<1> QED
  BY <1>8, <1>9, <1>11, RewriteParts DEF tail

-----------------------------------------------------------------------------
MetadataSpec == Init /\ [][MetadataNext]_mvars

-----------------------------------------------------------------------------
(***************************************************************************)
(* The loops of normalize and of effective_field_for.  FoldLeft is the     *)
(* value, at the whole domain of the list, of a function of the sets of    *)
(* indices it is defined by; that there is such a function is shown for    *)
(* longer and longer lists.                                                *)
(***************************************************************************)
\* One turn: of normalize, which adds a field, or of effective_field_for, which
\* merges what the table has for a path.
Turn(loop, fields, acc, x) ==
    IF loop = "normalize" THEN Added(acc, x) ELSE MergeFrom(acc, fields[x])

IsFold(loop, fields, g, base, s, k) ==
    g = [t \in SUBSET (1..k) |->
           IF t = {} THEN base ELSE Turn(loop, fields, g[t \ {Max(t)}], s[Max(t)])]

LEMMA MaxOfSet ==
  ASSUME NEW k \in Nat, NEW t \in SUBSET (1..k), k \in t
  PROVE  Max(t) = k
<1>1. k \in t /\ \A y \in t : k >= y
  OBVIOUS
<1>2. \A x \in t : (\A y \in t : x >= y) => x = k
  BY <1>1
<1>3. Max(t) \in t /\ \A y \in t : Max(t) >= y
  BY <1>1 DEF Max
<1> QED
  BY <1>2, <1>3

LEMMA FoldExists ==
  ASSUME NEW loop, NEW fields, NEW base, NEW s, NEW k \in Nat
  PROVE  \E g : IsFold(loop, fields, g, base, s, k)
<1> DEFINE Bad == {n \in Nat : ~ \E g : IsFold(loop, fields, g, base, s, n)}
<1>1. ASSUME NEW n \in Nat, NEW g, IsFold(loop, fields, g, base, s, n)
      PROVE  \E h : IsFold(loop, fields, h, base, s, n + 1)
  <2> DEFINE h == [t \in SUBSET (1..(n + 1)) |->
                     IF n + 1 \in t THEN Turn(loop, fields, g[t \ {n + 1}], s[n + 1]) ELSE g[t]]
             W(t) == IF t = {} THEN base ELSE Turn(loop, fields, h[t \ {Max(t)}], s[Max(t)])
  <2>1. ASSUME NEW t \in SUBSET (1..(n + 1)) PROVE h[t] = W(t)
    <3>1. CASE n + 1 \in t
      <4>1. Max(t) = n + 1
        BY <3>1, MaxOfSet
      <4>2. t \ {n + 1} \in SUBSET (1..(n + 1)) /\ n + 1 \notin t \ {n + 1}
        OBVIOUS
      <4>3. h[t \ {n + 1}] = g[t \ {n + 1}]
        BY <4>2
      <4> QED
        BY <3>1, <4>1, <4>3
    <3>2. CASE n + 1 \notin t
      <4>1. t \in SUBSET (1..n)
        BY <3>2
      <4>2. h[t] = g[t]
        BY <3>2
      <4>3. g[t] = IF t = {} THEN base ELSE Turn(loop, fields, g[t \ {Max(t)}], s[Max(t)])
        BY <1>1, <4>1 DEF IsFold
      <4>4. t \ {Max(t)} \in SUBSET (1..(n + 1)) /\ n + 1 \notin t \ {Max(t)}
        BY <3>2
      <4>5. h[t \ {Max(t)}] = g[t \ {Max(t)}]
        BY <4>4
      <4> QED
        BY <4>2, <4>3, <4>5
    <3> QED
      BY <3>1, <3>2
  <2>2. h = [t \in SUBSET (1..(n + 1)) |-> W(t)]
    BY <2>1
  <2> QED
    BY <2>2 DEF IsFold
<1>2. \E g : IsFold(loop, fields, g, base, s, 0)
  <2> DEFINE g == [t \in SUBSET (1..0) |-> base]
  <2>1. \A t \in SUBSET (1..0) : t = {}
    OBVIOUS
  <2>2. IsFold(loop, fields, g, base, s, 0)
    BY <2>1 DEF IsFold
  <2> QED
    BY <2>2
<1>3. Bad = {}
  <2> SUFFICES ASSUME Bad # {} PROVE FALSE
    OBVIOUS
  <2>1. PICK m \in Bad : \A n \in Bad : m <= n
    BY LeastOne
  <2>2. m # 0 /\ m \in Nat
    BY <1>2
  <2>3. m - 1 \in Nat /\ m - 1 \notin Bad
    BY <2>1, <2>2
  <2>4. \E g : IsFold(loop, fields, g, base, s, m - 1)
    BY <2>3
  <2>5. \E h : IsFold(loop, fields, h, base, s, (m - 1) + 1)
    BY <1>1, <2>3, <2>4
  <2> QED
    BY <2>2, <2>5
<1> QED
  BY <1>3

AllAdded(base, s) == FoldLeft(Added, base, s)

\* The loop unrolled: there are the tables after each turn of the loop.
LEMMA FoldTurns ==
  ASSUME NEW base, NEW s, NEW n \in Nat, DOMAIN s = 1..n
  PROVE  \E g : /\ g[{}] = base
                /\ \A k \in 1..n : g[1..k] = Added(g[1..(k - 1)], s[k])
                /\ AllAdded(base, s) = g[1..n]
<1> DEFINE F(g) == [t \in SUBSET (1..n) |->
                      IF t = {} THEN base ELSE Added(g[t \ {Max(t)}], s[Max(t)])]
           iter == CHOOSE g : g = F(g)
<1>1. \E g : g = F(g)
  <2>1. PICK g : IsFold("normalize", <<>>, g, base, s, n)
    BY FoldExists
  <2>2. g = F(g)
    BY <2>1 DEF IsFold, Turn
  <2> QED
    BY <2>2
<1>2. iter = F(iter)
  BY <1>1
<1>3. AllAdded(base, s) = iter[1..n]
  BY DEF AllAdded, FoldLeft, MapThenFoldSet
<1> HIDE DEF iter
<1>4. iter[{}] = base
  BY <1>2
<1>5. ASSUME NEW k \in 1..n PROVE iter[1..k] = Added(iter[1..(k - 1)], s[k])
  <2>1. 1..k \in SUBSET (1..n) /\ k \in Nat /\ k \in 1..k
    BY SMT
  <2>2. Max(1..k) = k
    BY <2>1, MaxOfSet
  <2>3. (1..k) \ {k} = 1..(k - 1)
    OBVIOUS
  <2>4. 1..k # {}
    BY <2>1
  <2> QED
    BY <1>2, <2>1, <2>2, <2>3, <2>4
<1> QED
  BY <1>3, <1>4, <1>5

\* The fields of the list s merged one after the other; effective_field_for begins
\* with a field that says nothing.
NoField == [aliases |-> {}, says |-> <<>>]
AllMerged(fields, s) == FoldLeft(LAMBDA acc, q : MergeFrom(acc, fields[q]), NoField, s)

\* And so that loop unrolled.
LEMMA MergeTurns ==
  ASSUME NEW fields, NEW s, NEW n \in Nat, DOMAIN s = 1..n
  PROVE  \E g : /\ g[{}] = NoField
                /\ \A k \in 1..n : g[1..k] = MergeFrom(g[1..(k - 1)], fields[s[k]])
                /\ AllMerged(fields, s) = g[1..n]
<1> DEFINE F(g) == [t \in SUBSET (1..n) |->
                      IF t = {} THEN NoField ELSE MergeFrom(g[t \ {Max(t)}], fields[s[Max(t)]])]
           iter == CHOOSE g : g = F(g)
<1>1. \E g : g = F(g)
  <2>1. PICK g : IsFold("effective", fields, g, NoField, s, n)
    BY FoldExists
  <2>2. g = F(g)
    BY <2>1 DEF IsFold, Turn
  <2> QED
    BY <2>2
<1>2. iter = F(iter)
  BY <1>1
<1>3. AllMerged(fields, s) = iter[1..n]
  BY DEF AllMerged, FoldLeft, MapThenFoldSet
<1> HIDE DEF iter
<1>4. iter[{}] = NoField
  BY <1>2
<1>5. ASSUME NEW k \in 1..n PROVE iter[1..k] = MergeFrom(iter[1..(k - 1)], fields[s[k]])
  <2>1. 1..k \in SUBSET (1..n) /\ k \in Nat /\ k \in 1..k
    BY SMT
  <2>2. Max(1..k) = k
    BY <2>1, MaxOfSet
  <2>3. (1..k) \ {k} = 1..(k - 1)
    OBVIOUS
  <2>4. 1..k # {}
    BY <2>1
  <2> QED
    BY <1>2, <2>1, <2>2, <2>3, <2>4
<1> QED
  BY <1>3, <1>4, <1>5

-----------------------------------------------------------------------------
(***************************************************************************)
(* Tables of fields.                                                       *)
(***************************************************************************)
IsField(f) == f.path \in Path /\ f.aliases \subseteq Path

IsTable(fields) ==
    /\ DOMAIN fields \subseteq Path /\ IsFiniteSet(DOMAIN fields)
    /\ \A q \in DOMAIN fields : fields[q].aliases \subseteq Path

LEMMA EmptyTable == IsTable(<<>>)
BY FS_EmptySet DEF IsTable

LEMMA AddedTable ==
  ASSUME NEW fields, IsTable(fields), NEW f, IsField(f)
  PROVE  IsTable(Added(fields, f))
<1> DEFINE new == Added(fields, f)
           own == [aliases |-> f.aliases \ {f.path}, says |-> f.says]
<1>1. DOMAIN new = {f.path} \cup DOMAIN fields
  BY DEF Added
<1>2. \A q \in DOMAIN fields \ {f.path} : new[q] = fields[q]
  BY DEF Added
<1>3. new[f.path] = IF f.path \in DOMAIN fields THEN MergeFrom(fields[f.path], own) ELSE own
  BY DEF Added
<1>4. new[f.path].aliases \subseteq Path
  BY <1>3 DEF MergeFrom, IsField, IsTable
<1>5. IsFiniteSet(DOMAIN fields \cup {f.path})
  BY FS_AddElement DEF IsTable
<1> HIDE DEF new
<1>6. IsFiniteSet(DOMAIN new) /\ DOMAIN new \subseteq Path
  <2>1. DOMAIN new = DOMAIN fields \cup {f.path}
    BY <1>1
  <2> QED
    BY <1>5, <2>1 DEF IsField, IsTable
<1>7. \A q \in DOMAIN new : new[q].aliases \subseteq Path
  BY <1>1, <1>2, <1>4 DEF IsTable
<1> QED
  BY <1>6, <1>7 DEF IsTable, new

LEMMA FoldTable ==
  ASSUME NEW base, IsTable(base), NEW s, NEW n \in Nat, DOMAIN s = 1..n,
         \A i \in 1..n : IsField(s[i])
  PROVE  IsTable(AllAdded(base, s))
<1>1. PICK g : /\ g[{}] = base
               /\ \A k \in 1..n : g[1..k] = Added(g[1..(k - 1)], s[k])
               /\ AllAdded(base, s) = g[1..n]
  BY FoldTurns
<1> DEFINE Bad == {k \in 0..n : ~ IsTable(g[1..k])}
<1>2. Bad = {}
  <2> SUFFICES ASSUME Bad # {} PROVE FALSE
    OBVIOUS
  <2>1. PICK m \in Bad : \A k \in Bad : m <= k
    <3>1. Bad \in SUBSET Nat
      OBVIOUS
    <3> HIDE DEF Bad
    <3> QED
      BY <3>1, LeastOne
  <2>2. 1..0 = {}
    OBVIOUS
  <2>3. m # 0
    BY <1>1, <2>2
  <2>4. m \in 1..n /\ m - 1 \in 0..n /\ m - 1 \notin Bad
    BY <2>1, <2>3
  <2>5. IsTable(Added(g[1..(m - 1)], s[m]))
    BY <2>4, AddedTable
  <2> QED
    BY <1>1, <2>4, <2>5
<1> QED
  BY <1>1, <1>2

\* fields() lists the table.
LEMMA FieldsOfTable ==
  ASSUME NEW fields, IsTable(fields)
  PROVE  /\ Cardinality(DOMAIN fields) \in Nat
         /\ DOMAIN FieldsOf(fields) = 1..Cardinality(DOMAIN fields)
         /\ \A i \in DOMAIN FieldsOf(fields) :
               /\ FieldsOf(fields)[i].path \in DOMAIN fields
               /\ FieldsOf(fields)[i].aliases = fields[FieldsOf(fields)[i].path].aliases
<1>1. /\ Cardinality(DOMAIN fields) \in Nat
      /\ Sorted(DOMAIN fields) \in [1..Cardinality(DOMAIN fields) -> DOMAIN fields]
  BY SortedLists DEF IsTable
<1> QED
  BY <1>1 DEF FieldsOf

LEMMA FieldsOfFields ==
  ASSUME NEW fields, IsTable(fields)
  PROVE  \A i \in DOMAIN FieldsOf(fields) : IsField(FieldsOf(fields)[i])
BY FieldsOfTable DEF IsTable, IsField

LEMMA PrefixedTable ==
  ASSUME NEW prefix \in Path, NEW prefixAliases \in SUBSET Path, NEW m, IsTable(m.fields)
  PROVE  IsTable(Prefixed(prefix, prefixAliases, m).fields)
<1>1. CASE prefix = <<>>
  BY <1>1 DEF Prefixed
<1>2. CASE prefix # <<>>
  <2> DEFINE fields == FieldsOf(m.fields)
             Moved(f) == [f EXCEPT !.path = prefix \o @,
                                   !.aliases = PrefixedAliases(prefix, prefixAliases, f)]
             s == [i \in DOMAIN fields |-> Moved(fields[i])]
             n == Cardinality(DOMAIN m.fields)
  <2>1. n \in Nat /\ DOMAIN s = 1..n
    BY FieldsOfTable
  <2>2. ASSUME NEW i \in 1..n PROVE IsField(s[i])
    <3>1. IsField(fields[i])
      BY <2>1, FieldsOfFields
    <3>2. \A p, q \in Path : p \o q \in Path
      BY ConcatProperties DEF Path
    <3>3. PrefixedAliases(prefix, prefixAliases, fields[i]) \subseteq Path
      <4> DEFINE f == fields[i]
      <4>1. f.path \in Path /\ f.aliases \subseteq Path
        BY <3>1 DEF IsField
      <4> HIDE DEF f
      <4>2. {prefix \o a : a \in f.aliases} \subseteq Path
        BY <3>2, <4>1
      <4>3. {a \o r : a \in prefixAliases, r \in {f.path} \cup f.aliases} \subseteq Path
        <5>1. \A r \in {f.path} \cup f.aliases : r \in Path
          BY <4>1
        <5>2. \A a \in prefixAliases : a \in Path
          OBVIOUS
        <5>3. \A a \in prefixAliases : \A r \in {f.path} \cup f.aliases : a \o r \in Path
          BY <3>2, <5>1, <5>2
        <5> SUFFICES ASSUME NEW x \in {a \o r : a \in prefixAliases, r \in {f.path} \cup f.aliases}
                     PROVE  x \in Path
          OBVIOUS
        <5>4. PICK a \in prefixAliases, r \in {f.path} \cup f.aliases : x = a \o r
          OBVIOUS
        <5> QED
          BY <5>3, <5>4
      <4> QED
        BY <4>2, <4>3 DEF PrefixedAliases, f
    <3>4. fields[i] = [path |-> fields[i].path, aliases |-> fields[i].aliases, says |-> fields[i].says]
      BY <2>1 DEF FieldsOf
    <3>5. s[i].path = prefix \o fields[i].path
          /\ s[i].aliases = PrefixedAliases(prefix, prefixAliases, fields[i])
      BY <2>1, <3>4
    <3> QED
      BY <3>1, <3>2, <3>3, <3>5 DEF IsField
  <2>3. Prefixed(prefix, prefixAliases, m).fields = AllAdded(<<>>, s)
    BY <1>2 DEF Prefixed, Normalized, AllAdded
  <2> HIDE DEF s
  <2> QED
    BY <2>1, <2>2, <2>3, EmptyTable, FoldTable
<1> QED
  BY <1>1, <1>2

-----------------------------------------------------------------------------
(***************************************************************************)
(* The aliases of a table.                                                 *)
(***************************************************************************)
LEMMA OverridesMap ==
  ASSUME NEW fields, NEW a \in DOMAIN AliasOverrides(fields)
  PROVE  /\ AliasOverrides(fields)[a] \in DOMAIN fields
         /\ a \in fields[AliasOverrides(fields)[a]].aliases
         /\ <<a, AliasOverrides(fields)[a]>> \in Mappings(fields)
<1>1. DOMAIN AliasOverrides(fields) = {m[1] : m \in Mappings(fields)}
  BY DEF AliasOverrides
<1>2. PICK m \in Mappings(fields) : a = m[1]
  BY <1>1
<1>3. m[2] \in DOMAIN fields /\ <<a, m[2]>> \in Mappings(fields)
  BY <1>2 DEF Mappings
<1>4. AliasOverrides(fields)[a] =
        CHOOSE q \in DOMAIN fields : <<a, q>> \in Mappings(fields)
  BY <1>1 DEF AliasOverrides
<1>5. /\ AliasOverrides(fields)[a] \in DOMAIN fields
      /\ <<a, AliasOverrides(fields)[a]>> \in Mappings(fields)
  BY <1>3, <1>4
<1> QED
  BY <1>5 DEF Mappings

LEMMA OverridesTable ==
  ASSUME NEW fields, IsTable(fields)
  PROVE  AliasTable(AliasOverrides(fields), Range(Order))
<1>1. ASSUME NEW a \in DOMAIN AliasOverrides(fields)
      PROVE  a \in Path /\ AliasOverrides(fields)[a] \in Path
  <2>1. /\ AliasOverrides(fields)[a] \in DOMAIN fields
        /\ a \in fields[AliasOverrides(fields)[a]].aliases
    BY OverridesMap
  <2> QED
    BY <2>1 DEF IsTable
<1> QED
  BY <1>1 DEF AliasTable, Path

LEMMA AcceptedOverrides ==
  ASSUME NEW fields, AliasesAccepted(fields)
  PROVE  Lossless(AliasOverrides(fields)) /\ Unambiguous(AliasOverrides(fields))
<1> DEFINE aliases == AliasOverrides(fields)
<1>1. \A a \in DOMAIN aliases : <<a, aliases[a]>> \in Mappings(fields)
  BY OverridesMap
<1> HIDE DEF aliases
<1>2. ASSUME NEW a \in DOMAIN aliases
      PROVE  AliasMappingIsLossless(a, aliases[a])
  BY <1>1 DEF AliasesAccepted
<1>3. ASSUME NEW a \in DOMAIN aliases, NEW b \in DOMAIN aliases, a # b
      PROVE  ~ AliasPatternsAreAmbiguous(a, aliases[a], b, aliases[b])
  <2> DEFINE m == <<a, aliases[a]>>
             n == <<b, aliases[b]>>
  <2>1. m \in Mappings(fields) /\ n \in Mappings(fields) \ {m}
    BY <1>1, <1>3
  <2>2. ~ AliasPatternsAreAmbiguous(m[1], m[2], n[1], n[2])
    BY <2>1 DEF AliasesAccepted
  <2> QED
    BY <2>2
<1> QED
  BY <1>2, <1>3 DEF Lossless, Unambiguous, aliases

\* What the state invariant says of one table.
LEMMA AcceptedAliases ==
  ASSUME IsTable(metadata.fields)
  PROVE  AliasesAreUnambiguous
<1> SUFFICES ASSUME AliasesAccepted(metadata.fields)
             PROVE  AliasesAreUnambiguous
  BY DEF AliasesAreUnambiguous
<1>1. /\ AliasTable(Aliases, Range(Order))
      /\ Lossless(Aliases) /\ Unambiguous(Aliases)
  BY OverridesTable, AcceptedOverrides DEF Aliases
<1>2. \A p \in Probes : p \in Seq(Range(Order))
  BY MetadataAssumption
<1>3. \A p \in Probes : \A a, b \in BestAliases(p, Aliases) :
         RewriteAliasPath(p, a, Aliases[a]) = RewriteAliasPath(p, b, Aliases[b])
  BY <1>1, <1>2, OneRewriting
<1>4. ASSUME NEW p \in Probes, NEW q \in Probes,
             NEW a \in BestAliases(p, Aliases) \cap BestAliases(q, Aliases),
             RewriteAliasPath(p, a, Aliases[a]) = RewriteAliasPath(q, a, Aliases[a])
      PROVE  p = q
  <2>1. a \in DOMAIN Aliases /\ PathStartsWithPattern(p, a) /\ PathStartsWithPattern(q, a)
    BY DEF BestAliases
  <2>2. a \in Seq(Range(Order)) /\ Aliases[a] \in Seq(Range(Order))
    BY <1>1, <2>1 DEF AliasTable
  <2>3. AliasMappingIsLossless(a, Aliases[a])
    BY <1>1, <2>1 DEF Lossless
  <2> QED
    BY <1>2, <1>4, <2>1, <2>2, <2>3, LosslessRewriting
<1> QED
  BY <1>3, <1>4 DEF AliasesAreUnambiguous

-----------------------------------------------------------------------------
(***************************************************************************)
(* The metadata of a type stays a table of fields.                         *)
(***************************************************************************)
TableInv ==
    /\ metadata = [fields |-> metadata.fields, checks |-> metadata.checks]
    /\ IsTable(metadata.fields)

LEMMA MovedTable ==
  ASSUME NEW fields, IsTable(fields)
  PROVE  IsTable(DecodersMoved(fields))
<1> DEFINE others == {q \in DOMAIN fields : ~ DecoderOnly(fields[q])}
           kept == [q \in others |-> fields[q]]
           aliases == AliasOverrides(kept)
           old == FieldsOf(fields)
           s == [i \in DOMAIN old |->
                   IF old[i].path \in others THEN old[i]
                   ELSE [old[i] EXCEPT !.path = WithAliases(@, aliases)]]
<1>1. Cardinality(DOMAIN fields) \in Nat /\ DOMAIN s = 1..Cardinality(DOMAIN fields)
  BY FieldsOfTable
<1>2. IsTable(kept)
  <2>1. others \in SUBSET DOMAIN fields
    OBVIOUS
  <2>2. IsFiniteSet(others)
    BY <2>1, FS_Subset DEF IsTable
  <2> HIDE DEF others
  <2> QED
    BY <2>1, <2>2 DEF IsTable
<1>3. AliasTable(aliases, Range(Order))
  BY <1>2, OverridesTable
<1> HIDE DEF others, aliases
<1>4. ASSUME NEW i \in DOMAIN old PROVE IsField(s[i])
  <2>1. IsField(old[i])
    BY FieldsOfFields
  <2>2. old[i] = [path |-> old[i].path, aliases |-> old[i].aliases, says |-> old[i].says]
    BY DEF FieldsOf
  <2>3. WithAliases(old[i].path, aliases) \in Path
    BY <1>3, <2>1, WithAliasesType DEF IsField
  <2> QED
    BY <2>1, <2>2, <2>3 DEF IsField
<1>5. DecodersMoved(fields) = AllAdded(<<>>, s)
  BY DEF DecodersMoved, Normalized, AllAdded, others, aliases
<1>6. \A i \in 1..Cardinality(DOMAIN fields) : IsField(s[i])
  BY <1>1, <1>4
<1> HIDE DEF s
<1> QED
  BY <1>1, <1>5, <1>6, EmptyTable, FoldTable

LEMMA TableInvStep ==
  ASSUME TableInv, [MetadataNext]_mvars
  PROVE  TableInv'
<1>1. ASSUME NEW f \in FieldPool, Push(f) PROVE TableInv'
  <2>1. IsField(f)
    BY MetadataAssumption DEF IsField, Path
  <2>2. IsTable(Added(metadata.fields, f))
    BY <2>1, AddedTable DEF TableInv
  <2>3. metadata' = [fields |-> Added(metadata.fields, f), checks |-> metadata.checks]
    BY <1>1 DEF Push, TableInv
  <2> QED
    BY <2>2, <2>3 DEF TableInv
<1>2. ASSUME NEW c \in CheckPool, PushCheck(c) PROVE TableInv'
  BY <1>2 DEF PushCheck, TableInv
<1>3. ASSUME NEW child \in Children, Extend(child) PROVE TableInv'
  <2> DEFINE m == Prefixed(child.prefix, child.prefixAliases, child.metadata)
  <2>1. child.prefix \in Path /\ child.prefixAliases \in SUBSET Path /\ IsTable(child.metadata.fields)
    BY MetadataAssumption DEF IsTable, Path
  <2>2. IsTable(m.fields)
    BY <2>1, PrefixedTable
  <2> HIDE DEF m
  <2>3. IsTable(AllAdded(metadata.fields, FieldsOf(m.fields)))
    BY <2>2, FieldsOfTable, FieldsOfFields, FoldTable DEF TableInv
  <2>4. metadata' = [fields |-> AllAdded(metadata.fields, FieldsOf(m.fields)),
                     checks |-> AddedChecks(metadata.checks, m.checks)]
    BY <1>3 DEF Extend, AllAdded, m
  <2> QED
    BY <2>3, <2>4 DEF TableInv
<1>4. ASSUME Prepare PROVE TableInv'
  <2>1. CASE DecodersAccepted(metadata.fields)
    <3>1. metadata' = [fields |-> DecodersMoved(metadata.fields), checks |-> metadata.checks]
      BY <1>4, <2>1 DEF Prepare, TableInv
    <3>2. IsTable(DecodersMoved(metadata.fields))
      BY MovedTable DEF TableInv
    <3> QED
      BY <3>1, <3>2 DEF TableInv
  <2>2. CASE ~ DecodersAccepted(metadata.fields)
    BY <1>4, <2>2 DEF Prepare, TableInv
  <2> QED
    BY <2>1, <2>2
<1>5. CASE UNCHANGED mvars
  BY <1>5 DEF TableInv, mvars
<1> QED
  BY <1>1, <1>2, <1>3, <1>4, <1>5 DEF MetadataNext

LEMMA TableInvariant == MetadataSpec => []TableInv
<1>1. Init => TableInv
  BY EmptyTable DEF Init, TableInv
<1>2. TableInv /\ [MetadataNext]_mvars => TableInv'
  BY TableInvStep
<1> QED
  BY <1>1, <1>2, PTL DEF MetadataSpec

-----------------------------------------------------------------------------
\* Whatever is declared, nested and moved, in whatever order: aliases that load()
\* accepts rewrite every path in one way, whichever is taken first, and no two paths
\* to one (alias_overrides, alias_patterns_are_ambiguous, alias_mapping_is_lossless).
THEOREM AliasesUnambiguous == MetadataSpec => []AliasesAreUnambiguous
<1>1. TableInv => AliasesAreUnambiguous
  BY AcceptedAliases DEF TableInv
<1> QED
  BY <1>1, TableInvariant, PTL

-----------------------------------------------------------------------------
(***************************************************************************)
(* What a table says of the fields it was made of.                         *)
(***************************************************************************)
\* fields is what the first n fields of the list s make: their paths, all the aliases
\* declared for a path, and of each attribute the last value declared for it.
Tells(fields, s, n) ==
    /\ \A i \in 1..n : s[i].path \in DOMAIN fields
    /\ \A q \in DOMAIN fields :
          /\ \E i \in 1..n : s[i].path = q
          /\ \A c : c \in fields[q].aliases
                     <=> c # q /\ \E i \in 1..n : s[i].path = q /\ c \in s[i].aliases
          /\ \A a : a \in DOMAIN fields[q].says
                     <=> \E i \in 1..n : s[i].path = q /\ a \in DOMAIN s[i].says
          /\ \A a \in DOMAIN fields[q].says : \E i \in 1..n :
                /\ s[i].path = q /\ a \in DOMAIN s[i].says
                /\ fields[q].says[a] = s[i].says[a]
                /\ \A j \in (i + 1)..n : s[j].path = q => a \notin DOMAIN s[j].says

\* One turn of the loop.
LEMMA TellsOneMore ==
  ASSUME NEW fields, NEW s, NEW n \in Nat, Tells(fields, s, n)
  PROVE  Tells(Added(fields, s[n + 1]), s, n + 1)
<1> DEFINE f == s[n + 1]
           new == Added(fields, f)
           own == [aliases |-> f.aliases \ {f.path}, says |-> f.says]
<1>1. DOMAIN new = {f.path} \cup DOMAIN fields
  BY DEF Added
<1>2. \A q \in DOMAIN fields : q # f.path => new[q] = fields[q]
  BY DEF Added
<1>3. f.path \in DOMAIN fields => new[f.path] = MergeFrom(fields[f.path], own)
  BY DEF Added
<1>4. f.path \notin DOMAIN fields => new[f.path] = own
  BY DEF Added
<1> HIDE DEF new
<1>5. \A i \in 1..(n + 1) : i \in 1..n \/ i = n + 1
  OBVIOUS
<1>6. \A i \in 1..n : i \in 1..(n + 1) /\ s[i].path \in DOMAIN fields
  BY DEF Tells
<1>7. n + 1 \in 1..(n + 1) /\ (n + 1) + 1..(n + 1) = {}
  OBVIOUS
<1>8. \A i \in 1..(n + 1) : s[i].path \in DOMAIN new
  BY <1>1, <1>5, <1>6
<1>9. ASSUME NEW q \in DOMAIN new
      PROVE  /\ \E i \in 1..(n + 1) : s[i].path = q
             /\ \A c : c \in new[q].aliases
                        <=> c # q /\ \E i \in 1..(n + 1) : s[i].path = q /\ c \in s[i].aliases
             /\ \A a : a \in DOMAIN new[q].says
                        <=> \E i \in 1..(n + 1) : s[i].path = q /\ a \in DOMAIN s[i].says
             /\ \A a \in DOMAIN new[q].says : \E i \in 1..(n + 1) :
                   /\ s[i].path = q /\ a \in DOMAIN s[i].says
                   /\ new[q].says[a] = s[i].says[a]
                   /\ \A j \in (i + 1)..(n + 1) : s[j].path = q => a \notin DOMAIN s[j].says
  <2>1. CASE q # f.path
    <3>1. q \in DOMAIN fields /\ new[q] = fields[q]
      BY <1>1, <1>2, <2>1
    <3>2. \E i \in 1..n : s[i].path = q
      BY <3>1 DEF Tells
    <3>3. \A c : c \in fields[q].aliases
                 <=> c # q /\ \E i \in 1..n : s[i].path = q /\ c \in s[i].aliases
      BY <3>1 DEF Tells
    <3>4. \A a : a \in DOMAIN fields[q].says
                 <=> \E i \in 1..n : s[i].path = q /\ a \in DOMAIN s[i].says
      BY <3>1 DEF Tells
    <3>5. ASSUME NEW a \in DOMAIN fields[q].says
          PROVE  \E i \in 1..(n + 1) :
                    /\ s[i].path = q /\ a \in DOMAIN s[i].says
                    /\ fields[q].says[a] = s[i].says[a]
                    /\ \A j \in (i + 1)..(n + 1) : s[j].path = q => a \notin DOMAIN s[j].says
      <4>1. PICK i \in 1..n :
               /\ s[i].path = q /\ a \in DOMAIN s[i].says
               /\ fields[q].says[a] = s[i].says[a]
               /\ \A j \in (i + 1)..n : s[j].path = q => a \notin DOMAIN s[j].says
        BY <3>1 DEF Tells
      <4>2. \A j \in (i + 1)..(n + 1) : s[j].path = q => j \in (i + 1)..n
        BY <2>1
      <4> QED
        BY <1>6, <4>1, <4>2
    <3> QED
      BY <1>5, <1>6, <2>1, <3>1, <3>2, <3>3, <3>4, <3>5
  <2>2. CASE q = f.path /\ f.path \notin DOMAIN fields
    <3>1. new[q].aliases = f.aliases \ {q} /\ new[q].says = f.says
      BY <1>4, <2>2
    <3>2. \A i \in 1..(n + 1) : s[i].path = q <=> i = n + 1
      BY <1>5, <1>6, <2>2
    <3> QED
      BY <1>7, <3>1, <3>2
  <2>3. CASE q = f.path /\ f.path \in DOMAIN fields
    <3>1. /\ new[q].aliases = fields[q].aliases \cup (f.aliases \ {q})
          /\ DOMAIN new[q].says = DOMAIN fields[q].says \cup DOMAIN f.says
          /\ \A a \in DOMAIN new[q].says :
                new[q].says[a] = IF a \in DOMAIN f.says THEN f.says[a] ELSE fields[q].says[a]
      BY <1>3, <2>3 DEF MergeFrom
    <3>2. \A c : c \in fields[q].aliases
                 <=> c # q /\ \E i \in 1..n : s[i].path = q /\ c \in s[i].aliases
      BY <2>3 DEF Tells
    <3>3. \A a : a \in DOMAIN fields[q].says
                 <=> \E i \in 1..n : s[i].path = q /\ a \in DOMAIN s[i].says
      BY <2>3 DEF Tells
    <3>4. \A c : c \in new[q].aliases
                 <=> c # q /\ \E i \in 1..(n + 1) : s[i].path = q /\ c \in s[i].aliases
      BY <1>5, <1>6, <1>7, <2>3, <3>1, <3>2
    <3>5. \A a : a \in DOMAIN new[q].says
                 <=> \E i \in 1..(n + 1) : s[i].path = q /\ a \in DOMAIN s[i].says
      BY <1>5, <1>6, <1>7, <2>3, <3>1, <3>3
    <3>6. ASSUME NEW a \in DOMAIN new[q].says
          PROVE  \E i \in 1..(n + 1) :
                    /\ s[i].path = q /\ a \in DOMAIN s[i].says
                    /\ new[q].says[a] = s[i].says[a]
                    /\ \A j \in (i + 1)..(n + 1) : s[j].path = q => a \notin DOMAIN s[j].says
      <4>1. CASE a \in DOMAIN f.says
        BY <1>7, <2>3, <3>1, <4>1
      <4>2. CASE a \notin DOMAIN f.says
        <5>1. a \in DOMAIN fields[q].says /\ new[q].says[a] = fields[q].says[a]
          BY <3>1, <4>2
        <5>2. PICK i \in 1..n :
                 /\ s[i].path = q /\ a \in DOMAIN s[i].says
                 /\ fields[q].says[a] = s[i].says[a]
                 /\ \A j \in (i + 1)..n : s[j].path = q => a \notin DOMAIN s[j].says
          BY <2>3, <5>1 DEF Tells
        <5>3. \A j \in (i + 1)..(n + 1) : j \in (i + 1)..n \/ j = n + 1
          OBVIOUS
        <5> QED
          BY <1>6, <4>2, <5>1, <5>2, <5>3
      <4> QED
        BY <4>1, <4>2
    <3>7. \E i \in 1..(n + 1) : s[i].path = q
      BY <1>7, <2>3
    <3> QED
      BY <3>4, <3>5, <3>6, <3>7
  <2> QED
    BY <1>1, <2>1, <2>2, <2>3
<1> QED
  BY <1>8, <1>9 DEF Tells, new

LEMMA TellsSame ==
  ASSUME NEW fields, NEW s, NEW t, NEW n \in Nat, \A i \in 1..n : s[i] = t[i],
         Tells(fields, s, n)
  PROVE  Tells(fields, t, n)
<1>1. \A i \in 1..n : t[i].path \in DOMAIN fields
  BY DEF Tells
<1>2. ASSUME NEW q \in DOMAIN fields
      PROVE  /\ \E i \in 1..n : t[i].path = q
             /\ \A c : c \in fields[q].aliases
                        <=> c # q /\ \E i \in 1..n : t[i].path = q /\ c \in t[i].aliases
             /\ \A a : a \in DOMAIN fields[q].says
                        <=> \E i \in 1..n : t[i].path = q /\ a \in DOMAIN t[i].says
  BY DEF Tells
<1>3. ASSUME NEW q \in DOMAIN fields, NEW a \in DOMAIN fields[q].says
      PROVE  \E i \in 1..n :
                /\ t[i].path = q /\ a \in DOMAIN t[i].says
                /\ fields[q].says[a] = t[i].says[a]
                /\ \A j \in (i + 1)..n : t[j].path = q => a \notin DOMAIN t[j].says
  <2>1. PICK i \in 1..n :
           /\ s[i].path = q /\ a \in DOMAIN s[i].says
           /\ fields[q].says[a] = s[i].says[a]
           /\ \A j \in (i + 1)..n : s[j].path = q => a \notin DOMAIN s[j].says
    BY DEF Tells
  <2>2. \A j \in (i + 1)..n : s[j] = t[j]
    OBVIOUS
  <2> QED
    BY <2>1, <2>2
<1>4. ASSUME NEW q \in DOMAIN fields
      PROVE  \A a \in DOMAIN fields[q].says : \E i \in 1..n :
                /\ t[i].path = q /\ a \in DOMAIN t[i].says
                /\ fields[q].says[a] = t[i].says[a]
                /\ \A j \in (i + 1)..n : t[j].path = q => a \notin DOMAIN t[j].says
  BY <1>3, Zenon
<1>5. ASSUME NEW q \in DOMAIN fields
      PROVE  /\ \E i \in 1..n : t[i].path = q
             /\ \A c : c \in fields[q].aliases
                        <=> c # q /\ \E i \in 1..n : t[i].path = q /\ c \in t[i].aliases
             /\ \A a : a \in DOMAIN fields[q].says
                        <=> \E i \in 1..n : t[i].path = q /\ a \in DOMAIN t[i].says
             /\ \A a \in DOMAIN fields[q].says : \E i \in 1..n :
                   /\ t[i].path = q /\ a \in DOMAIN t[i].says
                   /\ fields[q].says[a] = t[i].says[a]
                   /\ \A j \in (i + 1)..n : t[j].path = q => a \notin DOMAIN t[j].says
  BY <1>2, <1>4, Zenon
<1> QED
  BY <1>1, <1>5, Zenon DEF Tells

\* The loop, over the last k fields of a list.
LEMMA TellsFold ==
  ASSUME NEW base, NEW t, NEW n \in Nat, Tells(base, t, n),
         NEW s, NEW k \in Nat, DOMAIN s = 1..k, \A i \in 1..k : t[n + i] = s[i]
  PROVE  Tells(AllAdded(base, s), t, n + k)
<1>1. PICK g : /\ g[{}] = base
               /\ \A i \in 1..k : g[1..i] = Added(g[1..(i - 1)], s[i])
               /\ AllAdded(base, s) = g[1..k]
  BY SMTT(30), FoldTurns
<1> DEFINE Bad == {i \in 0..k : ~ Tells(g[1..i], t, n + i)}
<1>2. Bad = {}
  <2> SUFFICES ASSUME Bad # {} PROVE FALSE
    OBVIOUS
  <2>1. PICK m \in Bad : \A i \in Bad : m <= i
    <3>1. Bad \in SUBSET Nat
      OBVIOUS
    <3> HIDE DEF Bad
    <3> QED
      BY <3>1, LeastOne
  <2>2. 1..0 = {} /\ n + 0 = n
    OBVIOUS
  <2>3. m # 0
    BY <1>1, <2>2
  <2>4. m \in 1..k /\ m - 1 \in 0..k /\ m - 1 \notin Bad
    BY <2>1, <2>3
  <2>5. Tells(g[1..(m - 1)], t, n + (m - 1))
    BY <2>4
  <2>6. n + (m - 1) \in Nat /\ (n + (m - 1)) + 1 = n + m
    BY <2>4
  <2>7. Tells(Added(g[1..(m - 1)], t[n + m]), t, n + m)
    BY <2>5, <2>6, TellsOneMore
  <2>8. g[1..m] = Added(g[1..(m - 1)], t[n + m])
    BY <1>1, <2>4
  <2> QED
    BY <2>7, <2>8
<1> QED
  BY <1>1, <1>2

-----------------------------------------------------------------------------
(***************************************************************************)
(* While a type is put together its table tells what was declared.         *)
(***************************************************************************)
ToldInv ==
    /\ pushed \in Seq(Range(pushed))
    /\ phase = "building" => Tells(metadata.fields, pushed, Len(pushed))

LEMMA ToldInvStep ==
  ASSUME TableInv, ToldInv, [MetadataNext]_mvars
  PROVE  ToldInv'
<1> DEFINE n == Len(pushed)
<1>1. n \in Nat
  BY LenProperties DEF ToldInv
<1>2. ASSUME NEW f \in FieldPool, Push(f) PROVE ToldInv'
  <2> DEFINE S == Range(pushed) \cup {f}
             t == Append(pushed, f)
  <2>1. pushed \in Seq(S) /\ f \in S
    BY SeqMonotonic DEF ToldInv
  <2> HIDE DEF S
  <2>2. /\ t \in Seq(S) /\ Len(t) = n + 1
        /\ \A i \in 1..n : t[i] = pushed[i]
        /\ t[n + 1] = f
    BY <2>1, AppendProperties
  <2>3. t \in Seq(Range(t))
    BY <2>2, SeqOfRange
  <2>4. pushed' = t /\ phase = "building" /\ metadata'.fields = Added(metadata.fields, f)
    BY <1>2 DEF Push, TableInv
  <2> HIDE DEF t
  <2>5. Tells(metadata.fields, t, n)
    BY <1>1, <2>2, <2>4, TellsSame DEF ToldInv
  <2>6. Tells(Added(metadata.fields, f), t, n + 1)
    BY <1>1, <2>2, <2>5, TellsOneMore
  <2> QED
    BY <2>2, <2>3, <2>4, <2>6 DEF ToldInv
<1>3. ASSUME NEW c \in CheckPool, PushCheck(c) PROVE ToldInv'
  BY <1>3 DEF PushCheck, TableInv, ToldInv
<1>4. ASSUME NEW child \in Children, Extend(child) PROVE ToldInv'
  <2> DEFINE m == Prefixed(child.prefix, child.prefixAliases, child.metadata)
             s == FieldsOf(m.fields)
             k == Cardinality(DOMAIN m.fields)
             S == Range(pushed) \cup Range(s)
             t == pushed \o s
  <2>1. child.prefix \in Path /\ child.prefixAliases \in SUBSET Path /\ IsTable(child.metadata.fields)
    BY MetadataAssumption DEF IsTable, Path
  <2>2. IsTable(m.fields)
    BY <2>1, PrefixedTable
  <2> HIDE DEF m
  <2>3. k \in Nat /\ DOMAIN s = 1..k
    BY <2>2, FieldsOfTable
  <2>4. s \in Seq(S) /\ Len(s) = k /\ pushed \in Seq(S)
    <3>1. s \in [1..k -> Range(s)]
      BY <2>3 DEF Range, FieldsOf
    <3>2. s \in Seq(Range(s))
      BY <2>3, <3>1, SeqDef
    <3>3. Len(s) = k
      BY <2>3, <3>2, LenProperties
    <3> QED
      BY <3>2, <3>3, SeqMonotonic DEF ToldInv
  <2>5. pushed' = t /\ phase = "building" /\ metadata'.fields = AllAdded(metadata.fields, s)
    BY <1>4 DEF Extend, AllAdded, m
  <2> HIDE DEF s, k, S
  <2>6. /\ t \in Seq(S) /\ Len(t) = n + k
        /\ \A i \in 1..(n + k) : t[i] = IF i <= n THEN pushed[i] ELSE s[i - n]
    BY <2>4, ConcatProperties
  <2> HIDE DEF t
  <2>7. (\A i \in 1..n : pushed[i] = t[i]) /\ \A i \in 1..k : t[n + i] = s[i]
    BY <1>1, <2>3, <2>6
  <2>8. t \in Seq(Range(t))
    BY <2>6, SeqOfRange
  <2>9. Tells(metadata.fields, t, n)
    BY <1>1, <2>5, <2>7, TellsSame DEF ToldInv
  <2>10. Tells(AllAdded(metadata.fields, s), t, n + k)
    BY <1>1, <2>3, <2>7, <2>9, TellsFold
  <2> QED
    BY <2>5, <2>6, <2>8, <2>10 DEF ToldInv
<1>5. ASSUME Prepare PROVE ToldInv'
  BY <1>5 DEF Prepare, ToldInv
<1>6. CASE UNCHANGED mvars
  BY <1>6 DEF ToldInv, mvars
<1> QED
  BY <1>2, <1>3, <1>4, <1>5, <1>6 DEF MetadataNext

LEMMA ToldInvariant == MetadataSpec => []ToldInv
<1>1. Init => ToldInv
  <2> SUFFICES ASSUME Init PROVE ToldInv
    OBVIOUS
  <2>1. pushed = <<>> /\ metadata.fields = <<>> /\ Len(pushed) = 0
    BY DEF Init
  <2>2. DOMAIN metadata.fields = {} /\ 1..0 = {}
    BY <2>1
  <2>3. pushed \in Seq(Range(pushed))
    BY <2>1
  <2> QED
    BY <2>1, <2>2, <2>3 DEF ToldInv, Tells
<1>2. TableInv /\ ToldInv /\ [MetadataNext]_mvars => ToldInv'
  BY ToldInvStep
<1> QED
  BY <1>1, <1>2, TableInvariant, PTL DEF MetadataSpec

-----------------------------------------------------------------------------
(***************************************************************************)
(* The fields that fit a path, and their order.                            *)
(***************************************************************************)
Matching(fields, p) == {q \in DOMAIN fields : Fitting(fields, q, p) # {}}

LEMMA FittingType ==
  ASSUME NEW fields, IsTable(fields), NEW q \in DOMAIN fields, NEW p \in Path
  PROVE  /\ Fitting(fields, q, p) = {c \in Candidates(fields, q) : PathMatchesPattern(p, c)}
         /\ IsFiniteSet(Fitting(fields, q, p))
         /\ \A c \in Fitting(fields, q, p) : MatchScore(c) \in Scores(Len(p))
<1>1. PathMatchesPattern(p, p)
  BY DEF PathMatchesPattern, Fits
<1>2. Fitting(fields, q, p) = {c \in Candidates(fields, q) : PathMatchesPattern(p, c)}
  BY <1>1 DEF Fitting
<1>3. Fitting(fields, q, p) \in SUBSET Path
  BY <1>2 DEF Candidates, IsTable
<1>4. ASSUME NEW c \in Fitting(fields, q, p)
      PROVE  PathStartsWithPattern(p, c) /\ MatchScore(c) \in Scores(Len(p))
  <2>1. c \in Path /\ PathMatchesPattern(p, c)
    BY <1>2, <1>3
  <2>2. Len(p) = Len(c) /\ DOMAIN p = 1..Len(p) /\ DOMAIN c = 1..Len(c) /\ Len(c) \in Nat
    BY <2>1, LenProperties DEF Path, PathMatchesPattern
  <2>3. PathStartsWithPattern(p, c)
    BY <2>1, <2>2 DEF PathMatchesPattern, PathStartsWithPattern
  <2>4. MatchScore(c) \in Scores(Len(c))
    BY <2>1, ScoreType DEF Path
  <2> QED
    BY <2>2, <2>3, <2>4
<1>5. IsFiniteSet(Fitting(fields, q, p))
  BY <1>3, <1>4, FewFit DEF Path
<1> QED
  BY <1>2, <1>4, <1>5

\* The score of a field is that of one of its candidates, and no other is above it.
LEMMA ScoreIsBest ==
  ASSUME NEW fields, IsTable(fields), NEW p \in Path, NEW q \in Matching(fields, p)
  PROVE  /\ Score(fields, q, p) \in Scores(Len(p))
         /\ \E c \in Fitting(fields, q, p) : Score(fields, q, p) = MatchScore(c)
         /\ \A c \in Fitting(fields, q, p) : ~ ScoreBelow(Score(fields, q, p), MatchScore(c))
<1> DEFINE n == Len(p)
           fitting == Fitting(fields, q, p)
           scores == {MatchScore(c) : c \in fitting}
           R == {z \in scores \X scores : ScoreBelow(z[1], z[2])}
           f == [c \in fitting |-> MatchScore(c)]
<1>1. n \in Nat /\ fitting # {} /\ IsFiniteSet(fitting)
      /\ \A c \in fitting : MatchScore(c) \in Scores(n)
  BY FittingType, LenProperties DEF Matching, Path
<1>2. scores # {} /\ scores \subseteq Scores(n)
  BY <1>1
<1>3. IsFiniteSet(scores)
  <2>1. f \in Surjection(fitting, scores)
    BY DEF Surjection
  <2> QED
    BY <1>1, <2>1, FS_Surjection
<1>4. \A s, t \in scores : <<s, t>> \in R <=> ScoreBelow(s, t)
  OBVIOUS
<1> HIDE DEF R
<1>5. StrictOrder(R, scores)
  <2>1. \A s \in scores : ~ ScoreBelow(s, s)
    BY <1>1, <1>2, ScoreIrreflexive
  <2>2. \A s, t, u \in scores : ScoreBelow(s, t) /\ ScoreBelow(t, u) => ScoreBelow(s, u)
    BY <1>1, <1>2, ScoreTransitive
  <2>3. \A s, t \in scores : s # t => ScoreBelow(s, t) \/ ScoreBelow(t, s)
    BY <1>1, <1>2, ScoreTotal
  <2> HIDE DEF scores
  <2> QED
    BY <1>4, <2>1, <2>2, <2>3 DEF StrictOrder
<1>6. \E s \in scores : ~ \E t \in scores : ScoreBelow(s, t)
  <2> HIDE DEF scores
  <2> QED
    BY <1>2, <1>3, <1>4, <1>5, GreatestOne
<1>7. Score(fields, q, p) = CHOOSE s \in scores : ~ \E t \in scores : ScoreBelow(s, t)
  BY DEF Score
<1>8. /\ Score(fields, q, p) \in scores
      /\ \A t \in scores : ~ ScoreBelow(Score(fields, q, p), t)
  <2> HIDE DEF scores
  <2> QED
    BY <1>6, <1>7
<1> QED
  BY <1>2, <1>8

Earlier(fields, p, q, r) ==
    \/ ScoreBelow(Score(fields, q, p), Score(fields, r, p))
    \/ Score(fields, q, p) = Score(fields, r, p) /\ Precedes(q, r)

\* matching_fields_for_path lists each field that fits, the less specific before the
\* more specific ones.
LEMMA MatchingLists ==
  ASSUME NEW fields, IsTable(fields), NEW p \in Path
  PROVE  LET list == MatchingFields(fields, p)
             n == Cardinality(Matching(fields, p))
         IN  /\ n \in Nat /\ list \in [1..n -> Matching(fields, p)]
             /\ \A q \in Matching(fields, p) : \E i \in 1..n : list[i] = q
             /\ \A i, j \in 1..n : i < j <=> Earlier(fields, p, list[i], list[j])
<1> DEFINE M == Matching(fields, p)
           R == {z \in M \X M : Earlier(fields, p, z[1], z[2])}
<1>1. Len(p) \in Nat /\ M \in SUBSET DOMAIN fields /\ M \subseteq Path /\ IsFiniteSet(DOMAIN fields)
  BY LenProperties DEF Path, Matching, IsTable
<1>2. IsFiniteSet(M)
  BY <1>1, FS_Subset
<1>3. \A q, r \in M : <<q, r>> \in R <=> Earlier(fields, p, q, r)
  OBVIOUS
<1>4. \A q \in M : Score(fields, q, p) \in Scores(Len(p))
  BY ScoreIsBest
<1> HIDE DEF R, M
<1>5. StrictOrder(R, M)
  <2>1. \A q \in M : ~ Earlier(fields, p, q, q)
    BY <1>1, <1>4, ScoreIrreflexive, PrecedesIrreflexive DEF Earlier
  <2>2. ASSUME NEW q \in M, NEW r \in M, NEW s \in M,
               Earlier(fields, p, q, r), Earlier(fields, p, r, s)
        PROVE  Earlier(fields, p, q, s)
    BY <1>1, <1>4, <2>2, ScoreTransitive, PrecedesTransitive DEF Earlier
  <2>3. ASSUME NEW q \in M, NEW r \in M, q # r
        PROVE  Earlier(fields, p, q, r) \/ Earlier(fields, p, r, q)
    BY <1>1, <1>4, <2>3, ScoreTotal, PrecedesTotal DEF Earlier
  <2> QED
    BY <1>3, <2>1, <2>2, <2>3 DEF StrictOrder
<1>6. MatchingFields(fields, p) = Ranked(R, M)
  <2>1. \A q \in M : Below(R, M, q) = {r \in M : Earlier(fields, p, r, q)}
    BY <1>3 DEF Below
  <2>2. \A i \in 1..Cardinality(M) :
           (CHOOSE q \in M : Cardinality({r \in M : Earlier(fields, p, r, q)}) = i - 1)
             = CHOOSE q \in M : Cardinality(Below(R, M, q)) = i - 1
    BY <2>1
  <2>3. MatchingFields(fields, p) =
          [i \in 1..Cardinality(M) |->
             CHOOSE q \in M : Cardinality({r \in M : Earlier(fields, p, r, q)}) = i - 1]
    BY DEF MatchingFields, SortedBy, Earlier, M, Matching
  <2> QED
    BY <2>2, <2>3 DEF Ranked
<1>7. /\ Cardinality(M) \in Nat
      /\ Ranked(R, M) \in [1..Cardinality(M) -> M]
      /\ \A x \in M : \E i \in 1..Cardinality(M) : Ranked(R, M)[i] = x
      /\ \A i, j \in 1..Cardinality(M) : i < j <=> <<Ranked(R, M)[i], Ranked(R, M)[j]>> \in R
  BY <1>2, <1>5, RankedLists
<1> QED
  BY <1>3, <1>6, <1>7 DEF M

-----------------------------------------------------------------------------
(***************************************************************************)
(* What the fields of a list say together.                                 *)
(***************************************************************************)
SaysLast(fields, s, n, e) ==
    /\ \A a : a \in DOMAIN e.says <=> \E i \in 1..n : a \in DOMAIN fields[s[i]].says
    /\ \A a \in DOMAIN e.says : \E i \in 1..n :
          /\ a \in DOMAIN fields[s[i]].says
          /\ e.says[a] = fields[s[i]].says[a]
          /\ \A j \in (i + 1)..n : a \notin DOMAIN fields[s[j]].says

LEMMA SaysLastOneMore ==
  ASSUME NEW fields, NEW s, NEW n \in Nat, NEW e, SaysLast(fields, s, n, e)
  PROVE  SaysLast(fields, s, n + 1, MergeFrom(e, fields[s[n + 1]]))
<1> DEFINE f == fields[s[n + 1]]
           new == MergeFrom(e, f)
<1>1. /\ DOMAIN new.says = DOMAIN e.says \cup DOMAIN f.says
      /\ \A a \in DOMAIN new.says :
            new.says[a] = IF a \in DOMAIN f.says THEN f.says[a] ELSE e.says[a]
  BY DEF MergeFrom
<1> HIDE DEF new
<1>2. \A i \in 1..(n + 1) : i \in 1..n \/ i = n + 1
  OBVIOUS
<1>3. n + 1 \in 1..(n + 1) /\ (n + 1) + 1..(n + 1) = {} /\ \A i \in 1..n : i \in 1..(n + 1)
  OBVIOUS
<1>4. \A a : a \in DOMAIN e.says <=> \E i \in 1..n : a \in DOMAIN fields[s[i]].says
  BY DEF SaysLast
<1>5. \A a : a \in DOMAIN new.says <=> \E i \in 1..(n + 1) : a \in DOMAIN fields[s[i]].says
  BY <1>1, <1>2, <1>3, <1>4
<1>6. ASSUME NEW a \in DOMAIN new.says
      PROVE  \E i \in 1..(n + 1) :
                /\ a \in DOMAIN fields[s[i]].says
                /\ new.says[a] = fields[s[i]].says[a]
                /\ \A j \in (i + 1)..(n + 1) : a \notin DOMAIN fields[s[j]].says
  <2>1. CASE a \in DOMAIN f.says
    BY <1>1, <1>3, <2>1
  <2>2. CASE a \notin DOMAIN f.says
    <3>1. a \in DOMAIN e.says /\ new.says[a] = e.says[a]
      BY <1>1, <2>2
    <3>2. PICK i \in 1..n :
             /\ a \in DOMAIN fields[s[i]].says
             /\ e.says[a] = fields[s[i]].says[a]
             /\ \A j \in (i + 1)..n : a \notin DOMAIN fields[s[j]].says
      BY <3>1 DEF SaysLast
    <3>3. \A j \in (i + 1)..(n + 1) : j \in (i + 1)..n \/ j = n + 1
      OBVIOUS
    <3> QED
      BY <1>3, <2>2, <3>1, <3>2, <3>3
  <2> QED
    BY <2>1, <2>2
<1> QED
  BY <1>5, <1>6 DEF SaysLast, new

\* Of each attribute the last field of the list that declares it decides.
LEMMA MergedSaysLast ==
  ASSUME NEW fields, NEW s, NEW n \in Nat, DOMAIN s = 1..n
  PROVE  SaysLast(fields, s, n, AllMerged(fields, s))
<1>1. PICK g : /\ g[{}] = NoField
               /\ \A k \in 1..n : g[1..k] = MergeFrom(g[1..(k - 1)], fields[s[k]])
               /\ AllMerged(fields, s) = g[1..n]
  BY MergeTurns
<1> DEFINE Bad == {k \in 0..n : ~ SaysLast(fields, s, k, g[1..k])}
<1>2. Bad = {}
  <2> SUFFICES ASSUME Bad # {} PROVE FALSE
    OBVIOUS
  <2>1. PICK m \in Bad : \A k \in Bad : m <= k
    <3>1. Bad \in SUBSET Nat
      OBVIOUS
    <3> HIDE DEF Bad
    <3> QED
      BY <3>1, LeastOne
  <2>2. 1..0 = {} /\ DOMAIN NoField.says = {}
    BY DEF NoField
  <2>3. SaysLast(fields, s, 0, NoField)
    BY <2>2 DEF SaysLast
  <2>4. m # 0
    BY <1>1, <2>2, <2>3
  <2>5. m \in 1..n /\ m - 1 \in 0..n /\ m - 1 \notin Bad /\ (m - 1) + 1 = m
    BY <2>1, <2>4
  <2>6. SaysLast(fields, s, m - 1, g[1..(m - 1)])
    BY <2>5
  <2>7. SaysLast(fields, s, m, MergeFrom(g[1..(m - 1)], fields[s[m]]))
    BY <2>5, <2>6, SaysLastOneMore
  <2>8. g[1..m] = MergeFrom(g[1..(m - 1)], fields[s[m]])
    BY <1>1, <2>5
  <2> QED
    BY <2>7, <2>8
<1> QED
  BY <1>1, <1>2

-----------------------------------------------------------------------------
(***************************************************************************)
(* The most specific declaration decides.                                  *)
(***************************************************************************)
\* Where one field has a candidate that is more specific than all of another's, it is
\* listed behind it.
LEMMA BetterCandidate ==
  ASSUME NEW fields, IsTable(fields), NEW p \in Path,
         NEW q \in Matching(fields, p), NEW r \in Matching(fields, p),
         NEW c \in Fitting(fields, r, p),
         \A d \in Fitting(fields, q, p) : ScoreBelow(MatchScore(d), MatchScore(c))
  PROVE  Earlier(fields, p, q, r)
<1> DEFINE sq == Score(fields, q, p)
           sr == Score(fields, r, p)
           sc == MatchScore(c)
<1>1. Len(p) \in Nat
  BY LenProperties DEF Path
<1>2. sq \in Scores(Len(p)) /\ sr \in Scores(Len(p)) /\ ~ ScoreBelow(sr, sc)
  BY ScoreIsBest
<1>3. sc \in Scores(Len(p))
  BY FittingType DEF Matching
<1>4. ScoreBelow(sq, sc)
  <2>1. PICK d \in Fitting(fields, q, p) : sq = MatchScore(d)
    BY ScoreIsBest
  <2> QED
    BY <2>1
<1> HIDE DEF sq, sr, sc
<1>5. sr = sc \/ ScoreBelow(sc, sr)
  BY <1>1, <1>2, <1>3, ScoreTotal
<1>6. ScoreBelow(sq, sr)
  BY <1>1, <1>2, <1>3, <1>4, <1>5, ScoreTransitive
<1> QED
  BY <1>6 DEF Earlier, sq, sr

\* What the property calls patterns are the candidates of the table.
LEMMA PatternsAreCandidates ==
  ASSUME NEW fields, Tells(fields, pushed, Len(pushed)), pushed \in Seq(Range(pushed)),
         NEW i \in DOMAIN pushed
  PROVE  pushed[i].path \in DOMAIN fields /\ Patterns(i) = Candidates(fields, pushed[i].path)
<1>1. DOMAIN pushed = 1..Len(pushed)
  BY LenProperties
<1>2. pushed[i].path \in DOMAIN fields
  BY <1>1 DEF Tells
<1> DEFINE q == pushed[i].path
<1>3. \A c : c \in fields[q].aliases
              <=> c # q /\ \E j \in 1..Len(pushed) : pushed[j].path = q /\ c \in pushed[j].aliases
  BY <1>2 DEF Tells
<1>4. \A c : c \in Patterns(i)
              <=> c = q \/ \E j \in DOMAIN pushed : pushed[j].path = q /\ c \in pushed[j].aliases
  BY DEF Patterns
<1>5. \A c : c \in Patterns(i) <=> c \in Candidates(fields, q)
  BY <1>1, <1>3, <1>4 DEF Candidates
<1> QED
  BY <1>2, <1>5

LEMMA DecidesForPath ==
  ASSUME NEW fields, IsTable(fields), Tells(fields, pushed, Len(pushed)),
         pushed \in Seq(Range(pushed)), NEW p \in Path
  PROVE  LET e == Effective(fields, p)
             about == {i \in DOMAIN pushed : \E c \in Patterns(i) : PathMatchesPattern(p, c)}
             Declare(a) == {i \in about : a \in DOMAIN pushed[i].says}
         IN  /\ DOMAIN e.says = UNION {DOMAIN pushed[i].says : i \in about}
             /\ \A a \in DOMAIN e.says : \E i \in Declare(a) :
                   /\ e.says[a] = pushed[i].says[a]
                   /\ ~ \E j \in Declare(a) : MoreToThePoint(i, j, p)
<1> DEFINE e == Effective(fields, p)
           about == {i \in DOMAIN pushed : \E c \in Patterns(i) : PathMatchesPattern(p, c)}
           list == MatchingFields(fields, p)
           M == Matching(fields, p)
           n == Cardinality(M)
           N == Len(pushed)
<1>1. DOMAIN pushed = 1..N /\ N \in Nat
  BY LenProperties
<1>2. /\ n \in Nat /\ list \in [1..n -> M]
      /\ \A q \in M : \E i \in 1..n : list[i] = q
      /\ \A i, j \in 1..n : i < j <=> Earlier(fields, p, list[i], list[j])
  BY MatchingLists
<1>3. M \in SUBSET DOMAIN fields
  BY DEF Matching
<1>4. ASSUME NEW i \in DOMAIN pushed
      PROVE  /\ pushed[i].path \in DOMAIN fields
             /\ {c \in Patterns(i) : PathMatchesPattern(p, c)} = Fitting(fields, pushed[i].path, p)
             /\ i \in about <=> pushed[i].path \in M
  <2>1. pushed[i].path \in DOMAIN fields /\ Patterns(i) = Candidates(fields, pushed[i].path)
    BY PatternsAreCandidates
  <2>2. {c \in Patterns(i) : PathMatchesPattern(p, c)} = Fitting(fields, pushed[i].path, p)
    BY <2>1, FittingType
  <2>3. i \in about <=> Fitting(fields, pushed[i].path, p) # {}
    BY <2>2
  <2> QED
    BY <2>1, <2>2, <2>3 DEF Matching
<1>5. about \in SUBSET DOMAIN pushed
  OBVIOUS
<1>6. SaysLast(fields, list, n, e)
  <2>1. e = AllMerged(fields, list)
    BY DEF Effective, AllMerged, NoField
  <2>2. DOMAIN list = 1..n
    BY <1>2
  <2> HIDE DEF e, list, n
  <2> QED
    BY <1>2, <2>1, <2>2, MergedSaysLast
<1>7. \A q \in DOMAIN fields : \A a :
         a \in DOMAIN fields[q].says <=> \E i \in 1..N : pushed[i].path = q /\ a \in DOMAIN pushed[i].says
  BY DEF Tells
<1> HIDE DEF e, about, list, M, n, N
<1>8. \A a : a \in DOMAIN e.says <=> \E i \in about : a \in DOMAIN pushed[i].says
  <2> SUFFICES ASSUME NEW a
               PROVE  a \in DOMAIN e.says <=> \E i \in about : a \in DOMAIN pushed[i].says
    OBVIOUS
  <2>1. ASSUME a \in DOMAIN e.says PROVE \E i \in about : a \in DOMAIN pushed[i].says
    <3>1. PICK k \in 1..n : a \in DOMAIN fields[list[k]].says
      BY <1>6, <2>1 DEF SaysLast
    <3>2. list[k] \in M /\ list[k] \in DOMAIN fields
      BY <1>2, <1>3
    <3>3. PICK i \in 1..N : pushed[i].path = list[k] /\ a \in DOMAIN pushed[i].says
      BY <1>7, <3>1, <3>2
    <3> QED
      BY <1>1, <1>4, <3>2, <3>3
  <2>2. ASSUME NEW i \in about, a \in DOMAIN pushed[i].says PROVE a \in DOMAIN e.says
    <3>1. i \in 1..N /\ pushed[i].path \in M /\ pushed[i].path \in DOMAIN fields
      BY <1>1, <1>4, <1>5
    <3>2. a \in DOMAIN fields[pushed[i].path].says
      BY <1>7, <2>2, <3>1
    <3>3. PICK k \in 1..n : list[k] = pushed[i].path
      BY <1>2, <3>1
    <3>4. \E j \in 1..n : a \in DOMAIN fields[list[j]].says
      BY <3>2, <3>3
    <3> QED
      BY <1>6, <3>4 DEF SaysLast
  <2> QED
    BY <2>1, <2>2
<1>9. ASSUME NEW a \in DOMAIN e.says
      PROVE  \E i \in {j \in about : a \in DOMAIN pushed[j].says} :
                /\ e.says[a] = pushed[i].says[a]
                /\ ~ \E j \in {k \in about : a \in DOMAIN pushed[k].says} : MoreToThePoint(i, j, p)
  <2>1. PICK k \in 1..n :
           /\ a \in DOMAIN fields[list[k]].says
           /\ e.says[a] = fields[list[k]].says[a]
           /\ \A l \in (k + 1)..n : a \notin DOMAIN fields[list[l]].says
    BY <1>6 DEF SaysLast
  <2> DEFINE q == list[k]
  <2>2. q \in M /\ q \in DOMAIN fields
    BY <1>2, <1>3
  <2> HIDE DEF q
  <2>3. PICK i \in 1..N :
           /\ pushed[i].path = q /\ a \in DOMAIN pushed[i].says
           /\ fields[q].says[a] = pushed[i].says[a]
           /\ \A j \in (i + 1)..N : pushed[j].path = q => a \notin DOMAIN pushed[j].says
    <3>1. a \in DOMAIN fields[q].says
      BY <2>1 DEF q
    <3> QED
      BY <2>2, <3>1 DEF Tells, N
  <2>4. i \in about
    BY <1>1, <1>4, <2>2, <2>3
  <2>5. ASSUME NEW j \in about, a \in DOMAIN pushed[j].says, MoreToThePoint(i, j, p)
        PROVE  FALSE
    <3> DEFINE r == pushed[j].path
    <3>1. j \in 1..N /\ r \in M /\ r \in DOMAIN fields
      BY <1>1, <1>4, <1>5
    <3>2. CASE r = q
      <4>1. i < j
        BY <2>3, <2>5, <3>2 DEF MoreToThePoint
      <4>2. j \in (i + 1)..N
        BY <1>1, <3>1, <4>1
      <4> QED
        BY <2>3, <2>5, <3>2, <4>2
    <3>3. CASE r # q
      <4>1. \E c \in {d \in Patterns(j) : PathMatchesPattern(p, d)} :
               \A d \in {b \in Patterns(i) : PathMatchesPattern(p, b)} :
                  ScoreBelow(MatchScore(d), MatchScore(c))
        BY <2>3, <2>5, <3>3 DEF MoreToThePoint
      <4>2. /\ {d \in Patterns(j) : PathMatchesPattern(p, d)} = Fitting(fields, r, p)
            /\ {b \in Patterns(i) : PathMatchesPattern(p, b)} = Fitting(fields, q, p)
        BY <1>1, <1>4, <2>3, <3>1
      <4>3. PICK c \in Fitting(fields, r, p) :
               \A d \in Fitting(fields, q, p) : ScoreBelow(MatchScore(d), MatchScore(c))
        BY <4>1, <4>2
      <4> HIDE DEF r
      <4>4. Earlier(fields, p, q, r)
        BY <2>2, <3>1, <4>3, BetterCandidate DEF M
      <4>5. PICK l \in 1..n : list[l] = r
        BY <1>2, <3>1
      <4>6. k < l
        BY <1>2, <4>4, <4>5 DEF q
      <4>7. l \in (k + 1)..n
        BY <1>2, <4>6
      <4>8. a \in DOMAIN fields[r].says
        BY <1>7, <2>5, <3>1 DEF r
      <4> QED
        BY <2>1, <4>5, <4>7, <4>8
    <3> QED
      BY <3>2, <3>3
  <2>6. e.says[a] = pushed[i].says[a]
    BY <2>1, <2>3 DEF q
  <2> QED
    BY <2>3, <2>4, <2>5, <2>6
<1>10. DOMAIN e.says = UNION {DOMAIN pushed[i].says : i \in about}
  BY <1>8
<1> QED
  BY <1>9, <1>10 DEF e, about

\* While a type is put together, what its metadata says of a path, attribute by
\* attribute, was declared by the most specific declaration that declares it, and of
\* those for one path by the last, in whatever order they were declared, in nested
\* types or beside them (normalize, matching_fields_for_path, effective_field_for).
THEOREM MostSpecific == MetadataSpec => []MostSpecificDecides
<1>1. TableInv /\ ToldInv => MostSpecificDecides
  <2> SUFFICES ASSUME TableInv, ToldInv, phase = "building"
               PROVE  MostSpecificDecides
    BY DEF MostSpecificDecides
  <2>1. IsTable(metadata.fields) /\ Tells(metadata.fields, pushed, Len(pushed))
        /\ pushed \in Seq(Range(pushed))
    BY DEF TableInv, ToldInv
  <2>2. \A p \in Probes : p \in Path
    BY MetadataAssumption DEF Path
  <2> QED
    BY <2>1, <2>2, DecidesForPath DEF MostSpecificDecides
<1> QED
  BY <1>1, TableInvariant, ToldInvariant, PTL
-----------------------------------------------------------------------------
(***************************************************************************)
(* The decoders that load() moves (canonicalize_env_decoder_paths).        *)
(***************************************************************************)
LEMMA FieldsOfEach ==
  ASSUME NEW fields, IsTable(fields)
  PROVE  /\ \A i \in DOMAIN FieldsOf(fields) :
               /\ FieldsOf(fields)[i].path \in DOMAIN fields
               /\ FieldsOf(fields)[i] = [path |-> FieldsOf(fields)[i].path,
                                         aliases |-> fields[FieldsOf(fields)[i].path].aliases,
                                         says |-> fields[FieldsOf(fields)[i].path].says]
         /\ \A q \in DOMAIN fields : \E i \in DOMAIN FieldsOf(fields) : FieldsOf(fields)[i].path = q
<1> DEFINE D == DOMAIN fields
           n == Cardinality(D)
<1>1. /\ n \in Nat /\ Sorted(D) \in [1..n -> D]
      /\ \A x \in D : \E i \in 1..n : Sorted(D)[i] = x
  BY SortedLists DEF IsTable
<1>2. /\ DOMAIN FieldsOf(fields) = 1..n
      /\ \A i \in 1..n : FieldsOf(fields)[i] = [path |-> Sorted(D)[i], aliases |-> fields[Sorted(D)[i]].aliases,
                                                says |-> fields[Sorted(D)[i]].says]
  BY <1>1 DEF FieldsOf
<1> HIDE DEF D, n
<1>3. \A i \in 1..n : Sorted(D)[i] \in D
  BY <1>1
<1>4. ASSUME NEW i \in DOMAIN FieldsOf(fields)
      PROVE  /\ FieldsOf(fields)[i].path \in D
             /\ FieldsOf(fields)[i] = [path |-> FieldsOf(fields)[i].path,
                                       aliases |-> fields[FieldsOf(fields)[i].path].aliases,
                                       says |-> fields[FieldsOf(fields)[i].path].says]
  <2>1. i \in 1..n /\ FieldsOf(fields)[i].path = Sorted(D)[i]
    BY <1>2
  <2> QED
    BY <1>2, <1>3, <2>1
<1>5. ASSUME NEW q \in D PROVE \E i \in DOMAIN FieldsOf(fields) : FieldsOf(fields)[i].path = q
  <2>1. PICK i \in 1..n : Sorted(D)[i] = q
    BY <1>1
  <2> QED
    BY <1>2, <2>1
<1> QED
  BY <1>4, <1>5 DEF D

\* A table with the same aliases, for the same paths, has the same overrides.
LEMMA SameOverrides ==
  ASSUME NEW fields, NEW kept, AliasesAccepted(kept), Mappings(fields) = Mappings(kept)
  PROVE  AliasOverrides(fields) = AliasOverrides(kept)
<1> DEFINE D == {m[1] : m \in Mappings(kept)}
<1>1. \A m \in Mappings(kept) : m = <<m[1], m[2]>>
  BY DEF Mappings
<1>2. ASSUME NEW a, NEW q, NEW r, <<a, q>> \in Mappings(kept), <<a, r>> \in Mappings(kept)
      PROVE  q = r
  <2> SUFFICES ASSUME q # r PROVE FALSE
    OBVIOUS
  <2>1. <<a, r>> \in Mappings(kept) \ {<<a, q>>}
    BY <1>2
  <2>2. <<a, r>>[1] # <<a, q>>[1]
    BY <1>2, <2>1 DEF AliasesAccepted
  <2> QED
    BY <2>2
<1>3. /\ AliasOverrides(fields) =
           [a \in D |-> CHOOSE q \in DOMAIN fields : <<a, q>> \in Mappings(kept)]
      /\ AliasOverrides(kept) =
           [a \in D |-> CHOOSE q \in DOMAIN kept : <<a, q>> \in Mappings(kept)]
  BY DEF AliasOverrides
<1>4. ASSUME NEW a \in D
      PROVE  (CHOOSE q \in DOMAIN fields : <<a, q>> \in Mappings(kept))
               = CHOOSE q \in DOMAIN kept : <<a, q>> \in Mappings(kept)
  <2>1. PICK m \in Mappings(kept) : a = m[1]
    OBVIOUS
  <2>2. <<a, m[2]>> \in Mappings(kept) /\ m[2] \in DOMAIN kept
    BY <1>1, <2>1 DEF Mappings
  <2>3. m[2] \in DOMAIN fields
    BY <2>2 DEF Mappings
  <2>4. (CHOOSE q \in DOMAIN fields : <<a, q>> \in Mappings(kept)) = m[2]
    BY <1>2, <2>2, <2>3
  <2>5. (CHOOSE q \in DOMAIN kept : <<a, q>> \in Mappings(kept)) = m[2]
    BY <1>2, <2>2
  <2> QED
    BY <2>4, <2>5
<1> HIDE DEF D
<1> QED
  BY <1>3, <1>4

\* What load() makes of the list s of the first n declarations: of the paths for which
\* only a decoder is declared, those the aliases lead to.
Solitary(s, n, q) ==
    \A k \in 1..n : s[k].path = q => s[k].aliases \subseteq {q} /\ DOMAIN s[k].says \subseteq {"env_decode"}

LEMMA SolitaryDecoder ==
  ASSUME NEW fields, NEW s, NEW n \in Nat, Tells(fields, s, n), NEW i \in 1..n,
         "env_decode" \in DOMAIN s[i].says
  PROVE  /\ s[i].path \in DOMAIN fields
         /\ "env_decode" \in DOMAIN fields[s[i].path].says
         /\ DecoderOnly(fields[s[i].path]) <=> Solitary(s, n, s[i].path)
<1> DEFINE q == s[i].path
<1>1. q \in DOMAIN fields
  BY DEF Tells
<1>2. \A c : c \in fields[q].aliases <=> c # q /\ \E k \in 1..n : s[k].path = q /\ c \in s[k].aliases
  BY <1>1 DEF Tells
<1>3. \A a : a \in DOMAIN fields[q].says <=> \E k \in 1..n : s[k].path = q /\ a \in DOMAIN s[k].says
  BY <1>1 DEF Tells
<1>4. "env_decode" \in DOMAIN fields[q].says
  BY <1>3
<1>5. ASSUME DecoderOnly(fields[q]) PROVE Solitary(s, n, q)
  <2>1. fields[q].aliases = {} /\ DOMAIN fields[q].says = {"env_decode"}
    BY <1>5 DEF DecoderOnly
  <2> QED
    BY <1>2, <1>3, <2>1 DEF Solitary
<1>6. ASSUME Solitary(s, n, q) PROVE DecoderOnly(fields[q])
  <2>1. fields[q].aliases = {}
    BY <1>2, <1>6 DEF Solitary
  <2>2. DOMAIN fields[q].says = {"env_decode"}
    BY <1>3, <1>4, <1>6 DEF Solitary
  <2> QED
    BY <2>1, <2>2 DEF DecoderOnly
<1> QED
  BY <1>1, <1>4, <1>5, <1>6
\* Where load() has the decoders among them, if place[i] is the place of the i-th.
Reached(moved, s, n, place, decoders) ==
    /\ \A i \in decoders :
          /\ place[i] \in DOMAIN moved
          /\ Says(moved[place[i]], "env_decode")
          /\ \E j \in decoders :
                /\ place[j] = place[i]
                /\ \A h \in decoders : s[h].path = s[j].path => h <= j
                /\ moved[place[i]].says["env_decode"] = s[j].says["env_decode"]
    /\ \A i, j \in decoders :
          /\ Solitary(s, n, s[i].path) /\ Solitary(s, n, s[j].path) /\ place[i] = place[j]
          => s[i].path = s[j].path

LEMMA MovedReach ==
  ASSUME NEW fields, IsTable(fields), NEW s, NEW n \in Nat, Tells(fields, s, n),
         DecodersAccepted(fields),
         NEW moved, moved = DecodersMoved(fields),
         NEW place,
         \A i \in 1..n :
            place[i] = IF Solitary(s, n, s[i].path) THEN WithAliases(s[i].path, AliasOverrides(moved))
                       ELSE s[i].path,
         NEW decoders, decoders = {i \in 1..n : "env_decode" \in DOMAIN s[i].says}
  PROVE  Reached(moved, s, n, place, decoders)
<1> DEFINE others == {q \in DOMAIN fields : ~ DecoderOnly(fields[q])}
           kept == [q \in others |-> fields[q]]
           aliases == AliasOverrides(kept)
           old == FieldsOf(fields)
           t == [l \in DOMAIN old |->
                   IF old[l].path \in others THEN old[l]
                   ELSE [old[l] EXCEPT !.path = WithAliases(@, aliases)]]
           k == Cardinality(DOMAIN fields)
<1>1. k \in Nat /\ DOMAIN t = 1..k /\ DOMAIN old = 1..k
  BY FieldsOfTable
<1>2. moved = AllAdded(<<>>, t)
  BY DEF DecodersMoved, Normalized, AllAdded
<1>3. ASSUME NEW l \in 1..k
      PROVE  /\ old[l].path \in DOMAIN fields
             /\ t[l].says = fields[old[l].path].says /\ t[l].aliases = fields[old[l].path].aliases
             /\ t[l].path = IF old[l].path \in others THEN old[l].path ELSE WithAliases(old[l].path, aliases)
  <2>1. /\ old[l].path \in DOMAIN fields
        /\ old[l] = [path |-> old[l].path, aliases |-> fields[old[l].path].aliases,
                     says |-> fields[old[l].path].says]
    BY <1>1, FieldsOfEach
  <2> HIDE DEF old, others, aliases
  <2>2. t[l] = IF old[l].path \in others THEN old[l] ELSE [old[l] EXCEPT !.path = WithAliases(@, aliases)]
    BY <1>1
  <2> HIDE DEF t
  <2> QED
    BY <2>1, <2>2
<1>4. \A q \in DOMAIN fields : \E l \in 1..k : old[l].path = q
  BY <1>1, FieldsOfEach
<1>5. AliasesAccepted(kept)
  BY DEF DecodersAccepted
<1>6. \A q, r \in DOMAIN fields \ others : WithAliases(q, aliases) = WithAliases(r, aliases) => q = r
  BY DEF DecodersAccepted
<1>7. \A q \in DOMAIN fields : q \notin others <=> DecoderOnly(fields[q])
  OBVIOUS
<1>8. DOMAIN kept = others /\ \A q \in others : q \in DOMAIN fields /\ kept[q] = fields[q]
  OBVIOUS
<1> HIDE DEF old, t, k, others, aliases
<1>9. Tells(moved, t, k)
  <2>1. Tells(<<>>, t, 0)
    BY DEF Tells
  <2>2. \A l \in 1..k : t[0 + l] = t[l]
    BY <1>1
  <2>3. Tells(AllAdded(<<>>, t), t, 0 + k)
    BY <1>1, <2>1, <2>2, TellsFold
  <2> QED
    BY <1>1, <1>2, <2>3
<1>10. ASSUME NEW c, NEW q
       PROVE  q \in DOMAIN moved /\ c \in moved[q].aliases <=> q \in others /\ c \in fields[q].aliases
  <2>1. ASSUME q \in DOMAIN moved, c \in moved[q].aliases
        PROVE  q \in others /\ c \in fields[q].aliases
    <3>1. PICK l \in 1..k : t[l].path = q /\ c \in t[l].aliases
      BY <1>9, <2>1 DEF Tells
    <3>2. c \in fields[old[l].path].aliases /\ old[l].path \in DOMAIN fields
      BY <1>3, <3>1
    <3>3. old[l].path \in others
      BY <1>7, <3>2 DEF DecoderOnly
    <3> QED
      BY <1>3, <3>1, <3>2, <3>3
  <2>2. ASSUME q \in others, c \in fields[q].aliases
        PROVE  q \in DOMAIN moved /\ c \in moved[q].aliases
    <3>1. PICK l \in 1..k : old[l].path = q
      BY <1>4, <1>8, <2>2
    <3>2. t[l].path = q /\ c \in t[l].aliases
      BY <1>3, <2>2, <3>1
    <3>3. c # q
      BY <1>8, <2>2 DEF Tells
    <3>4. q \in DOMAIN moved
      BY <1>9, <3>2 DEF Tells
    <3> QED
      BY <1>9, <3>2, <3>3, <3>4 DEF Tells
  <2> QED
    BY <2>1, <2>2
<1>11. Mappings(moved) = Mappings(kept)
  <2>1. \A f, m : m \in Mappings(f) <=> m = <<m[1], m[2]>> /\ m[2] \in DOMAIN f /\ m[1] \in f[m[2]].aliases
    <3> SUFFICES ASSUME NEW f, NEW m
                 PROVE  m \in Mappings(f) <=> m = <<m[1], m[2]>> /\ m[2] \in DOMAIN f /\ m[1] \in f[m[2]].aliases
      OBVIOUS
    <3> DEFINE A == UNION {f[q].aliases : q \in DOMAIN f}
    <3>1. m[2] \in DOMAIN f /\ m[1] \in f[m[2]].aliases => m[1] \in A
      OBVIOUS
    <3>2. m \in Mappings(f) <=> m \in A \X DOMAIN f /\ m[1] \in f[m[2]].aliases
      BY DEF Mappings
    <3> HIDE DEF A
    <3> QED
      BY <3>1, <3>2
  <2>2. \A m : m \in Mappings(moved) <=> m \in Mappings(kept)
    BY <1>8, <1>10, <2>1
  <2> QED
    BY <2>2 DEF Mappings
<1>12. AliasOverrides(moved) = aliases
  BY <1>5, <1>11, SameOverrides DEF aliases
<1>13. ASSUME NEW j \in decoders, NEW l \in 1..k, old[l].path = s[j].path
       PROVE  place[j] = t[l].path /\ "env_decode" \in DOMAIN t[l].says
  <2>1. /\ s[j].path \in DOMAIN fields
        /\ "env_decode" \in DOMAIN fields[s[j].path].says
        /\ DecoderOnly(fields[s[j].path]) <=> Solitary(s, n, s[j].path)
    BY SolitaryDecoder
  <2> QED
    BY <1>3, <1>7, <1>12, <1>13, <2>1
<1>14. ASSUME NEW i \in decoders
       PROVE  /\ place[i] \in DOMAIN moved
              /\ Says(moved[place[i]], "env_decode")
              /\ \E j \in decoders :
                    /\ place[j] = place[i]
                    /\ \A h \in decoders : s[h].path = s[j].path => h <= j
                    /\ moved[place[i]].says["env_decode"] = s[j].says["env_decode"]
  <2>1. s[i].path \in DOMAIN fields
    BY SolitaryDecoder
  <2>2. PICK l \in 1..k : old[l].path = s[i].path
    BY <1>4, <2>1
  <2>3. place[i] = t[l].path /\ "env_decode" \in DOMAIN t[l].says
    BY <1>13, <2>2
  <2>4. place[i] \in DOMAIN moved /\ "env_decode" \in DOMAIN moved[place[i]].says
    BY <1>9, <2>3 DEF Tells
  <2>5. PICK g \in 1..k :
           /\ t[g].path = place[i] /\ "env_decode" \in DOMAIN t[g].says
           /\ moved[place[i]].says["env_decode"] = t[g].says["env_decode"]
    BY <1>9, <2>4 DEF Tells
  <2>6. old[g].path \in DOMAIN fields /\ t[g].says = fields[old[g].path].says
    BY <1>3
  <2>7. PICK j \in 1..n :
           /\ s[j].path = old[g].path /\ "env_decode" \in DOMAIN s[j].says
           /\ fields[old[g].path].says["env_decode"] = s[j].says["env_decode"]
           /\ \A h \in (j + 1)..n : s[h].path = old[g].path => "env_decode" \notin DOMAIN s[h].says
    BY <2>5, <2>6 DEF Tells
  <2>8. j \in decoders
    BY <2>7
  <2>9. place[j] = place[i]
    BY <1>13, <2>5, <2>7, <2>8
  <2>10. ASSUME NEW h \in decoders, s[h].path = s[j].path PROVE h <= j
    <3>1. h \in 1..n /\ h \notin (j + 1)..n
      BY <2>7, <2>10
    <3> QED
      BY <3>1
  <2> QED
    BY <2>4, <2>5, <2>6, <2>7, <2>8, <2>9, <2>10 DEF Says
<1>15. ASSUME NEW i \in decoders, NEW j \in decoders,
              Solitary(s, n, s[i].path), Solitary(s, n, s[j].path), place[i] = place[j]
       PROVE  s[i].path = s[j].path
  <2>1. s[i].path \in DOMAIN fields \ others /\ s[j].path \in DOMAIN fields \ others
    BY <1>7, <1>15, SolitaryDecoder
  <2>2. WithAliases(s[i].path, aliases) = WithAliases(s[j].path, aliases)
    BY <1>12, <1>15
  <2> QED
    BY <1>6, <2>1, <2>2
<1> QED
  BY <1>14, <1>15 DEF Reached

\* A load keeps what it made of the table when it began.
LEMMA ReachStep ==
  ASSUME TableInv, ToldInv, DecodersReachTheirField, [MetadataNext]_mvars
  PROVE  DecodersReachTheirField'
<1>1. ASSUME NEW f \in FieldPool, Push(f) PROVE DecodersReachTheirField'
  BY <1>1 DEF Push, DecodersReachTheirField, Ready
<1>2. ASSUME NEW c \in CheckPool, PushCheck(c) PROVE DecodersReachTheirField'
  BY <1>2 DEF PushCheck, DecodersReachTheirField, Ready
<1>3. ASSUME NEW child \in Children, Extend(child) PROVE DecodersReachTheirField'
  BY <1>3 DEF Extend, DecodersReachTheirField, Ready
<1>4. ASSUME Prepare PROVE DecodersReachTheirField'
  <2> SUFFICES ASSUME phase' = "ready" PROVE DecodersReachTheirField'
    BY DEF DecodersReachTheirField, Ready
  <2> DEFINE fields == metadata.fields
             n == Len(pushed)
             moved == metadata'.fields
             place == [i \in 1..n |->
                         IF Solitary(pushed, n, pushed[i].path)
                           THEN WithAliases(pushed[i].path, AliasOverrides(moved)) ELSE pushed[i].path]
             decoders == {i \in 1..n : "env_decode" \in DOMAIN pushed[i].says}
  <2>1. DecodersAccepted(fields) /\ phase = "building" /\ pushed' = pushed
    BY <1>4 DEF Prepare
  <2>2. moved = DecodersMoved(fields)
    BY <1>4, <2>1 DEF Prepare, TableInv
  <2>3. IsTable(fields) /\ n \in Nat /\ DOMAIN pushed = 1..n /\ Tells(fields, pushed, n)
    BY <2>1, LenProperties DEF TableInv, ToldInv
  <2>4. \A i \in 1..n : DecoderAlone(i)' <=> Solitary(pushed, n, pushed[i].path)
    <3>1. \A i, k \in 1..n : pushed[k].path = pushed[i].path =>
             (pushed[k].aliases \subseteq {pushed[k].path} <=> pushed[k].aliases \subseteq {pushed[i].path})
      OBVIOUS
    <3> QED
      BY <2>1, <2>3, <3>1 DEF DecoderAlone, Solitary
  <2> HIDE DEF n, fields, moved
  <2>5. Reached(moved, pushed, n, place, decoders)
    <3> HIDE DEF place, decoders
    <3>1. \A i \in 1..n :
            place[i] = IF Solitary(pushed, n, pushed[i].path)
                         THEN WithAliases(pushed[i].path, AliasOverrides(moved)) ELSE pushed[i].path
      BY DEF place
    <3>2. decoders = {i \in 1..n : "env_decode" \in DOMAIN pushed[i].says}
      BY DEF decoders
    <3> QED
      BY <2>1, <2>2, <2>3, <3>1, <3>2, MovedReach
  <2>6. ASSUME NEW i \in 1..n
        PROVE  place[i] = IF DecoderAlone(i)' THEN WithAliases(pushed[i].path, AliasOverrides(moved))
                          ELSE pushed[i].path
    BY <2>4
  <2>7. Aliases' = AliasOverrides(moved)
    BY DEF Aliases, moved
  <2> DEFINE there == {i \in DOMAIN pushed' : "env_decode" \in DOMAIN pushed'[i].says}
             Place(i) == IF DecoderAlone(i)' THEN WithAliases(pushed'[i].path, Aliases')
                         ELSE pushed'[i].path
  <2>8. there = decoders /\ \A i \in decoders : i \in 1..n
    BY <2>1, <2>3
  <2>9. \A i \in 1..n : Place(i) = place[i]
    BY <2>1, <2>6, <2>7
  <2> HIDE DEF place, decoders
  <2>10. /\ \A i \in there :
               /\ Place(i) \in DOMAIN moved
               /\ Says(moved[Place(i)], "env_decode")
               /\ \E j \in there :
                     /\ Place(j) = Place(i)
                     /\ \A h \in there : pushed'[h].path = pushed'[j].path => h <= j
                     /\ moved[Place(i)].says["env_decode"] = pushed'[j].says["env_decode"]
         /\ \A i, j \in there :
               DecoderAlone(i)' /\ DecoderAlone(j)' /\ Place(i) = Place(j)
                  => pushed'[i].path = pushed'[j].path
    <3> HIDE DEF there, Place
    <3> QED
      BY <2>1, <2>4, <2>5, <2>8, <2>9 DEF Reached
  <2> QED
    BY <2>10 DEF DecodersReachTheirField, moved
<1>5. CASE UNCHANGED mvars
  <2>1. metadata' = metadata /\ pushed' = pushed /\ phase' = phase
    BY <1>5 DEF mvars
  <2>2. Aliases' = Aliases /\ Ready' = Ready /\ \A i : DecoderAlone(i)' = DecoderAlone(i)
    BY <2>1 DEF Aliases, Ready, DecoderAlone
  <2> QED
    BY <2>1, <2>2 DEF DecodersReachTheirField
<1> QED
  BY <1>1, <1>2, <1>3, <1>4, <1>5 DEF MetadataNext

\* Once a load begins every decoder is where the aliases lead from the path it was
\* registered for, whatever else is declared and in whatever order, and none is lost
\* to one registered for another path (canonicalize_env_decoder_paths).
THEOREM DecodersReach == MetadataSpec => []DecodersReachTheirField
<1>1. Init => DecodersReachTheirField
  BY DEF Init, DecodersReachTheirField, Ready
<1>2. TableInv /\ ToldInv /\ DecodersReachTheirField /\ [MetadataNext]_mvars => DecodersReachTheirField'
  BY ReachStep
<1> QED
  BY <1>1, <1>2, TableInvariant, ToldInvariant, PTL DEF MetadataSpec
-----------------------------------------------------------------------------
(***************************************************************************)
(* A type nested under a field (prefixed_metadata): what it has there.     *)
(***************************************************************************)
LEMMA AcceptedMapping ==
  ASSUME NEW fields, AliasesAccepted(fields), NEW q \in DOMAIN fields, NEW c \in fields[q].aliases
  PROVE  /\ c \in DOMAIN AliasOverrides(fields) /\ AliasOverrides(fields)[c] = q
         /\ AliasMappingIsLossless(c, q) /\ c # <<>> /\ q # <<>>
<1>1. <<c, q>> \in Mappings(fields)
  BY DEF Mappings
<1>2. AliasMappingIsLossless(<<c, q>>[1], <<c, q>>[2]) /\ <<c, q>>[1] # <<>> /\ <<c, q>>[2] # <<>>
  BY <1>1 DEF AliasesAccepted
<1>3. DOMAIN AliasOverrides(fields) = {m[1] : m \in Mappings(fields)}
  BY DEF AliasOverrides
<1>4. c \in DOMAIN AliasOverrides(fields)
  <2>1. <<c, q>>[1] = c
    OBVIOUS
  <2> QED
    BY <1>1, <1>3, <2>1
<1>5. AliasOverrides(fields)[c] = q
  <2> DEFINE r == AliasOverrides(fields)[c]
  <2>1. <<c, r>> \in Mappings(fields)
    BY <1>4, OverridesMap
  <2> HIDE DEF r
  <2> SUFFICES ASSUME r # q PROVE FALSE
    BY DEF r
  <2>2. <<c, r>> \in Mappings(fields) \ {<<c, q>>}
    BY <2>1
  <2>3. <<c, r>>[1] # <<c, q>>[1]
    BY <1>1, <2>2 DEF AliasesAccepted
  <2> QED
    BY <2>3
<1> QED
  BY <1>2, <1>4, <1>5

\* c is one of the aliases prefixed_metadata makes for the field of q.
NestedAlias(prefix, prefixAliases, fields, q, c) ==
    \/ \E a \in fields[q].aliases : c = prefix \o a
    \/ q = <<>> /\ c \in prefixAliases
    \/ q # <<>> /\ \E a \in prefixAliases, s \in Candidates(fields, q) : c = a \o s

\* nested is the table of a type with these fields under prefix.
Nests(prefix, prefixAliases, fields, nested) ==
    /\ prefix \in Path /\ prefixAliases \subseteq Path
    /\ IsTable(fields) /\ IsTable(nested)
    /\ DOMAIN nested = {prefix \o q : q \in DOMAIN fields}
    /\ \A q \in DOMAIN fields :
          /\ \A c : c \in nested[prefix \o q].aliases
                       <=> c # prefix \o q /\ NestedAlias(prefix, prefixAliases, fields, q, c)
          /\ DOMAIN nested[prefix \o q].says = DOMAIN fields[q].says
          /\ \A a \in DOMAIN fields[q].says : nested[prefix \o q].says[a] = fields[q].says[a]

LEMMA PrefixedNests ==
  ASSUME NEW prefix \in Path, prefix # <<>>, NEW prefixAliases \in SUBSET Path,
         NEW m, IsTable(m.fields)
  PROVE  Nests(prefix, prefixAliases, m.fields, Prefixed(prefix, prefixAliases, m).fields)
<1> DEFINE fields == m.fields
           old == FieldsOf(fields)
           Moved(f) == [f EXCEPT !.path = prefix \o @,
                                 !.aliases = PrefixedAliases(prefix, prefixAliases, f)]
           s == [i \in DOMAIN old |-> Moved(old[i])]
           n == Cardinality(DOMAIN fields)
           nested == Prefixed(prefix, prefixAliases, m).fields
<1>1. n \in Nat /\ DOMAIN s = 1..n /\ DOMAIN old = 1..n
  BY FieldsOfTable
<1>2. nested = AllAdded(<<>>, s)
  BY DEF Prefixed, Normalized, AllAdded
<1>3. IsTable(nested)
  BY PrefixedTable
<1>4. ASSUME NEW i \in 1..n
      PROVE  /\ old[i].path \in DOMAIN fields
             /\ s[i].path = prefix \o old[i].path
             /\ s[i].says = fields[old[i].path].says
             /\ \A c : c \in s[i].aliases
                         <=> NestedAlias(prefix, prefixAliases, fields, old[i].path, c)
  <2> DEFINE f == old[i]
             q == old[i].path
  <2>1. /\ q \in DOMAIN fields
        /\ f = [path |-> q, aliases |-> fields[q].aliases, says |-> fields[q].says]
    BY <1>1, FieldsOfEach
  <2>2. s[i] = Moved(f)
    BY <1>1
  <2> HIDE DEF f, s
  <2>3. /\ s[i].path = prefix \o q /\ s[i].says = fields[q].says
        /\ s[i].aliases = PrefixedAliases(prefix, prefixAliases, f)
    BY <2>1, <2>2
  <2> HIDE DEF q, fields
  <2>4. /\ f.path = q /\ f.aliases = fields[q].aliases
    BY <2>1
  <2>5. \A c : c \in PrefixedAliases(prefix, prefixAliases, f)
                 <=> NestedAlias(prefix, prefixAliases, fields, q, c)
    <3>1. CASE q = <<>>
      <4>1. PrefixedAliases(prefix, prefixAliases, f)
              = {prefix \o a : a \in fields[q].aliases} \cup prefixAliases
        BY <2>4, <3>1 DEF PrefixedAliases
      <4> QED
        BY <3>1, <4>1 DEF NestedAlias
    <3>2. CASE q # <<>>
      <4>1. PrefixedAliases(prefix, prefixAliases, f)
              = {prefix \o a : a \in fields[q].aliases}
                  \cup {a \o r : a \in prefixAliases, r \in Candidates(fields, q)}
        BY <2>4, <3>2 DEF PrefixedAliases, Candidates
      <4> DEFINE A == {prefix \o a : a \in fields[q].aliases}
                 B == {a \o r : a \in prefixAliases, r \in Candidates(fields, q)}
      <4>2. \A c : c \in B <=> \E a \in prefixAliases, r \in Candidates(fields, q) : c = a \o r
        OBVIOUS
      <4>3. \A c : c \in A <=> \E a \in fields[q].aliases : c = prefix \o a
        OBVIOUS
      <4>4. PrefixedAliases(prefix, prefixAliases, f) = A \cup B
        BY <4>1
      <4> HIDE DEF A, B
      <4>5. \A c : NestedAlias(prefix, prefixAliases, fields, q, c) <=> c \in A \/ c \in B
        BY <3>2, <4>2, <4>3 DEF NestedAlias
      <4> QED
        BY <4>4, <4>5
    <3> QED
      BY <3>1, <3>2
  <2> QED
    BY <2>1, <2>3, <2>5 DEF f, q, fields
<1>5. \A q \in DOMAIN fields : \E i \in 1..n : old[i].path = q
  BY <1>1, FieldsOfEach
<1>6. \A q \in DOMAIN fields : q \in Path
  BY DEF IsTable
<1> HIDE DEF fields, old, s, n, nested
<1>7. Tells(nested, s, n)
  <2>1. Tells(<<>>, s, 0)
    BY DEF Tells
  <2>2. \A i \in 1..n : s[0 + i] = s[i]
    BY <1>1
  <2>3. Tells(AllAdded(<<>>, s), s, 0 + n)
    BY <1>1, <2>1, <2>2, TellsFold
  <2> QED
    BY <1>1, <1>2, <2>3
<1>8. DOMAIN nested = {prefix \o q : q \in DOMAIN fields}
  <2>1. \A q \in DOMAIN nested : \E i \in 1..n : s[i].path = q
    BY <1>7 DEF Tells
  <2>2. \A i \in 1..n : s[i].path \in DOMAIN nested
    BY <1>7 DEF Tells
  <2>3. ASSUME NEW x \in DOMAIN nested PROVE \E q \in DOMAIN fields : x = prefix \o q
    BY ZenonT(30), <1>4, <2>1
  <2>4. ASSUME NEW q \in DOMAIN fields PROVE prefix \o q \in DOMAIN nested
    <3>1. PICK i \in 1..n : old[i].path = q
      BY <1>5
    <3>2. s[i].path = prefix \o q
      BY <1>4, <3>1
    <3> QED
      BY <2>2, <3>2
  <2> QED
    BY <2>3, <2>4
<1>9. ASSUME NEW q \in DOMAIN fields
      PROVE  /\ \A c : c \in nested[prefix \o q].aliases
                         <=> c # prefix \o q /\ NestedAlias(prefix, prefixAliases, fields, q, c)
             /\ DOMAIN nested[prefix \o q].says = DOMAIN fields[q].says
             /\ \A a \in DOMAIN fields[q].says : nested[prefix \o q].says[a] = fields[q].says[a]
  <2> DEFINE x == prefix \o q
  <2>1. \A i \in 1..n : s[i].path = x <=> old[i].path = q
    <3>1. \A r \in DOMAIN fields : prefix \o r = prefix \o q <=> r = q
      BY <1>6, Under
    <3> QED
      BY <1>4, <3>1
  <2>2. PICK k \in 1..n : old[k].path = q
    BY <1>5
  <2>3. x \in DOMAIN nested
    BY <1>8
  <2> HIDE DEF x
  <2>4. \A c : c \in nested[x].aliases <=> c # x /\ \E i \in 1..n : s[i].path = x /\ c \in s[i].aliases
    BY <1>7, <2>3 DEF Tells
  <2>5. \A c : (\E i \in 1..n : s[i].path = x /\ c \in s[i].aliases)
                  <=> NestedAlias(prefix, prefixAliases, fields, q, c)
    BY <1>4, <2>1, <2>2
  <2>6. \A a : a \in DOMAIN nested[x].says <=> \E i \in 1..n : s[i].path = x /\ a \in DOMAIN s[i].says
    BY <1>7, <2>3 DEF Tells
  <2>7. \A a : a \in DOMAIN nested[x].says <=> a \in DOMAIN fields[q].says
    BY <1>4, <2>1, <2>2, <2>6
  <2>8. ASSUME NEW a \in DOMAIN fields[q].says PROVE nested[x].says[a] = fields[q].says[a]
    <3>1. a \in DOMAIN nested[x].says
      BY <2>7
    <3>2. PICK i \in 1..n : s[i].path = x /\ nested[x].says[a] = s[i].says[a]
      BY <1>7, <2>3, <3>1 DEF Tells
    <3> QED
      BY <1>4, <2>1, <3>2
  <2> QED
    BY <2>4, <2>5, <2>7, <2>8 DEF x
<1> QED
  BY <1>3, <1>8, <1>9 DEF Nests, fields, nested

\* A prefix alias that fits the prefix and is as long and lossless is the prefix.
LEMMA SameHead ==
  ASSUME NEW a \in Path, NEW b \in Path, Len(a) = Len(b),
         \A i \in 1..Len(a) : Fits(b[i], a[i]) /\ (a[i] = Wild <=> b[i] = Wild)
  PROVE  a = b
<1>1. \A i \in 1..Len(a) : a[i] = b[i]
  BY DEF Fits
<1> QED
  BY <1>1, SeqEqual DEF Path

LEMMA NestedFitting ==
  ASSUME NEW prefix, NEW prefixAliases, NEW fields, NEW nested,
         Nests(prefix, prefixAliases, fields, nested), AliasesAccepted(nested),
         \A a \in prefixAliases : ~ Len(a) < Len(prefix),
         NEW p \in Path, NEW q \in DOMAIN fields
  PROVE  Fitting(nested, prefix \o q, prefix \o p) = {prefix \o c : c \in Fitting(fields, q, p)}
<1> DEFINE x == prefix \o q
           y == prefix \o p
           n == Len(prefix)
<1>1. /\ prefix \in Path /\ \A a \in prefixAliases : a \in Path
      /\ IsTable(fields) /\ IsTable(nested) /\ x \in DOMAIN nested
      /\ \A c : c \in nested[x].aliases
                  <=> c # x /\ NestedAlias(prefix, prefixAliases, fields, q, c)
  BY DEF Nests
<1>2. /\ q \in Path /\ \A a \in fields[q].aliases : a \in Path
      /\ \A s \in Candidates(fields, q) : s \in Path
  BY <1>1 DEF IsTable, Candidates
<1>3. /\ x \in Path /\ y \in Path
      /\ n \in Nat /\ Len(q) \in Nat /\ Len(p) \in Nat
      /\ Len(x) = n + Len(q) /\ Len(y) = n + Len(p)
      /\ \A i \in 1..n : x[i] = prefix[i] /\ y[i] = prefix[i]
  <2>1. /\ x \in Path /\ n \in Nat /\ Len(q) \in Nat /\ Len(x) = n + Len(q)
        /\ \A i \in 1..n : x[i] = prefix[i]
    BY <1>1, <1>2, UnderPoints
  <2>2. /\ y \in Path /\ Len(p) \in Nat /\ Len(y) = n + Len(p)
        /\ \A i \in 1..n : y[i] = prefix[i]
    BY <1>1, UnderPoints
  <2> QED
    BY <2>1, <2>2
<1>4. /\ Fitting(nested, x, y) = {c \in Candidates(nested, x) : PathMatchesPattern(y, c)}
      /\ Fitting(fields, q, p) = {c \in Candidates(fields, q) : PathMatchesPattern(p, c)}
  BY <1>1, <1>3, FittingType
<1>5. \A c \in Path : PathMatchesPattern(y, prefix \o c) <=> PathMatchesPattern(p, c)
  BY <1>1, Under
<1> HIDE DEF x, y, n
<1>6. ASSUME NEW c \in Candidates(fields, q) PROVE prefix \o c \in Candidates(nested, x)
  <2>1. CASE c = q
    BY <2>1 DEF Candidates, x
  <2>2. CASE c \in fields[q].aliases /\ prefix \o c # x
    BY <1>1, <2>2 DEF Candidates, NestedAlias
  <2>3. CASE prefix \o c = x
    BY <2>3 DEF Candidates
  <2> QED
    BY <2>1, <2>2, <2>3 DEF Candidates
<1>7. ASSUME NEW c \in Candidates(nested, x), PathMatchesPattern(y, c)
      PROVE  \E d \in Candidates(fields, q) : c = prefix \o d
  <2>1. CASE c = x
    BY <2>1 DEF x, Candidates
  <2>2. CASE c \in nested[x].aliases
    <3>1. c # x /\ NestedAlias(prefix, prefixAliases, fields, q, c)
      BY <1>1, <2>2
    <3>2. c \in Path /\ DOMAIN c = 1..Len(c) /\ Len(c) \in Nat
      BY <1>1, <2>2, LenProperties DEF IsTable, Path
    <3>3. Len(x) >= Len(c) /\ \A i \in 1..Len(c) : c[i] = Wild <=> x[i] = Wild
      BY <1>1, <2>2, <3>2, AcceptedMapping DEF AliasMappingIsLossless
    <3>4. Len(c) = Len(y) /\ \A i \in 1..Len(c) : Fits(y[i], c[i])
      <4>1. DOMAIN y = 1..Len(y)
        BY <1>3, LenProperties DEF Path
      <4> QED
        BY <1>7, <4>1 DEF PathMatchesPattern
    <3>5. CASE \E a \in fields[q].aliases : c = prefix \o a
      BY <3>5 DEF Candidates
    <3>6. CASE q = <<>> /\ c \in prefixAliases
      <4>1. x = prefix /\ Len(q) = 0
        BY <1>1, <3>6, ConcatEmptySeq DEF x, Path
      <4>2. Len(c) = n
        <5>1. ~ Len(c) < n
          BY <3>6 DEF n
        <5> QED
          <6>1. Len(x) = n /\ Len(x) >= Len(c)
            BY <1>3, <3>3, <4>1
          <6>2. n \in Nat /\ Len(c) \in Nat
            BY <1>3, <3>2
          <6> QED
            BY <5>1, <6>1, <6>2
      <4>3. c = prefix
        <5>1. \A i \in 1..Len(c) : Fits(prefix[i], c[i]) /\ (c[i] = Wild <=> prefix[i] = Wild)
          BY <1>3, <3>3, <3>4, <4>2
        <5> QED
          BY <1>1, <3>2, <4>2, <5>1, SameHead DEF n
      <4> QED
        BY <3>1, <4>1, <4>3
    <3>7. CASE q # <<>> /\ \E a \in prefixAliases, s \in Candidates(fields, q) : c = a \o s
      <4>1. PICK a \in prefixAliases, s \in Candidates(fields, q) : c = a \o s
        BY <3>7
      <4>2. /\ a \in Path /\ s \in Path /\ Len(a) \in Nat /\ Len(s) \in Nat
            /\ Len(c) = Len(a) + Len(s)
            /\ \A i \in 1..Len(a) : c[i] = a[i]
        BY <1>1, <1>2, <4>1, UnderPoints
      <4>3. ~ Len(a) < n
        BY <4>1 DEF n
      <4>4. Len(a) <= n
        <5> DEFINE d == a \o q
        <5>1. d \in Path /\ Len(d) = Len(a) + Len(q)
          BY <1>2, <4>2, UnderPoints
        <5>2. CASE d = x
          BY <1>3, <4>2, <5>1, <5>2
        <5>3. CASE d # x
          <6>1. q \in Candidates(fields, q)
            BY DEF Candidates
          <6>2. NestedAlias(prefix, prefixAliases, fields, q, d)
            BY <3>7, <4>1, <6>1 DEF NestedAlias
          <6> HIDE DEF d
          <6>3. d \in nested[x].aliases
            BY <1>1, <5>3, <6>2
          <6>4. Len(x) >= Len(d)
            BY <1>1, <6>3, AcceptedMapping DEF AliasMappingIsLossless
          <6> QED
            BY <1>3, <4>2, <5>1, <6>4
        <5> QED
          BY <5>2, <5>3
      <4>5. Len(a) = n
        BY <1>3, <4>2, <4>3, <4>4
      <4>6. \A i \in 1..Len(a) : i \in 1..Len(c) /\ i \in 1..n
        BY <4>2, <4>5
      <4>7. a = prefix
        <5>1. \A i \in 1..Len(a) : Fits(prefix[i], a[i]) /\ (a[i] = Wild <=> prefix[i] = Wild)
          BY <1>3, <3>3, <3>4, <4>2, <4>6
        <5> QED
          BY <1>1, <4>2, <4>5, <5>1, SameHead DEF n
      <4> QED
        BY <4>1, <4>7
    <3> QED
      BY <3>1, <3>5, <3>6, <3>7 DEF NestedAlias
  <2> QED
    BY <2>1, <2>2 DEF Candidates
<1>8. \A c : c \in Fitting(nested, x, y) <=> \E d \in Fitting(fields, q, p) : c = prefix \o d
  BY <1>2, <1>4, <1>5, <1>6, <1>7
<1> QED
  BY <1>8 DEF x, y

\* The scores of the fields of a nested type are those of the same candidates.
LEMMA NestedScore ==
  ASSUME NEW prefix, NEW prefixAliases, NEW fields, NEW nested,
         Nests(prefix, prefixAliases, fields, nested), AliasesAccepted(nested),
         \A a \in prefixAliases : ~ Len(a) < Len(prefix),
         NEW p \in Path, NEW q \in DOMAIN fields
  PROVE  /\ prefix \o q \in Matching(nested, prefix \o p) <=> q \in Matching(fields, p)
         /\ q \in Matching(fields, p) =>
              \E c \in Path :
                 /\ Len(c) = Len(p)
                 /\ Score(fields, q, p) = MatchScore(c)
                 /\ Score(nested, prefix \o q, prefix \o p) = MatchScore(prefix \o c)
<1> DEFINE x == prefix \o q
           y == prefix \o p
           F == Fitting(fields, q, p)
<1>1. /\ prefix \in Path /\ IsTable(fields) /\ IsTable(nested)
      /\ DOMAIN nested = {prefix \o r : r \in DOMAIN fields}
  BY DEF Nests
<1>2. x \in DOMAIN nested /\ y \in Path /\ Len(p) \in Nat
  BY <1>1, UnderPoints
<1>3. Fitting(nested, x, y) = {prefix \o c : c \in F}
  BY NestedFitting
<1>4. x \in Matching(nested, y) <=> q \in Matching(fields, p)
  BY <1>2, <1>3 DEF Matching
<1>5. \A c \in F : c \in Path /\ Len(c) = Len(p) /\ MatchScore(c) \in Scores(Len(p))
  <2>1. F = {c \in Candidates(fields, q) : PathMatchesPattern(p, c)}
    BY <1>1, FittingType
  <2>2. \A c \in Candidates(fields, q) : c \in Path
    BY <1>1 DEF IsTable, Candidates
  <2>3. \A c \in F : MatchScore(c) \in Scores(Len(p))
    BY <1>1, FittingType
  <2> QED
    BY <2>1, <2>2, <2>3 DEF PathMatchesPattern
<1> HIDE DEF x, y, F
<1>6. ASSUME q \in Matching(fields, p)
      PROVE  \E c \in Path :
                 /\ Len(c) = Len(p)
                 /\ Score(fields, q, p) = MatchScore(c)
                 /\ Score(nested, x, y) = MatchScore(prefix \o c)
  <2>1. PICK c \in F : /\ Score(fields, q, p) = MatchScore(c)
                       /\ \A d \in F : ~ ScoreBelow(MatchScore(c), MatchScore(d))
    BY <1>1, <1>6, ScoreIsBest DEF F
  <2>2. x \in Matching(nested, y)
    BY <1>4, <1>6
  <2>3. PICK d \in F : /\ Score(nested, x, y) = MatchScore(prefix \o d)
                       /\ ~ ScoreBelow(MatchScore(prefix \o d), MatchScore(prefix \o c))
    <3>1. PICK z \in Fitting(nested, x, y) :
             /\ Score(nested, x, y) = MatchScore(z)
             /\ \A t \in Fitting(nested, x, y) : ~ ScoreBelow(MatchScore(z), MatchScore(t))
      BY <1>1, <1>2, <2>2, ScoreIsBest
    <3>2. PICK d \in F : z = prefix \o d
      BY <1>3
    <3>3. prefix \o c \in Fitting(nested, x, y)
      BY <1>3
    <3> QED
      BY <3>1, <3>2, <3>3
  <2>4. ~ ScoreBelow(MatchScore(c), MatchScore(d))
    BY <2>1
  <2>5. /\ ~ ScoreBelow(MatchScore(d), MatchScore(c))
        /\ MatchScore(prefix \o c) = MatchScore(prefix \o d) <=> MatchScore(c) = MatchScore(d)
    BY <1>1, <1>5, <2>3, UnderScore
  <2>6. MatchScore(c) = MatchScore(d)
    BY <1>2, <1>5, <2>4, <2>5, ScoreTotal
  <2> QED
    BY <1>5, <2>1, <2>3, <2>5, <2>6
<1> QED
  BY <1>4, <1>6 DEF x, y

LEMMA NestedEarlier ==
  ASSUME NEW prefix, NEW prefixAliases, NEW fields, NEW nested,
         Nests(prefix, prefixAliases, fields, nested), AliasesAccepted(nested),
         \A a \in prefixAliases : ~ Len(a) < Len(prefix),
         NEW p \in Path, NEW q \in Matching(fields, p), NEW r \in Matching(fields, p)
  PROVE  Earlier(nested, prefix \o p, prefix \o q, prefix \o r) <=> Earlier(fields, p, q, r)
<1>1. prefix \in Path /\ q \in DOMAIN fields /\ r \in DOMAIN fields /\ q \in Path /\ r \in Path
  BY DEF Nests, Matching, IsTable
<1>2. PICK c \in Path : /\ Len(c) = Len(p) /\ Score(fields, q, p) = MatchScore(c)
                        /\ Score(nested, prefix \o q, prefix \o p) = MatchScore(prefix \o c)
  BY <1>1, NestedScore
<1>3. PICK d \in Path : /\ Len(d) = Len(p) /\ Score(fields, r, p) = MatchScore(d)
                        /\ Score(nested, prefix \o r, prefix \o p) = MatchScore(prefix \o d)
  BY <1>1, NestedScore
<1>4. /\ ScoreBelow(MatchScore(prefix \o c), MatchScore(prefix \o d))
            <=> ScoreBelow(MatchScore(c), MatchScore(d))
      /\ MatchScore(prefix \o c) = MatchScore(prefix \o d) <=> MatchScore(c) = MatchScore(d)
  BY <1>1, <1>2, <1>3, UnderScore
<1>5. Precedes(prefix \o q, prefix \o r) <=> Precedes(q, r)
  BY <1>1, UnderPrecedes
<1> QED
  BY <1>2, <1>3, <1>4, <1>5 DEF Earlier

\* No two fields are each earlier than the other.
LEMMA EarlierOneWay ==
  ASSUME NEW fields, IsTable(fields), NEW p \in Path,
         NEW q \in Matching(fields, p), NEW r \in Matching(fields, p),
         Earlier(fields, p, q, r), Earlier(fields, p, r, q)
  PROVE  FALSE
<1> DEFINE list == MatchingFields(fields, p)
           n == Cardinality(Matching(fields, p))
<1>1. /\ n \in Nat
      /\ \A x \in Matching(fields, p) : \E i \in 1..n : list[i] = x
      /\ \A i, j \in 1..n : i < j <=> Earlier(fields, p, list[i], list[j])
  BY MatchingLists
<1> HIDE DEF list, n
<1>2. PICK i \in 1..n, j \in 1..n : list[i] = q /\ list[j] = r
  BY <1>1
<1>3. i < j /\ j < i
  BY <1>1, <1>2
<1> QED
  BY <1>1, <1>3

\* Of each attribute the field that decides is the one listed last.
LEMMA EffectiveSays ==
  ASSUME NEW fields, IsTable(fields), NEW p \in Path
  PROVE  LET e == Effective(fields, p)
         IN  /\ e.says = [a \in DOMAIN e.says |-> e.says[a]]
             /\ \A a : a \in DOMAIN e.says
                         <=> \E q \in Matching(fields, p) : a \in DOMAIN fields[q].says
             /\ \A a \in DOMAIN e.says : \E q \in Matching(fields, p) :
                   /\ a \in DOMAIN fields[q].says /\ e.says[a] = fields[q].says[a]
                   /\ \A r \in Matching(fields, p) :
                         a \in DOMAIN fields[r].says => r = q \/ Earlier(fields, p, r, q)
<1> DEFINE e == Effective(fields, p)
           list == MatchingFields(fields, p)
           M == Matching(fields, p)
           n == Cardinality(M)
<1>1. /\ n \in Nat /\ list \in [1..n -> M]
      /\ \A x \in M : \E i \in 1..n : list[i] = x
      /\ \A i, j \in 1..n : i < j <=> Earlier(fields, p, list[i], list[j])
  BY MatchingLists
<1>2. e = AllMerged(fields, list)
  BY DEF Effective, AllMerged, NoField
<1> HIDE DEF list, n, e, M
<1>3. SaysLast(fields, list, n, e)
  BY <1>1, <1>2, MergedSaysLast
<1>4. e.says = [a \in DOMAIN e.says |-> e.says[a]]
  <2>1. PICK g : /\ g[{}] = NoField
                 /\ \A k \in 1..n : g[1..k] = MergeFrom(g[1..(k - 1)], fields[list[k]])
                 /\ e = g[1..n]
    BY <1>1, <1>2, MergeTurns
  <2>2. CASE n = 0
    <3>1. e = NoField
      BY <2>1, <2>2
    <3> QED
      BY <3>1 DEF NoField
  <2>3. CASE n # 0
    <3>1. n \in 1..n
      BY <1>1, <2>3
    <3>2. e = MergeFrom(g[1..(n - 1)], fields[list[n]])
      BY <2>1, <3>1
    <3> QED
      BY <3>2 DEF MergeFrom
  <2> QED
    BY <2>2, <2>3
<1>5. \A a : a \in DOMAIN e.says <=> \E q \in M : a \in DOMAIN fields[q].says
  BY <1>1, <1>3 DEF SaysLast
<1>6. ASSUME NEW a \in DOMAIN e.says
      PROVE  \E q \in M :
                /\ a \in DOMAIN fields[q].says /\ e.says[a] = fields[q].says[a]
                /\ \A r \in M : a \in DOMAIN fields[r].says => r = q \/ Earlier(fields, p, r, q)
  <2>1. PICK i \in 1..n : /\ a \in DOMAIN fields[list[i]].says
                          /\ e.says[a] = fields[list[i]].says[a]
                          /\ \A j \in (i + 1)..n : a \notin DOMAIN fields[list[j]].says
    BY <1>3 DEF SaysLast
  <2>2. ASSUME NEW r \in M, a \in DOMAIN fields[r].says
        PROVE  r = list[i] \/ Earlier(fields, p, r, list[i])
    <3>1. PICK j \in 1..n : list[j] = r
      BY <1>1
    <3>2. j \notin (i + 1)..n
      BY <2>1, <2>2, <3>1
    <3>3. j = i \/ j < i
      BY <1>1, <3>2
    <3> QED
      BY <1>1, <3>1, <3>3
  <2>3. list[i] \in M
    BY <1>1
  <2> QED
    BY <2>1, <2>2, <2>3
<1> QED
  BY <1>4, <1>5, <1>6 DEF e, M

\* Below its prefix a nested type says what it says by itself.
LEMMA NestedEffective ==
  ASSUME NEW prefix, NEW prefixAliases, NEW fields, NEW nested,
         Nests(prefix, prefixAliases, fields, nested), AliasesAccepted(nested),
         \A a \in prefixAliases : ~ Len(a) < Len(prefix),
         NEW p \in Path
  PROVE  Effective(nested, prefix \o p).says = Effective(fields, p).says
<1> DEFINE y == prefix \o p
           M == Matching(fields, p)
           N == Matching(nested, y)
           e == Effective(fields, p)
           f == Effective(nested, y)
<1>1. /\ prefix \in Path /\ y \in Path /\ IsTable(fields) /\ IsTable(nested)
      /\ DOMAIN nested = {prefix \o q : q \in DOMAIN fields}
      /\ \A q \in DOMAIN fields :
            /\ DOMAIN nested[prefix \o q].says = DOMAIN fields[q].says
            /\ \A a \in DOMAIN fields[q].says : nested[prefix \o q].says[a] = fields[q].says[a]
  BY UnderPoints DEF Nests
<1>2. /\ M \subseteq DOMAIN fields
      /\ \A x : x \in N <=> \E q \in M : x = prefix \o q
  <2>1. M \subseteq DOMAIN fields /\ N \subseteq DOMAIN nested
    BY DEF Matching
  <2>2. \A q \in DOMAIN fields : prefix \o q \in N <=> q \in M
    BY NestedScore
  <2> HIDE DEF M, N
  <2> QED
    BY <1>1, <2>1, <2>2
<1>3. \A q, r \in M : Earlier(nested, y, prefix \o q, prefix \o r) <=> Earlier(fields, p, q, r)
  BY NestedEarlier
<1>4. \A q, r \in M : ~ (Earlier(fields, p, q, r) /\ Earlier(fields, p, r, q))
  BY <1>1, EarlierOneWay
<1>5. /\ e.says = [a \in DOMAIN e.says |-> e.says[a]]
      /\ \A a : a \in DOMAIN e.says <=> \E q \in M : a \in DOMAIN fields[q].says
      /\ \A a \in DOMAIN e.says : \E q \in M :
            /\ a \in DOMAIN fields[q].says /\ e.says[a] = fields[q].says[a]
            /\ \A r \in M : a \in DOMAIN fields[r].says => r = q \/ Earlier(fields, p, r, q)
  BY <1>1, EffectiveSays
<1>6. /\ f.says = [a \in DOMAIN f.says |-> f.says[a]]
      /\ \A a : a \in DOMAIN f.says <=> \E x \in N : a \in DOMAIN nested[x].says
      /\ \A a \in DOMAIN f.says : \E x \in N :
            /\ a \in DOMAIN nested[x].says /\ f.says[a] = nested[x].says[a]
            /\ \A z \in N : a \in DOMAIN nested[z].says => z = x \/ Earlier(nested, y, z, x)
  BY <1>1, EffectiveSays
<1> HIDE DEF y, M, N, e, f
<1>7. DOMAIN f.says = DOMAIN e.says
  <2>1. \A q \in M : DOMAIN nested[prefix \o q].says = DOMAIN fields[q].says
    BY <1>1, <1>2
  <2>2. ASSUME NEW a PROVE (\E x \in N : a \in DOMAIN nested[x].says)
                              <=> \E q \in M : a \in DOMAIN fields[q].says
    BY <1>2, <2>1
  <2> QED
    BY <1>5, <1>6, <2>2
<1>8. ASSUME NEW a \in DOMAIN e.says PROVE f.says[a] = e.says[a]
  <2>1. PICK q \in M : /\ a \in DOMAIN fields[q].says /\ e.says[a] = fields[q].says[a]
                       /\ \A r \in M : a \in DOMAIN fields[r].says => r = q \/ Earlier(fields, p, r, q)
    BY <1>5
  <2>2. PICK x \in N : /\ a \in DOMAIN nested[x].says /\ f.says[a] = nested[x].says[a]
                       /\ \A z \in N : a \in DOMAIN nested[z].says => z = x \/ Earlier(nested, y, z, x)
    BY <1>6, <1>7
  <2>3. PICK r \in M : x = prefix \o r
    BY <1>2
  <2>4. a \in DOMAIN fields[r].says /\ f.says[a] = fields[r].says[a]
    BY <1>1, <1>2, <2>2, <2>3
  <2>5. r = q \/ Earlier(fields, p, r, q)
    BY <2>1, <2>4
  <2>6. prefix \o q \in N /\ a \in DOMAIN nested[prefix \o q].says
    BY <1>1, <1>2, <2>1
  <2>7. prefix \o q = prefix \o r \/ Earlier(fields, p, q, r)
    BY <1>3, <2>2, <2>3, <2>6
  <2>8. q \in Path /\ r \in Path
    BY <1>1, <1>2 DEF IsTable
  <2>9. q = r
    <3>1. prefix \o q = prefix \o r => q = r
      BY <1>1, <2>8, Under
    <3> QED
      BY <1>4, <2>5, <2>7, <3>1
  <2> QED
    BY <2>1, <2>4, <2>9
<1> QED
  BY <1>5, <1>6, <1>7, <1>8 DEF y, e, f

\* Every combination of a name of the prefix and a name of a field but that of the two
\* paths is an alias of the nested field.
LEMMA NestedCombines ==
  ASSUME NEW prefix, NEW prefixAliases, NEW fields, NEW nested,
         Nests(prefix, prefixAliases, fields, nested),
         AliasesAccepted(fields), AliasesAccepted(nested),
         NEW q \in DOMAIN fields, q # <<>>, NEW s \in Candidates(fields, q),
         NEW a \in prefixAliases \cup {prefix}, a # prefix \/ s # q
  PROVE  a \o s \in nested[prefix \o q].aliases
<1> DEFINE x == prefix \o q
           n == Len(prefix)
<1>1. /\ prefix \in Path /\ a \in Path /\ IsTable(fields) /\ x \in DOMAIN nested
      /\ \A c : c \in nested[x].aliases
                  <=> c # x /\ NestedAlias(prefix, prefixAliases, fields, q, c)
  BY DEF Nests
<1>2. q \in Path /\ s \in Path /\ q \in Candidates(fields, q)
  BY <1>1 DEF IsTable, Candidates
<1>3. /\ n \in Nat /\ Len(a) \in Nat /\ Len(q) \in Nat /\ Len(s) \in Nat
      /\ Len(x) = n + Len(q) /\ Len(a \o q) = Len(a) + Len(q) /\ Len(a \o s) = Len(a) + Len(s)
  BY <1>1, <1>2, UnderPoints
<1>4. ASSUME NEW t \in Path, a \o t = x, Len(a) = n PROVE a = prefix
  <2>1. /\ \A i \in 1..n : x[i] = prefix[i]
        /\ \A i \in 1..Len(a) : x[i] = a[i]
    BY <1>1, <1>2, <1>4, UnderPoints
  <2> QED
    BY <1>1, <1>4, <2>1, SeqEqual DEF Path
<1>5. CASE a = prefix
  <2>1. s # q /\ s \in fields[q].aliases
    BY <1>5 DEF Candidates
  <2>2. a \o s # x
    <3>1. prefix \o s = prefix \o q <=> s = q
      BY ZenonT(30), <1>1, <1>2, Under
    <3> QED
      BY <1>5, <2>1, <3>1
  <2> QED
    BY <1>1, <1>5, <2>1, <2>2 DEF NestedAlias
<1>6. CASE a # prefix
  <2> HIDE DEF x, n
  <2>1. a \in prefixAliases
    BY <1>6
  <2>2. a \o q # x
    <3>1. a \o q = x => Len(a) = n
      BY <1>3
    <3> QED
      BY <1>2, <1>4, <1>6, <3>1
  <2>3. a \o q \in nested[x].aliases
    BY <1>1, <1>2, <2>1, <2>2 DEF NestedAlias
  <2>4. Len(a \o q) <= Len(x)
    BY <1>1, <2>3, AcceptedMapping DEF AliasMappingIsLossless
  <2>5. Len(s) <= Len(q)
    <3>1. CASE s = q
      BY <1>3, <3>1
    <3>2. CASE s \in fields[q].aliases
      BY <3>2, AcceptedMapping DEF AliasMappingIsLossless
    <3> QED
      BY <3>1, <3>2 DEF Candidates
  <2>6. a \o s # x
    <3>1. a \o s = x => Len(a) = n
      BY <1>3, <2>4, <2>5
    <3> QED
      BY <1>2, <1>4, <1>6, <3>1
  <2> QED
    BY <1>1, <2>1, <2>6 DEF NestedAlias, x
<1> QED
  BY <1>5, <1>6

\* The aliases of the type by itself are aliases of the nested type, under the prefix.
LEMMA NestedOverrides ==
  ASSUME NEW prefix, NEW prefixAliases, NEW fields, NEW nested,
         Nests(prefix, prefixAliases, fields, nested),
         AliasesAccepted(fields), AliasesAccepted(nested),
         NEW b \in DOMAIN AliasOverrides(fields)
  PROVE  /\ prefix \o b \in DOMAIN AliasOverrides(nested)
         /\ AliasOverrides(nested)[prefix \o b] = prefix \o AliasOverrides(fields)[b]
<1> DEFINE r == AliasOverrides(fields)[b]
<1>1. r \in DOMAIN fields /\ b \in fields[r].aliases /\ <<b, r>> \in Mappings(fields)
  BY OverridesMap
<1> HIDE DEF r
<1>2. r # <<>> /\ b # r
  <2>1. <<b, r>>[1] \notin DOMAIN fields /\ <<b, r>>[2] # <<>>
    BY <1>1 DEF AliasesAccepted
  <2> QED
    BY <1>1, <2>1
<1>3. prefix \o b \in nested[prefix \o r].aliases
  BY <1>1, <1>2, NestedCombines DEF Candidates
<1>4. prefix \o r \in DOMAIN nested
  BY <1>1 DEF Nests
<1> QED
  BY <1>3, <1>4, AcceptedMapping DEF r

\* What a pattern fits overlaps it.
LEMMA FittingOverlaps ==
  ASSUME NEW p \in Path, NEW a \in Path, PathStartsWithPattern(p, a)
  PROVE  PathOverlapsPattern(p, a)
BY DEF PathStartsWithPattern, PathOverlapsPattern

\* Unless a path that one alias has rewritten may begin with another, the aliases that
\* fit a field of the nested type are those of the type by itself.
LEMMA NestedFits ==
  ASSUME NEW prefix, NEW prefixAliases, NEW fields, NEW nested,
         Nests(prefix, prefixAliases, fields, nested),
         AliasesAccepted(fields), AliasesAccepted(nested),
         ~ Chained(AliasOverrides(nested)),
         NEW q \in DOMAIN fields, q # <<>>,
         NEW z \in DOMAIN AliasOverrides(nested), PathStartsWithPattern(prefix \o q, z)
  PROVE  \E b \in DOMAIN AliasOverrides(fields) : z = prefix \o b
<1> DEFINE x == prefix \o q
           aliases == AliasOverrides(nested)
<1>1. /\ prefix \in Path /\ \A a \in prefixAliases : a \in Path
      /\ IsTable(fields) /\ IsTable(nested) /\ x \in DOMAIN nested
      /\ DOMAIN nested = {prefix \o r : r \in DOMAIN fields}
      /\ \A r \in DOMAIN fields : \A c :
            c \in nested[prefix \o r].aliases
              <=> c # prefix \o r /\ NestedAlias(prefix, prefixAliases, fields, r, c)
  BY DEF Nests
<1>2. aliases[z] \in DOMAIN nested /\ z \in nested[aliases[z]].aliases
  BY OverridesMap
<1>3. PICK r \in DOMAIN fields : aliases[z] = prefix \o r
  BY <1>1, <1>2
<1>4. z # prefix \o r /\ NestedAlias(prefix, prefixAliases, fields, r, z)
  BY <1>1, <1>2, <1>3
<1>5. z \in Path /\ x \in Path
  BY <1>1, <1>2 DEF IsTable
<1>6. q \in Candidates(fields, q)
  BY DEF Candidates
<1>7. ASSUME NEW a \in prefixAliases, a # prefix PROVE FALSE
  <2>1. a \o q \in nested[x].aliases
    BY <1>6, <1>7, NestedCombines
  <2>2. a \o q \in DOMAIN aliases /\ aliases[a \o q] = x
    BY <1>1, <2>1, AcceptedMapping
  <2>3. PathOverlapsPattern(x, z)
    BY <1>5, FittingOverlaps
  <2> QED
    BY <2>2, <2>3 DEF Chained
<1>8. CASE \E a \in fields[r].aliases : z = prefix \o a
  BY <1>8, AcceptedMapping
<1>9. CASE r = <<>> /\ z \in prefixAliases
  <2>1. prefix \o r = prefix
    BY <1>1, <1>9, ConcatEmptySeq DEF Path
  <2> QED
    BY <1>4, <1>7, <1>9, <2>1
<1>10. CASE r # <<>> /\ \E a \in prefixAliases, t \in Candidates(fields, r) : z = a \o t
  <2>1. PICK a \in prefixAliases, t \in Candidates(fields, r) : z = a \o t
    BY <1>10
  <2>2. a = prefix
    BY <1>7
  <2>3. t \in fields[r].aliases
    BY <1>4, <2>1, <2>2 DEF Candidates
  <2> QED
    BY <2>1, <2>2, <2>3, AcceptedMapping
<1> QED
  BY <1>4, <1>8, <1>9, <1>10 DEF NestedAlias

\* So a field of the nested type is led where the type by itself leads it.
LEMMA NestedField ==
  ASSUME NEW prefix, NEW prefixAliases, NEW fields, NEW nested,
         Nests(prefix, prefixAliases, fields, nested),
         AliasesAccepted(fields), AliasesAccepted(nested),
         ~ Chained(AliasOverrides(nested)),
         NEW q \in DOMAIN fields, q # <<>>
  PROVE  WithAliases(prefix \o q, AliasOverrides(nested))
           = prefix \o WithAliases(q, AliasOverrides(fields))
<1> DEFINE x == prefix \o q
           N == AliasOverrides(nested)
           F == AliasOverrides(fields)
<1>1. /\ prefix \in Path /\ q \in Path /\ x \in Path /\ IsTable(fields) /\ IsTable(nested)
  BY UnderPoints DEF Nests, IsTable
<1>2. /\ AliasTable(N, Range(Order)) /\ Lossless(N) /\ Unambiguous(N)
      /\ AliasTable(F, Range(Order)) /\ Lossless(F) /\ Unambiguous(F)
  BY <1>1, OverridesTable, AcceptedOverrides
<1>3. \A b \in DOMAIN F : /\ b \in Path /\ F[b] \in Path
                          /\ prefix \o b \in DOMAIN N /\ N[prefix \o b] = prefix \o F[b]
  <2>1. \A b \in DOMAIN F : b \in Path /\ F[b] \in Path
    BY <1>2 DEF AliasTable, Path
  <2> QED
    BY <2>1, NestedOverrides
<1>4. \A z \in DOMAIN N : PathStartsWithPattern(x, z) => \E b \in DOMAIN F : z = prefix \o b
  BY NestedFits
<1>5. \A b \in DOMAIN F : PathStartsWithPattern(x, prefix \o b) <=> PathStartsWithPattern(q, b)
  BY <1>1, <1>3, Under
<1>6. \A b, c \in DOMAIN F : Outranks(prefix \o b, prefix \o c) <=> Outranks(b, c)
  BY <1>1, <1>3, UnderOutranks
<1>7. x # <<>>
  <2>1. /\ Len(prefix) \in Nat /\ Len(q) \in Nat /\ Len(x) = Len(prefix) + Len(q) /\ DOMAIN q = 1..Len(q)
    BY <1>1, UnderPoints
  <2>2. Len(q) # 0
    BY <1>1, EmptySeq DEF Path
  <2>3. Len(x) # 0
    BY <2>1, <2>2
  <2> QED
    BY <1>1, <2>3, EmptySeq DEF Path
<1> HIDE DEF x, N, F
<1>8. CASE BestAliases(q, F) = {}
  <2>1. \A b \in DOMAIN F : PathStartsWithPattern(q, b) =>
           \E c \in DOMAIN F : PathStartsWithPattern(q, c) /\ Outranks(c, b)
    BY <1>8 DEF BestAliases
  <2>2. BestAliases(x, N) = {}
    <3> SUFFICES ASSUME NEW z \in BestAliases(x, N) PROVE FALSE
      OBVIOUS
    <3>1. /\ z \in DOMAIN N /\ PathStartsWithPattern(x, z)
          /\ \A y \in DOMAIN N : PathStartsWithPattern(x, y) => ~ Outranks(y, z)
      BY DEF BestAliases
    <3>2. PICK b \in DOMAIN F : z = prefix \o b
      BY <1>4, <3>1
    <3>3. PICK c \in DOMAIN F : PathStartsWithPattern(q, c) /\ Outranks(c, b)
      BY <1>5, <2>1, <3>1, <3>2
    <3> QED
      BY <1>3, <1>5, <1>6, <3>1, <3>2, <3>3
  <2>3. WithAliases(x, N) = x /\ WithAliases(q, F) = q
    BY <1>8, <2>2 DEF WithAliases
  <2> QED
    BY <2>3 DEF x, N, F
<1>9. ASSUME NEW b \in BestAliases(q, F)
      PROVE  WithAliases(x, N) = prefix \o WithAliases(q, F)
  <2>1. /\ b \in DOMAIN F /\ PathStartsWithPattern(q, b)
        /\ \A c \in DOMAIN F : PathStartsWithPattern(q, c) => ~ Outranks(c, b)
    BY DEF BestAliases
  <2>2. prefix \o b \in BestAliases(x, N)
    <3>1. ASSUME NEW z \in DOMAIN N, PathStartsWithPattern(x, z)
          PROVE  ~ Outranks(z, prefix \o b)
      <4>1. PICK c \in DOMAIN F : z = prefix \o c
        BY <1>4, <3>1
      <4>2. PathStartsWithPattern(q, c)
        BY <1>5, <3>1, <4>1
      <4> QED
        BY <1>6, <2>1, <4>1, <4>2
    <3>2. prefix \o b \in DOMAIN N /\ PathStartsWithPattern(x, prefix \o b)
      BY <1>3, <1>5, <2>1
    <3> QED
      BY <3>1, <3>2 DEF BestAliases
  <2>3. WithAliases(x, N) = RewriteAliasPath(x, prefix \o b, prefix \o F[b])
    BY <1>1, <1>2, <1>3, <1>7, <2>1, <2>2, AnyBestAlias
  <2>4. WithAliases(q, F) = RewriteAliasPath(q, b, F[b])
    BY <1>1, <1>2, AnyBestAlias
  <2>5. AliasMappingIsLossless(prefix \o b, prefix \o F[b])
    BY <1>2, <1>3, <2>1 DEF Lossless
  <2>6. RewriteAliasPath(x, prefix \o b, prefix \o F[b]) = prefix \o RewriteAliasPath(q, b, F[b])
    BY <1>1, <1>3, <2>1, <2>5, UnderRewrite DEF x
  <2> QED
    BY <2>3, <2>4, <2>6
<1> QED
  BY <1>8, <1>9 DEF x, N, F

\* Each name of the prefix with each name of a field is led to one place.
LEMMA NestedNames ==
  ASSUME NEW prefix, NEW prefixAliases, NEW fields, NEW nested,
         Nests(prefix, prefixAliases, fields, nested),
         AliasesAccepted(fields), AliasesAccepted(nested),
         ~ Chained(AliasOverrides(nested)),
         NEW q \in DOMAIN fields, q # <<>>, NEW s \in Candidates(fields, q),
         NEW a \in prefixAliases \cup {prefix}
  PROVE  WithAliases(a \o s, AliasOverrides(nested))
           = prefix \o WithAliases(s, AliasOverrides(fields))
<1> DEFINE x == prefix \o q
           N == AliasOverrides(nested)
           F == AliasOverrides(fields)
<1>1. prefix \in Path /\ q \in Path /\ IsTable(fields) /\ IsTable(nested) /\ x \in DOMAIN nested
  BY DEF Nests, IsTable
<1>2. /\ AliasTable(N, Range(Order)) /\ Lossless(N) /\ Unambiguous(N)
      /\ AliasTable(F, Range(Order)) /\ Lossless(F) /\ Unambiguous(F)
  BY <1>1, OverridesTable, AcceptedOverrides
<1>3. CASE a = prefix /\ s = q
  <2>1. WithAliases(prefix \o q, N) = prefix \o WithAliases(q, F)
    BY NestedField
  <2> QED
    BY <1>3, <2>1
<1>4. CASE a # prefix \/ s # q
  <2>1. a \o s \in nested[x].aliases
    BY <1>4, NestedCombines
  <2>2. a \o s \in DOMAIN N /\ N[a \o s] = x /\ a \o s # <<>>
    BY ZenonT(30), <1>1, <2>1, AcceptedMapping
  <2>3. WithAliases(a \o s, N) = x
    BY <1>2, <2>2, ExactAlias
  <2>4. CASE s = q
    <3>1. a # prefix
      BY <1>4, <2>4
    <3>2. BestAliases(q, F) = {}
      <4> SUFFICES ASSUME NEW b \in BestAliases(q, F) PROVE FALSE
        OBVIOUS
      <4>1. b \in DOMAIN F /\ PathStartsWithPattern(q, b) /\ b \in Path
        BY <1>2 DEF BestAliases, AliasTable, Path
      <4>2. prefix \o b \in DOMAIN N /\ prefix \o b \in Path /\ x \in Path
        BY <1>1, <4>1, NestedOverrides, UnderPoints
      <4>3. PathOverlapsPattern(x, prefix \o b)
        BY <1>1, <4>1, <4>2, Under, FittingOverlaps
      <4> QED
        BY <2>2, <4>2, <4>3 DEF Chained
    <3>3. WithAliases(q, F) = q
      BY <3>2 DEF WithAliases
    <3> QED
      BY <2>3, <2>4, <3>3
  <2>5. CASE s \in fields[q].aliases
    <3>1. s \in DOMAIN F /\ F[s] = q /\ s # <<>>
      BY <2>5, AcceptedMapping
    <3>2. WithAliases(s, F) = q
      BY <1>2, <3>1, ExactAlias
    <3> QED
      BY <2>3, <3>2
  <2> QED
    BY <2>4, <2>5 DEF Candidates
<1> QED
  BY <1>3, <1>4

\* A type nested under a field (prefixed_metadata) says of the paths below the field what
\* it says by itself, and every name of the field with every name below it leads to
\* one place.
THEOREM NestingKeeps == MetadataSpec => []NestingKeepsMeaning
<1>1. TableInv => NestingKeepsMeaning
  <2> SUFFICES ASSUME TableInv, NEW child \in Children
               PROVE  LET fields == metadata.fields
                          nested == Prefixed(child.prefix, child.prefixAliases, metadata).fields
                      IN  /\ phase = "building" /\ child.prefix # <<>>
                          /\ AliasesAccepted(fields) /\ AliasesAccepted(nested)
                          => /\ \A p \in Probes :
                                   \/ \E a \in child.prefixAliases : Len(a) < Len(child.prefix)
                                   \/ Effective(nested, child.prefix \o p).says = Effective(fields, p).says
                             /\ \A q \in DOMAIN fields \ {<<>>} : \A s \in Candidates(fields, q) :
                                  \A prefix \in child.prefixAliases \cup {child.prefix} :
                                     \/ Chained(AliasOverrides(nested))
                                     \/ WithAliases(prefix \o s, AliasOverrides(nested))
                                          = child.prefix \o WithAliases(s, Aliases)
    BY DEF NestingKeepsMeaning
  <2> DEFINE fields == metadata.fields
             nested == Prefixed(child.prefix, child.prefixAliases, metadata).fields
  <2>1. child.prefix \in Path /\ child.prefixAliases \in SUBSET Path /\ IsTable(fields)
    BY MetadataAssumption DEF TableInv, Path
  <2>2. \A p \in Probes : p \in Path
    BY MetadataAssumption DEF Path
  <2>3. ASSUME child.prefix # <<>>, AliasesAccepted(fields), AliasesAccepted(nested)
        PROVE  /\ \A p \in Probes :
                     \/ \E a \in child.prefixAliases : Len(a) < Len(child.prefix)
                     \/ Effective(nested, child.prefix \o p).says = Effective(fields, p).says
               /\ \A q \in DOMAIN fields \ {<<>>} : \A s \in Candidates(fields, q) :
                    \A prefix \in child.prefixAliases \cup {child.prefix} :
                       \/ Chained(AliasOverrides(nested))
                       \/ WithAliases(prefix \o s, AliasOverrides(nested))
                            = child.prefix \o WithAliases(s, AliasOverrides(fields))
    <3>1. Nests(child.prefix, child.prefixAliases, fields, nested)
      BY <2>1, <2>3, PrefixedNests
    <3> HIDE DEF fields, nested
    <3>2. ASSUME NEW p \in Probes, ~ \E a \in child.prefixAliases : Len(a) < Len(child.prefix)
          PROVE  Effective(nested, child.prefix \o p).says = Effective(fields, p).says
      BY <2>2, <2>3, <3>1, <3>2, NestedEffective
    <3>3. ASSUME NEW q \in DOMAIN fields \ {<<>>}, NEW s \in Candidates(fields, q),
                 NEW prefix \in child.prefixAliases \cup {child.prefix},
                 ~ Chained(AliasOverrides(nested))
          PROVE  WithAliases(prefix \o s, AliasOverrides(nested))
                   = child.prefix \o WithAliases(s, AliasOverrides(fields))
      BY <2>3, <3>1, <3>3, NestedNames
    <3> QED
      BY <3>2, <3>3
  <2> QED
    BY <2>3 DEF Aliases
<1> QED
  BY <1>1, TableInvariant, PTL
=============================================================================
