-------------------------- MODULE MigrationsProofs --------------------------
(***************************************************************************)
(* The upgrade of a configuration, whatever is registered and loaded: the  *)
(* report tells what was done, what no rule names is left alone, and with  *)
(* a version of its own for each rule no legacy path survives.             *)
(***************************************************************************)
EXTENDS Migrations, JsonTreeProofs

-----------------------------------------------------------------------------
(***************************************************************************)
(* What a report tells, step by step.                                      *)
(***************************************************************************)
IsHistory(v, steps, n, g) ==
    g = [i \in 0..n |-> IF i = 0 THEN v ELSE Reported(g[i - 1], steps[i])]

\* The recursive definition has a solution, for longer and longer reports.
LEMMA HistoryExists ==
  ASSUME NEW v, NEW steps, NEW n \in Nat
  PROVE  \E g : IsHistory(v, steps, n, g)
<1> DEFINE Bad == {k \in Nat : ~ \E g : IsHistory(v, steps, k, g)}
<1>1. ASSUME NEW k \in Nat, NEW g, IsHistory(v, steps, k, g)
      PROVE  \E h : IsHistory(v, steps, k + 1, h)
  <2> DEFINE h == [i \in 0..(k + 1) |-> IF i = k + 1 THEN Reported(g[k], steps[i]) ELSE g[i]]
             W(i) == IF i = 0 THEN v ELSE Reported(h[i - 1], steps[i])
  <2>1. ASSUME NEW i \in 0..(k + 1) PROVE h[i] = W(i)
    <3>1. CASE i = k + 1
      <4>1. i - 1 = k /\ i # 0 /\ k \in 0..(k + 1) /\ k # k + 1
        BY <3>1
      <4>2. h[k] = g[k]
        BY <4>1
      <4> QED
        BY <3>1, <4>1, <4>2
    <3>2. CASE i # k + 1
      <4>1. i \in 0..k
        BY <3>2
      <4>2. h[i] = g[i]
        BY <3>2
      <4>3. g[i] = IF i = 0 THEN v ELSE Reported(g[i - 1], steps[i])
        BY <1>1, <4>1 DEF IsHistory
      <4>4. i # 0 => i - 1 \in 0..(k + 1) /\ i - 1 # k + 1
        BY <4>1
      <4>5. i # 0 => h[i - 1] = g[i - 1]
        BY <4>4
      <4> QED
        BY <4>2, <4>3, <4>5
    <3> QED
      BY <3>1, <3>2
  <2>2. h = [i \in 0..(k + 1) |-> W(i)]
    BY <2>1
  <2> QED
    BY <2>2 DEF IsHistory
<1>2. \E g : IsHistory(v, steps, 0, g)
  <2> DEFINE g == [i \in 0..0 |-> v]
             W(i) == IF i = 0 THEN v ELSE Reported(g[i - 1], steps[i])
  <2>1. \A i \in 0..0 : i = 0
    OBVIOUS
  <2>2. g = [i \in 0..0 |-> W(i)]
    BY <2>1
  <2> QED
    BY <2>2 DEF IsHistory
<1>3. Bad \in SUBSET Nat
  OBVIOUS
<1>4. Bad = {}
  <2> SUFFICES ASSUME Bad # {} PROVE FALSE
    OBVIOUS
  <2>1. PICK m \in Bad : \A k \in Bad : m <= k
    BY <1>3, LeastOne
  <2>2. m # 0 /\ m \in Nat
    BY <1>2, <2>1
  <2>3. m - 1 \in Nat /\ m - 1 \notin Bad
    BY <2>1, <2>2
  <2>4. \E g : IsHistory(v, steps, m - 1, g)
    BY <2>3
  <2>5. \E h : IsHistory(v, steps, (m - 1) + 1, h)
    BY <1>1, <2>3, <2>4
  <2>6. (m - 1) + 1 = m
    BY <2>2
  <2> QED
    BY <2>1, <2>5, <2>6
<1> QED
  BY <1>4

LEMMA HistorySteps ==
  ASSUME NEW v, NEW S, NEW steps \in Seq(S)
  PROVE  /\ DOMAIN History(v, steps) = 0..Len(steps)
         /\ History(v, steps)[0] = v
         /\ \A i \in 1..Len(steps) :
               History(v, steps)[i] = Reported(History(v, steps)[i - 1], steps[i])
<1>1. Len(steps) \in Nat
  BY LenProperties
<1> DEFINE F(g) == [i \in 0..Len(steps) |-> IF i = 0 THEN v ELSE Reported(g[i - 1], steps[i])]
<1>2. \E g : IsHistory(v, steps, Len(steps), g)
  BY <1>1, HistoryExists
<1>3. \E g : g = F(g)
  <2>1. PICK g : IsHistory(v, steps, Len(steps), g)
    BY <1>2
  <2>2. g = F(g)
    BY <1>1, <2>1 DEF IsHistory
  <2> QED
    BY <2>2
<1>4. History(v, steps) = CHOOSE g : g = F(g)
  BY DEF History
<1> HIDE DEF F
<1>5. History(v, steps) = F(History(v, steps))
  BY <1>3, <1>4
<1> DEFINE w == History(v, steps)
<1>6. w = [i \in 0..Len(steps) |-> IF i = 0 THEN v ELSE Reported(w[i - 1], steps[i])]
  BY <1>5 DEF F
<1> HIDE DEF w
<1>7. DOMAIN w = 0..Len(steps)
      /\ \A i \in 0..Len(steps) : w[i] = IF i = 0 THEN v ELSE Reported(w[i - 1], steps[i])
  BY <1>6
<1> QED
  BY <1>1, <1>7 DEF w

\* A reported step more.
LEMMA HistoryAppend ==
  ASSUME NEW v, NEW S, NEW steps \in Seq(S), NEW m \in S
  PROVE  History(v, Append(steps, m))[Len(steps) + 1] = Reported(History(v, steps)[Len(steps)], m)
<1> DEFINE more == Append(steps, m)
           g == History(v, steps)
           h == History(v, more)
           n == Len(steps)
           Bad == {i \in 0..n : g[i] # h[i]}
<1>1. /\ n \in Nat /\ more \in Seq(S) /\ Len(more) = n + 1
      /\ \A i \in 1..n : more[i] = steps[i]
      /\ more[n + 1] = m
  BY LenProperties, AppendProperties
<1> HIDE DEF more
<1>2. g[0] = v /\ \A i \in 1..n : g[i] = Reported(g[i - 1], steps[i])
  BY HistorySteps
<1>3. h[0] = v /\ \A i \in 1..(n + 1) : h[i] = Reported(h[i - 1], more[i])
  BY <1>1, HistorySteps
<1> HIDE DEF g, h, n, more
<1>4. Bad \in SUBSET Nat
  BY <1>1
<1>5. Bad = {}
  <2> SUFFICES ASSUME Bad # {} PROVE FALSE
    OBVIOUS
  <2>1. PICK i \in Bad : \A k \in Bad : i <= k
    BY <1>4, LeastOne
  <2>2. i \in 1..n
    BY <1>1, <1>2, <1>3
  <2>3. i - 1 \in 0..n /\ i - 1 \notin Bad
    BY <1>1, <2>1, <2>2
  <2>4. g[i - 1] = h[i - 1]
    BY <2>3
  <2>5. more[i] = steps[i] /\ i \in 1..(n + 1)
    BY <1>1, <2>2
  <2>6. g[i] = h[i]
    BY <1>2, <1>3, <2>2, <2>4, <2>5
  <2> QED
    BY <2>1, <2>6
<1>6. h[n] = g[n]
  BY <1>1, <1>5
<1>7. h[n + 1] = Reported(h[(n + 1) - 1], more[n + 1])
  BY <1>1, <1>3
<1>8. (n + 1) - 1 = n
  BY <1>1
<1> QED
  BY <1>1, <1>6, <1>7, <1>8 DEF g, h, n, more

-----------------------------------------------------------------------------
(***************************************************************************)
(* Paths on one branch, and what an operation on one of them does to the   *)
(* values beside it.                                                       *)
(***************************************************************************)
LEMMA PlainPoints ==
  ASSUME NEW S, NEW p \in Seq(S)
  PROVE  /\ Plain(p) \in Seq(Written(S)) /\ Len(Plain(p)) = Len(p)
         /\ \A i \in 1..Len(p) : Plain(p)[i] = Norm(p[i])
<1> DEFINE n == Len(p)
           c == Plain(p)
<1>1. n \in Nat /\ DOMAIN p = 1..n /\ \A i \in 1..n : p[i] \in S
  BY LenProperties, ElementOfSeq
<1>2. c = [i \in 1..n |-> Norm(p[i])]
  BY <1>1 DEF Plain, Norm
<1>3. \A i \in 1..n : Norm(p[i]) \in Written(S)
  BY <1>1, NormFacts DEF Written
<1>4. c \in [1..n -> Written(S)]
  BY <1>2, <1>3
<1> HIDE DEF c
<1>5. c \in Seq(Written(S))
  BY <1>1, <1>4, SeqDef
<1>6. Len(c) = n
  BY <1>1, <1>4, <1>5, LenProperties
<1> QED
  BY <1>2, <1>5, <1>6 DEF c

\* They agree as long as both go on, or they part.
LEMMA OverlapPoints ==
  ASSUME NEW S, NEW p \in Seq(S), NEW R, NEW q \in Seq(R)
  PROVE  Overlap(p, q) <=>
            \A i \in 1..Len(p) : i <= Len(q) => Norm(p[i]) = Norm(q[i])
<1> DEFINE T == Written(S) \cup Written(R)
           a == Plain(p)
           b == Plain(q)
<1>1. Len(p) \in Nat /\ Len(q) \in Nat
  BY LenProperties
<1>2. /\ a \in Seq(Written(S)) /\ Len(a) = Len(p) /\ \A i \in 1..Len(p) : a[i] = Norm(p[i])
      /\ b \in Seq(Written(R)) /\ Len(b) = Len(q) /\ \A i \in 1..Len(q) : b[i] = Norm(q[i])
  BY PlainPoints
<1> HIDE DEF a, b
<1>3. a \in Seq(T) /\ b \in Seq(T)
  BY <1>2, SeqMonotonic
<1> HIDE DEF T
<1>4. IsPrefix(a, b) <=> Len(p) <= Len(q) /\ \A i \in 1..Len(p) : a[i] = b[i]
  BY <1>2, <1>3, PrefixPoints
<1>5. IsPrefix(b, a) <=> Len(q) <= Len(p) /\ \A i \in 1..Len(q) : a[i] = b[i]
  BY <1>2, <1>3, PrefixPoints
<1>6. Overlap(p, q) <=> IsPrefix(a, b) \/ IsPrefix(b, a)
  BY DEF Overlap, a, b
<1>7. CASE Len(p) <= Len(q)
  <2>1. \A i \in 1..Len(p) : i \in 1..Len(q)
    BY <1>1, <1>7
  <2>2. (\A i \in 1..Len(p) : a[i] = b[i]) <=> \A i \in 1..Len(p) : i <= Len(q) => Norm(p[i]) = Norm(q[i])
    BY <1>2, <2>1
  <2>3. IsPrefix(b, a) => \A i \in 1..Len(p) : a[i] = b[i]
    BY <1>1, <1>5, <1>7
  <2> QED
    BY <1>4, <1>6, <1>7, <2>2, <2>3
<1>8. CASE Len(q) < Len(p)
  <2>1. \A i \in 1..Len(q) : i \in 1..Len(p)
    BY <1>1, <1>8
  <2>2. \A i \in 1..Len(p) : i <= Len(q) => i \in 1..Len(q)
    BY <1>1
  <2>3. (\A i \in 1..Len(q) : a[i] = b[i]) <=> \A i \in 1..Len(p) : i <= Len(q) => Norm(p[i]) = Norm(q[i])
    BY <1>1, <1>2, <2>1, <2>2
  <2>4. Len(q) <= Len(p) /\ ~ (Len(p) <= Len(q))
    BY <1>1, <1>8
  <2> QED
    BY <1>4, <1>5, <1>6, <2>3, <2>4
<1> QED
  BY <1>1, <1>7, <1>8

LEMMA OverlapSymmetric ==
  ASSUME NEW p, NEW q
  PROVE  Overlap(p, q) <=> Overlap(q, p)
BY DEF Overlap

LEMMA AroundPoints ==
  ASSUME NEW S, NEW p \in Seq(S), p # <<>>
  PROVE  /\ Around(p) \in Seq(S)
         /\ Len(Around(p)) = IF IsIndex(p[Len(p)]) THEN Len(p) - 1 ELSE Len(p)
         /\ \A i \in 1..Len(Around(p)) : Around(p)[i] = p[i]
<1>1. Len(p) \in Nat \ {0}
  BY EmptySeq
<1> QED
  BY <1>1, FrontPoints DEF Around, Last

\* However their segments are written.
LEMMA Spelling ==
  ASSUME NEW S, NEW p \in Seq(S), NEW T, NEW c \in Seq(T), p # <<>>, Len(c) = Len(p),
         \A i \in 1..Len(p) : Norm(c[i]) = Norm(p[i]),
         NEW R, NEW q \in Seq(R)
  PROVE  /\ c # <<>>
         /\ IsIndex(Last(c)) <=> IsIndex(Last(p))
         /\ Overlap(q, c) <=> Overlap(q, p)
         /\ Overlap(q, Around(c)) <=> Overlap(q, Around(p))
<1>1. Len(p) \in Nat \ {0} /\ Len(q) \in Nat
  BY EmptySeq, LenProperties
<1>2. c # <<>>
  BY <1>1, EmptySeq
<1>3. IsIndex(Last(c)) <=> IsIndex(Last(p))
  <2>1. Norm(c[Len(p)]) = Norm(p[Len(p)])
    BY <1>1
  <2> QED
    BY <2>1, NormEqual DEF Last
<1>4. Overlap(q, c) <=> Overlap(q, p)
  <2>1. Overlap(q, c) <=> \A i \in 1..Len(q) : i <= Len(c) => Norm(q[i]) = Norm(c[i])
    BY OverlapPoints
  <2>2. Overlap(q, p) <=> \A i \in 1..Len(q) : i <= Len(p) => Norm(q[i]) = Norm(p[i])
    BY OverlapPoints
  <2>3. \A i \in 1..Len(q) : i <= Len(p) => Norm(c[i]) = Norm(p[i])
    BY <1>1
  <2> QED
    BY <2>1, <2>2, <2>3
<1>5. Overlap(q, Around(c)) <=> Overlap(q, Around(p))
  <2> DEFINE a == Around(c)
             b == Around(p)
  <2>1. a \in Seq(T) /\ Len(a) = (IF IsIndex(c[Len(c)]) THEN Len(c) - 1 ELSE Len(c))
        /\ \A i \in 1..Len(a) : a[i] = c[i]
    BY <1>2, AroundPoints
  <2>2. b \in Seq(S) /\ Len(b) = (IF IsIndex(p[Len(p)]) THEN Len(p) - 1 ELSE Len(p))
        /\ \A i \in 1..Len(b) : b[i] = p[i]
    BY AroundPoints
  <2> HIDE DEF a, b
  <2>3. Len(a) = Len(b) /\ Len(b) <= Len(p) /\ Len(b) \in Nat
    BY <1>1, <1>3, <2>1, <2>2 DEF Last
  <2>4. Overlap(q, a) <=> \A i \in 1..Len(q) : i <= Len(a) => Norm(q[i]) = Norm(a[i])
    BY <2>1, OverlapPoints
  <2>5. Overlap(q, b) <=> \A i \in 1..Len(q) : i <= Len(b) => Norm(q[i]) = Norm(b[i])
    BY <2>2, OverlapPoints
  <2>6. \A i \in 1..Len(q) : i <= Len(b) => Norm(a[i]) = Norm(b[i])
    BY <1>1, <2>1, <2>2, <2>3
  <2> QED
    BY <2>3, <2>4, <2>5, <2>6 DEF a, b
<1> QED
  BY <1>2, <1>3, <1>4, <1>5

\* Paths that are not on one branch part within the shorter one.
LEMMA Parted ==
  ASSUME NEW S, NEW p \in Seq(S), NEW R, NEW q \in Seq(R), ~ Overlap(q, p),
         NEW c
  PROVE  \E k \in 1..Len(p) :
            /\ k <= Len(q)
            /\ ~ Same(c[k], p[k], q[k])
            /\ \A i \in 1..(k - 1) : Same(c[i], p[i], q[i])
<1>1. Len(p) \in Nat /\ Len(q) \in Nat
  BY LenProperties
<1>2. PICK m \in 1..Len(q) : m <= Len(p) /\ Norm(q[m]) # Norm(p[m])
  BY OverlapPoints
<1>3. ~ Same(c[m], p[m], q[m])
  BY <1>2, SameNorm
<1>4. m \in Nat \ {0}
  BY <1>1
<1>5. PICK k \in 1..m : ~ Same(c[k], p[k], q[k]) /\ \A i \in 1..(k - 1) : Same(c[i], p[i], q[i])
  BY <1>3, <1>4, FirstApart
<1> QED
  BY <1>1, <1>2, <1>5

\* Beside what is taken, and the array it is taken from, nothing changes.
LEMMA PrunedBeside ==
  ASSUME NEW v, NEW S, NEW p \in Seq(S), p # <<>>, IsTree(v), Has(v, p),
         NEW R, NEW q \in Seq(R), ~ Overlap(q, Around(p))
  PROVE  GetAt(Without(v, p), q) = GetAt(v, q)
<1> DEFINE a == Around(p)
           c == Way(v, p)
<1>1. /\ a \in Seq(S) /\ Len(a) = (IF IsIndex(p[Len(p)]) THEN Len(p) - 1 ELSE Len(p))
      /\ \A i \in 1..Len(a) : a[i] = p[i]
  BY AroundPoints
<1>2. Len(p) \in Nat \ {0}
  BY EmptySeq
<1>3. ~ Overlap(q, a)
  OBVIOUS
<1> HIDE DEF a, c
<1>4. PICK k \in 1..Len(a) : /\ k <= Len(q) /\ ~ Same(c[k], a[k], q[k])
                             /\ \A i \in 1..(k - 1) : Same(c[i], a[i], q[i])
  BY <1>1, <1>3, Parted
<1>5. k \in 1..Len(p) /\ \A i \in 1..(k - 1) : i \in 1..Len(a)
  BY <1>1, <1>2
<1>6. ~ Same(c[k], p[k], q[k]) /\ \A i \in 1..(k - 1) : Same(c[i], p[i], q[i])
  BY <1>1, <1>4, <1>5
<1>7. k = Len(p) => c[k].kind = "object"
  <2>1. k = Len(p) => ~ IsIndex(p[Len(p)])
    BY <1>1, <1>2
  <2>2. Holds(c[k], p[k])
    BY <1>5, HeldOnTheWay DEF c, Way
  <2> QED
    BY <2>1, <2>2 DEF Holds
<1> QED
  BY <1>4, <1>5, <1>6, <1>7, PrunedApart DEF c

\* An element that an insertion at p made up at q.
MadeFor(v, new, p, q) ==
    /\ q # <<>> /\ IsIndex(Last(q)) /\ ~ Has(v, q)
    /\ GetAt(new, q) \in {Null, EmptyObject, Array(<<>>)}
    /\ IsStrictPrefix(Plain(Front(q)), Plain(p))

LEMMA FrontOnTheWay ==
  ASSUME NEW S, NEW p \in Seq(S), NEW R, NEW q \in Seq(R), q # <<>>, Len(q) <= Len(p),
         \A i \in 1..(Len(q) - 1) : Norm(p[i]) = Norm(q[i])
  PROVE  IsStrictPrefix(Plain(Front(q)), Plain(p))
<1> DEFINE T == Written(S) \cup Written(R)
           f == Front(q)
           a == Plain(f)
           b == Plain(p)
<1>1. Len(p) \in Nat /\ Len(q) \in Nat \ {0}
  BY EmptySeq, LenProperties
<1>2. f \in Seq(R) /\ Len(f) = Len(q) - 1 /\ \A i \in 1..(Len(q) - 1) : f[i] = q[i]
  BY FrontPoints
<1> HIDE DEF f
<1>3. /\ a \in Seq(Written(R)) /\ Len(a) = Len(f) /\ \A i \in 1..Len(f) : a[i] = Norm(f[i])
      /\ b \in Seq(Written(S)) /\ Len(b) = Len(p) /\ \A i \in 1..Len(p) : b[i] = Norm(p[i])
  BY <1>2, PlainPoints
<1> HIDE DEF a, b
<1>4. a \in Seq(T) /\ b \in Seq(T)
  BY <1>3, SeqMonotonic
<1> HIDE DEF T
<1>5. Len(a) < Len(b) /\ Len(a) <= Len(b)
  BY <1>1, <1>2, <1>3
<1>6. \A i \in 1..Len(a) : i \in 1..(Len(q) - 1) /\ i \in 1..Len(p)
  BY <1>1, <1>2, <1>3
<1>7. \A i \in 1..Len(a) : a[i] = b[i]
  BY <1>2, <1>3, <1>6
<1>8. IsPrefix(a, b)
  BY <1>4, <1>5, <1>7, PrefixPoints
<1>9. a # b
  BY <1>1, <1>2, <1>3, <1>5
<1> QED
  BY <1>8, <1>9 DEF IsStrictPrefix, a, b, f

\* Beside the new path nothing changes, but where an array has to grow.
LEMMA InsertedBeside ==
  ASSUME NEW v, NEW x, NEW S, NEW p \in Seq(S), p # <<>>, IsTree(v), IsValue(x),
         InsertPath(v, p, x) # Conflict, NEW R, NEW q \in Seq(R), ~ Overlap(q, p)
  PROVE  \/ GetAt(InsertPath(v, p, x), q) = GetAt(v, q)
         \/ MadeFor(v, InsertPath(v, p, x), p, q)
<1> DEFINE n == Len(p)
           c == Containers(v, p)
           g == Filled(c, p, x)
           new == InsertPath(v, p, x)
<1>1. n \in Nat \ {0} /\ Len(q) \in Nat
  BY EmptySeq, LenProperties
<1>2. Towers(c, p, g, n) /\ new = g[1]
  BY InsertTower
<1>3. PICK k \in 1..n : /\ k <= Len(q) /\ ~ Same(c[k], p[k], q[k])
                        /\ \A i \in 1..(k - 1) : Same(c[i], p[i], q[i])
  <2> HIDE DEF c
  <2> QED
    BY Parted
<1>4. /\ k \in Nat /\ k - 1 \in Nat /\ k - 1 <= Len(q) /\ k \in 1..Len(q) /\ k \in 0..Len(q)
      /\ \A i \in 1..(k - 1) : i \in 1..n
  BY <1>1, <1>3
<1>5. Walk(new, q)[k - 1] = g[k]
  <2> HIDE DEF c, g, n, new
  <2> QED
    BY <1>2, <1>3, <1>4, TowerWalk
<1> DEFINE o == Walk(v, q)[k - 1]
           b == Entry(v, p, k)
<1>6. GrownFrom(b, o, p, k)
  BY <1>3, <1>4, GrownAlong
<1>7. IsTree(b) /\ IsTree(c[k]) /\ c[k] = Widened(b, p, k)
  BY <1>3, EntryTrees
<1>8. Child(g[k], q[k]) = Child(c[k], q[k])
  <2>1. CASE k # n
    <3>1. k \in 1..(n - 1)
      BY <1>1, <1>3, <2>1
    <3> HIDE DEF c, g, n, new
    <3>2. Child(g[k], q[k]) = IF Same(c[k], p[k], q[k]) THEN g[k + 1] ELSE Child(c[k], q[k])
      BY <1>2, <3>1, TowerChild
    <3> QED
      BY <1>3, <3>2
  <2>2. CASE k = n
    <3>1. g[k] = Replace(c[k], p[k], x)
      BY <1>1, <2>2, FilledSteps
    <3>2. Holds(c[k], p[k])
      BY <1>2, <1>3 DEF Towers
    <3> HIDE DEF c, g, n
    <3> QED
      BY <1>3, <1>7, <3>1, <3>2, ReplaceFacts
  <2> QED
    BY <2>1, <2>2
<1>9. \/ Child(c[k], q[k]) = Child(o, q[k])
      \/ Child(o, q[k]) = Missing /\ IsIndex(q[k]) /\ Child(c[k], q[k]) = Filler(p, k)
  BY <1>6, <1>7, GrownChild
<1>10. Walk(new, q)[k] = Child(g[k], q[k]) /\ Walk(v, q)[k] = Child(o, q[k])
  BY <1>4, <1>5, WalkSteps
<1>11. CASE Child(c[k], q[k]) = Child(o, q[k])
  <2>1. Walk(new, q)[k] = Walk(v, q)[k]
    BY <1>8, <1>10, <1>11
  <2> HIDE DEF new
  <2>2. GetAt(new, q) = GetAt(v, q)
    BY <1>4, <2>1, WalksMeet
  <2> QED
    BY <2>2 DEF new
<1>12. CASE Child(o, q[k]) = Missing /\ IsIndex(q[k]) /\ Child(c[k], q[k]) = Filler(p, k)
  <2>1. Walk(v, q)[k] = Missing /\ Walk(new, q)[k] = Filler(p, k)
    BY <1>8, <1>10, <1>12
  <2>2. GetAt(v, q) = Missing
    BY <1>4, <2>1, MissingStays
  <2>3. CASE k = Len(q)
    <3>1. q # <<>> /\ IsIndex(Last(q))
      BY <1>1, <1>4, <1>12, <2>3, EmptySeq DEF Last
    <3>2. GetAt(new, q) \in {Null, EmptyObject, Array(<<>>)}
      BY <2>1, <2>3, FillerTree DEF GetAt
    <3>3. Len(q) <= Len(p) /\ \A i \in 1..(Len(q) - 1) : Norm(p[i]) = Norm(q[i])
      BY <1>1, <1>3, <2>3, SameNorm
    <3>4. IsStrictPrefix(Plain(Front(q)), Plain(p))
      BY <3>1, <3>3, FrontOnTheWay
    <3> QED
      BY <2>2, <3>1, <3>2, <3>4 DEF MadeFor, Has
  <2>4. CASE k # Len(q)
    <3>1. k + 1 \in 1..Len(q) /\ k + 1 \in 0..Len(q) /\ (k + 1) - 1 = k
      BY <1>1, <1>4, <2>4
    <3> HIDE DEF new
    <3>2. Walk(new, q)[k + 1] = Missing
      BY <2>1, <3>1, WalkSteps, FillerTree
    <3>3. GetAt(new, q) = Missing
      BY <3>1, <3>2, MissingStays
    <3> QED
      BY <2>2, <3>3 DEF new
  <2> QED
    BY <2>3, <2>4
<1> QED
  BY <1>9, <1>11, <1>12

-----------------------------------------------------------------------------
(***************************************************************************)
(* The report.                                                             *)
(***************************************************************************)
Steps == [kind : {"rename", "remove"}, from : Seq(Written(STRING)), to : Seq(Written(STRING)),
          fromVersion : Nat, toVersion : Nat]

ReportType ==
    /\ rules \in RuleLists
    /\ working \in Nat
    /\ report \in Seq(Steps)
    /\ outcome \in {"reading", "upgrading", "done", "InvalidConfigVersion",
                    "UnsupportedConfigVersion", "MetadataInvalid"}

\* What has been done to the values is what the report says.
ReportIsWhole ==
    /\ outcome = "reading" => merged = original /\ working = 0 /\ report = <<>>
    /\ outcome = "upgrading" =>
          merged = History(original, report)[Len(report)] /\ FoundVersion <= working
    /\ outcome = "done" =>
          merged = InsertPath(History(original, report)[Len(report)],
                              CanonicalPath(original, VersionPath), Number(Supported))

\* The versions of its steps, up to the working version.
ReportGoesUp ==
    /\ \A i \in 1..(Len(report) - 1) : report[i].toVersion <= report[i + 1].fromVersion
    /\ report # <<>> => /\ FoundVersion <= report[1].fromVersion
                        /\ report[Len(report)].toVersion <= working

ReportInv == ReportType /\ ReportIsWhole /\ ReportGoesUp

LEMMA RuleTypes ==
  ASSUME NEW r \in RuleLists, NEW i \in DOMAIN r
  PROVE  /\ r[i].since \in Nat
         /\ r[i].from \in Seq(STRING) /\ r[i].from # <<>>
         /\ r[i].kind = "rename" => r[i].to \in Seq(STRING) /\ r[i].to # <<>>
<1>1. /\ \A j \in DOMAIN r : r[j].since \in 0..MaxU32
      /\ Paths(r) \subseteq Seq(STRING) \ {<<>>}
  BY MigrationAssumption
<1>2. r[i].from \in Paths(r)
  BY DEF Paths
<1>3. r[i].kind = "rename" => r[i].to \in Paths(r)
  BY DEF Paths
<1> QED
  BY <1>1, <1>2, <1>3

\* A step more in the report.
LEMMA LongerReport ==
  ASSUME NEW rep \in Seq(Steps), NEW m \in Steps, NEW found \in Nat, NEW reached \in Nat,
         \A i \in 1..(Len(rep) - 1) : rep[i].toVersion <= rep[i + 1].fromVersion,
         rep # <<>> => found <= rep[1].fromVersion /\ rep[Len(rep)].toVersion <= reached,
         found <= reached, m.fromVersion = reached
  PROVE  LET more == Append(rep, m)
         IN  /\ more \in Seq(Steps) /\ more # <<>>
             /\ \A i \in 1..(Len(more) - 1) : more[i].toVersion <= more[i + 1].fromVersion
             /\ found <= more[1].fromVersion
             /\ more[Len(more)].toVersion = m.toVersion
<1> DEFINE more == Append(rep, m)
           n == Len(rep)
<1>1. /\ n \in Nat /\ more \in Seq(Steps) /\ more # <<>> /\ Len(more) = n + 1
      /\ \A i \in 1..n : more[i] = rep[i]
      /\ more[n + 1] = m
      /\ rep # <<>> <=> n # 0
  BY LenProperties, AppendProperties, EmptySeq
<1> HIDE DEF more
<1>2. \A i \in 1..(Len(more) - 1) : more[i].toVersion <= more[i + 1].fromVersion
  <2> SUFFICES ASSUME NEW i \in 1..n PROVE more[i].toVersion <= more[i + 1].fromVersion
    BY <1>1
  <2>1. CASE i = n
    BY <1>1, <2>1
  <2>2. CASE i # n
    <3>1. i \in 1..(n - 1) /\ i + 1 \in 1..n
      BY <1>1, <2>2
    <3> QED
      BY <1>1, <3>1
  <2> QED
    BY <2>1, <2>2
<1>3. found <= more[1].fromVersion
  <2>1. CASE n = 0
    BY <1>1, <2>1
  <2>2. CASE n # 0
    BY <1>1, <2>2
  <2> QED
    BY <2>1, <2>2
<1> QED
  BY <1>1, <1>2, <1>3 DEF more

LEMMA FoundType == FoundVersion \in Nat
BY DEF FoundVersion, IsU32

LEMMA InitReport == Init => ReportInv
<1> SUFFICES ASSUME Init PROVE ReportInv
  OBVIOUS
<1>1. report \in Seq(Steps) /\ Len(report) = 0
  BY EmptySeq DEF Init
<1> QED
  BY <1>1 DEF Init, ReportInv, ReportType, ReportIsWhole, ReportGoesUp

\* A reported step, whichever it is.
LEMMA ReportedStep ==
  ASSUME ReportInv, outcome = "upgrading", NEW i \in DOMAIN rules, working < rules[i].since,
         NEW m \in Steps, m.fromVersion = working, m.toVersion = rules[i].since,
         merged' = Reported(merged, m), report' = Append(report, m), working' = rules[i].since,
         UNCHANGED <<original, rules, outcome>>
  PROVE  ReportInv'
<1> USE DEF ReportInv
<1>1. FoundVersion' = FoundVersion
  BY DEF FoundVersion
<1>2. rules[i].since \in Nat
  BY RuleTypes DEF ReportType
<1>3. /\ report' \in Seq(Steps) /\ report' # <<>>
      /\ \A k \in 1..(Len(report') - 1) : report'[k].toVersion <= report'[k + 1].fromVersion
      /\ FoundVersion <= report'[1].fromVersion
      /\ report'[Len(report')].toVersion = m.toVersion
  BY FoundType, LongerReport DEF ReportType, ReportGoesUp, ReportIsWhole
<1>4. ReportType'
  BY <1>2, <1>3 DEF ReportType
<1>5. merged' = History(original', report')[Len(report')]
  <2>1. Len(report') = Len(report) + 1
    BY AppendProperties DEF ReportType
  <2>2. History(original, Append(report, m))[Len(report) + 1]
          = Reported(History(original, report)[Len(report)], m)
    BY HistoryAppend DEF ReportType
  <2> QED
    BY <2>1, <2>2 DEF ReportIsWhole
<1>6. ReportIsWhole'
  BY <1>1, <1>2, <1>5, FoundType DEF ReportIsWhole, ReportType
<1>7. ReportGoesUp'
  BY <1>1, <1>2, <1>3 DEF ReportGoesUp
<1> QED
  BY <1>4, <1>6, <1>7

LEMMA CanonicalType ==
  ASSUME NEW v, NEW p \in Seq(STRING)
  PROVE  CanonicalPath(v, p) \in Seq(Written(STRING))
BY CanonicalSegments

LEMMA ReportStep == ReportInv /\ [Next]_vars => ReportInv'
<1> SUFFICES ASSUME ReportInv, [Next]_vars PROVE ReportInv'
  OBVIOUS
<1> USE DEF ReportInv
<1>1. CASE ReadVersion
  <2> DEFINE found == GetAt(merged, CanonicalPath(merged, VersionPath))
  <2>1. /\ outcome = "reading" /\ merged = original /\ working = 0 /\ report = <<>>
        /\ UNCHANGED <<original, rules, merged, report>>
    BY <1>1 DEF ReadVersion, ReportIsWhole
  <2>2. found = GetAt(original, VersionPath)
    BY <2>1, CanonicalSegments, MigrationAssumption
  <2> HIDE DEF found
  <2>3. \/ found = Missing /\ outcome' = "upgrading" /\ working' = working
        \/ outcome' = "InvalidConfigVersion" /\ working' = working
        \/ /\ IsU32(found) /\ working' = found.number
           /\ outcome' \in {"UnsupportedConfigVersion", "upgrading"}
    BY <1>1 DEF ReadVersion, found
  <2>4. FoundVersion' = FoundVersion
    BY <2>1 DEF FoundVersion
  <2>5. FoundVersion = IF IsU32(found) THEN found.number ELSE 0
    BY <2>2 DEF FoundVersion
  <2>6. IsU32(found) => found.number \in Nat
    BY DEF IsU32
  <2>7. found = Missing => ~ IsU32(found)
    BY DEF IsU32, Missing
  <2>8. ReportType'
    BY <2>1, <2>3, <2>6 DEF ReportType
  <2>9. merged' = History(original', report')[Len(report')]
    <3>1. report \in Seq(Steps) /\ Len(report) = 0
      BY <2>1, EmptySeq
    <3> QED
      BY <2>1, <3>1, HistorySteps
  <2>10. outcome' # "done" /\ outcome' # "reading"
    BY <2>3
  <2>11. ReportIsWhole'
    BY <2>3, <2>4, <2>5, <2>6, <2>7, <2>9, <2>10, <2>1 DEF ReportIsWhole
  <2>12. ReportGoesUp'
    <3>1. Len(<<>>) = 0
      BY EmptySeq
    <3> QED
      BY <2>1, <3>1 DEF ReportGoesUp
  <2> QED
    BY <2>8, <2>11, <2>12
<1>2. ASSUME NEW i \in DOMAIN rules, ApplyRename(i) PROVE ReportInv'
  <2> DEFINE from == CanonicalPath(merged, rules[i].from)
             to == CanonicalPath(merged, rules[i].to)
             moved == InsertPath(Without(merged, from), to, GetAt(merged, from))
             m == AppliedMigration(rules[i], from, to)
  <2>1. outcome = "upgrading" /\ IsNext(i) /\ rules[i].kind = "rename" /\ UNCHANGED <<original, rules>>
    BY <1>2 DEF ApplyRename
  <2>2. CASE moved = Conflict
    <3>1. outcome' = "MetadataInvalid" /\ UNCHANGED <<merged, working, report>>
      BY <1>2, <2>2 DEF ApplyRename
    <3>2. FoundVersion' = FoundVersion
      BY <2>1 DEF FoundVersion
    <3> QED
      BY <2>1, <3>1, <3>2 DEF ReportType, ReportIsWhole, ReportGoesUp
  <2>3. CASE moved # Conflict
    <3>1. /\ merged' = moved /\ report' = Append(report, m)
          /\ working' = rules[i].since /\ outcome' = outcome
      BY <1>2, <2>3 DEF ApplyRename
    <3>2. from \in Seq(Written(STRING)) /\ to \in Seq(Written(STRING)) /\ rules[i].since \in Nat
      BY <2>1, RuleTypes, CanonicalType DEF ReportType
    <3>3. moved = Reported(merged, m)
      BY <2>1 DEF Reported, AppliedMigration
    <3> HIDE DEF from, to, moved
    <3>4. m \in Steps /\ m.fromVersion = working /\ m.toVersion = rules[i].since
      BY <2>1, <3>2 DEF Steps, AppliedMigration, ReportType
    <3> HIDE DEF m
    <3>5. working < rules[i].since
      BY <2>1 DEF IsNext, Due
    <3> QED
      BY <2>1, <3>1, <3>3, <3>4, <3>5, ReportedStep
  <2> QED
    BY <2>2, <2>3
<1>3. ASSUME NEW i \in DOMAIN rules, ApplyRemove(i) PROVE ReportInv'
  <2> DEFINE from == CanonicalPath(merged, rules[i].from)
             m == AppliedMigration(rules[i], from, <<>>)
  <2>1. /\ outcome = "upgrading" /\ IsNext(i) /\ rules[i].kind = "remove"
        /\ merged' = Without(merged, from) /\ report' = Append(report, m)
        /\ working' = rules[i].since /\ UNCHANGED <<original, rules, outcome>>
    BY <1>3 DEF ApplyRemove
  <2>2. from \in Seq(Written(STRING)) /\ <<>> \in Seq(Written(STRING)) /\ rules[i].since \in Nat
    BY RuleTypes, CanonicalType, EmptySeq DEF ReportType
  <2>3. merged' = Reported(merged, m)
    BY <2>1 DEF Reported, AppliedMigration
  <2> HIDE DEF from
  <2>4. m \in Steps /\ m.fromVersion = working /\ m.toVersion = rules[i].since
    BY <2>1, <2>2 DEF Steps, AppliedMigration, ReportType
  <2> HIDE DEF m
  <2>5. working < rules[i].since
    BY <2>1 DEF IsNext, Due
  <2> QED
    BY <2>1, <2>3, <2>4, <2>5, ReportedStep
<1>4. ASSUME NEW i \in DOMAIN rules, PassOver(i) PROVE ReportInv'
  <2>1. /\ outcome = "upgrading" /\ IsNext(i) /\ working' = rules[i].since
        /\ UNCHANGED <<original, rules, merged, report, outcome>>
    BY <1>4 DEF PassOver
  <2>2. working < rules[i].since /\ rules[i].since \in Nat
    BY <2>1, RuleTypes DEF IsNext, Due, ReportType
  <2>3. FoundVersion' = FoundVersion
    BY <2>1 DEF FoundVersion
  <2>4. report # <<>> => report[Len(report)].toVersion \in Nat
    <3>1. report # <<>> => Len(report) \in 1..Len(report)
      BY EmptySeq DEF ReportType
    <3>2. report # <<>> => report[Len(report)] \in Steps
      BY <3>1, ElementOfSeq DEF ReportType
    <3> QED
      BY <3>2 DEF Steps
  <2>5. ReportGoesUp'
    BY <2>1, <2>2, <2>3, <2>4 DEF ReportGoesUp, ReportType
  <2>6. ReportIsWhole'
    BY <2>1, <2>2, <2>3, FoundType DEF ReportIsWhole, ReportType
  <2> QED
    BY <2>1, <2>2, <2>5, <2>6 DEF ReportType
<1>5. CASE Stamp
  <2>1. /\ outcome = "upgrading" /\ UNCHANGED <<original, rules, working, report>>
        /\ \/ outcome' = "InvalidConfigVersion" /\ merged' = merged
           \/ /\ outcome' = "done"
              /\ merged' = InsertPath(merged, CanonicalPath(original, VersionPath), Number(Supported))
    BY <1>5 DEF Stamp
  <2>2. FoundVersion' = FoundVersion
    BY <2>1 DEF FoundVersion
  <2> QED
    BY <2>1, <2>2 DEF ReportType, ReportIsWhole, ReportGoesUp
<1>6. CASE UNCHANGED vars
  <2>1. FoundVersion' = FoundVersion
    BY <1>6 DEF FoundVersion, vars
  <2> QED
    BY <1>6, <2>1 DEF vars, ReportType, ReportIsWhole, ReportGoesUp
<1> QED
  BY <1>1, <1>2, <1>3, <1>4, <1>5, <1>6 DEF Next

LEMMA InductiveReport == Spec => []ReportInv
BY InitReport, ReportStep, PTL DEF Spec

\* The report is an audit trail, for any values, rules and versions: the steps
\* record_migration was told of, done one after the other to the values that were
\* loaded, give the upgraded values, and the versions of the steps go up from the
\* version the values carried (apply_config_migrations).
THEOREM ReportTells == Spec => []ReportTellsHistory
<1>1. ReportInv => ReportTellsHistory
  BY DEF ReportInv, ReportIsWhole, ReportGoesUp, ReportTellsHistory
<1> QED
  BY <1>1, InductiveReport, PTL

-----------------------------------------------------------------------------
(***************************************************************************)
(* What the steps do to the values, by the paths as they are registered.   *)
(***************************************************************************)
LEMMA SamePlain ==
  ASSUME NEW S, NEW p \in Seq(S), NEW T, NEW c \in Seq(T), Len(c) = Len(p),
         \A i \in 1..Len(p) : Norm(c[i]) = Norm(p[i])
  PROVE  Plain(c) = Plain(p)
<1> DEFINE W == Written(S) \cup Written(T)
           a == Plain(c)
           b == Plain(p)
<1>1. /\ a \in Seq(Written(T)) /\ Len(a) = Len(c) /\ \A i \in 1..Len(c) : a[i] = Norm(c[i])
      /\ b \in Seq(Written(S)) /\ Len(b) = Len(p) /\ \A i \in 1..Len(p) : b[i] = Norm(p[i])
  BY PlainPoints
<1> HIDE DEF a, b
<1>2. a \in Seq(W) /\ b \in Seq(W)
  BY <1>1, SeqMonotonic
<1> HIDE DEF W
<1>3. a = b
  BY <1>1, <1>2, SeqEqual
<1> QED
  BY <1>3 DEF a, b

LEMMA AroundWider ==
  ASSUME NEW S, NEW p \in Seq(S), p # <<>>, NEW R, NEW q \in Seq(R), Overlap(q, p)
  PROVE  Overlap(q, Around(p))
<1> DEFINE a == Around(p)
<1>1. a \in Seq(S) /\ Len(a) = (IF IsIndex(p[Len(p)]) THEN Len(p) - 1 ELSE Len(p))
      /\ \A i \in 1..Len(a) : a[i] = p[i]
  BY AroundPoints
<1> HIDE DEF a
<1>2. Len(p) \in Nat /\ Len(q) \in Nat /\ Len(a) \in Nat
  BY <1>1, LenProperties
<1>3. Len(a) <= Len(p)
  BY <1>1, <1>2
<1>4. \A i \in 1..Len(q) : i <= Len(p) => Norm(q[i]) = Norm(p[i])
  BY OverlapPoints
<1>5. \A i \in 1..Len(q) : i <= Len(a) => Norm(q[i]) = Norm(a[i])
  BY <1>1, <1>2, <1>3, <1>4
<1>6. Overlap(q, a)
  BY <1>1, <1>5, OverlapPoints
<1> QED
  BY <1>6 DEF a

LEMMA FrontOverlaps ==
  ASSUME NEW S, NEW p \in Seq(S), p # <<>>
  PROVE  Overlap(Front(p), p)
<1> DEFINE f == Front(p)
<1>1. f \in Seq(S) /\ Len(f) = Len(p) - 1 /\ \A i \in 1..(Len(p) - 1) : f[i] = p[i]
  BY FrontPoints
<1> HIDE DEF f
<1>2. \A i \in 1..Len(f) : i <= Len(p) => Norm(f[i]) = Norm(p[i])
  BY <1>1
<1>3. Overlap(f, p)
  BY <1>1, <1>2, OverlapPoints
<1> QED
  BY <1>3 DEF f

\* The value at path is taken: what is beside it stays, and where a key is taken
\* nothing comes to any path, and the path is gone.
LEMMA Taken ==
  ASSUME NEW v, IsTree(v), NEW path \in Seq(STRING), path # <<>>,
         Has(v, CanonicalPath(v, path)), NEW q \in Seq(STRING)
  PROVE  /\ IsTree(Without(v, CanonicalPath(v, path)))
         /\ IsValue(GetAt(v, CanonicalPath(v, path)))
         /\ ~ Overlap(q, Around(path)) => GetAt(Without(v, CanonicalPath(v, path)), q) = GetAt(v, q)
         /\ ~ IsIndex(Last(path)) =>
               /\ Has(Without(v, CanonicalPath(v, path)), q) => Has(v, q)
               /\ ~ Has(Without(v, CanonicalPath(v, path)), path)
<1> DEFINE c == CanonicalPath(v, path)
<1> DEFINE T == Written(STRING)
<1>1. c \in Seq(T) /\ Respelled(v, path, c)
  BY CanonicalSegments
<1>2. /\ c \in Seq(T) /\ Len(c) = Len(path)
      /\ \A i \in 1..Len(path) : Norm(c[i]) = Norm(path[i])
      /\ \A i \in 0..Len(path) : Walk(v, c)[i] = Walk(v, path)[i]
      /\ \A i \in 1..Len(path) : Walk(v, path)[i - 1].kind # "array" => c[i] = path[i]
  BY <1>1 DEF Respelled
<1>3. Has(v, c)
  OBVIOUS
<1> HIDE DEF c, T
<1>4. Len(path) \in Nat \ {0}
  BY EmptySeq
<1>5. /\ c # <<>>
      /\ IsIndex(Last(c)) <=> IsIndex(Last(path))
      /\ Overlap(q, Around(c)) <=> Overlap(q, Around(path))
  BY <1>2, Spelling
<1>6. IsTree(Without(v, c))
  BY <1>2, <1>3, <1>5, WithoutTree
<1>7. IsValue(GetAt(v, c))
  <2>1. Len(c) \in 0..Len(c)
    BY <1>2, <1>4
  <2> QED
    BY <1>2, <1>3, <2>1, WalkTrees DEF GetAt, IsValue, Has
<1>8. ~ Overlap(q, Around(path)) => GetAt(Without(v, c), q) = GetAt(v, q)
  BY <1>2, <1>3, <1>5, PrunedBeside
<1>9. ASSUME ~ IsIndex(Last(path)) PROVE Has(Without(v, c), q) => Has(v, q)
  BY <1>2, <1>3, <1>5, <1>9, PrunedKey
<1>10. ASSUME ~ IsIndex(Last(path)) PROVE ~ Has(Without(v, c), path)
  <2>1. \A i \in 1..Len(c) : Same(Way(v, c)[i], c[i], path[i])
    <3> SUFFICES ASSUME NEW i \in 1..Len(c) PROVE Same(Way(v, c)[i], c[i], path[i])
      OBVIOUS
    <3>1. i \in 1..Len(path) /\ i - 1 \in 0..Len(path)
      BY <1>2, <1>4
    <3>2. Way(v, c)[i] = Walk(v, path)[i - 1]
      BY <1>2, <3>1 DEF Way
    <3>3. Norm(c[i]) = Norm(path[i]) /\ (Way(v, c)[i].kind # "array" => c[i] = path[i])
      BY <1>2, <3>1, <3>2
    <3> QED
      BY <3>3 DEF Same
  <2>2. Len(c) <= Len(path)
    BY <1>2, <1>4
  <2> QED
    BY <1>2, <1>3, <1>5, <1>10, <2>1, <2>2, PrunedKey
<1> QED
  BY <1>6, <1>7, <1>8, <1>9, <1>10 DEF c

\* A value is put at path.
LEMMA Put ==
  ASSUME NEW u, IsTree(u), NEW x, IsValue(x), NEW v, NEW path \in Seq(STRING), path # <<>>,
         InsertPath(u, CanonicalPath(v, path), x) # Conflict, NEW q \in Seq(STRING)
  PROVE  /\ IsTree(InsertPath(u, CanonicalPath(v, path), x))
         /\ ~ Overlap(q, path) =>
               \/ GetAt(InsertPath(u, CanonicalPath(v, path), x), q) = GetAt(u, q)
               \/ MadeFor(u, InsertPath(u, CanonicalPath(v, path), x), path, q)
<1> DEFINE c == CanonicalPath(v, path)
           new == InsertPath(u, c, x)
<1> DEFINE T == Written(STRING)
<1>1. c \in Seq(T) /\ Respelled(v, path, c)
  BY CanonicalSegments
<1>2. /\ c \in Seq(T) /\ Len(c) = Len(path)
      /\ \A i \in 1..Len(path) : Norm(c[i]) = Norm(path[i])
  BY <1>1 DEF Respelled
<1>3. InsertPath(u, c, x) # Conflict
  OBVIOUS
<1> HIDE DEF c, T
<1>4. c # <<>> /\ (Overlap(q, c) <=> Overlap(q, path))
  BY <1>2, Spelling
<1>5. IsTree(new)
  BY <1>2, <1>3, <1>4, InsertTree DEF IsValue
<1>6. Plain(c) = Plain(path)
  BY <1>2, SamePlain
<1>7. ~ Overlap(q, path) => GetAt(new, q) = GetAt(u, q) \/ MadeFor(u, new, c, q)
  BY <1>2, <1>3, <1>4, InsertedBeside
<1>8. MadeFor(u, new, c, q) => MadeFor(u, new, path, q)
  BY <1>6 DEF MadeFor
<1> QED
  BY <1>5, <1>7, <1>8 DEF c, new

-----------------------------------------------------------------------------
(***************************************************************************)
(* The values stay trees.                                                  *)
(***************************************************************************)
TreeInv == IsTree(original) /\ IsTree(merged)

LEMMA InitTree == Init => TreeInv
<1>1. Closed(Values)
  BY MigrationAssumption
<1>2. \A v \in Documents : IsTree(v)
  BY <1>1, MigrationAssumption DEF IsTree
<1> QED
  BY <1>2 DEF Init, TreeInv

\* What a rename, a removal and the stamp are, in one place.
LEMMA RenameIs ==
  ASSUME ReportInv, TreeInv, NEW i \in DOMAIN rules, ApplyRename(i)
  PROVE  /\ outcome = "upgrading" /\ IsNext(i) /\ UNCHANGED <<original, rules>>
         /\ rules[i].kind = "rename" /\ Has(merged, CanonicalPath(merged, rules[i].from))
         /\ \/ outcome' = "MetadataInvalid" /\ merged' = merged
            \/ /\ outcome' = "upgrading" /\ working' = rules[i].since
               /\ merged' # Conflict
               /\ merged' = InsertPath(Without(merged, CanonicalPath(merged, rules[i].from)),
                                       CanonicalPath(merged, rules[i].to),
                                       GetAt(merged, CanonicalPath(merged, rules[i].from)))
BY DEF ApplyRename

LEMMA RemoveIs ==
  ASSUME NEW i \in DOMAIN rules, ApplyRemove(i)
  PROVE  /\ outcome = "upgrading" /\ IsNext(i) /\ UNCHANGED <<original, rules, outcome>>
         /\ Has(merged, CanonicalPath(merged, rules[i].from))
         /\ merged' = Without(merged, CanonicalPath(merged, rules[i].from))
         /\ working' = rules[i].since
BY DEF ApplyRemove

LEMMA StampIs ==
  ASSUME Stamp
  PROVE  /\ outcome = "upgrading" /\ Due = {} /\ UNCHANGED <<original, rules, working>>
         /\ \/ outcome' = "InvalidConfigVersion" /\ merged' = merged
            \/ /\ outcome' = "done" /\ merged' # Conflict
               /\ merged' = InsertPath(merged, CanonicalPath(original, VersionPath), Number(Supported))
BY DEF Stamp

LEMMA VersionPathType == VersionPath \in Seq(STRING) /\ VersionPath # <<>>
BY MigrationAssumption

LEMMA TreeStep == ReportInv /\ TreeInv /\ [Next]_vars => TreeInv'
<1> SUFFICES ASSUME ReportInv, TreeInv, [Next]_vars PROVE TreeInv'
  OBVIOUS
<1> DEFINE q == <<>>
<1>1. q \in Seq(STRING) /\ rules \in RuleLists /\ IsTree(merged)
  BY EmptySeq DEF ReportInv, ReportType, TreeInv
<1> HIDE DEF q
<1>2. CASE ReadVersion
  BY <1>2 DEF ReadVersion, TreeInv
<1>3. ASSUME NEW i \in DOMAIN rules, ApplyRename(i) PROVE TreeInv'
  <2> DEFINE from == CanonicalPath(merged, rules[i].from)
             u == Without(merged, from)
             x == GetAt(merged, from)
  <2>1. rules[i].kind = "rename" /\ UNCHANGED original /\ Has(merged, from)
    BY <1>3, RenameIs
  <2>2. /\ rules[i].from \in Seq(STRING) /\ rules[i].from # <<>>
        /\ rules[i].to \in Seq(STRING) /\ rules[i].to # <<>>
    BY <1>1, <2>1, RuleTypes
  <2>3. IsTree(u) /\ IsValue(x)
    BY <1>1, <2>1, <2>2, Taken
  <2>4. \/ merged' = merged
        \/ merged' # Conflict /\ merged' = InsertPath(u, CanonicalPath(merged, rules[i].to), x)
    BY <1>3, RenameIs
  <2> HIDE DEF u, x
  <2>5. IsTree(merged')
    BY <1>1, <2>2, <2>3, <2>4, Put
  <2> QED
    BY <2>1, <2>5 DEF TreeInv
<1>4. ASSUME NEW i \in DOMAIN rules, ApplyRemove(i) PROVE TreeInv'
  <2>1. rules[i].from \in Seq(STRING) /\ rules[i].from # <<>>
    BY <1>1, RuleTypes
  <2>2. /\ Has(merged, CanonicalPath(merged, rules[i].from)) /\ UNCHANGED original
        /\ merged' = Without(merged, CanonicalPath(merged, rules[i].from))
    BY <1>4, RemoveIs
  <2>3. IsTree(merged')
    BY <1>1, <2>1, <2>2, Taken
  <2> QED
    BY <2>2, <2>3 DEF TreeInv
<1>5. ASSUME NEW i \in DOMAIN rules, PassOver(i) PROVE TreeInv'
  BY <1>5 DEF PassOver, TreeInv
<1>6. CASE Stamp
  <2>1. \/ merged' = merged
        \/ /\ merged' # Conflict
           /\ merged' = InsertPath(merged, CanonicalPath(original, VersionPath), Number(Supported))
    BY <1>6, StampIs
  <2>2. UNCHANGED original
    BY <1>6, StampIs
  <2>3. IsValue(Number(Supported))
    BY EmptyTrees DEF IsValue, Number, Missing
  <2>4. IsTree(merged')
    BY <1>1, <2>1, <2>3, VersionPathType, Put
  <2> QED
    BY <2>2, <2>4 DEF TreeInv
<1>7. CASE UNCHANGED vars
  BY <1>7 DEF vars, TreeInv
<1> QED
  BY <1>2, <1>3, <1>4, <1>5, <1>6, <1>7 DEF Next

LEMMA InductiveTree == Spec => [](ReportInv /\ TreeInv)
BY InitReport, ReportStep, InitTree, TreeStep, PTL DEF Spec

-----------------------------------------------------------------------------
(***************************************************************************)
(* What no rule names.                                                     *)
(***************************************************************************)
Named == Paths(rules) \cup {VersionPath}

MadeUpAt(q) ==
    /\ q # <<>> /\ IsIndex(Last(q)) /\ ~ Has(original, q)
    /\ GetAt(merged, q) \in {Null, EmptyObject, Array(<<>>)}
    /\ \E p \in Named : IsStrictPrefix(Plain(Front(q)), Plain(p))

Beside(q) == \A p \in Named : ~ Overlap(q, Around(p))

OthersInv ==
    \A q \in Seq(STRING) : Beside(q) => GetAt(merged, q) = GetAt(original, q) \/ MadeUpAt(q)

LEMMA NamedTypes ==
  ASSUME ReportInv
  PROVE  /\ \A p \in Named : p \in Seq(STRING) /\ p # <<>>
         /\ VersionPath \in Named
         /\ \A i \in DOMAIN rules : /\ rules[i].from \in Named
                                    /\ rules[i].kind = "rename" => rules[i].to \in Named
<1>1. Paths(rules) \subseteq Seq(STRING) \ {<<>>}
  BY MigrationAssumption DEF ReportInv, ReportType
<1>2. \A i \in DOMAIN rules : /\ rules[i].from \in Paths(rules)
                              /\ rules[i].kind = "rename" => rules[i].to \in Paths(rules)
  BY DEF Paths
<1> QED
  BY <1>1, <1>2, VersionPathType DEF Named

\* A step that leaves what is at q, or makes it up.
LEMMA OtherStays ==
  ASSUME ReportInv, OthersInv, UNCHANGED <<original, rules>>, NEW q \in Seq(STRING), Beside(q),
         \/ GetAt(merged', q) = GetAt(merged, q)
         \/ \E p \in Named : \E u : GetAt(u, q) = GetAt(merged, q) /\ MadeFor(u, merged', p, q)
  PROVE  GetAt(merged', q) = GetAt(original, q) \/ MadeUpAt(q)'
<1>1. GetAt(merged, q) = GetAt(original, q) \/ MadeUpAt(q)
  BY DEF OthersInv
<1>2. Named' = Named
  BY DEF Named, Paths
<1>3. CASE GetAt(merged', q) = GetAt(merged, q)
  BY <1>1, <1>2, <1>3 DEF MadeUpAt
<1>4. CASE \E p \in Named : \E u : GetAt(u, q) = GetAt(merged, q) /\ MadeFor(u, merged', p, q)
  <2>1. PICK p \in Named : \E u : GetAt(u, q) = GetAt(merged, q) /\ MadeFor(u, merged', p, q)
    BY <1>4
  <2>2. PICK u : GetAt(u, q) = GetAt(merged, q) /\ MadeFor(u, merged', p, q)
    BY <2>1
  <2>3. ~ Has(original, q)
    <3>1. GetAt(merged, q) = Missing
      BY <2>2 DEF MadeFor, Has
    <3> QED
      BY <1>1, <3>1 DEF MadeUpAt, Has
  <2> QED
    BY <1>2, <2>2, <2>3 DEF MadeFor, MadeUpAt
<1> QED
  BY <1>3, <1>4

LEMMA OthersStep == ReportInv /\ TreeInv /\ OthersInv /\ [Next]_vars => OthersInv'
<1> SUFFICES ASSUME ReportInv, TreeInv, OthersInv, [Next]_vars, NEW q \in Seq(STRING), Beside(q)'
             PROVE  GetAt(merged', q) = GetAt(original', q) \/ MadeUpAt(q)'
  BY DEF OthersInv
<1>1. UNCHANGED <<original, rules>>
  BY DEF Next, ReadVersion, ApplyRename, ApplyRemove, PassOver, Stamp, vars
<1>2. Beside(q)
  BY <1>1 DEF Beside, Named, Paths
<1>3. \A p \in Named : /\ ~ Overlap(q, Around(p)) /\ ~ Overlap(q, p)
                       /\ p \in Seq(STRING) /\ p # <<>>
  <2> SUFFICES ASSUME NEW p \in Named
               PROVE  /\ ~ Overlap(q, Around(p)) /\ ~ Overlap(q, p)
                      /\ p \in Seq(STRING) /\ p # <<>>
    OBVIOUS
  <2>1. p \in Seq(STRING) /\ p # <<>>
    BY NamedTypes
  <2>2. ~ Overlap(q, Around(p))
    BY <1>2 DEF Beside
  <2> QED
    BY <2>1, <2>2, AroundWider
<1>4. IsTree(merged)
  BY DEF TreeInv
<1> DEFINE Stays == \/ GetAt(merged', q) = GetAt(merged, q)
                    \/ \E p \in Named : \E u : GetAt(u, q) = GetAt(merged, q) /\ MadeFor(u, merged', p, q)
<1>5. Stays => GetAt(merged', q) = GetAt(original', q) \/ MadeUpAt(q)'
  BY <1>1, <1>2, OtherStays
<1>6. CASE UNCHANGED merged
  BY <1>5, <1>6
<1>7. ASSUME NEW i \in DOMAIN rules, ApplyRename(i) PROVE Stays
  <2> DEFINE from == CanonicalPath(merged, rules[i].from)
             v == Without(merged, from)
             x == GetAt(merged, from)
  <2>1. rules[i].kind = "rename" /\ Has(merged, from)
    BY <1>7, RenameIs
  <2>2. /\ rules[i].from \in Named /\ rules[i].to \in Named
    BY <2>1, NamedTypes
  <2>3. IsTree(v) /\ IsValue(x) /\ GetAt(v, q) = GetAt(merged, q)
    BY <1>3, <1>4, <2>1, <2>2, Taken
  <2>4. \/ merged' = merged
        \/ merged' # Conflict /\ merged' = InsertPath(v, CanonicalPath(merged, rules[i].to), x)
    BY <1>7, RenameIs
  <2> HIDE DEF v, x
  <2>5. CASE merged' = merged
    BY <2>5
  <2>6. CASE merged' # Conflict /\ merged' = InsertPath(v, CanonicalPath(merged, rules[i].to), x)
    <3>1. \/ GetAt(merged', q) = GetAt(v, q)
          \/ MadeFor(v, merged', rules[i].to, q)
      BY <1>3, <2>2, <2>3, <2>6, Put
    <3> QED
      BY <2>2, <2>3, <3>1
  <2> QED
    BY <2>4, <2>5, <2>6
<1>8. ASSUME NEW i \in DOMAIN rules, ApplyRemove(i) PROVE Stays
  <2>1. /\ Has(merged, CanonicalPath(merged, rules[i].from))
        /\ merged' = Without(merged, CanonicalPath(merged, rules[i].from))
    BY <1>8, RemoveIs
  <2>2. rules[i].from \in Named
    BY NamedTypes
  <2>3. GetAt(merged', q) = GetAt(merged, q)
    BY <1>3, <1>4, <2>1, <2>2, Taken
  <2> QED
    BY <2>3
<1>9. CASE Stamp
  <2>1. \/ merged' = merged
        \/ /\ merged' # Conflict
           /\ merged' = InsertPath(merged, CanonicalPath(original, VersionPath), Number(Supported))
    BY <1>9, StampIs
  <2>2. IsValue(Number(Supported)) /\ VersionPath \in Named
    BY EmptyTrees, NamedTypes DEF IsValue, Number, Missing
  <2>3. CASE merged' = merged
    BY <1>6, <2>3
  <2>4. CASE /\ merged' # Conflict
             /\ merged' = InsertPath(merged, CanonicalPath(original, VersionPath), Number(Supported))
    <3>1. \/ GetAt(merged', q) = GetAt(merged, q)
          \/ MadeFor(merged, merged', VersionPath, q)
      BY <1>3, <1>4, <2>2, <2>4, Put
    <3> QED
      BY <1>5, <2>2, <3>1
  <2> QED
    BY <2>1, <2>3, <2>4
<1>10. UNCHANGED merged \/ Stamp \/ \E i \in DOMAIN rules : ApplyRename(i) \/ ApplyRemove(i)
  BY DEF Next, ReadVersion, PassOver, vars
<1> HIDE DEF Stays
<1> QED
  BY <1>5, <1>6, <1>7, <1>8, <1>9, <1>10

LEMMA InitOthers == Init => OthersInv
BY DEF Init, OthersInv

\* An upgrade changes nothing beside the paths the rules name, whatever the values,
\* the rules and their order: not the values beside, above and below them, nor the
\* other elements of the arrays they reach into, but for elements that are made up
\* where an array has to grow (take_value_at_path, insert_path).
THEOREM LeavesTheRest == Spec => []OthersUntouched
<1>1. OthersInv => OthersUntouched
  <2> SUFFICES ASSUME OthersInv, NEW q \in Watched,
                      \A p \in Paths(rules) \cup {VersionPath} : ~ Overlap(q, Around(p))
               PROVE  GetAt(merged, q) = GetAt(original, q) \/ MadeUpAt(q)
    BY DEF OthersUntouched, MadeUpAt, Named
  <2>1. q \in Seq(STRING)
    BY MigrationAssumption
  <2> QED
    BY <2>1 DEF OthersInv, Beside, Named
<1> QED
  BY <1>1, InductiveTree, InitOthers, OthersStep, PTL DEF Spec

-----------------------------------------------------------------------------
(***************************************************************************)
(* The old paths.                                                          *)
(***************************************************************************)
Distinct == \A i, j \in DOMAIN rules : rules[i].since = rules[j].since => i = j

\* The rules the loop has been at.
Passed(i) == outcome = "done" \/ (outcome = "upgrading" /\ rules[i].since <= working)

LegacyInv ==
    Distinct => \A i \in Wanted : ~ Refilled(i) /\ Passed(i) => ~ Has(merged, rules[i].from)

\* Without a refilling cause a rule names a key, no element of an array.
LEMMA RefilledElement ==
  ASSUME ReportInv, NEW i \in Wanted, ~ Refilled(i)
  PROVE  ~ IsIndex(Last(rules[i].from))
<1>1. i \in DOMAIN rules
  BY DEF Wanted
<1>2. rules[i].from \in Seq(STRING) /\ rules[i].from # <<>>
  BY <1>1, NamedTypes
<1>3. Overlap(Front(rules[i].from), rules[i].from)
  BY <1>2, FrontOverlaps
<1> QED
  BY <1>3 DEF Refilled

LEMMA DueWanted ==
  ASSUME ReportInv, outcome = "upgrading", NEW j \in DOMAIN rules, IsNext(j)
  PROVE  j \in Wanted
<1>1. FoundVersion <= working /\ working < rules[j].since /\ rules[j].since <= Supported
  BY DEF ReportInv, ReportIsWhole, IsNext, Due
<1>2. FoundVersion \in Nat /\ working \in Nat /\ rules[j].since \in Nat
  BY FoundType, RuleTypes DEF ReportInv, ReportType
<1> QED
  BY <1>1, <1>2 DEF Wanted

\* A rule that has been passed after the turn of rule j was passed before, or is j.
LEMMA PassedBefore ==
  ASSUME ReportInv, Distinct, outcome = "upgrading", NEW j \in DOMAIN rules, IsNext(j),
         NEW i \in Wanted, rules[i].since <= rules[j].since, i # j
  PROVE  rules[i].since <= working
<1>1. i \in DOMAIN rules /\ rules[i].since <= Supported
  BY DEF Wanted
<1>2. rules[i].since \in Nat /\ rules[j].since \in Nat /\ working \in Nat
  BY <1>1, RuleTypes DEF ReportInv, ReportType
<1> SUFFICES ASSUME working < rules[i].since PROVE FALSE
  BY <1>2
<1>3. i \in Due
  BY <1>1 DEF Due
<1>4. rules[j].since <= rules[i].since
  BY <1>2, <1>3 DEF IsNext
<1>5. rules[i].since = rules[j].since
  BY <1>2, <1>4
<1> QED
  BY <1>1, <1>5 DEF Distinct

\* The turn of rule j, where it takes what is at its old path.
LEMMA TakenLegacy ==
  ASSUME ReportInv, TreeInv, LegacyInv, Distinct, outcome = "upgrading",
         NEW j \in DOMAIN rules, IsNext(j), Has(merged, CanonicalPath(merged, rules[j].from)),
         NEW i \in Wanted, ~ Refilled(i), rules[i].since <= rules[j].since
  PROVE  ~ Has(Without(merged, CanonicalPath(merged, rules[j].from)), rules[i].from)
<1> DEFINE from == CanonicalPath(merged, rules[j].from)
           u == Without(merged, from)
           q == rules[i].from
           path == rules[j].from
<1>1. i \in DOMAIN rules /\ j \in Wanted
  BY DueWanted DEF Wanted
<1>2. q \in Seq(STRING) /\ q # <<>> /\ path \in Seq(STRING) /\ path # <<>>
  BY <1>1, NamedTypes
<1>3. ~ IsIndex(Last(q))
  BY RefilledElement
<1>4. IsTree(merged)
  BY DEF TreeInv
<1>5. CASE i = j
  BY <1>2, <1>3, <1>4, <1>5, Taken
<1>6. CASE i # j
  <2>1. ~ Has(merged, q)
    <3>1. rules[i].since <= working
      BY <1>6, PassedBefore
    <3> QED
      BY <3>1 DEF LegacyInv, Passed
  <2>2. CASE IsIndex(Last(path))
    <3>1. ~ Overlap(Front(path), q)
      BY <1>1, <2>2 DEF Refilled
    <3>2. ~ Overlap(q, Around(path))
      BY <2>2, <3>1, OverlapSymmetric DEF Around
    <3>3. GetAt(u, q) = GetAt(merged, q)
      BY <1>2, <1>4, <3>2, Taken
    <3> QED
      BY <2>1, <3>3 DEF Has
  <2>3. CASE ~ IsIndex(Last(path))
    <3>1. Has(u, q) => Has(merged, q)
      BY <1>2, <1>4, <2>3, Taken
    <3> QED
      BY <2>1, <3>1
  <2> QED
    BY <2>2, <2>3
<1> QED
  BY <1>5, <1>6

\* Nothing is put at an old path that is not refilled.
LEMMA PutLegacy ==
  ASSUME ReportInv, NEW i \in Wanted, ~ Refilled(i), NEW u, IsTree(u), NEW x, IsValue(x),
         ~ Has(u, rules[i].from), NEW v, NEW path \in Seq(STRING), path # <<>>,
         InsertPath(u, CanonicalPath(v, path), x) # Conflict,
         ~ Overlap(path, rules[i].from)
  PROVE  ~ Has(InsertPath(u, CanonicalPath(v, path), x), rules[i].from)
<1> DEFINE q == rules[i].from
           new == InsertPath(u, CanonicalPath(v, path), x)
<1>1. q \in Seq(STRING)
  BY NamedTypes DEF Wanted
<1>2. ~ Overlap(q, path)
  BY OverlapSymmetric
<1>3. ~ IsIndex(Last(q))
  BY RefilledElement
<1>4. new # Conflict /\ ~ Has(u, q)
  OBVIOUS
<1> HIDE DEF q
<1>5. GetAt(new, q) = GetAt(u, q) \/ MadeFor(u, new, path, q)
  BY <1>1, <1>2, <1>4, Put
<1>6. GetAt(new, q) = GetAt(u, q)
  BY <1>3, <1>5 DEF MadeFor
<1> QED
  BY <1>4, <1>6 DEF Has, q

LEMMA LegacyStep == ReportInv /\ TreeInv /\ LegacyInv /\ [Next]_vars => LegacyInv'
<1> SUFFICES ASSUME ReportInv, TreeInv, LegacyInv, [Next]_vars, Distinct',
                    NEW i \in Wanted', (~ Refilled(i))', Passed(i)'
             PROVE  ~ Has(merged', rules'[i].from)
  BY DEF LegacyInv
<1>1. UNCHANGED <<original, rules>>
  BY DEF Next, ReadVersion, ApplyRename, ApplyRemove, PassOver, Stamp, vars
<1>2. Wanted' = Wanted /\ FoundVersion' = FoundVersion
  BY <1>1 DEF Wanted, FoundVersion
<1>3. i \in Wanted /\ ~ Refilled(i) /\ Distinct
  BY <1>1, <1>2 DEF Refilled, Distinct
<1>4. ~ Has(merged, rules[i].from) /\ merged' = merged => ~ Has(merged', rules'[i].from)
  BY <1>1 DEF Has
<1>5. CASE ReadVersion
  <2>1. outcome' = "upgrading" /\ rules[i].since <= working'
    BY <1>1, <1>5 DEF Passed, ReadVersion
  <2>2. outcome = "reading" /\ merged = original /\ working = 0 /\ FoundVersion < rules[i].since
    BY <1>3, <1>5 DEF ReadVersion, ReportInv, ReportIsWhole, Wanted
  <2> DEFINE found == GetAt(merged, CanonicalPath(merged, VersionPath))
  <2>3. found = GetAt(original, VersionPath)
    BY <2>2, CanonicalSegments, VersionPathType
  <2>4. \/ found = Missing /\ working' = working
        \/ IsU32(found) /\ working' = found.number
    BY <1>5, <2>1 DEF ReadVersion
  <2>5. working' = FoundVersion
    <3> HIDE DEF found
    <3>1. found = Missing => ~ IsU32(found)
      BY DEF IsU32, Missing
    <3> QED
      BY <2>2, <2>3, <2>4, <3>1 DEF FoundVersion
  <2>6. FoundVersion \in Nat /\ rules[i].since \in Nat
    BY <1>3, FoundType, RuleTypes DEF Wanted, ReportInv, ReportType
  <2> QED
    BY <2>1, <2>2, <2>5, <2>6
<1>6. ASSUME NEW j \in DOMAIN rules, ApplyRename(j) PROVE ~ Has(merged', rules'[i].from)
  <2> DEFINE from == CanonicalPath(merged, rules[j].from)
             u == Without(merged, from)
             x == GetAt(merged, from)
  <2>1. /\ outcome = "upgrading" /\ IsNext(j) /\ rules[j].kind = "rename" /\ Has(merged, from)
        /\ \/ outcome' = "MetadataInvalid"
           \/ /\ working' = rules[j].since /\ outcome' = "upgrading"
              /\ merged' # Conflict
              /\ merged' = InsertPath(u, CanonicalPath(merged, rules[j].to), x)
    BY <1>6, RenameIs
  <2>2. /\ working' = rules[j].since /\ rules[i].since <= rules[j].since
        /\ merged' # Conflict
        /\ merged' = InsertPath(u, CanonicalPath(merged, rules[j].to), x)
    BY <1>1, <2>1 DEF Passed
  <2>3. ~ Has(u, rules[i].from)
    BY <1>3, <2>1, <2>2, TakenLegacy
  <2>4. /\ rules[j].from \in Seq(STRING) /\ rules[j].from # <<>>
        /\ rules[j].to \in Seq(STRING) /\ rules[j].to # <<>>
    BY <2>1, NamedTypes
  <2>5. IsTree(u) /\ IsValue(x)
    BY <2>1, <2>4, Taken DEF TreeInv
  <2>6. ~ Overlap(rules[j].to, rules[i].from)
    BY <1>3, <2>1, DueWanted DEF Refilled
  <2> HIDE DEF u, x
  <2> QED
    BY <1>1, <1>3, <2>2, <2>3, <2>4, <2>5, <2>6, PutLegacy
<1>7. ASSUME NEW j \in DOMAIN rules, ApplyRemove(j) PROVE ~ Has(merged', rules'[i].from)
  <2>1. /\ outcome = "upgrading" /\ IsNext(j) /\ working' = rules[j].since /\ outcome' = outcome
        /\ Has(merged, CanonicalPath(merged, rules[j].from))
        /\ merged' = Without(merged, CanonicalPath(merged, rules[j].from))
    BY <1>7, RemoveIs
  <2>2. rules[i].since <= rules[j].since
    BY <1>1, <2>1 DEF Passed
  <2> QED
    BY <1>1, <1>3, <2>1, <2>2, TakenLegacy
<1>8. ASSUME NEW j \in DOMAIN rules, PassOver(j) PROVE ~ Has(merged', rules'[i].from)
  <2>1. /\ outcome = "upgrading" /\ IsNext(j) /\ working' = rules[j].since
        /\ outcome' = outcome /\ merged' = merged
        /\ ~ Has(merged, CanonicalPath(merged, rules[j].from))
    BY <1>8 DEF PassOver
  <2>2. rules[i].since <= rules[j].since
    BY <1>1, <2>1 DEF Passed
  <2>3. CASE i = j
    <3>1. rules[j].from \in Seq(STRING)
      BY NamedTypes
    <3>2. GetAt(merged, CanonicalPath(merged, rules[j].from)) = GetAt(merged, rules[j].from)
      BY <3>1, CanonicalSegments
    <3> QED
      BY <1>4, <2>1, <2>3, <3>2 DEF Has
  <2>4. CASE i # j
    <3>1. rules[i].since <= working
      BY <1>3, <2>1, <2>2, <2>4, PassedBefore
    <3> QED
      BY <1>3, <1>4, <2>1, <3>1 DEF LegacyInv, Passed
  <2> QED
    BY <2>3, <2>4
<1>9. CASE Stamp
  <2>1. /\ outcome = "upgrading" /\ Due = {} /\ outcome' = "done" /\ merged' # Conflict
        /\ merged' = InsertPath(merged, CanonicalPath(original, VersionPath), Number(Supported))
    BY <1>9, StampIs DEF Passed
  <2>2. rules[i].since <= working
    <3>1. i \in DOMAIN rules /\ rules[i].since <= Supported /\ i \notin Due
      BY <1>3, <2>1 DEF Wanted
    <3>2. rules[i].since \in Nat /\ working \in Nat
      BY <3>1, RuleTypes DEF ReportInv, ReportType
    <3> QED
      BY <3>1, <3>2 DEF Due
  <2>3. ~ Has(merged, rules[i].from)
    BY <1>3, <2>1, <2>2 DEF LegacyInv, Passed
  <2>4. IsTree(merged) /\ IsValue(Number(Supported)) /\ ~ Overlap(VersionPath, rules[i].from)
    BY <1>3, EmptyTrees DEF TreeInv, Refilled, IsValue, Number, Missing
  <2> QED
    BY <1>1, <1>3, <2>1, <2>3, <2>4, VersionPathType, PutLegacy
<1>10. CASE UNCHANGED vars
  BY <1>3, <1>4, <1>10 DEF vars, LegacyInv, Passed
<1> QED
  BY <1>5, <1>6, <1>7, <1>8, <1>9, <1>10 DEF Next

LEMMA InitLegacy == Init => LegacyInv
BY DEF Init, LegacyInv, Passed

\* Whatever is registered, in whatever order: when every rule has a version of its
\* own, an upgrade leaves nothing at an old path that was to be moved or removed,
\* unless something else puts a value there (the sort and the loop of
\* apply_config_migrations).
THEOREM LegacyGone == Spec => []LegacyPathsGoneIfDistinct
<1>1. LegacyInv => LegacyPathsGoneIfDistinct
  BY DEF LegacyInv, LegacyPathsGoneIfDistinct, LegacyPathsGone, Distinct, Passed
<1> QED
  BY <1>1, InductiveTree, InitLegacy, LegacyStep, PTL DEF Spec
=============================================================================
