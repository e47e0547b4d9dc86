-------------------------- MODULE JsonTreeProofs ----------------------------
(***************************************************************************)
(* What is proved of configuration values and of the operations on their   *)
(* paths, for any values and any paths: what a walk, a removal and an      *)
(* insertion find, change and leave as it is.                              *)
(***************************************************************************)
EXTENDS JsonNodes, SequenceTheorems, WellFoundedInduction, TLAPS

-----------------------------------------------------------------------------
(***************************************************************************)
(* Recursive functions.  A recursive definition stands for some function   *)
(* that satisfies its equation; that there is one is shown for longer and  *)
(* longer paths.                                                           *)
(***************************************************************************)
\* Every set of numbers has a least one.
LEMMA LeastOne ==
  ASSUME NEW T \in SUBSET Nat, T # {}
  PROVE  \E m \in T : \A k \in T : m <= k
<1> DEFINE Less == {p \in Nat \X Nat : p[1] < p[2]}
<1>1. IsWellFoundedOn(Less, Nat)
  BY NatLessThanWellFounded DEF OpToRel
<1> HIDE DEF Less
<1>2. PICK m \in T : \A k \in T : ~ (<<k, m>> \in Less)
  BY <1>1, WFMin
<1>3. \A k \in T : ~ (k < m)
  BY <1>2 DEF Less
<1> QED
  BY <1>3

\* One turn on the way down a path.
Turn(way, p, got, i) ==
    CASE way = "walk" -> Child(got, p[i])
      [] OTHER -> Widened(Entered(got, p, i), p, i)

IsWay(way, p, base, first, last, g) ==
    g = [i \in first..last |-> IF i = first THEN base ELSE Turn(way, p, g[i - 1], i)]

LEMMA WayExists ==
  ASSUME NEW way, NEW p, NEW base, NEW first \in Nat, NEW n \in Nat
  PROVE  \E g : IsWay(way, p, base, first, first + n, g)
<1> DEFINE Bad == {k \in Nat : ~ \E g : IsWay(way, p, base, first, first + k, g)}
<1>1. ASSUME NEW k \in Nat, NEW g, IsWay(way, p, base, first, first + k, g)
      PROVE  \E h : IsWay(way, p, base, first, first + (k + 1), h)
  <2> DEFINE m == first + (k + 1)
             h == [i \in first..m |-> IF i = m THEN Turn(way, p, g[i - 1], i) ELSE g[i]]
             W(i) == IF i = first THEN base ELSE Turn(way, p, h[i - 1], i)
  <2>1. ASSUME NEW i \in first..m PROVE h[i] = W(i)
    <3>1. CASE i = m
      <4>1. i - 1 \in first..m /\ i - 1 # m /\ i # first
        BY <3>1
      <4>2. h[i - 1] = g[i - 1]
        BY <4>1
      <4> QED
        BY <3>1, <4>1, <4>2
    <3>2. CASE i # m
      <4>1. i \in first..(first + k)
        BY <3>2
      <4>2. h[i] = g[i]
        BY <3>2
      <4>3. g[i] = IF i = first THEN base ELSE Turn(way, p, g[i - 1], i)
        BY <1>1, <4>1 DEF IsWay
      <4>4. i # first => i - 1 \in first..m /\ i - 1 # m
        BY <4>1
      <4>5. i # first => h[i - 1] = g[i - 1]
        BY <4>4
      <4> QED
        BY <4>2, <4>3, <4>5
    <3> QED
      BY <3>1, <3>2
  <2>2. h = [i \in first..m |-> W(i)]
    BY <2>1
  <2> QED
    BY <2>2 DEF IsWay
<1>2. \E g : IsWay(way, p, base, first, first + 0, g)
  <2> DEFINE g == [i \in first..(first + 0) |-> base]
             W(i) == IF i = first THEN base ELSE Turn(way, p, g[i - 1], i)
  <2>1. \A i \in first..(first + 0) : i = first
    OBVIOUS
  <2>2. g = [i \in first..(first + 0) |-> W(i)]
    BY <2>1
  <2> QED
    BY <2>2 DEF IsWay
<1>3. Bad \in SUBSET Nat
  OBVIOUS
<1>4. Bad = {}
  <2> SUFFICES ASSUME Bad # {} PROVE FALSE
    OBVIOUS
  <2>1. PICK m \in Bad : \A k \in Bad : m <= k
    BY <1>3, LeastOne
  <2>2. m # 0 /\ m \in Nat
    BY <1>2, <2>1
  <2>3. m - 1 \in Nat /\ m - 1 \notin Bad
    BY <2>1, <2>2
  <2>4. \E g : IsWay(way, p, base, first, first + (m - 1), g)
    BY <2>3
  <2>5. \E h : IsWay(way, p, base, first, first + ((m - 1) + 1), h)
    BY <1>1, <2>3, <2>4
  <2>6. (m - 1) + 1 = m
    BY <2>2
  <2> QED
    BY <2>1, <2>5, <2>6
<1> QED
  BY <1>4

\* get_value_at_path, segment by segment.
LEMMA WalkSteps ==
  ASSUME NEW v, NEW S, NEW p \in Seq(S)
  PROVE  /\ DOMAIN Walk(v, p) = 0..Len(p)
         /\ Walk(v, p)[0] = v
         /\ \A i \in 1..Len(p) : Walk(v, p)[i] = Child(Walk(v, p)[i - 1], p[i])
<1>1. Len(p) \in Nat
  BY LenProperties
<1> DEFINE F(g) == [i \in 0..Len(p) |-> IF i = 0 THEN v ELSE Child(g[i - 1], p[i])]
<1>2. \E g : IsWay("walk", p, v, 0, 0 + Len(p), g)
  BY <1>1, WayExists
<1>3. \E g : g = F(g)
  <2>1. PICK g : IsWay("walk", p, v, 0, 0 + Len(p), g)
    BY <1>2
  <2>2. g = F(g)
    BY <1>1, <2>1 DEF IsWay, Turn
  <2> QED
    BY <2>2
<1>4. Walk(v, p) = CHOOSE g : g = F(g)
  BY DEF Walk
<1> HIDE DEF F
<1>5. Walk(v, p) = F(Walk(v, p))
  BY <1>3, <1>4
<1> DEFINE w == Walk(v, p)
<1>6. w = [i \in 0..Len(p) |-> IF i = 0 THEN v ELSE Child(w[i - 1], p[i])]
  BY <1>5 DEF F
<1> HIDE DEF w
<1>7. DOMAIN w = 0..Len(p) /\ \A i \in 0..Len(p) : w[i] = IF i = 0 THEN v ELSE Child(w[i - 1], p[i])
  BY <1>6
<1> QED
  BY <1>1, <1>7 DEF w

-----------------------------------------------------------------------------
(***************************************************************************)
(* Segments.                                                               *)
(***************************************************************************)
Norm(s) == IF IsIndex(s) THEN CanonicalIndex(s) ELSE s

LEMMA IndexFacts ==
  /\ \A s \in DOMAIN Indices : Indices[s] \in 0..7
  /\ \A s \in DOMAIN Indices :
        CanonicalIndex(s) \in DOMAIN Indices /\ Indices[CanonicalIndex(s)] = Indices[s]
  /\ \A s, t \in DOMAIN Indices : Indices[s] = Indices[t] => CanonicalIndex(s) = CanonicalIndex(t)
<1> DEFINE D == {"0", "00", "1", "2", "3", "4", "5", "6", "7"}
<1>1. DOMAIN Indices = D
  BY DEF Indices
<1>2. /\ Indices["0"] = 0 /\ Indices["00"] = 0 /\ Indices["1"] = 1 /\ Indices["2"] = 2
      /\ Indices["3"] = 3 /\ Indices["4"] = 4 /\ Indices["5"] = 5 /\ Indices["6"] = 6
      /\ Indices["7"] = 7
  BY DEF Indices
<1>3. \A s \in D : Indices[s] \in 0..7
  BY <1>2
<1>4. \A s \in D : CanonicalIndex(s) \in D /\ Indices[CanonicalIndex(s)] = Indices[s]
  BY <1>2 DEF CanonicalIndex
<1>5. \A s, t \in D : Indices[s] = Indices[t] => CanonicalIndex(s) = CanonicalIndex(t)
  BY <1>2 DEF CanonicalIndex
<1> HIDE DEF D
<1> QED
  BY <1>1, <1>3, <1>4, <1>5

LEMMA NormFacts ==
  ASSUME NEW s
  PROVE  /\ IsIndex(Norm(s)) <=> IsIndex(s)
         /\ Norm(Norm(s)) = Norm(s)
         /\ IsIndex(s) => Norm(s) = CanonicalIndex(s) /\ Indices[Norm(s)] = Indices[s]
         /\ Norm(s) \in {s} \cup DOMAIN Indices
<1>1. CASE IsIndex(s)
  BY <1>1, IndexFacts DEF Norm, IsIndex
<1>2. CASE ~ IsIndex(s)
  BY <1>2 DEF Norm
<1> QED
  BY <1>1, <1>2

LEMMA NormEqual ==
  ASSUME NEW s, NEW t, Norm(s) = Norm(t)
  PROVE  /\ IsIndex(s) <=> IsIndex(t)
         /\ IsIndex(s) => Indices[s] = Indices[t]
         /\ ~ IsIndex(s) => s = t
BY NormFacts DEF Norm

-----------------------------------------------------------------------------
(***************************************************************************)
(* canonicalize_runtime_path leads where the path leads.                   *)
(***************************************************************************)
\* Segments, and the indices written the canonical way.
Written(S) == S \cup DOMAIN Indices

\* c leads where p leads, by the same children.
Respelled(v, p, c) ==
    /\ Len(c) = Len(p)
    /\ \A i \in 1..Len(p) : Norm(c[i]) = Norm(p[i])
    /\ \A i \in 0..Len(p) : Walk(v, c)[i] = Walk(v, p)[i]
    /\ \A i \in 1..Len(p) : Walk(v, p)[i - 1].kind # "array" => c[i] = p[i]

LEMMA CanonicalSegments ==
  ASSUME NEW v, NEW S, NEW p \in Seq(S)
  PROVE  /\ CanonicalPath(v, p) \in Seq(Written(S))
         /\ Respelled(v, p, CanonicalPath(v, p))
         /\ GetAt(v, CanonicalPath(v, p)) = GetAt(v, p)
<1> DEFINE c == CanonicalPath(v, p)
           n == Len(p)
           w == Walk(v, p)
           x == Walk(v, c)
           Bad == {i \in 0..n : x[i] # w[i]}
<1>1. n \in Nat /\ DOMAIN p = 1..n /\ \A i \in 1..n : p[i] \in S
  BY LenProperties, ElementOfSeq
<1>2. c = [i \in 1..n |-> IF w[i - 1].kind = "array" /\ IsIndex(p[i]) THEN CanonicalIndex(p[i]) ELSE p[i]]
  BY <1>1 DEF CanonicalPath
<1>3. \A i \in 1..n : /\ c[i] \in Written(S)
                      /\ Norm(c[i]) = Norm(p[i])
                      /\ w[i - 1].kind # "array" => c[i] = p[i]
                      /\ Child(w[i - 1], c[i]) = Child(w[i - 1], p[i])
  <2> SUFFICES ASSUME NEW i \in 1..n
               PROVE  /\ c[i] \in Written(S)
                      /\ Norm(c[i]) = Norm(p[i])
                      /\ w[i - 1].kind # "array" => c[i] = p[i]
                      /\ Child(w[i - 1], c[i]) = Child(w[i - 1], p[i])
    OBVIOUS
  <2>1. c[i] = IF w[i - 1].kind = "array" /\ IsIndex(p[i]) THEN CanonicalIndex(p[i]) ELSE p[i]
    BY <1>2
  <2> HIDE DEF c, w, n
  <2>2. CASE w[i - 1].kind = "array" /\ IsIndex(p[i])
    <3>1. c[i] = Norm(p[i])
      BY <2>1, <2>2 DEF Norm
    <3>2. Norm(c[i]) = Norm(p[i]) /\ IsIndex(c[i]) /\ Indices[c[i]] = Indices[p[i]] /\ c[i] \in Written(S)
      BY <1>1, <2>2, <3>1, NormFacts DEF Written
    <3> QED
      BY <2>2, <3>2 DEF Child
  <2>3. CASE ~ (w[i - 1].kind = "array" /\ IsIndex(p[i]))
    <3>1. c[i] = p[i]
      BY <2>1, <2>3
    <3> QED
      BY <1>1, <3>1 DEF Written
  <2> QED
    BY <2>2, <2>3
<1>4. c \in Seq(Written(S)) /\ Len(c) = n
  <2>1. c \in [1..n -> Written(S)]
    BY <1>2, <1>3
  <2> HIDE DEF c
  <2>2. c \in Seq(Written(S))
    BY <1>1, <2>1, SeqDef
  <2> QED
    BY <1>1, <2>1, <2>2, LenProperties
<1>5. w[0] = v /\ \A i \in 1..n : w[i] = Child(w[i - 1], p[i])
  BY WalkSteps
<1>6. x[0] = v /\ \A i \in 1..n : x[i] = Child(x[i - 1], c[i])
  BY <1>4, WalkSteps
<1> HIDE DEF c, w, x, n
<1>7. Bad \in SUBSET Nat
  BY <1>1
<1>8. Bad = {}
  <2> SUFFICES ASSUME Bad # {} PROVE FALSE
    OBVIOUS
  <2>1. PICK i \in Bad : \A k \in Bad : i <= k
    BY <1>7, LeastOne
  <2>2. i \in 1..n
    BY <1>1, <1>5, <1>6
  <2>3. i - 1 \in 0..n /\ i - 1 \notin Bad
    BY <1>1, <2>1, <2>2
  <2>4. x[i - 1] = w[i - 1]
    BY <2>3
  <2> QED
    BY <1>3, <1>5, <1>6, <2>2, <2>4
<1>9. x[n] = w[n]
  BY <1>1, <1>8
<1>10. GetAt(v, c) = x[n] /\ GetAt(v, p) = w[n]
  BY <1>4 DEF GetAt, x, w, n
<1> QED
  BY <1>3, <1>4, <1>8, <1>9, <1>10 DEF c, w, x, n, Respelled

-----------------------------------------------------------------------------
(***************************************************************************)
(* Values are trees: what is in a container is one, in lists that are      *)
(* sequences.                                                              *)
(***************************************************************************)
IsTree(v) == \E V : v \in V /\ Closed(V)

\* What there can be in a container.
IsValue(v) == IsTree(v) /\ v # Missing

\* Any values can be taken together.
LEMMA Grove ==
  ASSUME NEW U, \A u \in U : IsTree(u)
  PROVE  \E V : U \subseteq V /\ Closed(V)
<1> DEFINE Of(u) == CHOOSE V : u \in V /\ Closed(V)
           V == UNION {Of(u) : u \in U}
<1>1. \A u \in U : u \in Of(u) /\ Closed(Of(u))
  BY DEF IsTree
<1> HIDE DEF Of
<1>2. U \subseteq V
  BY <1>1
<1>3. \A u \in U : Of(u) \subseteq V
  OBVIOUS
<1>4. Closed(V)
  <2> SUFFICES ASSUME NEW w \in V
               PROVE  /\ w.kind = "object" => \A k \in DOMAIN w.fields : w.fields[k] \in V \ {Missing}
                      /\ w.kind = "array" => w.items \in Seq(V \ {Missing})
    BY DEF Closed
  <2>1. PICK u \in U : w \in Of(u)
    OBVIOUS
  <2>2. /\ w.kind = "object" => \A k \in DOMAIN w.fields : w.fields[k] \in Of(u) \ {Missing}
        /\ w.kind = "array" => w.items \in Seq(Of(u) \ {Missing})
    BY <1>1, <2>1 DEF Closed
  <2>3. Of(u) \ {Missing} \subseteq V \ {Missing}
    BY <1>3
  <2> HIDE DEF V
  <2> QED
    BY <2>2, <2>3, SeqMonotonic
<1> QED
  BY <1>2, <1>4

LEMMA ObjectTree ==
  ASSUME NEW f, \A k \in DOMAIN f : IsValue(f[k])
  PROVE  IsTree(Object(f))
<1>1. \A u \in {f[k] : k \in DOMAIN f} : IsTree(u) /\ u # Missing
  BY DEF IsValue
<1>2. PICK V : {f[k] : k \in DOMAIN f} \subseteq V /\ Closed(V)
  BY <1>1, Grove
<1> DEFINE o == Object(f)
           W == V \cup {o}
<1>3. o.kind = "object" /\ o.fields = f
  BY DEF Object
<1> HIDE DEF o
<1>4. \A u \in V : u.kind = "array" => u.items \in Seq(W \ {Missing})
  <2>1. V \ {Missing} \subseteq W \ {Missing}
    OBVIOUS
  <2> QED
    BY <1>2, <2>1, SeqMonotonic DEF Closed
<1>5. \A u \in V : u.kind = "object" => \A k \in DOMAIN u.fields : u.fields[k] \in W \ {Missing}
  BY <1>2 DEF Closed
<1>6. \A k \in DOMAIN f : f[k] \in W \ {Missing}
  BY <1>1, <1>2
<1>8. o.kind # "array"
  BY <1>3
<1> HIDE DEF W
<1>9. Closed(V \cup {o})
  BY <1>3, <1>4, <1>5, <1>6, <1>8 DEF Closed, W
<1> QED
  BY <1>9 DEF IsTree, o

LEMMA ArrayTree ==
  ASSUME NEW U, NEW list \in Seq(U), \A u \in U : IsValue(u)
  PROVE  IsTree(Array(list))
<1>1. PICK V : U \subseteq V /\ Closed(V)
  BY Grove DEF IsValue
<1> DEFINE o == Array(list)
           W == V \cup {o}
<1>2. o.kind = "array" /\ o.items = list
  BY DEF Array
<1> HIDE DEF o
<1>3. list \in Seq(W \ {Missing})
  <2>1. U \subseteq W \ {Missing}
    BY <1>1 DEF IsValue
  <2> QED
    BY <2>1, SeqMonotonic
<1>4. \A u \in V : u.kind = "array" => u.items \in Seq(W \ {Missing})
  <2>1. V \ {Missing} \subseteq W \ {Missing}
    OBVIOUS
  <2> QED
    BY <1>1, <2>1, SeqMonotonic DEF Closed
<1>5. \A u \in V : u.kind = "object" => \A k \in DOMAIN u.fields : u.fields[k] \in W \ {Missing}
  BY <1>1 DEF Closed
<1>6. o.kind # "object"
  BY <1>2
<1> HIDE DEF W
<1>7. Closed(V \cup {o})
  BY <1>2, <1>3, <1>4, <1>5, <1>6 DEF Closed, W
<1> QED
  BY <1>7 DEF IsTree, o

LEMMA ScalarTree ==
  ASSUME NEW v, v.kind \notin {"object", "array"}
  PROVE  IsTree(v)
<1>1. Closed({v})
  BY DEF Closed
<1> QED
  BY <1>1 DEF IsTree

LEMMA EmptyTrees ==
  /\ IsTree(EmptyObject) /\ IsTree(Array(<<>>)) /\ IsTree(Null) /\ IsTree(Missing)
  /\ \A n : IsTree(Number(n))
<1>1. IsTree(EmptyObject)
  <2>1. DOMAIN <<>> = {}
    OBVIOUS
  <2> QED
    BY <2>1, ObjectTree DEF EmptyObject
<1>2. IsTree(Array(<<>>))
  <2> DEFINE none == <<>>
  <2>1. none \in Seq({Null}) /\ \A u \in {Null} : IsValue(u)
    BY EmptySeq, ScalarTree DEF Null, Missing, IsValue
  <2> HIDE DEF none
  <2>2. IsTree(Array(none))
    BY <2>1, ArrayTree
  <2> QED
    BY <2>2 DEF none
<1>3. Null.kind = "null" /\ Missing.kind = "missing" /\ \A n : Number(n).kind = "number"
  BY DEF Null, Missing, Number
<1> QED
  BY <1>1, <1>2, <1>3, ScalarTree

\* What is in a tree.
LEMMA TreeParts ==
  ASSUME NEW v, IsTree(v)
  PROVE  /\ v.kind = "object" => \A k \in DOMAIN v.fields : IsValue(v.fields[k])
         /\ v.kind = "array" => \E U : v.items \in Seq(U) /\ \A u \in U : IsValue(u)
<1>1. PICK V : v \in V /\ Closed(V)
  BY DEF IsTree
<1>2. \A u \in V \ {Missing} : IsValue(u)
  BY <1>1 DEF IsTree, IsValue
<1>3. /\ v.kind = "object" => \A k \in DOMAIN v.fields : v.fields[k] \in V \ {Missing}
      /\ v.kind = "array" => v.items \in Seq(V \ {Missing})
  BY <1>1 DEF Closed
<1> QED
  BY <1>2, <1>3

LEMMA ChildTree ==
  ASSUME NEW v, NEW s, IsTree(v)
  PROVE  /\ IsTree(Child(v, s))
         /\ v.kind = "object" /\ s \in DOMAIN v.fields => Child(v, s) # Missing
         /\ v.kind = "array" /\ IsIndex(s) /\ Indices[s] < Len(v.items) => Child(v, s) # Missing
<1>1. CASE v.kind = "object" /\ s \in DOMAIN v.fields
  <2>1. Child(v, s) = v.fields[s]
    BY <1>1 DEF Child
  <2> QED
    BY <1>1, <2>1, TreeParts DEF IsValue
<1>2. CASE v.kind = "array" /\ IsIndex(s) /\ Indices[s] < Len(v.items)
  <2>1. PICK U : v.items \in Seq(U) /\ \A u \in U : IsValue(u)
    BY <1>2, TreeParts
  <2>2. Indices[s] + 1 \in 1..Len(v.items)
    BY <1>2, <2>1, IndexFacts, LenProperties DEF IsIndex
  <2>3. v.items[Indices[s] + 1] \in U
    BY <2>1, <2>2, ElementOfSeq
  <2>4. Child(v, s) = v.items[Indices[s] + 1]
    BY <1>2 DEF Child
  <2> QED
    BY <1>2, <2>1, <2>3, <2>4 DEF IsValue
<1>3. CASE ~ (v.kind = "object" /\ s \in DOMAIN v.fields)
           /\ ~ (v.kind = "array" /\ IsIndex(s) /\ Indices[s] < Len(v.items))
  BY <1>3, EmptyTrees DEF Child
<1> QED
  BY <1>1, <1>2, <1>3

LEMMA ChildOfMissing ==
  ASSUME NEW v, NEW s, v.kind \notin {"object", "array"}
  PROVE  Child(v, s) = Missing
BY DEF Child

-----------------------------------------------------------------------------
(***************************************************************************)
(* Containers with a child replaced, removed or made.                      *)
(***************************************************************************)
\* Two segments that address one child.
Same(c, s, t) == IF c.kind = "object" THEN s = t ELSE Norm(s) = Norm(t)

\* There is a place for a child at s.
Holds(c, s) ==
    \/ c.kind = "object"
    \/ c.kind = "array" /\ IsIndex(s) /\ Indices[s] < Len(c.items)

LEMMA SameNorm ==
  ASSUME NEW c, NEW s, NEW t, Same(c, s, t)
  PROVE  Norm(s) = Norm(t)
BY DEF Same

LEMMA SameChild ==
  ASSUME NEW c, NEW s, NEW t, Same(c, s, t)
  PROVE  Child(c, s) = Child(c, t)
<1>1. CASE c.kind = "object"
  BY <1>1 DEF Same
<1>2. CASE c.kind # "object"
  <2>1. (IsIndex(s) <=> IsIndex(t)) /\ (IsIndex(s) => Indices[s] = Indices[t])
    BY <1>2, NormEqual DEF Same
  <2> QED
    BY <1>2, <2>1 DEF Child
<1> QED
  BY <1>1, <1>2

LEMMA ReplaceFacts ==
  ASSUME NEW c, NEW s, NEW x, IsTree(c), IsValue(x), Holds(c, s)
  PROVE  /\ IsValue(Replace(c, s, x))
         /\ Replace(c, s, x).kind = c.kind
         /\ \A t : Child(Replace(c, s, x), t) = IF Same(c, s, t) THEN x ELSE Child(c, t)
<1>1. CASE c.kind = "object"
  <2> DEFINE f == [k \in DOMAIN c.fields \cup {s} |-> IF k = s THEN x ELSE c.fields[k]]
             r == Replace(c, s, x)
  <2>1. r = Object(f)
    BY <1>1 DEF Replace
  <2>2. \A k \in DOMAIN f : IsValue(f[k])
    BY <1>1, TreeParts
  <2>3. r.kind = "object" /\ r.fields = f
    BY <2>1 DEF Object
  <2>4. ASSUME NEW t PROVE Child(r, t) = IF s = t THEN x ELSE Child(c, t)
    <3> HIDE DEF r
    <3>1. CASE t \in DOMAIN f
      BY <1>1, <2>3, <3>1 DEF Child
    <3>2. CASE t \notin DOMAIN f
      BY <1>1, <2>3, <3>2 DEF Child
    <3> QED
      BY <3>1, <3>2
  <2> HIDE DEF f
  <2>5. IsTree(r)
    BY <2>1, <2>2, ObjectTree
  <2>6. IsValue(r)
    BY <2>3, <2>5 DEF IsValue, Missing
  <2> QED
    BY <1>1, <2>3, <2>4, <2>6 DEF Same
<1>2. CASE c.kind # "object"
  <2>1. c.kind = "array" /\ IsIndex(s) /\ Indices[s] < Len(c.items)
    BY <1>2 DEF Holds
  <2>2. PICK U : c.items \in Seq(U) /\ \A u \in U : IsValue(u)
    BY <2>1, TreeParts
  <2> DEFINE T == U \cup {x}
             n == Indices[s] + 1
             list == [c.items EXCEPT ![n] = x]
             r == Replace(c, s, x)
  <2>3. c.items \in Seq(T) /\ x \in T /\ \A u \in T : IsValue(u)
    BY <2>2, SeqMonotonic
  <2>4. n \in 1..Len(c.items)
    BY <2>1, <2>2, IndexFacts, LenProperties DEF IsIndex
  <2>5. /\ list \in Seq(T) /\ Len(list) = Len(c.items)
        /\ \A j \in 1..Len(c.items) : list[j] = IF j = n THEN x ELSE c.items[j]
    <3> HIDE DEF T, n
    <3> QED
      BY <2>3, <2>4, ExceptSeq
  <2>6. r.kind = "array" /\ r.items = list
    BY <2>1 DEF Replace, Array
  <2>7. r = Array(list)
    BY <2>1 DEF Replace
  <2> HIDE DEF T, list, r
  <2>8. IsValue(r)
    BY <2>3, <2>5, <2>6, <2>7, ArrayTree DEF IsValue, Missing
  <2>9. ASSUME NEW t PROVE Child(r, t) = IF Norm(s) = Norm(t) THEN x ELSE Child(c, t)
    <3>1. CASE Norm(s) = Norm(t)
      <4>1. IsIndex(t) /\ Indices[t] = Indices[s]
        BY <2>1, <3>1, NormEqual
      <4> QED
        BY <2>1, <2>4, <2>5, <2>6, <3>1, <4>1 DEF Child
    <3>2. CASE Norm(s) # Norm(t) /\ IsIndex(t) /\ Indices[t] < Len(c.items)
      <4>1. Indices[t] # Indices[s]
        BY <2>1, <3>2, IndexFacts DEF Norm, IsIndex
      <4>2. Indices[t] \in Nat /\ Indices[s] \in Nat /\ Len(c.items) \in Nat
        BY <2>1, <2>2, <3>2, IndexFacts, LenProperties DEF IsIndex
      <4>3. Indices[t] + 1 \in 1..Len(c.items) /\ Indices[t] + 1 # n
        BY <3>2, <4>1, <4>2
      <4>4. list[Indices[t] + 1] = c.items[Indices[t] + 1]
        BY <2>5, <4>3
      <4> QED
        BY <2>1, <2>5, <2>6, <3>2, <4>4 DEF Child
    <3>3. CASE Norm(s) # Norm(t) /\ ~ (IsIndex(t) /\ Indices[t] < Len(c.items))
      BY <2>1, <2>5, <2>6, <3>3 DEF Child
    <3> QED
      BY <3>1, <3>2, <3>3
  <2> QED
    BY <1>2, <2>1, <2>6, <2>8, <2>9 DEF Same, r
<1> QED
  BY <1>1, <1>2

LEMMA WithoutChildFacts ==
  ASSUME NEW c, NEW s, IsTree(c), Holds(c, s)
  PROVE  /\ IsValue(WithoutChild(c, s))
         /\ c.kind = "object" =>
               \A t : Child(WithoutChild(c, s), t) = IF s = t THEN Missing ELSE Child(c, t)
<1>1. CASE c.kind = "object"
  <2> DEFINE f == [k \in DOMAIN c.fields \ {s} |-> c.fields[k]]
             r == WithoutChild(c, s)
  <2>1. r = Object(f)
    BY <1>1 DEF WithoutChild
  <2>2. \A k \in DOMAIN f : IsValue(f[k])
    BY <1>1, TreeParts
  <2>3. r.kind = "object" /\ r.fields = f
    BY <2>1 DEF Object
  <2>4. ASSUME NEW t PROVE Child(r, t) = IF s = t THEN Missing ELSE Child(c, t)
    <3> HIDE DEF r
    <3> QED
      BY <1>1, <2>3 DEF Child
  <2> HIDE DEF f
  <2>5. IsTree(r)
    BY <2>1, <2>2, ObjectTree
  <2>6. IsValue(r)
    BY <2>3, <2>5 DEF IsValue, Missing
  <2> QED
    BY <1>1, <2>4, <2>6
<1>2. CASE c.kind # "object"
  <2>1. c.kind = "array" /\ IsIndex(s) /\ Indices[s] < Len(c.items)
    BY <1>2 DEF Holds
  <2>2. PICK U : c.items \in Seq(U) /\ \A u \in U : IsValue(u)
    BY <2>1, TreeParts
  <2> DEFINE n == Len(c.items)
             k == Indices[s]
             list == [i \in 1..(n - 1) |-> IF i <= k THEN c.items[i] ELSE c.items[i + 1]]
  <2>3. n \in Nat /\ k \in Nat /\ k < n
    BY <2>1, <2>2, IndexFacts, LenProperties DEF IsIndex
  <2>4. \A i \in 1..n : c.items[i] \in U
    BY <2>2, ElementOfSeq
  <2>5. list \in [1..(n - 1) -> U]
    <3> HIDE DEF n, k
    <3> QED
      BY <2>3, <2>4
  <2>6. WithoutChild(c, s) = Array(list)
    BY <1>2 DEF WithoutChild
  <2> HIDE DEF list
  <2>7. list \in Seq(U)
    BY <2>3, <2>5, SeqDef
  <2>8. IsTree(Array(list)) /\ Array(list) # Missing
    BY <2>2, <2>7, ArrayTree DEF Array, Missing
  <2> QED
    BY <1>2, <2>6, <2>8 DEF IsValue
<1> QED
  BY <1>1, <1>2

\* What a grown array is filled up with.
Filler(p, i) == IF i = Len(p) THEN Null ELSE ContainerFor(p, i + 1)

LEMMA ContainerTree ==
  ASSUME NEW p, NEW i
  PROVE  /\ IsTree(ContainerFor(p, i))
         /\ ContainerFor(p, i) \in {EmptyObject, Array(<<>>)}
         /\ ContainerFor(p, i).kind = IF IsIndex(p[i]) THEN "array" ELSE "object"
         /\ \A t : Child(ContainerFor(p, i), t) = Missing
         /\ ContainerFor(p, i) # Missing /\ ContainerFor(p, i) # Null
<1>1. EmptyObject.kind = "object" /\ EmptyObject.fields = <<>>
  BY DEF EmptyObject, Object
<1>2. Array(<<>>).kind = "array" /\ Array(<<>>).items = <<>>
  BY DEF Array
<1>3. Len(<<>>) = 0 /\ DOMAIN <<>> = {}
  BY EmptySeq
<1>4. \A t : Child(EmptyObject, t) = Missing
  BY <1>1, <1>3 DEF Child
<1>5. \A t : Child(Array(<<>>), t) = Missing
  <2> SUFFICES ASSUME NEW t PROVE Child(Array(<<>>), t) = Missing
    OBVIOUS
  <2>1. IsIndex(t) => ~ (Indices[t] < 0)
    BY IndexFacts DEF IsIndex
  <2> QED
    BY <1>2, <1>3, <2>1 DEF Child
<1>6. Missing.kind = "missing" /\ Null.kind = "null"
  BY DEF Missing, Null
<1>7. CASE IsIndex(p[i])
  <2>1. ContainerFor(p, i) = Array(<<>>)
    BY <1>7 DEF ContainerFor
  <2> QED
    BY <1>2, <1>5, <1>6, <1>7, <2>1, EmptyTrees
<1>8. CASE ~ IsIndex(p[i])
  <2>1. ContainerFor(p, i) = EmptyObject
    BY <1>8 DEF ContainerFor
  <2> QED
    BY <1>1, <1>4, <1>6, <1>8, <2>1, EmptyTrees
<1> QED
  BY <1>7, <1>8

LEMMA FillerTree ==
  ASSUME NEW p, NEW i
  PROVE  /\ IsTree(Filler(p, i))
         /\ Filler(p, i) \in {Null, EmptyObject, Array(<<>>)}
         /\ Filler(p, i) # Missing
         /\ \A t : Child(Filler(p, i), t) = Missing
<1>1. Null.kind = "null" /\ Null # Missing
  BY DEF Null, Missing
<1>2. \A t : Child(Null, t) = Missing
  BY <1>1, ChildOfMissing
<1> QED
  BY <1>1, <1>2, ContainerTree, EmptyTrees DEF Filler

LEMMA WidenedFacts ==
  ASSUME NEW c, NEW p, NEW i, IsTree(c)
  PROVE  /\ IsTree(Widened(c, p, i))
         /\ Widened(c, p, i).kind = c.kind
         /\ c.kind = "array" /\ IsIndex(p[i]) => Holds(Widened(c, p, i), p[i])
         /\ \A t : \/ Child(Widened(c, p, i), t) = Child(c, t)
                   \/ /\ Child(c, t) = Missing /\ c.kind = "array" /\ IsIndex(t)
                      /\ Child(Widened(c, p, i), t) = Filler(p, i)
<1>1. CASE ~ (c.kind = "array" /\ IsIndex(p[i]))
  BY <1>1 DEF Widened
<1>2. CASE c.kind = "array" /\ IsIndex(p[i])
  <2>1. PICK U : c.items \in Seq(U) /\ \A u \in U : IsValue(u)
    BY <1>2, TreeParts
  <2> DEFINE f == Filler(p, i)
             T == U \cup {f}
             n == Len(c.items)
             k == Indices[p[i]] + 1
             m == IF k > n THEN k ELSE n
             list == [j \in 1..m |-> IF j <= n THEN c.items[j] ELSE f]
             w == Widened(c, p, i)
  <2>2. n \in Nat /\ k \in Nat /\ \A j \in 1..n : c.items[j] \in U
    BY <1>2, <2>1, IndexFacts, LenProperties, ElementOfSeq DEF IsIndex
  <2>3. w = Array(list)
    BY <1>2 DEF Widened, Resized, Filler
  <2>4. w.kind = "array" /\ w.items = list
    BY <2>3 DEF Array
  <2> HIDE DEF f, n, k, w
  <2>5. \A u \in T : IsValue(u)
    BY <2>1, FillerTree DEF f, IsValue
  <2>6. list \in [1..m -> T] /\ m \in Nat /\ m >= n /\ m >= k
    BY <2>2
  <2> HIDE DEF T, m, list
  <2>7. list \in Seq(T) /\ Len(list) = m
    <3>1. list \in Seq(T)
      BY <2>6, SeqDef
    <3>2. DOMAIN list = 1..m
      BY <2>6
    <3>3. DOMAIN list = 1..Len(list) /\ Len(list) \in Nat
      BY <3>1, LenProperties
    <3> QED
      BY <2>6, <3>1, <3>2, <3>3
  <2>8. IsTree(w)
    BY <2>3, <2>5, <2>7, ArrayTree
  <2>9. Holds(w, p[i])
    <3>1. Indices[p[i]] < Len(w.items)
      BY <1>2, <2>2, <2>4, <2>6, <2>7, IndexFacts DEF k, IsIndex
    <3> QED
      BY <1>2, <2>4, <3>1 DEF Holds
  <2>10. ASSUME NEW t
         PROVE  \/ Child(w, t) = Child(c, t)
                \/ Child(c, t) = Missing /\ IsIndex(t) /\ Child(w, t) = f
    <3>1. CASE IsIndex(t)
      <4>1. Indices[t] \in Nat
        BY <3>1, IndexFacts DEF IsIndex
      <4>2. CASE Indices[t] < n
        <5>1. list[Indices[t] + 1] = c.items[Indices[t] + 1]
          BY <2>2, <2>6, <4>1, <4>2 DEF list
        <5>2. Indices[t] < m
          BY <2>2, <2>6, <4>1, <4>2
        <5>3. Child(w, t) = list[Indices[t] + 1]
          BY <2>4, <2>7, <3>1, <5>2 DEF Child
        <5>4. Child(c, t) = c.items[Indices[t] + 1]
          BY <1>2, <3>1, <4>2 DEF Child, n
        <5> QED
          BY <5>1, <5>3, <5>4
      <4>3. CASE ~ (Indices[t] < n) /\ Indices[t] < m
        <5>1. list[Indices[t] + 1] = f
          BY <2>2, <2>6, <4>1, <4>3 DEF list
        <5>2. Child(w, t) = list[Indices[t] + 1]
          BY <2>4, <2>7, <3>1, <4>3 DEF Child
        <5>3. Child(c, t) = Missing
          BY <1>2, <4>3 DEF Child, n
        <5> QED
          BY <3>1, <5>1, <5>2, <5>3
      <4>4. CASE ~ (Indices[t] < n) /\ ~ (Indices[t] < m)
        <5>1. Child(w, t) = Missing
          BY <2>4, <2>7, <4>4 DEF Child
        <5>2. Child(c, t) = Missing
          BY <1>2, <4>4 DEF Child, n
        <5> QED
          BY <5>1, <5>2
      <4> QED
        BY <4>2, <4>3, <4>4
    <3>2. CASE ~ IsIndex(t)
      BY <1>2, <2>4, <3>2 DEF Child
    <3> QED
      BY <3>1, <3>2
  <2> QED
    BY <1>2, <2>4, <2>8, <2>9, <2>10 DEF w, f
<1> QED
  BY <1>1, <1>2

-----------------------------------------------------------------------------
(***************************************************************************)
(* Walks.                                                                  *)
(***************************************************************************)
LEMMA WalkTrees ==
  ASSUME NEW v, NEW S, NEW p \in Seq(S), IsTree(v)
  PROVE  \A i \in 0..Len(p) : IsTree(Walk(v, p)[i])
<1> DEFINE w == Walk(v, p)
           n == Len(p)
           Bad == {i \in 0..n : ~ IsTree(w[i])}
<1>1. n \in Nat
  BY LenProperties
<1>2. w[0] = v /\ \A i \in 1..n : w[i] = Child(w[i - 1], p[i])
  BY WalkSteps
<1> HIDE DEF w, n
<1>3. Bad \in SUBSET Nat
  BY <1>1
<1>4. Bad = {}
  <2> SUFFICES ASSUME Bad # {} PROVE FALSE
    OBVIOUS
  <2>1. PICK i \in Bad : \A k \in Bad : i <= k
    BY <1>3, LeastOne
  <2>2. i \in 1..n
    BY <1>1, <1>2
  <2>3. i - 1 \in 0..n /\ i - 1 \notin Bad
    BY <1>1, <2>1, <2>2
  <2>4. IsTree(w[i - 1])
    BY <2>3
  <2> QED
    BY <1>2, <2>2, <2>4, ChildTree
<1> QED
  BY <1>4 DEF w, n

\* Walks along one path that meet stay together.
LEMMA WalksMeet ==
  ASSUME NEW v, NEW u, NEW S, NEW q \in Seq(S), NEW k \in 0..Len(q),
         Walk(v, q)[k] = Walk(u, q)[k]
  PROVE  GetAt(v, q) = GetAt(u, q)
<1> DEFINE w == Walk(v, q)
           x == Walk(u, q)
           n == Len(q)
           Bad == {i \in k..n : w[i] # x[i]}
<1>1. n \in Nat
  BY LenProperties
<1>2. \A i \in 1..n : w[i] = Child(w[i - 1], q[i])
  BY WalkSteps
<1>3. \A i \in 1..n : x[i] = Child(x[i - 1], q[i])
  BY WalkSteps
<1>4. w[k] = x[k] /\ GetAt(v, q) = w[n] /\ GetAt(u, q) = x[n] /\ k \in 0..n
  BY DEF GetAt
<1> HIDE DEF w, x, n
<1>5. Bad \in SUBSET Nat
  BY <1>1, <1>4
<1>6. Bad = {}
  <2> SUFFICES ASSUME Bad # {} PROVE FALSE
    OBVIOUS
  <2>1. PICK i \in Bad : \A j \in Bad : i <= j
    BY <1>5, LeastOne
  <2>2. i \in 1..n /\ i > k
    BY <1>1, <1>4, <2>1
  <2>3. i - 1 \in k..n /\ i - 1 \notin Bad
    BY <1>1, <1>4, <2>1, <2>2
  <2>4. w[i - 1] = x[i - 1]
    BY <2>3
  <2> QED
    BY <1>2, <1>3, <2>2, <2>4
<1> QED
  BY <1>1, <1>4, <1>6

\* Nothing is found behind something missing.
LEMMA MissingStays ==
  ASSUME NEW v, NEW S, NEW q \in Seq(S), NEW k \in 0..Len(q), Walk(v, q)[k] = Missing
  PROVE  GetAt(v, q) = Missing
<1> DEFINE w == Walk(v, q)
           n == Len(q)
           Bad == {i \in k..n : w[i] # Missing}
<1>1. n \in Nat
  BY LenProperties
<1>2. \A i \in 1..n : w[i] = Child(w[i - 1], q[i])
  BY WalkSteps
<1>3. w[k] = Missing /\ GetAt(v, q) = w[n] /\ k \in 0..n
  BY DEF GetAt
<1>4. \A s : Child(Missing, s) = Missing
  BY ChildOfMissing DEF Missing
<1> HIDE DEF w, n
<1>5. Bad \in SUBSET Nat
  BY <1>1, <1>3
<1>6. Bad = {}
  <2> SUFFICES ASSUME Bad # {} PROVE FALSE
    OBVIOUS
  <2>1. PICK i \in Bad : \A j \in Bad : i <= j
    BY <1>5, LeastOne
  <2>2. i \in 1..n /\ i > k
    BY <1>1, <1>3, <2>1
  <2>3. i - 1 \in k..n /\ i - 1 \notin Bad
    BY <1>1, <1>3, <2>1, <2>2
  <2>4. w[i - 1] = Missing
    BY <2>3
  <2> QED
    BY <1>2, <1>4, <2>2, <2>4
<1> QED
  BY <1>1, <1>3, <1>6

\* On the way to something there are containers that hold it.
LEMMA HeldOnTheWay ==
  ASSUME NEW v, NEW S, NEW p \in Seq(S), Has(v, p)
  PROVE  \A i \in 1..Len(p) : Holds(Walk(v, p)[i - 1], p[i]) /\ Walk(v, p)[i - 1] # Missing
<1> SUFFICES ASSUME NEW i \in 1..Len(p)
             PROVE  Holds(Walk(v, p)[i - 1], p[i]) /\ Walk(v, p)[i - 1] # Missing
  OBVIOUS
<1>1. Len(p) \in Nat
  BY LenProperties
<1>2. i \in 0..Len(p) /\ i - 1 \in 0..Len(p)
  BY <1>1
<1>3. Walk(v, p)[i] # Missing /\ Walk(v, p)[i - 1] # Missing
  BY <1>2, MissingStays DEF Has
<1>4. Walk(v, p)[i] = Child(Walk(v, p)[i - 1], p[i])
  BY WalkSteps
<1> QED
  BY <1>3, <1>4 DEF Child, Holds

\* Two paths that address the same children lead to one value.
LEMMA SameWay ==
  ASSUME NEW v, NEW S, NEW p \in Seq(S), NEW R, NEW q \in Seq(R),
         NEW k \in Nat, k <= Len(p), k <= Len(q),
         \A i \in 1..k : Same(Walk(v, p)[i - 1], p[i], q[i])
  PROVE  Walk(v, q)[k] = Walk(v, p)[k]
<1> DEFINE w == Walk(v, p)
           x == Walk(v, q)
           Bad == {i \in 0..k : w[i] # x[i]}
<1>1. Len(p) \in Nat /\ Len(q) \in Nat
  BY LenProperties
<1>2. w[0] = v /\ \A i \in 1..Len(p) : w[i] = Child(w[i - 1], p[i])
  BY WalkSteps
<1>3. x[0] = v /\ \A i \in 1..Len(q) : x[i] = Child(x[i - 1], q[i])
  BY WalkSteps
<1>4. \A i \in 1..k : Child(w[i - 1], p[i]) = Child(w[i - 1], q[i])
  BY SameChild
<1> HIDE DEF w, x
<1>5. Bad \in SUBSET Nat
  OBVIOUS
<1>6. Bad = {}
  <2> SUFFICES ASSUME Bad # {} PROVE FALSE
    OBVIOUS
  <2>1. PICK i \in Bad : \A j \in Bad : i <= j
    BY <1>5, LeastOne
  <2>2. i \in 1..k /\ i \in 1..Len(p) /\ i \in 1..Len(q)
    BY <1>1, <1>2, <1>3, <2>1
  <2>3. i - 1 \in 0..k /\ ~ (i <= i - 1)
    BY <2>2
  <2>4. w[i - 1] = x[i - 1]
    BY <2>1, <2>3
  <2> QED
    BY <1>2, <1>3, <1>4, <2>1, <2>2, <2>4
<1> QED
  BY <1>6 DEF w, x

\* The first place at which two paths part.
LEMMA FirstApart ==
  ASSUME NEW c, NEW p, NEW q, NEW m \in Nat \ {0}, ~ Same(c[m], p[m], q[m])
  PROVE  \E k \in 1..m : ~ Same(c[k], p[k], q[k]) /\ \A i \in 1..(k - 1) : Same(c[i], p[i], q[i])
<1> DEFINE Bad == {i \in 1..m : ~ Same(c[i], p[i], q[i])}
<1>1. Bad \in SUBSET Nat /\ m \in Bad
  OBVIOUS
<1>2. PICK k \in Bad : \A j \in Bad : k <= j
  <2> HIDE DEF Bad
  <2> QED
    BY <1>1, LeastOne
<1>3. ASSUME NEW i \in 1..(k - 1) PROVE Same(c[i], p[i], q[i])
  <2>1. i \in 1..m /\ ~ (k <= i)
    OBVIOUS
  <2>2. i \notin Bad
    BY <1>2, <2>1
  <2> QED
    BY <2>1, <2>2
<1> QED
  BY <1>2, <1>3

-----------------------------------------------------------------------------
(***************************************************************************)
(* Containers that are changed from the inside out.                        *)
(***************************************************************************)
IsTower(c, p, inner, first, last, g) ==
    g = [i \in first..last |-> IF i = last THEN inner ELSE Replace(c[i], p[i], g[i + 1])]

LEMMA TowerExists ==
  ASSUME NEW c, NEW p, NEW inner, NEW n \in Nat \ {0}
  PROVE  \E g : IsTower(c, p, inner, 1, n, g)
<1> DEFINE Bad == {k \in 0..(n - 1) : ~ \E g : IsTower(c, p, inner, n - k, n, g)}
<1>1. ASSUME NEW k \in Nat, k + 1 <= n - 1, NEW g, IsTower(c, p, inner, n - k, n, g)
      PROVE  \E h : IsTower(c, p, inner, n - (k + 1), n, h)
  <2> DEFINE m == n - (k + 1)
             h == [i \in m..n |-> IF i = m THEN Replace(c[i], p[i], g[i + 1]) ELSE g[i]]
             W(i) == IF i = n THEN inner ELSE Replace(c[i], p[i], h[i + 1])
  <2>1. ASSUME NEW i \in m..n PROVE h[i] = W(i)
    <3>1. CASE i = m
      <4>1. i + 1 \in m..n /\ i + 1 # m /\ i # n
        BY <1>1, <3>1
      <4>2. h[i + 1] = g[i + 1]
        BY <4>1
      <4> QED
        BY <3>1, <4>1, <4>2
    <3>2. CASE i # m
      <4>1. i \in (n - k)..n
        BY <1>1, <3>2
      <4>2. h[i] = g[i]
        BY <3>2
      <4>3. g[i] = IF i = n THEN inner ELSE Replace(c[i], p[i], g[i + 1])
        BY <1>1, <4>1 DEF IsTower
      <4>4. i # n => i + 1 \in m..n /\ i + 1 # m
        BY <4>1
      <4>5. i # n => h[i + 1] = g[i + 1]
        BY <4>4
      <4> QED
        BY <4>2, <4>3, <4>5
    <3> QED
      BY <3>1, <3>2
  <2>2. h = [i \in m..n |-> W(i)]
    BY <2>1
  <2> QED
    BY <2>2 DEF IsTower
<1>2. \E g : IsTower(c, p, inner, n - 0, n, g)
  <2> DEFINE g == [i \in (n - 0)..n |-> inner]
             W(i) == IF i = n THEN inner ELSE Replace(c[i], p[i], g[i + 1])
  <2>1. \A i \in (n - 0)..n : i = n
    OBVIOUS
  <2>2. g = [i \in (n - 0)..n |-> W(i)]
    BY <2>1
  <2> QED
    BY <2>2 DEF IsTower
<1>3. Bad \in SUBSET Nat
  OBVIOUS
<1>4. Bad = {}
  <2> SUFFICES ASSUME Bad # {} PROVE FALSE
    OBVIOUS
  <2>1. PICK m \in Bad : \A k \in Bad : m <= k
    BY <1>3, LeastOne
  <2>2. m # 0 /\ m \in Nat /\ m <= n - 1
    BY <1>2, <2>1
  <2>3. m - 1 \in 0..(n - 1) /\ m - 1 \notin Bad
    BY <2>1, <2>2
  <2>4. \E g : IsTower(c, p, inner, n - (m - 1), n, g)
    BY <2>3
  <2>5. (m - 1) \in Nat /\ (m - 1) + 1 = m
    BY <2>2
  <2>6. \E h : IsTower(c, p, inner, n - ((m - 1) + 1), n, h)
    BY <1>1, <2>2, <2>4, <2>5
  <2> QED
    BY <2>1, <2>5, <2>6
<1>5. n - 1 \notin Bad /\ n - (n - 1) = 1 /\ n - 1 \in 0..(n - 1)
  BY <1>4
<1> QED
  BY <1>5

LEMMA PrunedSteps ==
  ASSUME NEW v, NEW S, NEW p \in Seq(S), p # <<>>
  PROVE  /\ Pruned(v, p)[Len(p)] = WithoutChild(Walk(v, p)[Len(p) - 1], p[Len(p)])
         /\ \A i \in 1..(Len(p) - 1) :
               Pruned(v, p)[i] = Replace(Walk(v, p)[i - 1], p[i], Pruned(v, p)[i + 1])
<1> DEFINE n == Len(p)
           c == [i \in 1..n |-> Walk(v, p)[i - 1]]
           inner == WithoutChild(Walk(v, p)[n - 1], p[n])
           F(g) == [i \in 1..n |-> IF i = n THEN WithoutChild(Walk(v, p)[i - 1], p[i])
                                   ELSE Replace(Walk(v, p)[i - 1], p[i], g[i + 1])]
<1>1. n \in Nat \ {0}
  BY EmptySeq
<1>2. \E g : g = F(g)
  <2>1. PICK g : IsTower(c, p, inner, 1, n, g)
    BY <1>1, TowerExists
  <2>2. g = [i \in 1..n |-> IF i = n THEN inner ELSE Replace(c[i], p[i], g[i + 1])]
    BY <2>1 DEF IsTower
  <2>3. \A i \in 1..n : (IF i = n THEN inner ELSE Replace(c[i], p[i], g[i + 1]))
                          = IF i = n THEN WithoutChild(Walk(v, p)[i - 1], p[i])
                            ELSE Replace(Walk(v, p)[i - 1], p[i], g[i + 1])
    OBVIOUS
  <2>4. g = F(g)
    BY <2>2, <2>3
  <2> QED
    BY <2>4
<1>3. Pruned(v, p) = CHOOSE g : g = F(g)
  BY DEF Pruned
<1> HIDE DEF F
<1>4. Pruned(v, p) = F(Pruned(v, p))
  BY <1>2, <1>3
<1> DEFINE r == Pruned(v, p)
<1>5. r = [i \in 1..n |-> IF i = n THEN WithoutChild(Walk(v, p)[i - 1], p[i])
                          ELSE Replace(Walk(v, p)[i - 1], p[i], r[i + 1])]
  BY <1>4 DEF F
<1> HIDE DEF r, n
<1>6. \A i \in 1..n : r[i] = IF i = n THEN WithoutChild(Walk(v, p)[i - 1], p[i])
                             ELSE Replace(Walk(v, p)[i - 1], p[i], r[i + 1])
  BY <1>5
<1>7. n \in 1..n /\ \A i \in 1..(n - 1) : i \in 1..n /\ i # n
  BY <1>1
<1> QED
  BY <1>6, <1>7 DEF r, n

\* A tower of containers over what is put inside.
Towers(c, p, g, n) ==
    /\ n \in Nat \ {0}
    /\ \A i \in 1..n : IsTree(c[i]) /\ Holds(c[i], p[i])
    /\ IsValue(g[n])
    /\ \A i \in 1..(n - 1) : g[i] = Replace(c[i], p[i], g[i + 1])

LEMMA TowerTrees ==
  ASSUME NEW c, NEW p, NEW g, NEW n, Towers(c, p, g, n)
  PROVE  \A i \in 1..n : IsValue(g[i])
<1> DEFINE Bad == {k \in 0..(n - 1) : ~ IsValue(g[n - k])}
<1>1. n \in Nat \ {0}
  BY DEF Towers
<1>2. Bad \in SUBSET Nat
  BY <1>1
<1>3. Bad = {}
  <2> SUFFICES ASSUME Bad # {} PROVE FALSE
    OBVIOUS
  <2>1. PICK k \in Bad : \A j \in Bad : k <= j
    BY <1>2, LeastOne
  <2>2. k # 0
    BY <1>1, <2>1 DEF Towers
  <2>3. k - 1 \in 0..(n - 1) /\ k - 1 \notin Bad
    BY <1>1, <2>1, <2>2
  <2>4. IsValue(g[n - (k - 1)])
    BY <2>3
  <2>5. n - (k - 1) = (n - k) + 1 /\ n - k \in 1..(n - 1) /\ n - k \in 1..n
    BY <1>1, <2>1, <2>2
  <2>6. g[n - k] = Replace(c[n - k], p[n - k], g[(n - k) + 1])
    BY <2>5 DEF Towers
  <2>7. IsTree(c[n - k]) /\ Holds(c[n - k], p[n - k])
    BY <2>5 DEF Towers
  <2>8. IsValue(g[n - k])
    BY <2>4, <2>5, <2>6, <2>7, ReplaceFacts
  <2> QED
    BY <2>1, <2>8
<1>4. ASSUME NEW i \in 1..n PROVE IsValue(g[i])
  <2>1. n - i \in 0..(n - 1) /\ n - (n - i) = i
    BY <1>1
  <2> QED
    BY <1>3, <2>1
<1> QED
  BY <1>4

LEMMA TowerChild ==
  ASSUME NEW c, NEW p, NEW g, NEW n, Towers(c, p, g, n), NEW i \in 1..(n - 1), NEW t
  PROVE  Child(g[i], t) = IF Same(c[i], p[i], t) THEN g[i + 1] ELSE Child(c[i], t)
<1>1. n \in Nat \ {0}
  BY DEF Towers
<1>2. i \in 1..n /\ i + 1 \in 1..n
  BY <1>1
<1>3. IsValue(g[i + 1])
  BY <1>2, TowerTrees
<1>4. IsTree(c[i]) /\ Holds(c[i], p[i]) /\ g[i] = Replace(c[i], p[i], g[i + 1])
  BY <1>2 DEF Towers
<1> QED
  BY <1>3, <1>4, ReplaceFacts

\* A path along the tower leads down it.
LEMMA TowerWalk ==
  ASSUME NEW c, NEW p, NEW g, NEW n, Towers(c, p, g, n),
         NEW S, NEW q \in Seq(S), NEW k \in 1..n, k - 1 <= Len(q),
         \A i \in 1..(k - 1) : Same(c[i], p[i], q[i])
  PROVE  Walk(g[1], q)[k - 1] = g[k]
<1> DEFINE w == Walk(g[1], q)
           Bad == {i \in 0..(k - 1) : w[i] # g[i + 1]}
<1>1. n \in Nat \ {0} /\ Len(q) \in Nat
  BY LenProperties DEF Towers
<1>2. w[0] = g[1] /\ \A i \in 1..Len(q) : w[i] = Child(w[i - 1], q[i])
  BY WalkSteps
<1> HIDE DEF w
<1>3. Bad \in SUBSET Nat
  OBVIOUS
<1>4. Bad = {}
  <2> SUFFICES ASSUME Bad # {} PROVE FALSE
    OBVIOUS
  <2>1. PICK i \in Bad : \A j \in Bad : i <= j
    BY <1>3, LeastOne
  <2>2. i # 0
    BY <1>2, <2>1
  <2>3. i \in 1..(k - 1) /\ i \in 1..Len(q) /\ i \in 1..(n - 1)
    BY <1>1, <2>1, <2>2
  <2>4. i - 1 \in 0..(k - 1) /\ i - 1 \notin Bad /\ (i - 1) + 1 = i
    BY <2>1, <2>3
  <2>5. w[i - 1] = g[i]
    BY <2>4
  <2>6. Child(g[i], q[i]) = g[i + 1]
    BY <2>3, TowerChild
  <2> QED
    BY <1>2, <2>1, <2>3, <2>5, <2>6
<1>5. k - 1 \in 0..(k - 1) /\ (k - 1) + 1 = k
  BY <1>1
<1> QED
  BY <1>4, <1>5 DEF w

-----------------------------------------------------------------------------
(***************************************************************************)
(* Paths on one branch.                                                    *)
(***************************************************************************)
LEMMA PrefixPoints ==
  ASSUME NEW S, NEW s \in Seq(S), NEW t \in Seq(S)
  PROVE  IsPrefix(s, t) <=> Len(s) <= Len(t) /\ \A i \in 1..Len(s) : s[i] = t[i]
<1> DEFINE a == SubSeq(s, 1, Len(s))
           b == SubSeq(t, 1, Len(s))
<1> SUFFICES ASSUME Len(s) <= Len(t)
             PROVE  a = b <=> \A i \in 1..Len(s) : s[i] = t[i]
  BY DEF IsPrefix
<1>1. Len(s) \in Nat /\ Len(t) \in Nat
  BY LenProperties
<1>2. \A i \in 1..Len(s) : s[i] \in S /\ t[i] \in S
  BY <1>1, ElementOfSeq
<1>3. a = s
  BY SubSeqFull
<1>4. /\ b \in Seq(S) /\ Len(b) = IF 1 <= Len(s) THEN Len(s) - 1 + 1 ELSE 0
      /\ \A i \in 1..(Len(s) - 1 + 1) : b[i] = t[1 + i - 1]
  BY <1>1, <1>2, SubSeqProperties
<1> HIDE DEF a, b
<1>5. b \in Seq(S) /\ Len(b) = Len(s) /\ \A i \in 1..Len(s) : b[i] = t[i]
  BY <1>1, <1>4
<1> QED
  BY <1>3, <1>5, SeqEqual

LEMMA FrontPoints ==
  ASSUME NEW S, NEW p \in Seq(S), p # <<>>
  PROVE  /\ Front(p) \in Seq(S) /\ Len(Front(p)) = Len(p) - 1
         /\ \A i \in 1..(Len(p) - 1) : Front(p)[i] = p[i]
<1>1. Len(p) \in Nat \ {0}
  BY EmptySeq
<1>2. \A i \in 1..(Len(p) - 1) : p[i] \in S
  BY <1>1, ElementOfSeq
<1> DEFINE f == SubSeq(p, 1, Len(p) - 1)
<1>3. /\ f \in Seq(S)
      /\ Len(f) = IF 1 <= Len(p) - 1 THEN (Len(p) - 1) - 1 + 1 ELSE 0
      /\ \A i \in 1..((Len(p) - 1) - 1 + 1) : f[i] = p[1 + i - 1]
  BY <1>1, <1>2, SubSeqProperties
<1>4. Front(p) = f
  BY DEF Front
<1> HIDE DEF f
<1> QED
  BY <1>1, <1>3, <1>4

-----------------------------------------------------------------------------
(***************************************************************************)
(* take_value_at_path.                                                     *)
(***************************************************************************)
\* The containers on the way down p.
Way(v, p) == [i \in 1..Len(p) |-> Walk(v, p)[i - 1]]

LEMMA PrunedTower ==
  ASSUME NEW v, NEW S, NEW p \in Seq(S), p # <<>>, IsTree(v), Has(v, p)
  PROVE  Towers(Way(v, p), p, Pruned(v, p), Len(p))
<1> DEFINE n == Len(p)
           c == Way(v, p)
           g == Pruned(v, p)
<1>1. n \in Nat \ {0}
  BY EmptySeq
<1>2. \A i \in 1..n : i - 1 \in 0..n /\ c[i] = Walk(v, p)[i - 1]
  BY <1>1 DEF Way
<1>3. \A i \in 1..n : IsTree(c[i]) /\ Holds(c[i], p[i])
  BY <1>2, WalkTrees, HeldOnTheWay
<1>4. n \in 1..n
  BY <1>1
<1>5. g[n] = WithoutChild(Walk(v, p)[n - 1], p[n])
      /\ \A i \in 1..(n - 1) : g[i] = Replace(Walk(v, p)[i - 1], p[i], g[i + 1])
  BY PrunedSteps
<1> HIDE DEF c, g, n
<1>6. IsValue(g[n])
  BY <1>2, <1>3, <1>4, <1>5, WithoutChildFacts
<1>7. \A i \in 1..(n - 1) : g[i] = Replace(c[i], p[i], g[i + 1])
  BY <1>1, <1>2, <1>5
<1> QED
  BY <1>1, <1>3, <1>6, <1>7 DEF Towers, c, g, n

LEMMA WithoutTree ==
  ASSUME NEW v, NEW S, NEW p \in Seq(S), p # <<>>, IsTree(v), Has(v, p)
  PROVE  IsTree(Without(v, p))
<1>1. 1 \in 1..Len(p)
  BY EmptySeq
<1> QED
  BY <1>1, PrunedTower, TowerTrees DEF Without, IsValue

\* What a path that parts from p leads to stays, unless an element is removed.
LEMMA PrunedApart ==
  ASSUME NEW v, NEW S, NEW p \in Seq(S), p # <<>>, IsTree(v), Has(v, p),
         NEW R, NEW q \in Seq(R), NEW k \in 1..Len(p), k <= Len(q),
         ~ Same(Way(v, p)[k], p[k], q[k]),
         \A i \in 1..(k - 1) : Same(Way(v, p)[i], p[i], q[i]),
         k = Len(p) => Way(v, p)[k].kind = "object"
  PROVE  GetAt(Without(v, p), q) = GetAt(v, q)
<1> DEFINE n == Len(p)
           c == Way(v, p)
           g == Pruned(v, p)
           new == Without(v, p)
<1>1. n \in Nat \ {0} /\ Len(q) \in Nat /\ k \in 1..n /\ k - 1 \in 0..n /\ k \in 1..Len(q)
      /\ k \in 0..Len(q) /\ k - 1 \in Nat
  BY EmptySeq, LenProperties
<1>2. \A i \in 1..n : c[i] = Walk(v, p)[i - 1]
  BY DEF Way
<1>3. Walk(v, q)[k - 1] = c[k]
  <2>1. k - 1 <= Len(p) /\ k - 1 <= Len(q) /\ \A i \in 1..(k - 1) : i \in 1..n
    BY <1>1
  <2>2. \A i \in 1..(k - 1) : Same(Walk(v, p)[i - 1], p[i], q[i])
    BY <1>2, <2>1
  <2>3. Walk(v, q)[k - 1] = Walk(v, p)[k - 1]
    <3>1. k - 1 \in Nat
      BY <1>1
    <3> DEFINE j == k - 1
    <3> HIDE DEF c, g, n, new, j
    <3>2. j \in Nat /\ j <= Len(p) /\ j <= Len(q)
      BY <2>1, <3>1 DEF j
    <3>3. \A i \in 1..j : Same(Walk(v, p)[i - 1], p[i], q[i])
      BY <2>2 DEF j
    <3>4. Walk(v, q)[j] = Walk(v, p)[j]
      BY <3>2, <3>3, SameWay
    <3> QED
      BY <3>4 DEF j
  <2> QED
    BY <1>1, <1>2, <2>3
<1>4. Towers(c, p, g, n)
  BY PrunedTower
<1>5. Walk(new, q)[k - 1] = g[k]
  <2>1. k - 1 <= Len(q)
    BY <1>1
  <2>2. \A i \in 1..(k - 1) : Same(c[i], p[i], q[i])
    OBVIOUS
  <2>3. new = g[1]
    BY DEF Without
  <2> HIDE DEF c, g, n, new
  <2> QED
    BY <1>1, <1>4, <2>1, <2>2, <2>3, TowerWalk
<1>6. Child(g[k], q[k]) = Child(c[k], q[k])
  <2>1. CASE k # n
    <3>1. k \in 1..(n - 1)
      BY <1>1, <2>1
    <3>2. ~ Same(c[k], p[k], q[k])
      OBVIOUS
    <3> HIDE DEF c, g, n
    <3> QED
      BY <1>4, <3>1, <3>2, TowerChild
  <2>2. CASE k = n
    <3>1. c[k].kind = "object" /\ ~ Same(c[k], p[k], q[k])
      BY <2>2
    <3>2. p[k] # q[k]
      BY <3>1 DEF Same
    <3>3. g[k] = WithoutChild(c[k], p[k])
      BY <1>1, <1>2, <2>2, PrunedSteps
    <3>4. IsTree(c[k]) /\ Holds(c[k], p[k])
      BY <1>1, <1>4 DEF Towers
    <3> HIDE DEF c, g, n
    <3> QED
      BY <3>1, <3>2, <3>3, <3>4, WithoutChildFacts
  <2> QED
    BY <2>1, <2>2
<1>7. Walk(new, q)[k] = Child(g[k], q[k]) /\ Walk(v, q)[k] = Child(c[k], q[k])
  BY <1>1, <1>3, <1>5, WalkSteps
<1>8. Walk(new, q)[k] = Walk(v, q)[k]
  BY <1>6, <1>7
<1> HIDE DEF new
<1>9. GetAt(new, q) = GetAt(v, q)
  BY <1>1, <1>8, WalksMeet
<1> QED
  BY <1>9 DEF new

\* A key that is taken leaves no other path with something new, and is gone.
LEMMA PrunedKey ==
  ASSUME NEW v, NEW S, NEW p \in Seq(S), p # <<>>, IsTree(v), Has(v, p), ~ IsIndex(Last(p)),
         NEW R, NEW q \in Seq(R)
  PROVE  /\ Has(Without(v, p), q) => Has(v, q)
         /\ Len(p) <= Len(q) /\ (\A i \in 1..Len(p) : Same(Way(v, p)[i], p[i], q[i]))
              => ~ Has(Without(v, p), q)
<1> DEFINE n == Len(p)
           c == Way(v, p)
           g == Pruned(v, p)
           new == Without(v, p)
<1>1. n \in Nat \ {0} /\ Len(q) \in Nat
  BY EmptySeq, LenProperties
<1>2. \A i \in 1..n : c[i] = Walk(v, p)[i - 1]
  BY DEF Way
<1>3. Towers(c, p, g, n)
  BY PrunedTower
<1>4. c[n].kind = "object" /\ IsTree(c[n]) /\ Holds(c[n], p[n])
  <2>1. n \in 1..n
    BY <1>1
  <2>2. Holds(c[n], p[n]) /\ IsTree(c[n])
    BY <1>3, <2>1 DEF Towers
  <2> QED
    BY <2>2 DEF Holds, Last
<1>5. g[n] = WithoutChild(c[n], p[n])
  <2>1. n \in 1..n
    BY <1>1
  <2> QED
    BY <1>2, <2>1, PrunedSteps
<1>6. new = g[1]
  BY DEF Without
<1>7. ASSUME n <= Len(q), \A i \in 1..n : Same(c[i], p[i], q[i])
      PROVE  ~ Has(new, q)
  <2>1. n \in 1..n /\ n - 1 <= Len(q) /\ \A i \in 1..(n - 1) : i \in 1..n
    BY <1>1, <1>7
  <2>2. Walk(g[1], q)[n - 1] = g[n]
    <3>1. \A i \in 1..(n - 1) : Same(c[i], p[i], q[i])
      BY <1>7, <2>1
    <3> HIDE DEF c, g, n
    <3> QED
      BY <1>3, <2>1, <3>1, TowerWalk
  <2>3. q[n] = p[n]
    BY <1>4, <1>7, <2>1 DEF Same
  <2> HIDE DEF c, g, n, new
  <2>4. Child(g[n], q[n]) = Missing
    BY <1>4, <1>5, <2>3, WithoutChildFacts
  <2>5. n \in 1..Len(q) /\ n \in 0..Len(q)
    BY <1>1, <1>7
  <2>6. Walk(new, q)[n] = Missing
    BY <1>6, <2>2, <2>4, <2>5, WalkSteps
  <2> QED
    BY <2>5, <2>6, MissingStays DEF Has
<1>8. ASSUME Has(new, q) PROVE Has(v, q)
  <2>1. CASE \A i \in 1..n : i <= Len(q) => Same(c[i], p[i], q[i])
    <3>1. ~ (n <= Len(q))
      <4> SUFFICES ASSUME n <= Len(q) PROVE FALSE
        OBVIOUS
      <4>1. \A i \in 1..n : Same(c[i], p[i], q[i])
        BY <1>1, <2>1
      <4> QED
        BY <1>7, <1>8, <4>1
    <3> DEFINE m == Len(q)
    <3>2. m \in Nat /\ m <= n /\ m + 1 \in 1..n /\ \A i \in 1..m : i \in 1..n /\ i <= Len(q)
      BY <1>1, <3>1
    <3>3. \A i \in 1..m : Same(Walk(v, p)[i - 1], p[i], q[i])
      BY <1>2, <2>1, <3>2
    <3>4. Walk(v, q)[m] = Walk(v, p)[m]
      BY <3>2, <3>3, SameWay
    <3>5. Walk(v, p)[(m + 1) - 1] # Missing
      BY <3>2, HeldOnTheWay
    <3>6. (m + 1) - 1 = m
      BY <3>2
    <3> QED
      BY <3>4, <3>5, <3>6 DEF Has, GetAt
  <2>2. CASE ~ \A i \in 1..n : i <= Len(q) => Same(c[i], p[i], q[i])
    <3>1. PICK m \in 1..n : m <= Len(q) /\ ~ Same(c[m], p[m], q[m])
      BY <2>2
    <3> HIDE DEF c
    <3>2. m \in Nat \ {0}
      BY <1>1, <3>1
    <3>3. PICK k \in 1..m : ~ Same(c[k], p[k], q[k]) /\ \A i \in 1..(k - 1) : Same(c[i], p[i], q[i])
      BY <3>1, <3>2, FirstApart
    <3>4. k \in 1..n /\ k <= Len(q)
      BY <1>1, <3>1
    <3>5. k = n => c[k].kind = "object"
      BY <1>4
    <3>6. GetAt(new, q) = GetAt(v, q)
      BY <3>3, <3>4, <3>5, PrunedApart DEF c
    <3> QED
      BY <1>8, <3>6 DEF Has
  <2> QED
    BY <2>1, <2>2
<1> QED
  BY <1>7, <1>8

-----------------------------------------------------------------------------
(***************************************************************************)
(* insert_path.                                                            *)
(***************************************************************************)
LEMMA ContainersSteps ==
  ASSUME NEW v, NEW S, NEW p \in Seq(S), p # <<>>
  PROVE  /\ Containers(v, p)[1] = Widened(v, p, 1)
         /\ \A i \in 2..Len(p) :
               Containers(v, p)[i] = Widened(Entered(Containers(v, p)[i - 1], p, i), p, i)
<1> DEFINE n == Len(p)
           base == Widened(v, p, 1)
           F(g) == [i \in 1..n |-> Widened(IF i = 1 THEN v ELSE Entered(g[i - 1], p, i), p, i)]
<1>1. n \in Nat \ {0} /\ 1 + (n - 1) = n /\ n - 1 \in Nat
  BY EmptySeq
<1>2. \E g : g = F(g)
  <2>1. PICK g : IsWay("fill", p, base, 1, 1 + (n - 1), g)
    <3> HIDE DEF n
    <3> QED
      BY <1>1, WayExists
  <2>2. g = [i \in 1..n |-> IF i = 1 THEN base ELSE Widened(Entered(g[i - 1], p, i), p, i)]
    BY <1>1, <2>1 DEF IsWay, Turn
  <2>3. \A i \in 1..n : (IF i = 1 THEN base ELSE Widened(Entered(g[i - 1], p, i), p, i))
                          = Widened(IF i = 1 THEN v ELSE Entered(g[i - 1], p, i), p, i)
    OBVIOUS
  <2>4. g = F(g)
    BY <2>2, <2>3
  <2> QED
    BY <2>4
<1>3. Containers(v, p) = CHOOSE g : g = F(g)
  BY DEF Containers
<1> HIDE DEF F
<1>4. Containers(v, p) = F(Containers(v, p))
  BY <1>2, <1>3
<1> DEFINE r == Containers(v, p)
<1>5. r = [i \in 1..n |-> Widened(IF i = 1 THEN v ELSE Entered(r[i - 1], p, i), p, i)]
  BY <1>4 DEF F
<1> HIDE DEF r, n
<1>6. \A i \in 1..n : r[i] = Widened(IF i = 1 THEN v ELSE Entered(r[i - 1], p, i), p, i)
  BY <1>5
<1>7. 1 \in 1..n /\ \A i \in 2..n : i \in 1..n /\ i # 1
  BY <1>1
<1> QED
  BY <1>6, <1>7 DEF r, n

LEMMA FilledSteps ==
  ASSUME NEW c, NEW x, NEW S, NEW p \in Seq(S), p # <<>>
  PROVE  /\ Filled(c, p, x)[Len(p)] = Replace(c[Len(p)], p[Len(p)], x)
         /\ \A i \in 1..(Len(p) - 1) : Filled(c, p, x)[i] = Replace(c[i], p[i], Filled(c, p, x)[i + 1])
<1> DEFINE n == Len(p)
           inner == Replace(c[n], p[n], x)
           F(g) == [i \in 1..n |-> Replace(c[i], p[i], IF i = n THEN x ELSE g[i + 1])]
<1>1. n \in Nat \ {0}
  BY EmptySeq
<1>2. \E g : g = F(g)
  <2>1. PICK g : IsTower(c, p, inner, 1, n, g)
    BY <1>1, TowerExists
  <2>2. g = [i \in 1..n |-> IF i = n THEN inner ELSE Replace(c[i], p[i], g[i + 1])]
    BY <2>1 DEF IsTower
  <2>3. \A i \in 1..n : (IF i = n THEN inner ELSE Replace(c[i], p[i], g[i + 1]))
                          = Replace(c[i], p[i], IF i = n THEN x ELSE g[i + 1])
    OBVIOUS
  <2>4. g = F(g)
    BY <2>2, <2>3
  <2> QED
    BY <2>4
<1>3. Filled(c, p, x) = CHOOSE g : g = F(g)
  BY DEF Filled
<1> HIDE DEF F
<1>4. Filled(c, p, x) = F(Filled(c, p, x))
  BY <1>2, <1>3
<1> DEFINE r == Filled(c, p, x)
<1>5. r = [i \in 1..n |-> Replace(c[i], p[i], IF i = n THEN x ELSE r[i + 1])]
  BY <1>4 DEF F
<1> HIDE DEF r, n
<1>6. \A i \in 1..n : r[i] = Replace(c[i], p[i], IF i = n THEN x ELSE r[i + 1])
  BY <1>5
<1>7. n \in 1..n /\ \A i \in 1..(n - 1) : i \in 1..n /\ i # n
  BY <1>1
<1> QED
  BY <1>6, <1>7 DEF r, n

\* What the i-th segment of p is put in, before it is widened.
Entry(v, p, i) == IF i = 1 THEN v ELSE Entered(Containers(v, p)[i - 1], p, i)

LEMMA EntryTrees ==
  ASSUME NEW v, NEW S, NEW p \in Seq(S), p # <<>>, IsTree(v)
  PROVE  \A i \in 1..Len(p) : /\ IsTree(Entry(v, p, i))
                              /\ Containers(v, p)[i] = Widened(Entry(v, p, i), p, i)
                              /\ IsTree(Containers(v, p)[i])
<1> DEFINE n == Len(p)
           c == Containers(v, p)
           e(i) == Entry(v, p, i)
           Bad == {i \in 1..n : ~ IsTree(e(i))}
<1>1. n \in Nat \ {0}
  BY EmptySeq
<1>2. \A i \in 1..n : c[i] = Widened(e(i), p, i)
  <2> SUFFICES ASSUME NEW i \in 1..n PROVE c[i] = Widened(e(i), p, i)
    OBVIOUS
  <2>1. i = 1 \/ i \in 2..n
    BY <1>1
  <2> QED
    BY <2>1, ContainersSteps DEF Entry
<1>3. \A i \in 1..n : i # 1 => e(i) = Child(c[i - 1], p[i - 1]) \/ e(i) = ContainerFor(p, i)
  BY DEF Entry, Entered
<1>4. IsTree(e(1))
  BY DEF Entry
<1> HIDE DEF c, e, n
<1>5. Bad \in SUBSET Nat
  BY <1>1
<1>6. Bad = {}
  <2> SUFFICES ASSUME Bad # {} PROVE FALSE
    OBVIOUS
  <2>1. PICK i \in Bad : \A j \in Bad : i <= j
    BY <1>5, LeastOne
  <2>2. i \in 2..n
    BY <1>1, <1>4, <2>1
  <2>3. i - 1 \in 1..n /\ i - 1 \notin Bad
    BY <1>1, <2>1, <2>2
  <2>4. IsTree(e(i - 1))
    BY <2>3
  <2>5. IsTree(c[i - 1])
    BY <1>2, <2>3, <2>4, WidenedFacts
  <2>6. IsTree(e(i))
    BY <1>3, <2>1, <2>2, <2>5, ChildTree, ContainerTree
  <2> QED
    BY <2>1, <2>6
<1>7. \A i \in 1..n : IsTree(e(i)) /\ IsTree(c[i])
  BY <1>2, <1>6, WidenedFacts
<1> QED
  BY <1>2, <1>7 DEF c, e, n

\* Containers that hold what the segments of p address, with x in them.
LEMMA FilledTower ==
  ASSUME NEW c, NEW x, NEW S, NEW p \in Seq(S), p # <<>>, IsValue(x),
         \A i \in 1..Len(p) : IsTree(c[i]) /\ Holds(c[i], p[i])
  PROVE  Towers(c, p, Filled(c, p, x), Len(p))
<1> DEFINE n == Len(p)
           g == Filled(c, p, x)
<1>1. n \in Nat \ {0} /\ n \in 1..n
  BY EmptySeq
<1>2. g[n] = Replace(c[n], p[n], x) /\ \A i \in 1..(n - 1) : g[i] = Replace(c[i], p[i], g[i + 1])
  BY FilledSteps
<1>3. \A i \in 1..n : IsTree(c[i]) /\ Holds(c[i], p[i])
  OBVIOUS
<1> HIDE DEF g, n
<1>4. IsValue(g[n])
  BY <1>1, <1>2, <1>3, ReplaceFacts
<1> QED
  BY <1>1, <1>2, <1>3, <1>4 DEF Towers, g, n

LEMMA InsertTower ==
  ASSUME NEW v, NEW x, NEW S, NEW p \in Seq(S), p # <<>>, IsTree(v), IsValue(x),
         InsertPath(v, p, x) # Conflict
  PROVE  /\ Towers(Containers(v, p), p, Filled(Containers(v, p), p, x), Len(p))
         /\ InsertPath(v, p, x) = Filled(Containers(v, p), p, x)[1]
         /\ \A i \in 1..Len(p) : IsTree(Containers(v, p)[i]) /\ Holds(Containers(v, p)[i], p[i])
<1> DEFINE n == Len(p)
           c == Containers(v, p)
<1>1. n \in Nat \ {0} /\ DOMAIN p = 1..n
  BY EmptySeq, LenProperties
<1>2. ~ \E i \in DOMAIN p : Unfit(c[i], p, i)
  BY DEF InsertPath
<1>3. InsertPath(v, p, x) = Filled(c, p, x)[1]
  BY <1>2 DEF InsertPath
<1>4. \A i \in 1..n : IsTree(Entry(v, p, i)) /\ IsTree(c[i]) /\ c[i] = Widened(Entry(v, p, i), p, i)
  BY EntryTrees
<1> HIDE DEF c, n
<1>6. \A i \in 1..n : Holds(c[i], p[i])
  <2> SUFFICES ASSUME NEW i \in 1..n PROVE Holds(c[i], p[i])
    OBVIOUS
  <2>1. ~ Unfit(c[i], p, i)
    BY <1>1, <1>2
  <2>2. c[i].kind = "object" \/ (c[i].kind = "array" /\ IsIndex(p[i]))
    BY <2>1 DEF Unfit
  <2>3. CASE c[i].kind = "object"
    BY <2>3 DEF Holds
  <2>4. CASE c[i].kind = "array" /\ IsIndex(p[i])
    BY <1>4, <2>4, WidenedFacts
  <2> QED
    BY <2>2, <2>3, <2>4
<1>7. Towers(c, p, Filled(c, p, x), n)
  BY <1>4, <1>6, FilledTower DEF n
<1> QED
  BY <1>3, <1>4, <1>6, <1>7 DEF c, n

LEMMA InsertTree ==
  ASSUME NEW v, NEW x, NEW S, NEW p \in Seq(S), p # <<>>, IsTree(v), IsValue(x),
         InsertPath(v, p, x) # Conflict
  PROVE  IsValue(InsertPath(v, p, x))
<1>1. 1 \in 1..Len(p)
  BY EmptySeq
<1> QED
  BY <1>1, InsertTower, TowerTrees

\* A container is the one that was there, or it was made where there was nothing.
GrownFrom(b, o, p, i) == b = o \/ (o \in {Missing, Null} /\ b = ContainerFor(p, i))

LEMMA ChildOfNothing ==
  ASSUME NEW o \in {Missing, Null}, NEW t
  PROVE  Child(o, t) = Missing
<1>1. o.kind \notin {"object", "array"}
  BY DEF Missing, Null
<1> QED
  BY <1>1, ChildOfMissing

LEMMA GrownChild ==
  ASSUME NEW b, NEW o, NEW p, NEW i, IsTree(b), GrownFrom(b, o, p, i), NEW t
  PROVE  \/ Child(Widened(b, p, i), t) = Child(o, t)
         \/ /\ Child(o, t) = Missing /\ IsIndex(t)
            /\ Child(Widened(b, p, i), t) = Filler(p, i)
<1> DEFINE w == Widened(b, p, i)
<1>1. \/ Child(w, t) = Child(b, t)
      \/ Child(b, t) = Missing /\ IsIndex(t) /\ Child(w, t) = Filler(p, i)
  BY WidenedFacts
<1>2. CASE b = o
  BY <1>1, <1>2
<1>3. CASE o \in {Missing, Null} /\ b = ContainerFor(p, i)
  <2>1. Child(o, t) = Missing
    BY <1>3, ChildOfNothing
  <2>2. Child(b, t) = Missing
    BY <1>3, ContainerTree
  <2> QED
    BY <1>1, <2>1, <2>2
<1> QED
  BY <1>2, <1>3 DEF GrownFrom

LEMMA GrownDeeper ==
  ASSUME NEW b, NEW o, NEW p, NEW i \in Nat, i # Len(p), IsTree(b), GrownFrom(b, o, p, i),
         NEW t, Same(Widened(b, p, i), p[i], t)
  PROVE  GrownFrom(Entered(Widened(b, p, i), p, i + 1), Child(o, t), p, i + 1)
<1> DEFINE w == Widened(b, p, i)
           old == Child(w, p[i])
<1>1. old = Child(w, t)
  BY SameChild
<1>2. Filler(p, i) = ContainerFor(p, i + 1)
  BY DEF Filler
<1>3. Entered(w, p, i + 1)
        = IF old = Missing \/ (w.kind = "array" /\ old = Null) THEN ContainerFor(p, i + 1) ELSE old
  <2>1. (i + 1) - 1 = i
    OBVIOUS
  <2> HIDE DEF w
  <2> QED
    BY <2>1 DEF Entered
<1>4. \/ old = Child(o, t)
      \/ Child(o, t) = Missing /\ old = ContainerFor(p, i + 1)
  BY <1>1, <1>2, GrownChild
<1>5. ContainerFor(p, i + 1) # Missing /\ ContainerFor(p, i + 1) # Null
  BY ContainerTree
<1> HIDE DEF w, old
<1> QED
  BY <1>3, <1>4, <1>5 DEF GrownFrom, w

LEMMA GrownAlong ==
  ASSUME NEW v, NEW S, NEW p \in Seq(S), p # <<>>, IsTree(v), NEW R, NEW q \in Seq(R),
         NEW k \in 1..Len(p), k - 1 <= Len(q),
         \A i \in 1..(k - 1) : Same(Containers(v, p)[i], p[i], q[i])
  PROVE  GrownFrom(Entry(v, p, k), Walk(v, q)[k - 1], p, k)
<1> DEFINE n == Len(p)
           c == Containers(v, p)
           w == Walk(v, q)
           e(i) == Entry(v, p, i)
           Bad == {i \in 1..k : ~ GrownFrom(e(i), w[i - 1], p, i)}
<1>1. n \in Nat \ {0} /\ Len(q) \in Nat /\ k \in 1..n
  BY EmptySeq, LenProperties
<1>2. w[0] = v /\ \A i \in 1..Len(q) : w[i] = Child(w[i - 1], q[i])
  BY WalkSteps
<1>3. \A i \in 1..n : IsTree(e(i)) /\ c[i] = Widened(e(i), p, i)
  BY EntryTrees
<1>4. GrownFrom(e(1), w[1 - 1], p, 1)
  BY <1>2 DEF Entry, GrownFrom
<1>5. \A i \in Nat \ {0, 1} : e(i) = Entered(c[i - 1], p, i)
  BY DEF Entry
<1> HIDE DEF c, w, e
<1>6. Bad \in SUBSET Nat
  BY <1>1
<1>7. Bad = {}
  <2> SUFFICES ASSUME Bad # {} PROVE FALSE
    OBVIOUS
  <2>1. PICK i \in Bad : \A j \in Bad : i <= j
    BY <1>6, LeastOne
  <2>2. i # 1
    BY <1>4, <2>1
  <2> DEFINE j == i - 1
  <2>3. /\ j \in Nat /\ j \in 1..(k - 1) /\ j \in 1..k /\ j \in 1..n /\ j \in 1..Len(q)
        /\ j + 1 = i /\ j # n /\ i \in Nat \ {0, 1}
    BY <1>1, <2>1, <2>2
  <2>4. j \notin Bad
    BY <2>1, <2>3
  <2>5. GrownFrom(e(j), w[j - 1], p, j)
    BY <2>3, <2>4
  <2>6. Same(c[j], p[j], q[j]) /\ c[j] = Widened(e(j), p, j) /\ IsTree(e(j))
    BY <1>3, <2>3 DEF c
  <2> HIDE DEF j
  <2>7. GrownFrom(Entered(c[j], p, j + 1), Child(w[j - 1], q[j]), p, j + 1)
    BY <2>3, <2>5, <2>6, GrownDeeper
  <2>8. w[j] = Child(w[j - 1], q[j]) /\ e(i) = Entered(c[j], p, i)
    BY <1>2, <1>5, <2>3 DEF j
  <2>9. GrownFrom(e(i), w[i - 1], p, i)
    BY <2>3, <2>7, <2>8 DEF j
  <2> QED
    BY <2>1, <2>9
<1>8. k \in 1..k
  BY <1>1
<1> QED
  BY <1>7, <1>8 DEF w, e
=============================================================================
