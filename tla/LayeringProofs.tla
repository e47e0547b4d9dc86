--------------------------- MODULE LayeringProofs ---------------------------
(***************************************************************************)
(* What is proved of the stack of layers, for any values, any sources and  *)
(* any metadata.                                                           *)
(***************************************************************************)
EXTENDS Layering, JsonTreeProofs, FiniteSetTheorems

-----------------------------------------------------------------------------
(***************************************************************************)
(* Paths and their beginnings.                                             *)
(***************************************************************************)
IsPath(p) == \E S : p \in Seq(S)

\* The first i segments of p.
Upto(p, i) == SubSeq(p, 1, i)

LEMMA UptoPoints ==
  ASSUME NEW S, NEW p \in Seq(S), NEW i \in 0..Len(p)
  PROVE  /\ Upto(p, i) \in Seq(S) /\ Len(Upto(p, i)) = i
         /\ \A j \in 1..i : Upto(p, i)[j] = p[j]
BY SubSeqProperties DEF Upto

LEMMA UptoEnds ==
  ASSUME NEW S, NEW p \in Seq(S)
  PROVE  Upto(p, 0) = <<>> /\ Upto(p, Len(p)) = p
<1>1. Len(p) \in Nat
  BY LenProperties
<1>2. Upto(p, 0) \in Seq(S) /\ Len(Upto(p, 0)) = 0 /\ <<>> \in Seq(S)
  BY <1>1, UptoPoints, EmptySeq
<1>3. Upto(p, Len(p)) \in Seq(S) /\ Len(Upto(p, Len(p))) = Len(p)
      /\ \A j \in 1..Len(p) : Upto(p, Len(p))[j] = p[j]
  BY <1>1, UptoPoints
<1> QED
  BY <1>1, <1>2, <1>3, SeqEqual, EmptySeq

LEMMA UptoNext ==
  ASSUME NEW S, NEW p \in Seq(S), NEW i \in 1..Len(p)
  PROVE  Append(Upto(p, i - 1), p[i]) = Upto(p, i)
<1>1. Len(p) \in Nat /\ i - 1 \in 0..Len(p) /\ i \in 0..Len(p) /\ p[i] \in S
  BY LenProperties, ElementOfSeq
<1> DEFINE a == Upto(p, i - 1)
           b == Upto(p, i)
<1>2. /\ a \in Seq(S) /\ Len(a) = i - 1 /\ \A j \in 1..(i - 1) : a[j] = p[j]
      /\ b \in Seq(S) /\ Len(b) = i /\ \A j \in 1..i : b[j] = p[j]
  BY <1>1, UptoPoints
<1> HIDE DEF a, b
<1>3. /\ Append(a, p[i]) \in Seq(S) /\ Len(Append(a, p[i])) = i
      /\ \A j \in 1..i : Append(a, p[i])[j] = IF j = i THEN p[i] ELSE a[j]
  BY <1>1, <1>2, AppendProperties
<1>4. \A j \in 1..i : Append(a, p[i])[j] = b[j]
  BY <1>1, <1>2, <1>3
<1>5. Append(a, p[i]) = b
  BY <1>2, <1>3, <1>4, SeqEqual
<1> QED
  BY <1>5 DEF a, b

\* Paths that begin alike lead the same way.
LEMMA SameStart ==
  ASSUME NEW v, NEW S, NEW p \in Seq(S), NEW R, NEW q \in Seq(R),
         NEW k \in Nat, k <= Len(p), k <= Len(q), \A i \in 1..k : p[i] = q[i]
  PROVE  \A i \in 0..k : Walk(v, q)[i] = Walk(v, p)[i]
<1> SUFFICES ASSUME NEW i \in 0..k PROVE Walk(v, q)[i] = Walk(v, p)[i]
  OBVIOUS
<1>1. \A j \in 1..i : Same(Walk(v, p)[j - 1], p[j], q[j])
  BY DEF Same
<1>2. i \in Nat /\ i <= Len(p) /\ i <= Len(q)
  BY LenProperties
<1> QED
  BY <1>1, <1>2, SameWay

LEMMA WalkUpto ==
  ASSUME NEW v, NEW S, NEW p \in Seq(S), NEW i \in 0..Len(p)
  PROVE  /\ GetAt(v, Upto(p, i)) = Walk(v, p)[i]
         /\ \A j \in 0..i : Walk(v, Upto(p, i))[j] = Walk(v, p)[j]
<1>1. Len(p) \in Nat
  BY LenProperties
<1> DEFINE c == Upto(p, i)
<1>2. c \in Seq(S) /\ Len(c) = i /\ \A j \in 1..i : p[j] = c[j]
  BY UptoPoints
<1> HIDE DEF c
<1>3. \A j \in 0..i : Walk(v, c)[j] = Walk(v, p)[j]
  BY <1>1, <1>2, SameStart
<1> QED
  BY <1>2, <1>3 DEF GetAt, c

-----------------------------------------------------------------------------
(***************************************************************************)
(* The nodes of a value: the paths that spell what its containers have.    *)
(***************************************************************************)
OnNodes(v, p) == \A i \in 1..Len(p) : p[i] \in Segments(Walk(v, p)[i - 1])

Level(v, above, n) ==
    above \cup UNION {{Append(p, s) : s \in Segments(GetAt(v, p))} : p \in {q \in above : Len(q) = n - 1}}

IsLevels(v, n, f) == f = [m \in 0..n |-> IF m = 0 THEN {<<>>} ELSE Level(v, f[m - 1], m)]

LEMMA LevelsExist ==
  ASSUME NEW v, NEW n \in Nat
  PROVE  \E f : IsLevels(v, n, f)
<1> DEFINE Bad == {k \in Nat : ~ \E f : IsLevels(v, k, f)}
<1>1. ASSUME NEW k \in Nat, NEW f, IsLevels(v, k, f) PROVE \E g : IsLevels(v, k + 1, g)
  <2> DEFINE g == [m \in 0..(k + 1) |-> IF m = k + 1 THEN Level(v, f[k], m) ELSE f[m]]
             W(m) == IF m = 0 THEN {<<>>} ELSE Level(v, g[m - 1], m)
  <2>1. ASSUME NEW m \in 0..(k + 1) PROVE g[m] = W(m)
    <3>1. CASE m = k + 1
      <4>1. m - 1 = k /\ k \in 0..(k + 1) /\ k # k + 1 /\ m # 0
        BY <3>1
      <4>2. g[m - 1] = f[k]
        BY <4>1
      <4> QED
        BY <3>1, <4>1, <4>2
    <3>2. CASE m # k + 1
      <4>1. m \in 0..k /\ g[m] = f[m]
        BY <3>2
      <4>2. f[m] = IF m = 0 THEN {<<>>} ELSE Level(v, f[m - 1], m)
        BY <1>1, <4>1 DEF IsLevels
      <4>3. m # 0 => m - 1 \in 0..(k + 1) /\ m - 1 # k + 1
        BY <4>1
      <4>4. m # 0 => g[m - 1] = f[m - 1]
        BY <4>3
      <4> QED
        BY <4>1, <4>2, <4>4
    <3> QED
      BY <3>1, <3>2
  <2>2. g = [m \in 0..(k + 1) |-> W(m)]
    BY <2>1
  <2> QED
    BY <2>2 DEF IsLevels
<1>2. \E f : IsLevels(v, 0, f)
  <2> DEFINE f == [m \in 0..0 |-> {<<>>}]
             W(m) == IF m = 0 THEN {<<>>} ELSE Level(v, f[m - 1], m)
  <2>1. f = [m \in 0..0 |-> W(m)]
    OBVIOUS
  <2> QED
    BY <2>1 DEF IsLevels
<1>3. Bad = {}
  <2> SUFFICES ASSUME Bad # {} PROVE FALSE
    OBVIOUS
  <2>1. PICK m \in Bad : \A k \in Bad : m <= k
    BY LeastOne
  <2>2. m \in Nat \ {0}
    BY <1>2, <2>1
  <2>3. m - 1 \in Nat /\ m - 1 \notin Bad /\ (m - 1) + 1 = m
    BY <2>1, <2>2
  <2>4. \E f : IsLevels(v, m - 1, f)
    BY <2>3
  <2>5. \E g : IsLevels(v, (m - 1) + 1, g)
    BY <1>1, <2>3, <2>4
  <2> QED
    BY <2>1, <2>3, <2>5
<1> QED
  BY <1>3

LEMMA NodesSteps ==
  ASSUME NEW v
  PROVE  \E f : IsLevels(v, MaxDepth, f) /\ Nodes(v) = f[MaxDepth]
<1> DEFINE F(f) == [m \in 0..MaxDepth |->
                      IF m = 0 THEN {<<>>}
                      ELSE LET above == f[m - 1]
                           IN  above \cup UNION {{Append(p, s) : s \in Segments(GetAt(v, p))} :
                                                   p \in {q \in above : Len(q) = m - 1}}]
           upto == CHOOSE f : f = F(f)
<1>1. \A f : IsLevels(v, MaxDepth, f) <=> f = F(f)
  BY DEF IsLevels, Level
<1>2. \E f : f = F(f)
  BY <1>1, LevelsExist, DepthAssumption
<1>3. Nodes(v) = upto[MaxDepth]
  BY DEF Nodes
<1> HIDE DEF F
<1>4. upto = F(upto)
  BY <1>2
<1> HIDE DEF upto
<1> QED
  BY <1>1, <1>3, <1>4

\* The nodes of v that are not deeper than n.
IsNode(v, p, n) == IsPath(p) /\ Len(p) <= n /\ OnNodes(v, p)

LEMMA NodeStart ==
  ASSUME NEW v, NEW n \in Nat, NEW p
  PROVE  IsNode(v, p, n + 1) =>
           \/ IsNode(v, p, n)
           \/ \E q, s : IsNode(v, q, n) /\ Len(q) = n /\ s \in Segments(GetAt(v, q)) /\ p = Append(q, s)
<1> SUFFICES ASSUME IsNode(v, p, n + 1), ~ IsNode(v, p, n)
             PROVE  \E q, s : IsNode(v, q, n) /\ Len(q) = n /\ s \in Segments(GetAt(v, q)) /\ p = Append(q, s)
  OBVIOUS
<1>1. PICK S : p \in Seq(S)
  BY DEF IsNode, IsPath
<1>2. Len(p) \in Nat /\ Len(p) = n + 1 /\ OnNodes(v, p)
  BY <1>1, LenProperties DEF IsNode, IsPath
<1> DEFINE q == Upto(p, n)
<1>3. /\ q \in Seq(S) /\ Len(q) = n /\ \A j \in 1..n : q[j] = p[j]
      /\ GetAt(v, q) = Walk(v, p)[n] /\ \A j \in 0..n : Walk(v, q)[j] = Walk(v, p)[j]
  BY <1>1, <1>2, UptoPoints, WalkUpto
<1>4. p = Append(q, p[n + 1])
  <2>1. n + 1 \in 1..Len(p) /\ (n + 1) - 1 = n
    BY <1>2
  <2>2. Append(Upto(p, n), p[n + 1]) = Upto(p, n + 1)
    BY <1>1, <2>1, UptoNext
  <2> QED
    BY <1>1, <1>2, <2>2, UptoEnds
<1> HIDE DEF q
<1>5. OnNodes(v, q)
  <2> SUFFICES ASSUME NEW i \in 1..Len(q) PROVE q[i] \in Segments(Walk(v, q)[i - 1])
    BY DEF OnNodes
  <2>1. i \in 1..Len(p) /\ i - 1 \in 0..n /\ i \in 1..n
    BY <1>2, <1>3
  <2> QED
    BY <1>2, <1>3, <2>1 DEF OnNodes
<1>6. p[n + 1] \in Segments(GetAt(v, q))
  <2>1. n + 1 \in 1..Len(p) /\ (n + 1) - 1 = n
    BY <1>2
  <2> QED
    BY <1>2, <1>3, <2>1 DEF OnNodes
<1>7. IsNode(v, q, n)
  BY <1>3, <1>5 DEF IsNode, IsPath
<1> QED
  BY <1>3, <1>4, <1>6, <1>7

LEMMA NodeEnd ==
  ASSUME NEW v, NEW n \in Nat, NEW q, NEW s,
         IsNode(v, q, n), Len(q) = n, s \in Segments(GetAt(v, q))
  PROVE  IsNode(v, Append(q, s), n + 1)
<1>1. PICK S : q \in Seq(S)
  BY DEF IsNode, IsPath
<1> DEFINE p == Append(q, s)
           T == S \cup {s}
<1>2. q \in Seq(T)
  BY <1>1, SeqMonotonic
<1>3. p \in Seq(T) /\ Len(p) = n + 1 /\ p[n + 1] = s /\ \A i \in 1..n : p[i] = q[i]
  BY <1>2, AppendProperties
<1> HIDE DEF p, T
<1>4. \A i \in 0..n : Walk(v, p)[i] = Walk(v, q)[i]
  BY <1>2, <1>3, SameStart
<1>5. OnNodes(v, p)
  <2> SUFFICES ASSUME NEW i \in 1..Len(p) PROVE p[i] \in Segments(Walk(v, p)[i - 1])
    BY DEF OnNodes
  <2>1. CASE i = n + 1
    <3>1. p[i] = s /\ Walk(v, p)[i - 1] = GetAt(v, q)
      BY <1>3, <1>4, <2>1 DEF GetAt
    <3> QED
      BY <3>1
  <2>2. CASE i # n + 1
    <3>1. i \in 1..n /\ i - 1 \in 0..n
      BY <1>3, <2>2
    <3>2. q[i] \in Segments(Walk(v, q)[i - 1])
      BY <3>1 DEF IsNode, OnNodes
    <3> QED
      BY <1>3, <1>4, <3>1, <3>2
  <2> QED
    BY <2>1, <2>2
<1> QED
  BY <1>3, <1>5 DEF IsNode, IsPath, p

LEMMA NodePaths ==
  ASSUME NEW v, NEW p
  PROVE  p \in Nodes(v) <=> IsNode(v, p, MaxDepth)
<1>1. PICK f : IsLevels(v, MaxDepth, f) /\ Nodes(v) = f[MaxDepth]
  BY NodesSteps
<1>2. \A m \in 0..MaxDepth : f[m] = IF m = 0 THEN {<<>>} ELSE Level(v, f[m - 1], m)
  BY <1>1 DEF IsLevels
<1> DEFINE Bad == {m \in 0..MaxDepth : ~ \A q : q \in f[m] <=> IsNode(v, q, m)}
<1>3. 0 \notin Bad
  <2> SUFFICES ASSUME NEW q PROVE q \in f[0] <=> IsNode(v, q, 0)
    OBVIOUS
  <2>1. q \in f[0] <=> q = <<>>
    BY <1>2, DepthAssumption
  <2>2. q = <<>> => IsNode(v, q, 0)
    <3>1. <<>> \in Seq({}) /\ Len(<<>>) = 0
      BY EmptySeq
    <3>2. OnNodes(v, <<>>)
      BY <3>1 DEF OnNodes
    <3> QED
      BY <3>1, <3>2 DEF IsNode, IsPath
  <2>3. ASSUME IsNode(v, q, 0) PROVE q = <<>>
    <3>1. PICK S : q \in Seq(S)
      BY <2>3 DEF IsNode, IsPath
    <3>2. Len(q) = 0
      BY <2>3, <3>1, LenProperties DEF IsNode
    <3> QED
      BY <3>1, <3>2, EmptySeq
  <2> QED
    BY <2>1, <2>2, <2>3
<1>4. ASSUME NEW m \in 0..MaxDepth, m # 0, m - 1 \notin Bad PROVE m \notin Bad
  <2> SUFFICES ASSUME NEW q PROVE q \in f[m] <=> IsNode(v, q, m)
    OBVIOUS
  <2> DEFINE n == m - 1
  <2>1. n \in Nat /\ n \in 0..MaxDepth /\ n + 1 = m
    BY <1>4, DepthAssumption
  <2>2. \A o : o \in f[n] <=> IsNode(v, o, n)
    BY <1>4, <2>1
  <2>3. f[m] = Level(v, f[n], m)
    BY <1>2, <1>4
  <2> HIDE DEF n, Bad
  <2>4. q \in f[m] <=> \/ q \in f[n]
                       \/ \E o, s : o \in f[n] /\ Len(o) = n /\ s \in Segments(GetAt(v, o)) /\ q = Append(o, s)
    BY <2>1, <2>3 DEF Level
  <2>5. IsNode(v, q, n) => IsNode(v, q, m)
    <3> SUFFICES ASSUME IsNode(v, q, n) PROVE IsNode(v, q, m)
      OBVIOUS
    <3>1. Len(q) \in Nat /\ Len(q) <= n
      BY LenProperties DEF IsNode, IsPath
    <3> QED
      BY <2>1, <3>1 DEF IsNode
  <2>6. \A o, s : IsNode(v, o, n) /\ Len(o) = n /\ s \in Segments(GetAt(v, o)) => IsNode(v, Append(o, s), m)
    BY <2>1, NodeEnd
  <2>7. IsNode(v, q, m) =>
           \/ IsNode(v, q, n)
           \/ \E o, s : IsNode(v, o, n) /\ Len(o) = n /\ s \in Segments(GetAt(v, o)) /\ q = Append(o, s)
    BY <2>1, NodeStart
  <2> QED
    BY <2>2, <2>4, <2>5, <2>6, <2>7
<1>5. Bad = {}
  <2> SUFFICES ASSUME Bad # {} PROVE FALSE
    OBVIOUS
  <2>1. Bad \in SUBSET Nat
    BY DepthAssumption
  <2>2. PICK m \in Bad : \A k \in Bad : m <= k
    BY <2>1, LeastOne
  <2>3. m \in 0..MaxDepth /\ m # 0 /\ m - 1 \notin Bad
    BY <1>3, <2>2
  <2> HIDE DEF Bad
  <2> QED
    BY <1>4, <2>2, <2>3
<1>6. MaxDepth \in 0..MaxDepth
  BY DepthAssumption
<1> QED
  BY <1>1, <1>5, <1>6

\* What is found at the nodes of v, and the nodes on the way.
LEMMA NodeParts ==
  ASSUME NEW v, NEW p \in Nodes(v)
  PROVE  /\ \E S : p \in Seq(S)
         /\ Len(p) \in 0..MaxDepth
         /\ \A i \in 1..Len(p) : p[i] \in Segments(Walk(v, p)[i - 1])
         /\ \A i \in 0..Len(p) : Upto(p, i) \in Nodes(v)
<1>1. IsNode(v, p, MaxDepth)
  BY NodePaths
<1>2. PICK S : p \in Seq(S)
  BY <1>1 DEF IsNode, IsPath
<1>3. Len(p) \in 0..MaxDepth
  BY <1>1, <1>2, LenProperties, DepthAssumption DEF IsNode
<1>4. ASSUME NEW i \in 0..Len(p) PROVE Upto(p, i) \in Nodes(v)
  <2> DEFINE c == Upto(p, i)
  <2>1. c \in Seq(S) /\ Len(c) = i /\ \A j \in 1..i : c[j] = p[j]
    BY <1>2, UptoPoints
  <2>2. \A j \in 0..i : Walk(v, c)[j] = Walk(v, p)[j]
    BY <1>2, WalkUpto
  <2> HIDE DEF c
  <2>3. \A j \in 1..i : j \in 1..Len(p) /\ j - 1 \in 0..i
    BY <1>3
  <2>4. OnNodes(v, c)
    BY <1>1, <2>1, <2>2, <2>3 DEF IsNode, OnNodes
  <2>5. Len(c) <= MaxDepth
    BY <1>3, <2>1, DepthAssumption
  <2>6. IsNode(v, c, MaxDepth)
    BY <2>1, <2>4, <2>5 DEF IsNode, IsPath
  <2> QED
    BY <2>6, NodePaths DEF c
<1> QED
  BY <1>1, <1>2, <1>3, <1>4 DEF IsNode, OnNodes

LEMMA NodeOf ==
  ASSUME NEW v, NEW S, NEW p \in Seq(S), Len(p) <= MaxDepth,
         \A i \in 1..Len(p) : p[i] \in Segments(Walk(v, p)[i - 1])
  PROVE  p \in Nodes(v)
BY NodePaths DEF IsNode, IsPath, OnNodes

LEMMA RootNode == ASSUME NEW v PROVE <<>> \in Nodes(v)
<1>1. <<>> \in Seq({}) /\ Len(<<>>) = 0
  BY EmptySeq
<1>2. OnNodes(v, <<>>) /\ Len(<<>>) <= MaxDepth
  BY <1>1, DepthAssumption DEF OnNodes
<1> QED
  BY <1>1, <1>2, NodePaths DEF IsNode, IsPath

-----------------------------------------------------------------------------
(***************************************************************************)
(* Sound values: every place that can be addressed in one of their         *)
(* containers has something.  All values of layers are; what a merge makes *)
(* of them is, too, although it says nothing of elements that have no      *)
(* index.                                                                  *)
(***************************************************************************)
Whole(u) ==
    /\ u.kind = "array" => /\ \E U : u.items \in Seq(U)
                           /\ \A i \in 1..Len(u.items) : i <= 8 => u.items[i] # Missing
    /\ u.kind = "object" => \A k \in DOMAIN u.fields : u.fields[k] # Missing

Sound(v) == \E V : v \in V /\ \A u \in V : Whole(u) /\ \A s : Child(u, s) \in V

LEMMA WholeItems ==
  ASSUME NEW u, Whole(u), u.kind = "array"
  PROVE  Len(u.items) \in Nat /\ DOMAIN u.items = 1..Len(u.items)
BY LenProperties DEF Whole

LEMMA IndexNames ==
  /\ \A k \in 0..7 : IndexName(k) \in DOMAIN Indices /\ Indices[IndexName(k)] = k
                     /\ CanonicalIndex(IndexName(k)) = IndexName(k)
  /\ \A s \in DOMAIN Indices : IndexName(Indices[s]) = CanonicalIndex(s)
<1> DEFINE D == {"0", "00", "1", "2", "3", "4", "5", "6", "7"}
<1>1. DOMAIN Indices = D
  BY DEF Indices
<1>2. /\ Indices["0"] = 0 /\ Indices["00"] = 0 /\ Indices["1"] = 1 /\ Indices["2"] = 2
      /\ Indices["3"] = 3 /\ Indices["4"] = 4 /\ Indices["5"] = 5 /\ Indices["6"] = 6
      /\ Indices["7"] = 7
  BY DEF Indices
<1>3. \A k \in 0..7 : \E s \in D : Indices[s] = k /\ CanonicalIndex(s) = s
  <2> SUFFICES ASSUME NEW k \in 0..7 PROVE \E s \in D : Indices[s] = k /\ CanonicalIndex(s) = s
    OBVIOUS
  <2>1. k = 0 \/ k = 1 \/ k = 2 \/ k = 3 \/ k = 4 \/ k = 5 \/ k = 6 \/ k = 7
    OBVIOUS
  <2> QED
    BY <1>2, <2>1 DEF CanonicalIndex
<1>4. \A k \in 0..7 : IndexName(k) \in D /\ Indices[IndexName(k)] = k
                      /\ CanonicalIndex(IndexName(k)) = IndexName(k)
  BY <1>1, <1>3 DEF IndexName
<1>5. ASSUME NEW s \in D PROVE IndexName(Indices[s]) = CanonicalIndex(s)
  <2>1. Indices[s] \in 0..7 /\ s \in DOMAIN Indices
    BY <1>1, <1>5, IndexFacts
  <2>2. IndexName(Indices[s]) \in DOMAIN Indices /\ Indices[IndexName(Indices[s])] = Indices[s]
        /\ CanonicalIndex(IndexName(Indices[s])) = IndexName(Indices[s])
    BY <1>1, <1>4, <2>1
  <2> QED
    BY <2>1, <2>2, IndexFacts
<1> QED
  BY <1>1, <1>4, <1>5

LEMMA TreeSound ==
  ASSUME NEW v, IsTree(v)
  PROVE  Sound(v)
<1>1. PICK T : v \in T /\ Closed(T)
  BY DEF IsTree
<1> DEFINE W == {u \in T \cup {Missing} : IsTree(u)}
<1>2. v \in W
  BY <1>1
<1>3. ASSUME NEW u \in W PROVE Whole(u)
  <2>1. IsTree(u)
    OBVIOUS
  <2>2. /\ u.kind = "object" => \A k \in DOMAIN u.fields : IsValue(u.fields[k])
        /\ u.kind = "array" => \E U : u.items \in Seq(U) /\ \A w \in U : IsValue(w)
    BY <2>1, TreeParts
  <2>3. u.kind = "array" => /\ \E U : u.items \in Seq(U)
                            /\ \A i \in 1..Len(u.items) : IsValue(u.items[i])
    <3> SUFFICES ASSUME u.kind = "array"
                 PROVE  /\ \E U : u.items \in Seq(U)
                        /\ \A i \in 1..Len(u.items) : IsValue(u.items[i])
      OBVIOUS
    <3>1. PICK U : u.items \in Seq(U) /\ \A w \in U : IsValue(w)
      BY <2>2
    <3> QED
      BY <3>1, LenProperties, ElementOfSeq
  <2> QED
    BY <2>2, <2>3 DEF Whole, IsValue
<1>4. ASSUME NEW u \in W, NEW s PROVE Child(u, s) \in W
  <2>1. u = Missing \/ u \in T
    OBVIOUS
  <2>2. IsTree(Child(u, s))
    BY ChildTree
  <2>3. Child(u, s) \in T \cup {Missing}
    <3>1. CASE u.kind = "object" /\ s \in DOMAIN u.fields
      <4>1. u \in T
        BY <2>1, <3>1 DEF Missing
      <4> QED
        BY <1>1, <3>1, <4>1 DEF Child, Closed
    <3>2. CASE u.kind = "array" /\ IsIndex(s) /\ Indices[s] < Len(u.items)
      <4>1. u \in T
        BY <2>1, <3>2 DEF Missing
      <4>2. u.items \in Seq(T \ {Missing})
        BY <1>1, <3>2, <4>1 DEF Closed
      <4>3. Indices[s] + 1 \in 1..Len(u.items)
        BY <3>2, <4>2, IndexFacts, LenProperties DEF IsIndex
      <4>4. u.items[Indices[s] + 1] \in T \ {Missing}
        BY <4>2, <4>3, ElementOfSeq
      <4> QED
        BY <3>2, <4>4 DEF Child
    <3>3. CASE /\ ~ (u.kind = "object" /\ s \in DOMAIN u.fields)
               /\ ~ (u.kind = "array" /\ IsIndex(s) /\ Indices[s] < Len(u.items))
      BY <3>3 DEF Child
    <3> QED
      BY <3>1, <3>2, <3>3
  <2> QED
    BY <2>2, <2>3
<1> HIDE DEF W
<1> QED
  BY <1>2, <1>3, <1>4 DEF Sound

LEMMA WalkWithin ==
  ASSUME NEW V, \A u \in V : \A s : Child(u, s) \in V, NEW v \in V, NEW S, NEW p \in Seq(S)
  PROVE  \A i \in 0..Len(p) : Walk(v, p)[i] \in V
<1> DEFINE w == Walk(v, p)
           Bad == {i \in 0..Len(p) : w[i] \notin V}
<1>1. Len(p) \in Nat /\ w[0] = v /\ \A i \in 1..Len(p) : w[i] = Child(w[i - 1], p[i])
  BY WalkSteps, LenProperties
<1> HIDE DEF w
<1>2. Bad = {}
  <2> SUFFICES ASSUME Bad # {} PROVE FALSE
    OBVIOUS
  <2>1. Bad \in SUBSET Nat
    BY <1>1
  <2>2. PICK m \in Bad : \A k \in Bad : m <= k
    BY <2>1, LeastOne
  <2>3. m \in 1..Len(p)
    BY <1>1, <2>2
  <2>4. m - 1 \in 0..Len(p) /\ m - 1 \notin Bad
    BY <1>1, <2>2, <2>3
  <2> QED
    BY <1>1, <2>2, <2>3, <2>4
<1> QED
  BY <1>2 DEF w

\* What is sound is whole all the way down.
LEMMA SoundWalk ==
  ASSUME NEW v, NEW S, NEW p \in Seq(S), Sound(v)
  PROVE  \A i \in 0..Len(p) : Whole(Walk(v, p)[i])
<1>1. PICK V : v \in V /\ \A u \in V : Whole(u) /\ \A s : Child(u, s) \in V
  BY DEF Sound
<1>2. \A i \in 0..Len(p) : Walk(v, p)[i] \in V
  BY <1>1, WalkWithin
<1> QED
  BY <1>1, <1>2

\* A container has something at s.
Occupied(c, s) ==
    \/ c.kind = "object" /\ s \in DOMAIN c.fields
    \/ c.kind = "array" /\ IsIndex(s) /\ Indices[s] < Len(c.items)

LEMMA WholeByChildren ==
  ASSUME NEW u, u.kind = "array" => \E U : u.items \in Seq(U)
  PROVE  Whole(u) <=> \A s : Occupied(u, s) => Child(u, s) # Missing
<1>1. CASE u.kind = "object"
  BY <1>1 DEF Whole, Occupied, Child
<1>2. CASE u.kind = "array"
  <2>1. Len(u.items) \in Nat
    BY <1>2, LenProperties
  <2>2. Whole(u) <=> \A i \in 1..Len(u.items) : i <= 8 => u.items[i] # Missing
    BY <1>2 DEF Whole
  <2>3. ASSUME NEW s, Occupied(u, s)
        PROVE  /\ Indices[s] + 1 \in 1..Len(u.items) /\ Indices[s] + 1 <= 8
               /\ Child(u, s) = u.items[Indices[s] + 1]
    <3>1. IsIndex(s) /\ Indices[s] < Len(u.items) /\ Indices[s] \in 0..7
      BY <1>2, <2>3, IndexFacts DEF Occupied, IsIndex
    <3> QED
      BY <1>2, <2>1, <3>1 DEF Child
  <2>4. ASSUME NEW i \in 1..Len(u.items), i <= 8
        PROVE  \E s : Occupied(u, s) /\ Child(u, s) = u.items[i]
    <3> DEFINE s == IndexName(i - 1)
    <3>1. i - 1 \in 0..7 /\ (i - 1) + 1 = i /\ i - 1 < Len(u.items)
      BY <2>1, <2>4
    <3>2. IsIndex(s) /\ Indices[s] = i - 1
      BY <3>1, IndexNames DEF IsIndex
    <3> HIDE DEF s
    <3> QED
      BY <1>2, <3>1, <3>2 DEF Occupied, Child
  <2> QED
    BY <2>2, <2>3, <2>4
<1>3. CASE u.kind \notin {"object", "array"}
  BY <1>3 DEF Whole, Occupied
<1> QED
  BY <1>1, <1>2, <1>3

\* The segments of a whole container and its children.
LEMMA SegmentFacts ==
  ASSUME NEW u, NEW s
  PROVE  /\ Whole(u) /\ s \in Segments(u) =>
              Child(u, s) # Missing /\ (u.kind = "array" => IsIndex(s) /\ CanonicalIndex(s) = s)
         /\ Child(u, s) # Missing /\ (u.kind = "array" => CanonicalIndex(s) = s) => s \in Segments(u)
<1>1. CASE u.kind = "object"
  BY <1>1 DEF Segments, Child, Whole
<1>2. CASE u.kind = "array"
  <2>1. Segments(u) = {CanonicalIndex(t) : t \in {r \in DOMAIN Indices : Indices[r] < Len(u.items)}}
    BY <1>2 DEF Segments
  <2>2. ASSUME Whole(u), s \in Segments(u)
        PROVE  Child(u, s) # Missing /\ IsIndex(s) /\ CanonicalIndex(s) = s
    <3>1. PICK t \in DOMAIN Indices : Indices[t] < Len(u.items) /\ s = CanonicalIndex(t)
      BY <2>1, <2>2
    <3>2. s \in DOMAIN Indices /\ Indices[s] = Indices[t] /\ Indices[s] \in 0..7
          /\ CanonicalIndex(s) = s
      BY <3>1, IndexFacts
    <3>3. Indices[s] + 1 \in 1..Len(u.items) /\ Indices[s] + 1 <= 8
      BY <1>2, <2>2, <3>1, <3>2, WholeItems
    <3>4. u.items[Indices[s] + 1] # Missing
      BY <1>2, <2>2, <3>3 DEF Whole
    <3> QED
      BY <1>2, <3>1, <3>2, <3>4 DEF Child, IsIndex
  <2>3. ASSUME Child(u, s) # Missing, CanonicalIndex(s) = s PROVE s \in Segments(u)
    <3>1. s \in DOMAIN Indices /\ Indices[s] < Len(u.items)
      BY <1>2, <2>3 DEF Child, IsIndex
    <3> QED
      BY <2>1, <2>3, <3>1
  <2> QED
    BY <1>2, <2>2, <2>3
<1>3. CASE u.kind \notin {"object", "array"}
  BY <1>3 DEF Segments, Child
<1> QED
  BY <1>1, <1>2, <1>3

-----------------------------------------------------------------------------
(***************************************************************************)
(* One step of a merge: what merge_values makes of two values, and which   *)
(* children that has.                                                      *)
(***************************************************************************)
LEMMA GreatestOne ==
  ASSUME NEW n \in Nat, NEW T \in SUBSET (1..n), T # {}
  PROVE  Max(T) \in T /\ \A y \in T : Max(T) >= y
<1> DEFINE D == {n - y : y \in T}
<1>1. D \in SUBSET Nat /\ D # {}
  <2>1. \A y \in T : y \in 1..n /\ n - y \in Nat
    OBVIOUS
  <2> QED
    BY <2>1
<1>2. PICK d \in D : \A k \in D : d <= k
  BY <1>1, LeastOne
<1>3. PICK x \in T : d = n - x
  BY <1>2
<1>4. ASSUME NEW y \in T PROVE x >= y
  <2>1. n - y \in D /\ d <= n - y
    BY <1>2
  <2> QED
    BY <1>3, <2>1
<1> QED
  BY <1>4 DEF Max

\* A function on 1..n is a sequence of n elements.
LEMMA LengthOf ==
  ASSUME NEW n \in Nat, NEW f, f = [i \in 1..n |-> f[i]]
  PROVE  f \in Seq({f[i] : i \in 1..n}) /\ Len(f) = n
<1> DEFINE S == {f[i] : i \in 1..n}
<1>1. f \in [1..n -> S]
  OBVIOUS
<1>2. f \in Seq(S)
  BY <1>1, SeqDef
<1> HIDE DEF S
<1>3. DOMAIN f = 1..n /\ DOMAIN f = 1..Len(f) /\ Len(f) \in Nat
  BY <1>1, <1>2, LenProperties
<1>4. Len(f) = n
  BY <1>3
<1> QED
  BY <1>2, <1>4 DEF S

\* The w elements of an array of a elements that single ones of b are patched into.
IsPatched(P, old, new, under, a, b, w) ==
    /\ w >= a /\ DOMAIN P = 1..w /\ Len(P) = w /\ \E S : P \in Seq(S)
    /\ \A i \in 1..b : new[i] # Null => i <= w
    /\ \A i \in 1..w :
         P[i] = IF i \in 1..b /\ new[i] # Null
                  THEN IF i > a \/ old[i] = Null THEN new[i] ELSE under[IndexName(i - 1)]
                  ELSE IF i <= a THEN old[i] ELSE Null

LEMMA PatchedItems ==
  ASSUME NEW old, NEW new, NEW under, NEW a \in Nat, NEW b \in Nat,
         DOMAIN old = 1..a, DOMAIN new = 1..b, Len(old) = a
  PROVE  \E w \in Nat : IsPatched(Patched(old, new, under), old, new, under, a, b, w)
<1> DEFINE written == {i \in DOMAIN new : new[i] # Null}
           k == IF written = {} THEN 0 ELSE Max(written)
           w == IF k > a THEN k ELSE a
           wide == Resized(old, k, Null)
           P == Patched(old, new, under)
<1>1. written \in SUBSET (1..b)
  OBVIOUS
<1>2. k \in Nat /\ \A i \in written : i <= k
  <2>1. CASE written = {}
    BY <2>1
  <2>2. CASE written # {}
    <3> HIDE DEF written
    <3>1. Max(written) \in written /\ \A y \in written : Max(written) >= y
      BY <1>1, <2>2, GreatestOne
    <3>2. k = Max(written)
      BY <2>2
    <3>3. PICK x : x = Max(written)
      OBVIOUS
    <3>4. x \in written /\ \A y \in written : x >= y
      BY <3>1, <3>3
    <3>5. x \in Nat /\ \A i \in written : i <= x
      BY <1>1, <3>4
    <3> QED
      BY <3>2, <3>3, <3>5
  <2> QED
    BY <2>1, <2>2
<1>3. P = [i \in DOMAIN wide |->
             IF i \notin written THEN wide[i]
             ELSE IF wide[i] = Null THEN new[i] ELSE under[IndexName(i - 1)]]
  BY DEF Patched
<1>4. \A i \in 1..b : i \in written <=> new[i] # Null
  OBVIOUS
<1> HIDE DEF k, P
<1>5. wide = [i \in 1..w |-> IF i <= a THEN old[i] ELSE Null]
  BY DEF Resized
<1>6. w \in Nat /\ w >= a /\ w >= k
  BY <1>2
<1> HIDE DEF wide, written, w
<1>7. DOMAIN wide = 1..w /\ \A i \in 1..w : wide[i] = IF i <= a THEN old[i] ELSE Null
  BY <1>5
<1>8. DOMAIN P = 1..w
  BY <1>3, <1>7
<1>9. Len(P) = w /\ \E S : P \in Seq(S)
  <2>1. P = [i \in 1..w |-> P[i]]
    BY <1>3, <1>7
  <2> QED
    BY <1>6, <2>1, LengthOf
<1>10. \A i \in 1..b : new[i] # Null => i <= w
  BY <1>2, <1>4, <1>6
<1>11. ASSUME NEW i \in 1..w
       PROVE  P[i] = IF i \in 1..b /\ new[i] # Null
                       THEN IF i > a \/ old[i] = Null THEN new[i] ELSE under[IndexName(i - 1)]
                       ELSE IF i <= a THEN old[i] ELSE Null
  <2>1. P[i] = IF i \notin written THEN wide[i]
               ELSE IF wide[i] = Null THEN new[i] ELSE under[IndexName(i - 1)]
    BY <1>3, <1>7
  <2>2. i \in written <=> i \in 1..b /\ new[i] # Null
    BY <1>1, <1>4
  <2>3. wide[i] = IF i <= a THEN old[i] ELSE Null
    BY <1>7
  <2> QED
    BY <1>6, <2>1, <2>2, <2>3
<1>12. IsPatched(P, old, new, under, a, b, w)
  BY <1>6, <1>8, <1>9, <1>10, <1>11 DEF IsPatched
<1> QED
  BY <1>6, <1>12 DEF P

\* An element that is not written stays, and one that is replaces a null or nothing.
ChildPatched(r, m, n, under, s) ==
    IF Child(n, s) \notin {Missing, Null}
      THEN Child(r, s) = IF Child(m, s) \in {Missing, Null} THEN Child(n, s) ELSE under[CanonicalIndex(s)]
      ELSE \/ Child(m, s) # Missing /\ Child(r, s) = Child(m, s)
           \/ Child(m, s) = Missing /\ (Child(r, s) = Null \/ (Child(r, s) = Missing /\ ~ Holds(r, s)))

LEMMA PatchedChild ==
  ASSUME NEW m, NEW n, NEW under, Whole(m), Whole(n), m.kind = "array", n.kind = "array", NEW s
  PROVE  ChildPatched(Array(Patched(m.items, n.items, under)), m, n, under, s)
<1> DEFINE a == Len(m.items)
           b == Len(n.items)
           P == Patched(m.items, n.items, under)
           r == Array(P)
<1>1. a \in Nat /\ b \in Nat /\ DOMAIN m.items = 1..a /\ DOMAIN n.items = 1..b
  BY WholeItems
<1>2. r.kind = "array" /\ r.items = P
  BY DEF Array
<1>3. PICK w \in Nat : IsPatched(P, m.items, n.items, under, a, b, w)
  BY <1>1, PatchedItems
<1> HIDE DEF P, r
<1>6. /\ w >= a /\ Len(P) = w
      /\ \A i \in 1..b : n.items[i] # Null => i <= w
      /\ \A i \in 1..w :
           P[i] = IF i \in 1..b /\ n.items[i] # Null
                    THEN IF i > a \/ m.items[i] = Null THEN n.items[i] ELSE under[IndexName(i - 1)]
                    ELSE IF i <= a THEN m.items[i] ELSE Null
  BY <1>3 DEF IsPatched
<1>4. ASSUME IsIndex(s) PROVE ChildPatched(r, m, n, under, s)
  <2> DEFINE j == Indices[s] + 1
  <2>1. j \in 1..8 /\ IndexName(j - 1) = CanonicalIndex(s)
    BY <1>4, IndexFacts, IndexNames DEF IsIndex
  <2>2. /\ Child(m, s) = IF j <= a THEN m.items[j] ELSE Missing
        /\ Child(n, s) = IF j <= b THEN n.items[j] ELSE Missing
        /\ Child(r, s) = IF j <= w THEN P[j] ELSE Missing
    BY <1>1, <1>2, <1>6, <1>4, IndexFacts DEF Child, IsIndex
  <2>3. (j <= a => m.items[j] # Missing) /\ (j <= b => n.items[j] # Missing)
    BY <1>1, <2>1 DEF Whole
  <2> HIDE DEF j
  <2>4. j <= w => P[j] = IF j <= b /\ n.items[j] # Null
                           THEN IF j > a \/ m.items[j] = Null THEN n.items[j] ELSE under[CanonicalIndex(s)]
                           ELSE IF j <= a THEN m.items[j] ELSE Null
    <3> SUFFICES ASSUME j <= w
                 PROVE  P[j] = IF j <= b /\ n.items[j] # Null
                           THEN IF j > a \/ m.items[j] = Null THEN n.items[j] ELSE under[CanonicalIndex(s)]
                           ELSE IF j <= a THEN m.items[j] ELSE Null
      OBVIOUS
    <3>1. j \in 1..w /\ (j \in 1..b <=> j <= b)
      BY <1>1, <2>1
    <3> QED
      BY <1>6, <2>1, <3>1
  <2>5. j <= b /\ n.items[j] # Null => j <= w
    BY <1>1, <1>6, <2>1
  <2> HIDE DEF a, b
  <2>6. CASE j <= b /\ n.items[j] # Null
    BY <1>1, <1>6, <2>1, <2>2, <2>3, <2>4, <2>5, <2>6 DEF ChildPatched, Holds
  <2>8. Holds(r, s) => j <= w
    BY <1>2, <1>6, <1>4, IndexFacts DEF Holds, IsIndex, j
  <2>7. CASE ~ (j <= b /\ n.items[j] # Null)
    <3>1. Child(n, s) \in {Missing, Null}
      BY <2>2, <2>7
    <3>2. CASE j <= a
      <4>1. j <= w /\ Child(m, s) # Missing
        BY <1>1, <1>6, <2>1, <2>2, <2>3, <3>2 DEF a
      <4>2. Child(r, s) = Child(m, s)
        BY <2>2, <2>4, <2>7, <3>2, <4>1
      <4> QED
        BY <3>1, <4>1, <4>2 DEF ChildPatched
    <3>3. CASE ~ (j <= a)
      <4>1. Child(m, s) = Missing
        BY <2>2, <3>3
      <4>2. CASE j <= w
        <5>1. Child(r, s) = Null
          BY <2>2, <2>4, <2>7, <3>3, <4>2
        <5> QED
          BY <3>1, <4>1, <5>1 DEF ChildPatched
      <4>3. CASE ~ (j <= w)
        <5>1. Child(r, s) = Missing /\ ~ Holds(r, s)
          BY <2>2, <2>8, <4>3
        <5> QED
          BY <3>1, <4>1, <5>1 DEF ChildPatched
      <4> QED
        BY <4>2, <4>3
    <3> QED
      BY <3>2, <3>3
  <2> QED
    BY <2>6, <2>7
<1>5. ASSUME ~ IsIndex(s) PROVE ChildPatched(r, m, n, under, s)
  BY <1>2, <1>5 DEF Child, ChildPatched, Holds
<1> QED
  BY <1>4, <1>5 DEF r, P

LEMMA PatchedSeq ==
  ASSUME NEW m, NEW n, NEW under, Whole(m), Whole(n), m.kind = "array", n.kind = "array"
  PROVE  \E S : Patched(m.items, n.items, under) \in Seq(S)
<1>1. /\ Len(m.items) \in Nat /\ Len(n.items) \in Nat
      /\ DOMAIN m.items = 1..Len(m.items) /\ DOMAIN n.items = 1..Len(n.items)
  BY WholeItems
<1>2. PICK w \in Nat : IsPatched(Patched(m.items, n.items, under), m.items, n.items, under,
                                Len(m.items), Len(n.items), w)
  BY <1>1, PatchedItems
<1> QED
  BY <1>2 DEF IsPatched

LEMMA AppendedItems ==
  ASSUME NEW m, NEW n, Whole(m), Whole(n), m.kind = "array", n.kind = "array"
  PROVE  LET all == Appended(m.items, n.items)
         IN  /\ \E S : all \in Seq(S)
             /\ Len(all) = Len(m.items) + Len(n.items) /\ DOMAIN all = 1..Len(all)
             /\ \A i \in 1..Len(all) :
                   all[i] = IF i <= Len(m.items) THEN m.items[i] ELSE n.items[i - Len(m.items)]
<1> DEFINE a == Len(m.items)
           b == Len(n.items)
           all == Appended(m.items, n.items)
<1>1. a \in Nat /\ b \in Nat /\ DOMAIN m.items = 1..a /\ DOMAIN n.items = 1..b
  BY WholeItems
<1>2. PICK U : m.items \in Seq(U)
  BY DEF Whole
<1>3. PICK W : n.items \in Seq(W)
  BY DEF Whole
<1>4. m.items \in Seq(U \cup W) /\ n.items \in Seq(U \cup W)
  BY <1>2, <1>3, SeqMonotonic
<1>5. /\ all \in Seq(U \cup W) /\ Len(all) = a + b
      /\ \A i \in 1..(a + b) : all[i] = IF i <= a THEN m.items[i] ELSE n.items[i - a]
  BY <1>4, ConcatProperties DEF Appended
<1>6. DOMAIN all = 1..Len(all)
  BY <1>5, LenProperties
<1> QED
  BY <1>5, <1>6

LEMMA AppendedChild ==
  ASSUME NEW m, NEW n, Whole(m), Whole(n), m.kind = "array", n.kind = "array", NEW s,
         NEW r, r = Array(Appended(m.items, n.items))
  PROVE  /\ Child(m, s) # Missing => Child(r, s) = Child(m, s)
         /\ Child(m, s) = Missing => \/ Child(r, s) = Missing /\ ~ Holds(r, s)
                                     \/ \E t : Child(r, s) = Child(n, t) /\ Child(n, t) # Missing
<1> DEFINE a == Len(m.items)
           b == Len(n.items)
           all == Appended(m.items, n.items)
<1>1. a \in Nat /\ b \in Nat
  BY WholeItems
<1>6. a = Len(m.items) /\ b = Len(n.items)
  OBVIOUS
<1>2. r.kind = "array" /\ r.items = all
  BY DEF Array
<1>3. /\ Len(all) = a + b
      /\ \A i \in 1..Len(all) : all[i] = IF i <= a THEN m.items[i] ELSE n.items[i - a]
  BY AppendedItems
<1> HIDE DEF all, a, b
<1>4. CASE IsIndex(s)
  <2> DEFINE j == Indices[s] + 1
  <2>1. j \in 1..8
    BY <1>4, IndexFacts DEF IsIndex
  <2>2. /\ Child(m, s) = IF j <= a THEN m.items[j] ELSE Missing
        /\ Child(r, s) = IF j <= a + b THEN all[j] ELSE Missing
    <3>1. Indices[s] \in 0..7
      BY <1>4, IndexFacts DEF IsIndex
    <3>2. /\ Child(m, s) = IF Indices[s] < Len(m.items) THEN m.items[Indices[s] + 1] ELSE Missing
          /\ Child(r, s) = IF Indices[s] < Len(all) THEN all[Indices[s] + 1] ELSE Missing
      BY <1>2, <1>4 DEF Child
    <3>3. (Indices[s] < a <=> j <= a) /\ (Indices[s] < a + b <=> j <= a + b)
      BY <1>1, <3>1
    <3> QED
      BY <1>3, <1>6, <3>2, <3>3
  <2>3. j <= a => m.items[j] # Missing
    BY <1>1, <1>6, <2>1 DEF Whole
  <2> HIDE DEF j
  <2>4. j <= a + b => all[j] = IF j <= a THEN m.items[j] ELSE n.items[j - a]
    BY <1>1, <1>3, <2>1
  <2>5. ASSUME ~ (j <= a), j <= a + b PROVE \E t : n.items[j - a] = Child(n, t) /\ Child(n, t) # Missing
    <3> DEFINE k == j - a - 1
               t == IndexName(k)
    <3>1. k \in 0..7 /\ k < b /\ k + 1 = j - a
      BY <1>1, <2>1, <2>5
    <3> HIDE DEF k
    <3>2. IsIndex(t) /\ Indices[t] = k
      BY <3>1, IndexNames DEF IsIndex
    <3> HIDE DEF t
    <3>3. Child(n, t) = n.items[Indices[t] + 1]
      BY <1>6, <3>1, <3>2 DEF Child
    <3>4. n.items[k + 1] # Missing
      <4>1. k + 1 \in 1..Len(n.items) /\ k + 1 <= 8
        BY <1>1, <1>6, <3>1
      <4> QED
        BY <4>1 DEF Whole
    <3> QED
      BY <3>1, <3>2, <3>3, <3>4
  <2>6. Holds(r, s) => j <= a + b
    <3>1. Indices[s] \in 0..7
      BY <1>4, IndexFacts DEF IsIndex
    <3>2. Holds(r, s) => Indices[s] < Len(all)
      BY <1>2 DEF Holds
    <3> QED
      BY <1>1, <1>3, <3>1, <3>2 DEF j
  <2> QED
    BY <1>1, <2>1, <2>2, <2>3, <2>4, <2>5, <2>6
<1>5. CASE ~ IsIndex(s)
  BY <1>2, <1>5 DEF Child, Holds
<1> QED
  BY <1>4, <1>5

LEMMA FieldsChild ==
  ASSUME NEW m, NEW n, NEW under, Whole(m), Whole(n), m.kind = "object", n.kind = "object", NEW s,
         DOMAIN under = Segments(n), NEW r, r = Object(MergedFields(m.fields, under))
  PROVE  /\ DOMAIN r.fields = DOMAIN m.fields \cup DOMAIN n.fields
         /\ Child(r, s) = IF Child(n, s) # Missing THEN under[s] ELSE Child(m, s)
<1>1. DOMAIN under = DOMAIN n.fields
  BY DEF Segments
<1>2. MergedFields(m.fields, under) =
        [k \in (DOMAIN m.fields) \cup (DOMAIN under) |-> IF k \in DOMAIN under THEN under[k] ELSE m.fields[k]]
  BY DEF MergedFields
<1>3. r.kind = "object" /\ r.fields = MergedFields(m.fields, under)
  BY DEF Object
<1>4. /\ DOMAIN r.fields = DOMAIN m.fields \cup DOMAIN n.fields
      /\ \A x \in DOMAIN r.fields : r.fields[x] = IF x \in DOMAIN n.fields THEN under[x] ELSE m.fields[x]
  BY <1>1, <1>2, <1>3
<1>5. Child(n, s) # Missing <=> s \in DOMAIN n.fields
  BY DEF Child, Whole
<1>6. Child(m, s) = IF s \in DOMAIN m.fields THEN m.fields[s] ELSE Missing
  BY DEF Child
<1>7. Child(r, s) = IF s \in DOMAIN r.fields THEN r.fields[s] ELSE Missing
  BY <1>3 DEF Child
<1> QED
  BY <1>4, <1>5, <1>6, <1>7

\* What is done with two values at c: elements are patched, elements are appended,
\* fields are merged; everywhere else the new value replaces the old one.
Patching(l, c, m, n) == m.kind = "array" /\ n.kind = "array" /\ Patches(l, c)

Appending(how, l, c, m, n) ==
    m.kind = "array" /\ n.kind = "array" /\ ~ Patches(l, c) /\ Strategy(how, c) = "Append"

Joining(how, c, m, n) == m.kind = "object" /\ n.kind = "object" /\ Strategy(how, c) # "Replace"

LEMMA MergedIs ==
  ASSUME NEW how, NEW l, NEW c, NEW m, NEW n, NEW under, NEW r, r = MergedAt(how, l, c, m, n, under)
  PROVE  /\ Patching(l, c, m, n) => r = Array(Patched(m.items, n.items, under))
         /\ Appending(how, l, c, m, n) => r = Array(Appended(m.items, n.items))
         /\ Joining(how, c, m, n) => r = Object(MergedFields(m.fields, under))
         /\ Patching(l, c, m, n) \/ Appending(how, l, c, m, n) \/ Joining(how, c, m, n) \/ r = n
         /\ r.kind = n.kind
         /\ n # Missing => r # Missing
         /\ n.kind \notin {"array", "object"} => r = n
<1>1. /\ Patching(l, c, m, n) => r = Array(Patched(m.items, n.items, under))
      /\ Appending(how, l, c, m, n) => r = Array(Appended(m.items, n.items))
      /\ Joining(how, c, m, n) => r = Object(MergedFields(m.fields, under))
      /\ Patching(l, c, m, n) \/ Appending(how, l, c, m, n) \/ Joining(how, c, m, n) \/ r = n
  BY DEF MergedAt, Patching, Appending, Joining
<1>2. \A x : Array(x).kind = "array" /\ Object(x).kind = "object" /\ Missing.kind = "missing"
  BY DEF Array, Object, Missing
<1>3. CASE Patching(l, c, m, n)
  BY <1>1, <1>2, <1>3 DEF Patching
<1>4. CASE Appending(how, l, c, m, n)
  BY <1>1, <1>2, <1>4 DEF Appending
<1>5. CASE Joining(how, c, m, n)
  BY <1>1, <1>2, <1>5 DEF Joining
<1> QED
  BY <1>1, <1>3, <1>4, <1>5

-----------------------------------------------------------------------------
(***************************************************************************)
(* The merge of two values, from the root down.                            *)
(***************************************************************************)
Both(old, new) == Nodes(old) \cap Nodes(new)

\* What becomes of the children of new at p, when f is what becomes of what both have.
Under(f, old, new, p) ==
    [s \in Segments(GetAt(new, p)) |->
       IF Append(p, s) \in Both(old, new) THEN f[Append(p, s)] ELSE GetAt(new, Append(p, s))]

MergedFrom(how, old, new, l, f, p) ==
    MergedAt(how, l, p, GetAt(old, p), GetAt(new, p), Under(f, old, new, p))

IsMerge(how, old, new, l, f) ==
    \A p \in Both(old, new) : f[p] = MergedFrom(how, old, new, l, f, p)

LEMMA UnderSame ==
  ASSUME NEW f, NEW g, NEW old, NEW new, NEW p,
         \A s \in Segments(GetAt(new, p)) : Append(p, s) \in Both(old, new) => f[Append(p, s)] = g[Append(p, s)]
  PROVE  Under(f, old, new, p) = Under(g, old, new, p)
BY DEF Under

LEMMA LongerNode ==
  ASSUME NEW v, NEW p \in Nodes(v), NEW s
  PROVE  Len(p) \in Nat /\ Len(Append(p, s)) = Len(p) + 1
<1>1. PICK S : p \in Seq(S)
  BY NodeParts
<1>2. p \in Seq(S \cup {s})
  BY <1>1, SeqMonotonic
<1> QED
  BY <1>2, AppendProperties, LenProperties

LEMMA MergeExists ==
  ASSUME NEW how, NEW old, NEW new, NEW l
  PROVE  \E f : IsMerge(how, old, new, l, f) /\ Merged(how, old, new, l) = f[<<>>]
<1> DEFINE B == Both(old, new)
           M(f, p) == MergedFrom(how, old, new, l, f, p)
           From(d, f) == \A p \in B : Len(p) >= d => f[p] = M(f, p)
           Bad == {k \in 0..(MaxDepth + 1) : ~ \E f : From((MaxDepth + 1) - k, f)}
<1>1. \A p \in B : Len(p) \in 0..MaxDepth
  BY NodeParts DEF Both
<1>2. MaxDepth \in Nat
  BY DepthAssumption
<1>3. ASSUME NEW d \in 1..(MaxDepth + 1), NEW f, From(d, f) PROVE \E g : From(d - 1, g)
  <2> DEFINE g == [p \in B |-> IF Len(p) >= d THEN f[p] ELSE M(f, p)]
  <2>1. ASSUME NEW p \in B, Len(p) >= d - 1 PROVE g[p] = M(g, p)
    <3>1. \A s : Append(p, s) \in B => g[Append(p, s)] = f[Append(p, s)]
      <4>1. ASSUME NEW s, Append(p, s) \in B PROVE g[Append(p, s)] = f[Append(p, s)]
        <5>1. Len(Append(p, s)) = Len(p) + 1 /\ Len(p) \in Nat
          BY LongerNode DEF Both
        <5>2. Len(Append(p, s)) >= d
          BY <1>2, <2>1, <5>1
        <5> QED
          BY <4>1, <5>2
      <4> QED
        BY <4>1
    <3>2. Under(g, old, new, p) = Under(f, old, new, p)
      <4> HIDE DEF g
      <4> QED
        BY <3>1, UnderSame
    <3>3. M(g, p) = M(f, p)
      BY <3>2 DEF MergedFrom
    <3>4. CASE Len(p) >= d
      BY <1>3, <3>3, <3>4
    <3>5. CASE ~ (Len(p) >= d)
      BY <3>3, <3>5
    <3> QED
      BY <3>4, <3>5
  <2> HIDE DEF g, M
  <2>2. From(d - 1, g)
    BY <2>1
  <2> QED
    BY <2>2
<1>4. 0 \notin Bad
  <2> DEFINE f == [p \in B |-> p]
  <2>1. From((MaxDepth + 1) - 0, f)
    BY <1>1, <1>2
  <2> HIDE DEF f, From
  <2> QED
    BY <2>1
<1>5. Bad = {}
  <2> SUFFICES ASSUME Bad # {} PROVE FALSE
    OBVIOUS
  <2>1. Bad \in SUBSET Nat
    BY <1>2
  <2>2. PICK m \in Bad : \A k \in Bad : m <= k
    BY <2>1, LeastOne
  <2>3. m \in 1..(MaxDepth + 1)
    BY <1>2, <1>4, <2>2
  <2>4. m - 1 \in 0..(MaxDepth + 1) /\ m - 1 \notin Bad
    <3> HIDE DEF Bad
    <3> QED
      BY <1>2, <2>2, <2>3
  <2> DEFINE d == (MaxDepth + 1) - (m - 1)
  <2>5. d \in 1..(MaxDepth + 1) /\ d - 1 = (MaxDepth + 1) - m
    BY <1>2, <2>3
  <2> HIDE DEF From
  <2>6. \E f : From(d, f)
    BY <2>4
  <2>7. \E g : From(d - 1, g)
    BY <1>3, <2>5, <2>6
  <2> QED
    BY <2>2, <2>5, <2>7
<1>6. PICK f : From(0, f)
  <2>1. MaxDepth + 1 \in 0..(MaxDepth + 1) /\ (MaxDepth + 1) - (MaxDepth + 1) = 0
    BY <1>2
  <2> HIDE DEF From
  <2> QED
    BY <1>5, <2>1
<1> DEFINE F(g) == [p \in B |-> M(g, p)]
           at == CHOOSE g : g = F(g)
<1>7. \E g : g = F(g)
  <2> DEFINE g == [p \in B |-> f[p]]
  <2>1. ASSUME NEW p \in B PROVE g[p] = M(g, p)
    <3>1. f[p] = M(f, p)
      BY <1>1, <1>6
    <3>2. Under(g, old, new, p) = Under(f, old, new, p)
      BY UnderSame
    <3>3. M(g, p) = M(f, p)
      BY <3>2 DEF MergedFrom
    <3> QED
      BY <3>1, <3>3
  <2>2. g = F(g)
    BY <2>1
  <2> QED
    BY <2>2
<1>8. Merged(how, old, new, l) = at[<<>>]
  BY DEF Merged, MergedFrom, Under, Both
<1>9. at = F(at)
  <2> HIDE DEF F
  <2> QED
    BY <1>7
<1> HIDE DEF at
<1>10. \A p \in B : at[p] = M(at, p)
  BY <1>9
<1> QED
  BY <1>8, <1>10 DEF IsMerge

LEMMA WalkAppend ==
  ASSUME NEW v, NEW S, NEW c \in Seq(S), NEW s
  PROVE  GetAt(v, Append(c, s)) = Child(GetAt(v, c), s)
<1> DEFINE T == S \cup {s}
           p == Append(c, s)
           n == Len(c)
<1>1. c \in Seq(T) /\ n \in Nat
  BY SeqMonotonic, LenProperties
<1>2. p \in Seq(T) /\ Len(p) = n + 1 /\ p[n + 1] = s /\ \A i \in 1..n : p[i] = c[i]
  BY <1>1, AppendProperties
<1> HIDE DEF p, T
<1>3. Walk(v, p)[n] = Walk(v, c)[n]
  BY <1>1, <1>2, SameStart
<1>4. n + 1 \in 1..Len(p) /\ (n + 1) - 1 = n
  BY <1>1, <1>2
<1>5. Walk(v, p)[n + 1] = Child(Walk(v, p)[n], p[n + 1])
  BY <1>2, <1>4, WalkSteps
<1> HIDE DEF n
<1>6. GetAt(v, p) = Walk(v, p)[n + 1] /\ GetAt(v, c) = Walk(v, c)[n]
  BY <1>2 DEF GetAt, n
<1> QED
  BY <1>2, <1>3, <1>5, <1>6 DEF p

\* What is at a node of a sound value.
LEMMA NodeThere ==
  ASSUME NEW v, Sound(v), NEW c \in Nodes(v)
  PROVE  Whole(GetAt(v, c)) /\ (c = <<>> \/ GetAt(v, c) # Missing)
<1>1. /\ \E S : c \in Seq(S)
      /\ Len(c) \in 0..MaxDepth
      /\ \A i \in 1..Len(c) : c[i] \in Segments(Walk(v, c)[i - 1])
  BY NodeParts
<1>2. PICK S : c \in Seq(S)
  BY <1>1
<1>3. Len(c) \in Nat /\ Len(c) \in 0..Len(c)
  BY <1>2, LenProperties
<1>4. \A i \in 0..Len(c) : Whole(Walk(v, c)[i])
  BY <1>2, SoundWalk
<1>5. Whole(GetAt(v, c))
  BY <1>3, <1>4 DEF GetAt
<1>6. CASE c = <<>>
  BY <1>5, <1>6
<1>7. CASE c # <<>>
  <2> DEFINE k == Len(c)
  <2>1. k \in 1..Len(c) /\ k - 1 \in 0..Len(c)
    BY <1>2, <1>3, <1>7, EmptySeq
  <2>2. Walk(v, c)[k] = Child(Walk(v, c)[k - 1], c[k])
    BY <1>2, <2>1, WalkSteps
  <2>3. Child(Walk(v, c)[k - 1], c[k]) # Missing
    BY <1>1, <1>4, <2>1, SegmentFacts
  <2> QED
    BY <1>5, <2>2, <2>3 DEF GetAt
<1> QED
  BY <1>5, <1>6, <1>7

Goes(f, old, new, c, s) ==
    IF Append(c, s) \in Both(old, new) THEN f[Append(c, s)] ELSE Child(GetAt(new, c), s)

\* The children of what becomes of a node that both have.
MergeStep(how, old, new, l, f, c) ==
    LET m == GetAt(old, c)
        n == GetAt(new, c)
        r == f[c]
    IN  /\ r.kind = n.kind /\ (n # Missing => r # Missing) /\ (n.kind \notin {"array", "object"} => r = n)
        /\ \/ Patching(l, c, m, n) /\ \E S : r.items \in Seq(S)
           \/ Appending(how, l, c, m, n) /\ \E S : r.items \in Seq(S)
           \/ Joining(how, c, m, n)
           \/ r = n
        /\ Patching(l, c, m, n) =>
             \A s : IF Child(n, s) \notin {Missing, Null}
                      THEN Child(r, s) = IF Child(m, s) \in {Missing, Null} THEN Child(n, s)
                                         ELSE Goes(f, old, new, c, CanonicalIndex(s))
                      ELSE \/ Child(m, s) # Missing /\ Child(r, s) = Child(m, s)
                           \/ Child(m, s) = Missing /\ (Child(r, s) = Null \/ (Child(r, s) = Missing /\ ~ Holds(r, s)))
        /\ Appending(how, l, c, m, n) =>
             /\ r = Array(Appended(m.items, n.items))
             /\ \A s : IF Child(m, s) # Missing THEN Child(r, s) = Child(m, s)
                       ELSE \/ Child(r, s) = Missing /\ ~ Holds(r, s)
                            \/ \E t : Child(r, s) = Child(n, t) /\ Child(n, t) # Missing
        /\ Joining(how, c, m, n) =>
             /\ DOMAIN r.fields = DOMAIN m.fields \cup DOMAIN n.fields
             /\ \A s : Child(r, s) = IF Child(n, s) # Missing THEN Goes(f, old, new, c, s) ELSE Child(m, s)

LEMMA MergeSteps ==
  ASSUME NEW how, NEW old, NEW new, NEW l, NEW f, IsMerge(how, old, new, l, f), Sound(old), Sound(new),
         NEW c \in Both(old, new)
  PROVE  MergeStep(how, old, new, l, f, c)
<1> DEFINE m == GetAt(old, c)
           n == GetAt(new, c)
           r == f[c]
           u == Under(f, old, new, c)
           G(s) == Goes(f, old, new, c, s)
<1>1. Whole(m) /\ Whole(n)
  BY NodeThere DEF Both
<1>2. r = MergedAt(how, l, c, m, n, u)
  BY DEF IsMerge, MergedFrom
<1>3. DOMAIN u = Segments(n) /\ \A s \in Segments(n) : u[s] = G(s)
  <2>1. PICK S : c \in Seq(S)
    BY NodeParts DEF Both
  <2>2. \A s : GetAt(new, Append(c, s)) = Child(n, s)
    BY <2>1, WalkAppend
  <2> QED
    BY <2>2 DEF Under, Goes
<1> HIDE DEF m, n, r, u, G
<1>4. /\ Patching(l, c, m, n) => r = Array(Patched(m.items, n.items, u))
      /\ Appending(how, l, c, m, n) => r = Array(Appended(m.items, n.items))
      /\ Joining(how, c, m, n) => r = Object(MergedFields(m.fields, u))
      /\ Patching(l, c, m, n) \/ Appending(how, l, c, m, n) \/ Joining(how, c, m, n) \/ r = n
      /\ r.kind = n.kind /\ (n # Missing => r # Missing) /\ (n.kind \notin {"array", "object"} => r = n)
  BY <1>2, MergedIs
<1>5. ASSUME Patching(l, c, m, n)
      PROVE  /\ \E S : r.items \in Seq(S)
             /\ \A s : IF Child(n, s) \notin {Missing, Null}
                      THEN Child(r, s) = IF Child(m, s) \in {Missing, Null} THEN Child(n, s)
                                         ELSE G(CanonicalIndex(s))
                      ELSE \/ Child(m, s) # Missing /\ Child(r, s) = Child(m, s)
                           \/ Child(m, s) = Missing /\ (Child(r, s) = Null \/ (Child(r, s) = Missing /\ ~ Holds(r, s)))
  <2>1. m.kind = "array" /\ n.kind = "array" /\ r = Array(Patched(m.items, n.items, u))
    BY <1>4, <1>5 DEF Patching
  <2>2. \E S : r.items \in Seq(S)
    BY <1>1, <2>1, PatchedSeq DEF Array
  <2>3. ASSUME NEW s
        PROVE  IF Child(n, s) \notin {Missing, Null}
                      THEN Child(r, s) = IF Child(m, s) \in {Missing, Null} THEN Child(n, s)
                                         ELSE G(CanonicalIndex(s))
                      ELSE \/ Child(m, s) # Missing /\ Child(r, s) = Child(m, s)
                           \/ Child(m, s) = Missing /\ (Child(r, s) = Null \/ (Child(r, s) = Missing /\ ~ Holds(r, s)))
    <3>1. ChildPatched(r, m, n, u, s)
      BY <1>1, <2>1, PatchedChild
    <3>2. Child(n, s) # Missing => u[CanonicalIndex(s)] = G(CanonicalIndex(s))
      <4> SUFFICES ASSUME Child(n, s) # Missing PROVE CanonicalIndex(s) \in Segments(n)
        BY <1>3
      <4>1. s \in DOMAIN Indices /\ Indices[s] < Len(n.items)
        BY <2>1 DEF Child, IsIndex
      <4> QED
        BY <2>1, <4>1 DEF Segments
    <3> QED
      BY <3>1, <3>2 DEF ChildPatched
  <2> QED
    BY <2>2, <2>3
<1>6. ASSUME Appending(how, l, c, m, n)
      PROVE  /\ r = Array(Appended(m.items, n.items)) /\ \E S : r.items \in Seq(S)
             /\ \A s : IF Child(m, s) # Missing THEN Child(r, s) = Child(m, s)
                       ELSE \/ Child(r, s) = Missing /\ ~ Holds(r, s)
                            \/ \E t : Child(r, s) = Child(n, t) /\ Child(n, t) # Missing
  <2>1. m.kind = "array" /\ n.kind = "array" /\ r = Array(Appended(m.items, n.items))
    BY <1>4, <1>6 DEF Appending
  <2>2. \E S : r.items \in Seq(S)
    BY <1>1, <2>1, AppendedItems DEF Array
  <2> QED
    BY <1>1, <2>1, <2>2, AppendedChild
<1>7. ASSUME Joining(how, c, m, n)
      PROVE  /\ DOMAIN r.fields = DOMAIN m.fields \cup DOMAIN n.fields
             /\ \A s : Child(r, s) = IF Child(n, s) # Missing THEN G(s) ELSE Child(m, s)
  <2>1. m.kind = "object" /\ n.kind = "object" /\ r = Object(MergedFields(m.fields, u))
    BY <1>4, <1>7 DEF Joining
  <2>2. ASSUME NEW s
        PROVE  /\ DOMAIN r.fields = DOMAIN m.fields \cup DOMAIN n.fields
               /\ Child(r, s) = IF Child(n, s) # Missing THEN G(s) ELSE Child(m, s)
    <3>1. /\ DOMAIN r.fields = DOMAIN m.fields \cup DOMAIN n.fields
          /\ Child(r, s) = IF Child(n, s) # Missing THEN u[s] ELSE Child(m, s)
      BY <1>1, <1>3, <2>1, FieldsChild
    <3>2. Child(n, s) # Missing => s \in Segments(n)
      BY <2>1 DEF Child, Segments
    <3> QED
      BY <1>3, <3>1, <3>2
  <2> QED
    BY <2>2
<1> QED
  BY <1>4, <1>5, <1>6, <1>7 DEF MergeStep, m, n, r, G

LEMMA MergeSound ==
  ASSUME NEW how, NEW old, NEW new, NEW l, NEW f, IsMerge(how, old, new, l, f), Sound(old), Sound(new),
         NEW c \in Both(old, new)
  PROVE  Sound(f[c])
<1>1. PICK A : old \in A /\ \A u \in A : Whole(u) /\ \A s : Child(u, s) \in A
  BY DEF Sound
<1>2. PICK B : new \in B /\ \A u \in B : Whole(u) /\ \A s : Child(u, s) \in B
  BY DEF Sound
<1> DEFINE F == {f[d] : d \in Both(old, new)}
           V == A \cup B \cup F \cup {Missing, Null}
<1>3. ASSUME NEW d \in Both(old, new)
      PROVE  Whole(f[d]) /\ \A s : Child(f[d], s) \in V
  <2> DEFINE m == GetAt(old, d)
             n == GetAt(new, d)
             r == f[d]
  <2>1. MergeStep(how, old, new, l, f, d)
    BY MergeSteps
  <2>2. PICK S : d \in Seq(S)
    BY NodeParts DEF Both
  <2>3. m \in A /\ n \in B /\ Whole(m) /\ Whole(n)
    <3>1. Len(d) \in 0..Len(d)
      BY <2>2, LenProperties
    <3>2. Walk(old, d)[Len(d)] \in A /\ Walk(new, d)[Len(d)] \in B
      BY <1>1, <1>2, <2>2, <3>1, WalkWithin
    <3> QED
      BY <1>1, <1>2, <3>2 DEF GetAt
  <2>4. \A s : Child(m, s) \in V /\ Child(n, s) \in V
    BY <1>1, <1>2, <2>3
  <2>5. ASSUME NEW t, Child(n, t) # Missing
        PROVE  Goes(f, old, new, d, t) \in V /\ Goes(f, old, new, d, t) # Missing
    <3>1. CASE Append(d, t) \in Both(old, new)
      <4>1. MergeStep(how, old, new, l, f, Append(d, t))
        BY <3>1, MergeSteps
      <4>2. GetAt(new, Append(d, t)) # Missing
        BY <2>2, <2>5, WalkAppend
      <4>3. f[Append(d, t)] # Missing
        BY <4>1, <4>2 DEF MergeStep
      <4> QED
        BY <3>1, <4>3 DEF Goes
    <3>2. CASE Append(d, t) \notin Both(old, new)
      BY <2>4, <2>5, <3>2 DEF Goes
    <3> QED
      BY <3>1, <3>2
  <2>6. Missing \in V /\ Null \in V /\ Null # Missing
    BY DEF Null, Missing
  <2> HIDE DEF V, m, n, r
  <2>7. ASSUME NEW s PROVE Child(r, s) \in V /\ (Occupied(r, s) => Child(r, s) # Missing)
    <3>1. CASE Patching(l, d, m, n)
      <4>1. IF Child(n, s) \notin {Missing, Null}
              THEN Child(r, s) = IF Child(m, s) \in {Missing, Null} THEN Child(n, s)
                                 ELSE Goes(f, old, new, d, CanonicalIndex(s))
              ELSE \/ Child(m, s) # Missing /\ Child(r, s) = Child(m, s)
                   \/ Child(m, s) = Missing /\ (Child(r, s) = Null \/ (Child(r, s) = Missing /\ ~ Holds(r, s)))
        BY <2>1, <3>1 DEF MergeStep, m, n, r
      <4>2. Child(n, CanonicalIndex(s)) = Child(n, s) \/ Child(n, s) = Missing
        <5>1. CASE IsIndex(s)
          <6>1. IsIndex(CanonicalIndex(s)) /\ Indices[CanonicalIndex(s)] = Indices[s]
            BY <5>1, IndexFacts DEF IsIndex
          <6> QED
            BY <3>1, <5>1, <6>1 DEF Child, Patching
        <5>2. CASE ~ IsIndex(s)
          BY <3>1, <5>2 DEF Child, Patching
        <5> QED
          BY <5>1, <5>2
      <4>3. Occupied(r, s) => Holds(r, s)
        BY DEF Occupied, Holds
      <4> QED
        BY <2>4, <2>5, <2>6, <4>1, <4>2, <4>3
    <3>2. CASE Appending(how, l, d, m, n)
      <4>1. IF Child(m, s) # Missing THEN Child(r, s) = Child(m, s)
            ELSE \/ Child(r, s) = Missing /\ ~ Holds(r, s)
                 \/ \E t : Child(r, s) = Child(n, t) /\ Child(n, t) # Missing
        BY <2>1, <3>2 DEF MergeStep, m, n, r
      <4>2. Occupied(r, s) => Holds(r, s)
        BY DEF Occupied, Holds
      <4> QED
        BY <2>4, <2>6, <4>1, <4>2
    <3>3. CASE Joining(how, d, m, n)
      <4>1. Child(r, s) = IF Child(n, s) # Missing THEN Goes(f, old, new, d, s) ELSE Child(m, s)
        BY <2>1, <3>3 DEF MergeStep, m, n, r
      <4>2. m.kind = "object" /\ n.kind = "object" /\ r.kind = "object"
        BY <2>1, <3>3 DEF MergeStep, Joining, m, n, r
      <4>3. DOMAIN r.fields = DOMAIN m.fields \cup DOMAIN n.fields
        BY <2>1, <3>3 DEF MergeStep, m, n, r
      <4>4. Occupied(r, s) => Child(m, s) # Missing \/ Child(n, s) # Missing
        BY <2>3, <4>2, <4>3 DEF Occupied, Child, Whole
      <4> QED
        BY <2>4, <2>5, <4>1, <4>4
    <3>4. CASE r = n
      <4>1. Occupied(n, s) => Child(n, s) # Missing
        BY <2>3, WholeByChildren DEF Whole
      <4> QED
        BY <2>4, <3>4, <4>1
    <3> QED
      BY <2>1, <3>1, <3>2, <3>3, <3>4 DEF MergeStep, m, n, r
  <2>8. r.kind = "array" => \E U : r.items \in Seq(U)
    <3>1. Joining(how, d, m, n) => r.kind # "array"
      BY <2>1 DEF MergeStep, Joining, m, n, r
    <3>2. r = n /\ r.kind = "array" => \E U : r.items \in Seq(U)
      BY <2>3 DEF Whole
    <3> QED
      BY <2>1, <3>1, <3>2 DEF MergeStep, m, n, r
  <2>9. Whole(r)
    BY <2>7, <2>8, WholeByChildren
  <2> QED
    BY <2>7, <2>9 DEF r
<1>4. ASSUME NEW u \in {Missing, Null}, NEW s PROVE Whole(u) /\ Child(u, s) = Missing
  BY ChildOfNothing DEF Whole, Missing, Null
<1>5. ASSUME NEW u \in V PROVE Whole(u) /\ \A s : Child(u, s) \in V
  <2>1. CASE u \in A
    BY <1>1, <2>1
  <2>2. CASE u \in B
    BY <1>2, <2>2
  <2>3. CASE u \in F
    <3>1. PICK d \in Both(old, new) : u = f[d]
      BY <2>3
    <3> HIDE DEF V
    <3> QED
      BY <1>3, <3>1
  <2>4. CASE u \in {Missing, Null}
    BY <1>4, <2>4
  <2> QED
    BY <2>1, <2>2, <2>3, <2>4
<1>6. f[c] \in V
  OBVIOUS
<1> HIDE DEF V
<1> QED
  BY <1>5, <1>6 DEF Sound
-----------------------------------------------------------------------------
(***************************************************************************)
(* A path through the result of a merge.                                   *)
(***************************************************************************)
LEMMA NextNode ==
  ASSUME NEW v, NEW c \in Nodes(v), NEW s, Len(c) < MaxDepth, Child(GetAt(v, c), s) # Missing,
         GetAt(v, c).kind = "array" => CanonicalIndex(s) = s
  PROVE  Append(c, s) \in Nodes(v)
<1>1. PICK S : c \in Seq(S)
  BY NodeParts
<1>2. Len(c) \in Nat /\ OnNodes(v, c)
  BY NodeParts DEF OnNodes
<1>3. IsNode(v, c, Len(c))
  BY <1>1, <1>2 DEF IsNode, IsPath
<1>4. s \in Segments(GetAt(v, c))
  BY SegmentFacts
<1>5. IsNode(v, Append(c, s), Len(c) + 1)
  BY <1>2, <1>3, <1>4, NodeEnd
<1>6. Len(Append(c, s)) = Len(c) + 1
  BY LongerNode
<1>7. IsNode(v, Append(c, s), MaxDepth)
  BY <1>2, <1>5, <1>6, DepthAssumption DEF IsNode
<1> QED
  BY <1>7, NodePaths

\* The first i segments of p lead to what becomes of something both values have.
Open(f, old, new, result, p, i) ==
    Upto(p, i) \in Both(old, new) /\ Walk(result, p)[i] = f[Upto(p, i)]

\* What the i-th segment of p leads to, in what becomes of values both have.
Onward(how, l, f, old, new, result, p, i) ==
    LET c == Upto(p, i - 1)
        m == Walk(old, p)[i - 1]
        n == Walk(new, p)[i - 1]
        next_m == Walk(old, p)[i]
        next_n == Walk(new, p)[i]
        next_r == Walk(result, p)[i]
        Into == \/ Open(f, old, new, result, p, i)
                \/ Upto(p, i) \notin Both(old, new) /\ next_r = next_n
    IN  /\ \/ Patching(l, c, m, n)
           \/ Appending(how, l, c, m, n)
           \/ Joining(how, c, m, n)
           \/ next_r = next_n
        /\ Patching(l, c, m, n) /\ CanonicalIndex(p[i]) = p[i] =>
             IF next_n \in {Missing, Null}
               THEN IF next_m = Missing THEN next_r \in {Missing, Null} ELSE next_r = next_m
               ELSE IF next_m \in {Missing, Null} THEN next_r = next_n ELSE Into
        /\ Appending(how, l, c, m, n) => next_m = Missing \/ next_r = next_m
        /\ Joining(how, c, m, n) => IF next_n = Missing THEN next_r = next_m ELSE Into

LEMMA OpenKind ==
  ASSUME NEW how, NEW old, NEW new, NEW l, NEW f, IsMerge(how, old, new, l, f), Sound(old), Sound(new),
         NEW result, NEW S, NEW p \in Seq(S), NEW i \in 0..Len(p), Open(f, old, new, result, p, i)
  PROVE  LET n == Walk(new, p)[i]
             r == Walk(result, p)[i]
         IN  r.kind = n.kind /\ (n.kind \notin {"array", "object"} => r = n)
<1>1. MergeStep(how, old, new, l, f, Upto(p, i))
  BY MergeSteps DEF Open
<1>2. GetAt(new, Upto(p, i)) = Walk(new, p)[i]
  BY WalkUpto
<1> QED
  BY <1>1, <1>2 DEF MergeStep, Open

LEMMA OpenOnward ==
  ASSUME NEW how, NEW old, NEW new, NEW l, NEW f, IsMerge(how, old, new, l, f), Sound(old), Sound(new),
         NEW result, NEW S, NEW p \in Seq(S), NEW i \in 1..Len(p), Open(f, old, new, result, p, i - 1)
  PROVE  Onward(how, l, f, old, new, result, p, i)
<1> DEFINE c == Upto(p, i - 1)
           s == p[i]
           m == Walk(old, p)[i - 1]
           n == Walk(new, p)[i - 1]
           r == Walk(result, p)[i - 1]
<1>1. i - 1 \in 0..Len(p) /\ i \in 0..Len(p)
  BY LenProperties
<1>2. Append(c, s) = Upto(p, i)
  BY UptoNext
<1>3. GetAt(old, c) = m /\ GetAt(new, c) = n
  BY <1>1, WalkUpto
<1>4. MergeStep(how, old, new, l, f, c) /\ r = f[c]
  BY MergeSteps DEF Open
<1>5. /\ Walk(old, p)[i] = Child(m, s) /\ Walk(new, p)[i] = Child(n, s)
      /\ Walk(result, p)[i] = Child(r, s)
  BY WalkSteps
<1>6. Goes(f, old, new, c, s) = IF Upto(p, i) \in Both(old, new) THEN f[Upto(p, i)] ELSE Walk(new, p)[i]
  BY <1>2, <1>3, <1>5 DEF Goes
<1> HIDE DEF c, s, m, n, r
<1>7. /\ \/ Patching(l, c, m, n)
         \/ Appending(how, l, c, m, n)
         \/ Joining(how, c, m, n)
         \/ r = n
      /\ Patching(l, c, m, n) =>
             (IF Child(n, s) \notin {Missing, Null}
               THEN Child(r, s) = IF Child(m, s) \in {Missing, Null} THEN Child(n, s)
                                  ELSE Goes(f, old, new, c, CanonicalIndex(s))
               ELSE \/ Child(m, s) # Missing /\ Child(r, s) = Child(m, s)
                    \/ Child(m, s) = Missing /\ (Child(r, s) = Null \/ Child(r, s) = Missing))
      /\ Appending(how, l, c, m, n) => (Child(m, s) # Missing => Child(r, s) = Child(m, s))
      /\ Joining(how, c, m, n) =>
           Child(r, s) = IF Child(n, s) # Missing THEN Goes(f, old, new, c, s) ELSE Child(m, s)
  BY <1>3, <1>4 DEF MergeStep
<1>8. /\ \/ Patching(l, c, m, n)
         \/ Appending(how, l, c, m, n)
         \/ Joining(how, c, m, n)
         \/ Walk(result, p)[i] = Walk(new, p)[i]
  BY <1>5, <1>7
<1>9. ASSUME Patching(l, c, m, n), CanonicalIndex(s) = s
      PROVE  IF Walk(new, p)[i] \in {Missing, Null}
               THEN IF Walk(old, p)[i] = Missing THEN Walk(result, p)[i] \in {Missing, Null}
                    ELSE Walk(result, p)[i] = Walk(old, p)[i]
               ELSE IF Walk(old, p)[i] \in {Missing, Null} THEN Walk(result, p)[i] = Walk(new, p)[i]
               ELSE \/ Open(f, old, new, result, p, i)
                    \/ Upto(p, i) \notin Both(old, new) /\ Walk(result, p)[i] = Walk(new, p)[i]
  BY <1>5, <1>6, <1>7, <1>9 DEF Open
<1>10. Appending(how, l, c, m, n) => Walk(old, p)[i] = Missing \/ Walk(result, p)[i] = Walk(old, p)[i]
  BY <1>5, <1>7
<1>11. ASSUME Joining(how, c, m, n)
       PROVE  IF Walk(new, p)[i] = Missing THEN Walk(result, p)[i] = Walk(old, p)[i]
              ELSE \/ Open(f, old, new, result, p, i)
                   \/ Upto(p, i) \notin Both(old, new) /\ Walk(result, p)[i] = Walk(new, p)[i]
  BY <1>5, <1>6, <1>7, <1>11 DEF Open
<1> QED
  BY <1>8, <1>9, <1>10, <1>11 DEF Onward, c, m, n, s

\* The step after a node that both values have, where both have something.
LEMMA OpenFurther ==
  ASSUME NEW old, NEW new, NEW S, NEW p \in Seq(S), Len(p) <= MaxDepth, NEW i \in 1..Len(p),
         Upto(p, i - 1) \in Both(old, new),
         Walk(old, p)[i] # Missing, Walk(new, p)[i] # Missing,
         Walk(old, p)[i - 1].kind = "array" \/ Walk(new, p)[i - 1].kind = "array" => CanonicalIndex(p[i]) = p[i]
  PROVE  Upto(p, i) \in Both(old, new)
<1> DEFINE c == Upto(p, i - 1)
<1>1. i - 1 \in 0..Len(p) /\ Len(p) \in Nat
  BY LenProperties
<1>2. Append(c, p[i]) = Upto(p, i)
  BY UptoNext
<1>3. GetAt(old, c) = Walk(old, p)[i - 1] /\ GetAt(new, c) = Walk(new, p)[i - 1]
  BY <1>1, WalkUpto
<1>4. Len(c) = i - 1 /\ Len(c) < MaxDepth
  <2>1. Len(c) = i - 1
    BY <1>1, UptoPoints
  <2> QED
    BY <1>1, <2>1, DepthAssumption
<1>5. Walk(old, p)[i] = Child(Walk(old, p)[i - 1], p[i]) /\ Walk(new, p)[i] = Child(Walk(new, p)[i - 1], p[i])
  BY WalkSteps
<1> HIDE DEF c
<1> QED
  BY <1>2, <1>3, <1>4, <1>5, NextNode DEF Both, c

-----------------------------------------------------------------------------
(***************************************************************************)
(* What a merge does to the text at a path.                                *)
(***************************************************************************)
\* The containers on the way along p are of one kind in u and in v, and what is at p.
SameKinds(u, v, p) == \A i \in 0..Len(p) : Walk(u, p)[i].kind = Walk(v, p)[i].kind

\* v has a text at p, which is spelled as v has it.
IsText(v, p) == p \in Nodes(v) /\ GetAt(v, p).kind = "string"

LEMMA TextOnTheWay ==
  ASSUME NEW v, Sound(v), NEW p, IsText(v, p)
  PROVE  /\ \E S : p \in Seq(S)
         /\ Len(p) \in 0..MaxDepth
         /\ \A i \in 1..Len(p) :
              /\ Walk(v, p)[i - 1].kind \in {"object", "array"} /\ Walk(v, p)[i].kind \in {"object", "array", "string"}
              /\ Walk(v, p)[i - 1].kind = "array" => IsIndex(p[i]) /\ CanonicalIndex(p[i]) = p[i]
<1>1. PICK S : p \in Seq(S)
  BY NodeParts DEF IsText
<1>2. Len(p) \in 0..MaxDepth /\ \A i \in 1..Len(p) : p[i] \in Segments(Walk(v, p)[i - 1])
  BY NodeParts DEF IsText
<1>3. \A i \in 1..Len(p) : Walk(v, p)[i - 1].kind \in {"object", "array"}
  BY <1>2 DEF Segments
<1>4. \A i \in 0..Len(p) : Whole(Walk(v, p)[i])
  BY <1>1, SoundWalk
<1>5. ASSUME NEW i \in 1..Len(p)
      PROVE  /\ Walk(v, p)[i].kind \in {"object", "array", "string"}
             /\ Walk(v, p)[i - 1].kind = "array" => IsIndex(p[i]) /\ CanonicalIndex(p[i]) = p[i]
  <2>1. i - 1 \in 0..Len(p)
    BY <1>2
  <2>2. Walk(v, p)[i - 1].kind = "array" => IsIndex(p[i]) /\ CanonicalIndex(p[i]) = p[i]
    BY <1>2, <1>4, <2>1, SegmentFacts
  <2>3. CASE i = Len(p)
    BY <2>2, <2>3 DEF IsText, GetAt
  <2>4. CASE i # Len(p)
    <3>1. i + 1 \in 1..Len(p) /\ (i + 1) - 1 = i
      BY <1>2, <2>4
    <3> QED
      BY <1>3, <2>2, <3>1
  <2> QED
    BY <2>3, <2>4
<1> QED
  BY <1>1, <1>2, <1>3, <1>5

LEMMA KindsApart == \A v : v.kind \in {"object", "array", "string"} => v \notin {Missing, Null}
BY DEF Missing, Null

\* A text of the new value is in the result, unless it is in an array whose elements
\* go behind others.
LEMMA SaidStays ==
  ASSUME NEW how, NEW old, NEW new, NEW l, NEW f, IsMerge(how, old, new, l, f), Sound(old), Sound(new),
         NEW p, IsText(new, p),
         \A i \in 1..Len(p) : ~ Appending(how, l, Upto(p, i - 1), Walk(old, p)[i - 1], Walk(new, p)[i - 1])
  PROVE  SameKinds(f[<<>>], new, p) /\ GetAt(f[<<>>], p) = GetAt(new, p)
<1>1. PICK S : p \in Seq(S)
  BY TextOnTheWay
<1> DEFINE R == f[<<>>]
           w == Walk(R, p)
           x == Walk(new, p)
           Bad == {i \in 0..Len(p) : ~ (Open(f, old, new, R, p, i) \/ w[i] = x[i])}
<1>2. Len(p) \in Nat
  BY <1>1, LenProperties
<1>3. /\ w[0] = R
      /\ \A i \in 1..Len(p) : w[i] = Child(w[i - 1], p[i]) /\ x[i] = Child(x[i - 1], p[i])
  BY <1>1, WalkSteps
<1>4. Open(f, old, new, R, p, 0)
  BY <1>1, <1>3, UptoEnds, RootNode DEF Open, Both
<1>5. \A i \in 1..Len(p) : /\ x[i] \notin {Missing, Null}
                           /\ x[i - 1].kind = "array" => CanonicalIndex(p[i]) = p[i]
  BY TextOnTheWay, KindsApart
<1>6. \A i \in 1..Len(p) : Open(f, old, new, R, p, i - 1) => Onward(how, l, f, old, new, R, p, i)
  BY <1>1, OpenOnward
<1>7. ASSUME NEW i \in 1..Len(p), Open(f, old, new, R, p, i - 1)
      PROVE  Open(f, old, new, R, p, i) \/ w[i] = x[i]
  BY <1>5, <1>6, <1>7 DEF Onward, Patching
<1> HIDE DEF w, x, R
<1>8. Bad = {}
  <2> SUFFICES ASSUME Bad # {} PROVE FALSE
    OBVIOUS
  <2>1. Bad \in SUBSET Nat
    OBVIOUS
  <2>2. PICK i \in Bad : \A j \in Bad : i <= j
    BY <2>1, LeastOne
  <2>3. i \in 1..Len(p) /\ i - 1 \in 0..Len(p) /\ ~ (i <= i - 1)
    BY <1>2, <1>4, <2>2
  <2>4. Open(f, old, new, R, p, i - 1) \/ w[i - 1] = x[i - 1]
    BY <2>2, <2>3
  <2>5. w[i - 1] = x[i - 1] => w[i] = x[i]
    BY <1>3, <2>3
  <2> QED
    BY <1>7, <2>2, <2>3, <2>4, <2>5
<1>9. \A i \in 0..Len(p) : Open(f, old, new, R, p, i) \/ w[i] = x[i]
  BY <1>8
<1>10. ASSUME NEW i \in 0..Len(p)
       PROVE  w[i].kind = x[i].kind /\ (x[i].kind \notin {"array", "object"} => w[i] = x[i])
  <2>1. CASE Open(f, old, new, R, p, i)
    BY <1>1, <2>1, OpenKind DEF w, x
  <2>2. CASE w[i] = x[i]
    BY <2>2
  <2> QED
    BY <1>9, <2>1, <2>2
<1>11. x[Len(p)].kind = "string" /\ Len(p) \in 0..Len(p)
  BY <1>2 DEF x, IsText, GetAt
<1>12. w[Len(p)] = x[Len(p)]
  BY <1>10, <1>11
<1>13. SameKinds(R, new, p)
  BY <1>10 DEF SameKinds, w, x
<1> QED
  BY <1>12, <1>13 DEF w, x, R, GetAt

\* What merging l makes of the new value leaves what v has at p: there it has nothing,
\* and it is merged into where it has something on the way.
LeftAlone(how, l, new, v, p) ==
    \A i \in 1..Len(p) :
       LET c == Upto(p, i)
           n == Walk(new, p)[i]
           m == Walk(v, p)[i]
       IN  \/ n = Missing
           \/ n = Null /\ Walk(new, p)[i - 1].kind = "array" /\ Patches(l, Upto(p, i - 1))
           \/ c # p /\ n.kind = "object" /\ m.kind = "object" /\ Strategy(how, c) # "Replace"
           \/ c # p /\ n.kind = "array" /\ m.kind = "array" /\ (Patches(l, c) \/ Strategy(how, c) = "Append")

LEMMA UptoWhole ==
  ASSUME NEW S, NEW p \in Seq(S), NEW i \in 0..Len(p)
  PROVE  Upto(p, i) = p <=> i = Len(p)
BY UptoPoints, UptoEnds, LenProperties

\* A text of the old value that is left alone is in the result.
LEMMA LeftStays ==
  ASSUME NEW how, NEW old, NEW new, NEW l, NEW f, IsMerge(how, old, new, l, f), Sound(old), Sound(new),
         old.kind = "object", new.kind = "object",
         NEW v, Sound(v), NEW p, IsText(v, p), SameKinds(old, v, p), LeftAlone(how, l, new, v, p)
  PROVE  SameKinds(f[<<>>], v, p) /\ GetAt(f[<<>>], p) = GetAt(old, p)
<1>1. PICK S : p \in Seq(S)
  BY TextOnTheWay
<1> DEFINE R == f[<<>>]
           w == Walk(R, p)
           x == Walk(new, p)
           y == Walk(old, p)
           z == Walk(v, p)
           Alive(i) == Open(f, old, new, R, p, i) /\ (i = 0 \/ x[i] \notin {Missing, Null})
           Bad == {i \in 0..Len(p) : ~ (Alive(i) \/ w[i] = y[i])}
<1>2. Len(p) \in Nat /\ Len(p) <= MaxDepth /\ Len(p) # 0
  <2>1. Len(p) \in 0..MaxDepth
    BY TextOnTheWay
  <2>2. SameKinds(old, v, p) /\ z[Len(p)].kind = "string" /\ y[0] = old
    BY <1>1, WalkSteps DEF IsText, GetAt
  <2>3. Len(p) # 0
    BY <2>1, <2>2 DEF SameKinds
  <2> QED
    BY <2>1, <2>3, DepthAssumption
<1>3. /\ w[0] = R /\ x[0] = new /\ y[0] = old
      /\ \A i \in 1..Len(p) : w[i] = Child(w[i - 1], p[i]) /\ y[i] = Child(y[i - 1], p[i])
  BY <1>1, WalkSteps
<1>4. Open(f, old, new, R, p, 0)
  BY <1>1, <1>3, UptoEnds, RootNode DEF Open, Both
<1>5. \A i \in 0..Len(p) : y[i].kind = z[i].kind
  BY DEF SameKinds
<1>6. \A i \in 1..Len(p) : /\ y[i] \notin {Missing, Null}
                           /\ y[i - 1].kind = "array" => CanonicalIndex(p[i]) = p[i]
  <2> SUFFICES ASSUME NEW i \in 1..Len(p)
               PROVE  y[i] \notin {Missing, Null} /\ (y[i - 1].kind = "array" => CanonicalIndex(p[i]) = p[i])
    OBVIOUS
  <2>1. i \in 0..Len(p) /\ i - 1 \in 0..Len(p)
    BY <1>2
  <2>2. z[i].kind \in {"object", "array", "string"} /\ (z[i - 1].kind = "array" => CanonicalIndex(p[i]) = p[i])
    BY TextOnTheWay
  <2> QED
    BY <1>5, <2>1, <2>2, KindsApart
<1>7. ASSUME NEW i \in 1..Len(p)
      PROVE  \/ x[i] = Missing
             \/ x[i] = Null /\ x[i - 1].kind = "array"
             \/ i # Len(p) /\ x[i].kind = "object" /\ y[i].kind = "object" /\ Strategy(how, Upto(p, i)) # "Replace"
             \/ /\ i # Len(p) /\ x[i].kind = "array" /\ y[i].kind = "array"
                /\ Patches(l, Upto(p, i)) \/ Strategy(how, Upto(p, i)) = "Append"
  <2>1. i \in 0..Len(p)
    BY <1>2
  <2>2. Upto(p, i) = p <=> i = Len(p)
    BY <1>1, <2>1, UptoWhole
  <2> QED
    BY <1>5, <2>1, <2>2 DEF LeftAlone
<1>8. \A i \in 1..Len(p) : Open(f, old, new, R, p, i - 1) => Onward(how, l, f, old, new, R, p, i)
  BY <1>1, OpenOnward
<1>9. ASSUME NEW i \in 1..Len(p), Alive(i - 1)
      PROVE  \/ Joining(how, Upto(p, i - 1), y[i - 1], x[i - 1])
             \/ Patching(l, Upto(p, i - 1), y[i - 1], x[i - 1])
             \/ Appending(how, l, Upto(p, i - 1), y[i - 1], x[i - 1])
  <2>1. CASE i = 1
    <3>1. i - 1 = 0 /\ Upto(p, 0) = <<>>
      BY <1>1, <2>1, UptoEnds
    <3>2. Strategy(how, <<>>) = "Merge"
      BY DEF Strategy
    <3> QED
      BY <1>3, <3>1, <3>2 DEF Joining
  <2>2. CASE i # 1
    <3>1. i - 1 \in 1..Len(p) /\ i - 1 # 0
      BY <1>2, <2>2
    <3>2. \A j \in 1..Len(p) :
             \/ x[j] = Missing
             \/ x[j] = Null
             \/ x[j].kind = "object" /\ y[j].kind = "object" /\ Strategy(how, Upto(p, j)) # "Replace"
             \/ /\ x[j].kind = "array" /\ y[j].kind = "array"
                /\ Patches(l, Upto(p, j)) \/ Strategy(how, Upto(p, j)) = "Append"
      BY <1>7
    <3> QED
      BY <1>9, <3>1, <3>2 DEF Joining, Patching, Appending
  <2> QED
    BY <2>1, <2>2
<1>10. ASSUME NEW i \in 1..Len(p), Alive(i - 1)
       PROVE  Alive(i) \/ w[i] = y[i]
  <2>1. Onward(how, l, f, old, new, R, p, i)
    BY <1>8, <1>10
  <2>2. Upto(p, i - 1) \in Both(old, new)
    BY <1>10 DEF Open
  <2>3. x[i] # Missing => Upto(p, i) \in Both(old, new)
    <3> SUFFICES ASSUME x[i] # Missing PROVE Upto(p, i) \in Both(old, new)
      OBVIOUS
    <3>1. y[i] # Missing
      BY <1>6
    <3>2. y[i - 1].kind = "array" \/ x[i - 1].kind = "array" => CanonicalIndex(p[i]) = p[i]
      <4>1. x[i - 1].kind = "array" => y[i - 1].kind = "array"
        BY <1>9, <1>10 DEF Joining, Patching, Appending
      <4> QED
        BY <1>6, <4>1
    <3> QED
      BY <1>1, <1>2, <2>2, <3>1, <3>2, OpenFurther
  <2>4. CASE Joining(how, Upto(p, i - 1), y[i - 1], x[i - 1])
    <3>1. IF x[i] = Missing THEN w[i] = y[i]
          ELSE Open(f, old, new, R, p, i) \/ Upto(p, i) \notin Both(old, new)
      BY <2>1, <2>4 DEF Onward
    <3>2. x[i] # Null
      <4>1. Null # Missing /\ Null.kind = "null" /\ x[i - 1].kind # "array"
        BY <2>4 DEF Null, Missing, Joining
      <4> QED
        BY <1>7, <4>1
    <3> QED
      BY <2>3, <3>1, <3>2
  <2>5. CASE Patching(l, Upto(p, i - 1), y[i - 1], x[i - 1])
    <3>1. CanonicalIndex(p[i]) = p[i] /\ y[i] \notin {Missing, Null}
      BY <1>6, <2>5 DEF Patching
    <3>2. IF x[i] \in {Missing, Null} THEN w[i] = y[i]
          ELSE Open(f, old, new, R, p, i) \/ Upto(p, i) \notin Both(old, new)
      BY <2>1, <2>5, <3>1 DEF Onward
    <3> QED
      BY <2>3, <3>2
  <2>6. CASE Appending(how, l, Upto(p, i - 1), y[i - 1], x[i - 1])
    BY <1>6, <2>1, <2>6 DEF Onward
  <2> QED
    BY <1>9, <1>10, <2>4, <2>5, <2>6
<1> HIDE DEF w, x, y, z, R
<1>11. Bad = {}
  <2> SUFFICES ASSUME Bad # {} PROVE FALSE
    OBVIOUS
  <2>1. Bad \in SUBSET Nat
    OBVIOUS
  <2>2. PICK i \in Bad : \A j \in Bad : i <= j
    BY <2>1, LeastOne
  <2>3. i \in 1..Len(p) /\ i - 1 \in 0..Len(p) /\ ~ (i <= i - 1)
    BY <1>2, <1>4, <2>2
  <2>4. Alive(i - 1) \/ w[i - 1] = y[i - 1]
    BY <2>2, <2>3
  <2>5. w[i - 1] = y[i - 1] => w[i] = y[i]
    BY <1>3, <2>3
  <2> QED
    BY <1>10, <2>2, <2>3, <2>4, <2>5
<1>12. \A i \in 0..Len(p) : Alive(i) \/ w[i] = y[i]
  BY <1>11
<1>13. w[Len(p)] = y[Len(p)]
  <2>1. Len(p) \in 1..Len(p)
    BY <1>2
  <2>2. x[Len(p)] \in {Missing, Null}
    BY <1>7, <2>1
  <2> QED
    BY <1>2, <1>12, <2>1, <2>2
<1>14. ASSUME NEW i \in 0..Len(p) PROVE w[i].kind = y[i].kind
  <2>1. CASE w[i] = y[i]
    BY <2>1
  <2>2. CASE Alive(i)
    <3>1. w[i].kind = x[i].kind
      BY <1>1, <2>2, OpenKind DEF w, x
    <3>2. CASE i = 0
      BY <1>3, <3>1, <3>2
    <3>3. CASE i # 0
      <4>1. i \in 1..Len(p) /\ x[i] \notin {Missing, Null}
        BY <2>2, <3>3
      <4> QED
        BY <1>7, <3>1, <4>1
    <3> QED
      BY <3>2, <3>3
  <2> QED
    BY <1>12, <2>1, <2>2
<1>15. SameKinds(R, v, p)
  BY <1>5, <1>14 DEF SameKinds, w, z
<1> QED
  BY <1>13, <1>15 DEF w, y, R, GetAt

\* A text of the result comes from the new value; or from the old one, and the new value
\* leaves it alone; or it is in an array whose elements go behind others.
LEMMA TextCame ==
  ASSUME NEW how, NEW old, NEW new, NEW l, NEW f, IsMerge(how, old, new, l, f), Sound(old), Sound(new),
         old.kind = "object", new.kind = "object", NEW p, IsText(f[<<>>], p)
  PROVE  \/ SameKinds(f[<<>>], new, p) /\ GetAt(new, p) = GetAt(f[<<>>], p)
         \/ /\ SameKinds(f[<<>>], old, p) /\ GetAt(old, p) = GetAt(f[<<>>], p)
            /\ LeftAlone(how, l, new, old, p)
         \/ \E i \in 1..Len(p) :
               Appending(how, l, Upto(p, i - 1), Walk(old, p)[i - 1], Walk(new, p)[i - 1])
<1> DEFINE R == f[<<>>]
<1>0. Sound(R)
  BY RootNode, MergeSound DEF Both
<1>1. PICK S : p \in Seq(S)
  BY <1>0, TextOnTheWay
<1> DEFINE w == Walk(R, p)
           x == Walk(new, p)
           y == Walk(old, p)
           Merges(i) == \/ Joining(how, Upto(p, i - 1), y[i - 1], x[i - 1])
                        \/ Patching(l, Upto(p, i - 1), y[i - 1], x[i - 1])
           Appends(i) == Appending(how, l, Upto(p, i - 1), y[i - 1], x[i - 1])
           Bad == {i \in 1..Len(p) : ~ (Open(f, old, new, R, p, i) /\ Merges(i))}
<1> SUFFICES ASSUME \A i \in 1..Len(p) : ~ Appends(i)
             PROVE  \/ SameKinds(R, new, p) /\ GetAt(new, p) = GetAt(R, p)
                    \/ /\ SameKinds(R, old, p) /\ GetAt(old, p) = GetAt(R, p)
                       /\ LeftAlone(how, l, new, old, p)
  OBVIOUS
<1>2. Len(p) \in Nat /\ Len(p) <= MaxDepth
  <2>1. Len(p) \in 0..MaxDepth
    BY <1>0, TextOnTheWay
  <2> QED
    BY <2>1, DepthAssumption
<1>3. /\ w[0] = R /\ x[0] = new /\ y[0] = old
      /\ \A i \in 1..Len(p) : /\ w[i] = Child(w[i - 1], p[i]) /\ x[i] = Child(x[i - 1], p[i])
                              /\ y[i] = Child(y[i - 1], p[i])
  BY <1>1, WalkSteps
<1>4. Open(f, old, new, R, p, 0)
  BY <1>1, <1>3, UptoEnds, RootNode DEF Open, Both
<1>5. \A i \in 1..Len(p) : /\ w[i] \notin {Missing, Null}
                           /\ w[i - 1].kind = "array" => CanonicalIndex(p[i]) = p[i]
  BY <1>0, TextOnTheWay, KindsApart
<1>6. \A i \in 0..Len(p) : Open(f, old, new, R, p, i) =>
         w[i].kind = x[i].kind /\ (x[i].kind \notin {"array", "object"} => w[i] = x[i])
  BY <1>1, OpenKind
<1>7. \A i \in 1..Len(p) : Open(f, old, new, R, p, i - 1) => Onward(how, l, f, old, new, R, p, i)
  BY <1>1, OpenOnward
<1>8. CASE Bad = {}
  <2>1. \A i \in 0..Len(p) : Open(f, old, new, R, p, i)
    <3> SUFFICES ASSUME NEW i \in 0..Len(p) PROVE Open(f, old, new, R, p, i)
      OBVIOUS
    <3>1. i = 0 \/ i \in 1..Len(p)
      BY <1>2
    <3> QED
      BY <1>4, <1>8, <3>1
  <2>2. SameKinds(R, new, p)
    BY <1>6, <2>1 DEF SameKinds
  <2>3. Len(p) \in 0..Len(p) /\ w[Len(p)].kind = "string"
    BY <1>2 DEF IsText, GetAt
  <2>4. w[Len(p)] = x[Len(p)]
    BY <1>6, <2>1, <2>3
  <2> QED
    BY <2>2, <2>4 DEF GetAt
<1>9. CASE Bad # {}
  <2>1. Bad \in SUBSET Nat
    OBVIOUS
  <2>2. PICK k \in Bad : \A j \in Bad : k <= j
    BY <1>9, <2>1, LeastOne
  <2>3. k \in 1..Len(p) /\ k - 1 \in 0..Len(p) /\ k \in 0..Len(p) /\ k \in Nat
    BY <1>2, <2>2
  <2>4. \A i \in 1..(k - 1) : Open(f, old, new, R, p, i) /\ Merges(i)
    BY <1>2, <2>2
  <2>5. \A i \in 0..(k - 1) : Open(f, old, new, R, p, i)
    <3> SUFFICES ASSUME NEW i \in 0..(k - 1) PROVE Open(f, old, new, R, p, i)
      OBVIOUS
    <3>1. i = 0 \/ i \in 1..(k - 1)
      BY <2>3
    <3> QED
      BY <1>4, <2>4, <3>1
  <2>6. Open(f, old, new, R, p, k - 1) /\ Onward(how, l, f, old, new, R, p, k)
    BY <1>7, <2>3, <2>5
  <2>7. ~ (Open(f, old, new, R, p, k) /\ Merges(k))
    BY <2>2
  <2>8. \A i \in 0..(k - 1) : w[i].kind = x[i].kind
    <3>1. \A i \in 0..(k - 1) : i \in 0..Len(p)
      BY <1>2, <2>3
    <3> QED
      BY <1>6, <2>5, <3>1
  <2>20. k - 1 \in 0..(k - 1)
    BY <2>3
  <2>21. /\ w[k] \notin {Missing, Null}
         /\ w[k - 1].kind = "array" => CanonicalIndex(p[k]) = p[k]
    BY <1>5, <2>3
  <2>9. \/ w[k] = x[k]
        \/ /\ w[k] = y[k] /\ Merges(k)
           /\ \/ x[k] = Missing
              \/ x[k] = Null /\ x[k - 1].kind = "array" /\ Patches(l, Upto(p, k - 1))
    <3>1. CASE Joining(how, Upto(p, k - 1), y[k - 1], x[k - 1])
      BY <2>6, <2>7, <3>1 DEF Onward
    <3>2. CASE Patching(l, Upto(p, k - 1), y[k - 1], x[k - 1])
      <4>1. CanonicalIndex(p[k]) = p[k]
        BY <2>8, <2>20, <2>21, <3>2 DEF Patching
      <4> QED
        BY <2>6, <2>7, <2>21, <3>2, <4>1 DEF Onward, Patching
    <3>3. CASE ~ Merges(k)
      BY <2>3, <2>6, <3>3 DEF Onward
    <3> QED
      BY <3>1, <3>2, <3>3
  <2> HIDE DEF w, x, y, R, Bad
  <2>10. CASE w[k] = x[k]
    <3>1. \A i \in k..Len(p) : w[i] = x[i]
      <4> DEFINE Off == {i \in k..Len(p) : w[i] # x[i]}
      <4> SUFFICES ASSUME Off # {} PROVE FALSE
        OBVIOUS
      <4>1. Off \in SUBSET Nat
        BY <2>3
      <4>2. PICK i \in Off : \A j \in Off : i <= j
        BY <4>1, LeastOne
      <4>3. i - 1 \in k..Len(p) /\ i \in 1..Len(p) /\ ~ (i <= i - 1)
        BY <1>2, <2>3, <2>10, <4>2
      <4>4. w[i - 1] = x[i - 1]
        BY <4>2, <4>3
      <4> QED
        BY <1>3, <4>2, <4>3, <4>4
    <3>2. \A i \in 0..Len(p) : w[i].kind = x[i].kind
      <4> SUFFICES ASSUME NEW i \in 0..Len(p) PROVE w[i].kind = x[i].kind
        OBVIOUS
      <4>1. i \in 0..(k - 1) \/ i \in k..Len(p)
        BY <1>2, <2>3
      <4> QED
        BY <2>8, <3>1, <4>1
    <3>3. w[Len(p)] = x[Len(p)]
      BY <1>2, <2>3, <3>1
    <3> QED
      BY <3>2, <3>3 DEF SameKinds, GetAt, w, x, R
  <2>11. CASE /\ w[k] = y[k] /\ Merges(k)
              /\ \/ x[k] = Missing
                 \/ x[k] = Null /\ x[k - 1].kind = "array" /\ Patches(l, Upto(p, k - 1))
    <3>1. \A i \in k..Len(p) : w[i] = y[i] /\ (i # k => x[i] = Missing)
      <4> DEFINE Off == {i \in k..Len(p) : ~ (w[i] = y[i] /\ (i # k => x[i] = Missing))}
      <4> SUFFICES ASSUME Off # {} PROVE FALSE
        OBVIOUS
      <4>1. Off \in SUBSET Nat
        BY <2>3
      <4>2. PICK i \in Off : \A j \in Off : i <= j
        BY <4>1, LeastOne
      <4>3. i - 1 \in k..Len(p) /\ i \in 1..Len(p) /\ ~ (i <= i - 1)
        BY <1>2, <2>3, <2>11, <4>2
      <4>4. w[i - 1] = y[i - 1] /\ (i - 1 # k => x[i - 1] = Missing)
        BY <4>2, <4>3
      <4>5. x[i - 1] \in {Missing, Null}
        BY <2>11, <4>4
      <4>6. x[i] = Missing
        BY <1>3, <4>3, <4>5, ChildOfNothing
      <4> QED
        BY <1>3, <4>2, <4>3, <4>4, <4>6
    <3>2. \A i \in 0..(k - 1) : x[i].kind = y[i].kind
      <4> SUFFICES ASSUME NEW i \in 0..(k - 1) PROVE x[i].kind = y[i].kind
        OBVIOUS
      <4>1. CASE i = k - 1
        BY <2>11, <4>1 DEF Joining, Patching
      <4>2. CASE i # k - 1
        <5>1. i + 1 \in 1..(k - 1) /\ (i + 1) - 1 = i
          BY <2>3, <4>2
        <5> QED
          BY <2>4, <5>1 DEF Joining, Patching
      <4> QED
        BY <4>1, <4>2
    <3>3. \A i \in 0..Len(p) : w[i].kind = y[i].kind
      <4> SUFFICES ASSUME NEW i \in 0..Len(p) PROVE w[i].kind = y[i].kind
        OBVIOUS
      <4>1. i \in 0..(k - 1) \/ i \in k..Len(p)
        BY <1>2, <2>3
      <4> QED
        BY <2>8, <3>1, <3>2, <4>1
    <3>4. w[Len(p)] = y[Len(p)]
      BY <1>2, <2>3, <3>1
    <3>5. ASSUME NEW i \in 1..Len(p)
          PROVE  \/ x[i] = Missing
                 \/ x[i] = Null /\ x[i - 1].kind = "array" /\ Patches(l, Upto(p, i - 1))
                 \/ /\ Upto(p, i) # p /\ x[i].kind = "object" /\ y[i].kind = "object"
                    /\ Strategy(how, Upto(p, i)) # "Replace"
                 \/ /\ Upto(p, i) # p /\ x[i].kind = "array" /\ y[i].kind = "array"
                    /\ Patches(l, Upto(p, i)) \/ Strategy(how, Upto(p, i)) = "Append"
      <4>1. CASE i < k
        <5>1. i + 1 \in 1..k /\ (i + 1) - 1 = i /\ i \in 0..Len(p) /\ i # Len(p)
          BY <1>2, <2>3, <4>1
        <5>2. Merges(i + 1)
          <6>1. i + 1 = k \/ i + 1 \in 1..(k - 1)
            BY <2>3, <5>1
          <6> QED
            BY <2>4, <2>11, <6>1
        <5>3. Upto(p, i) # p
          BY <1>1, <5>1, UptoWhole
        <5> QED
          BY <5>1, <5>2, <5>3 DEF Joining, Patching
      <4>2. CASE ~ (i < k)
        <5>1. i \in k..Len(p)
          BY <1>2, <2>3, <4>2
        <5> QED
          BY <2>11, <3>1, <5>1
      <4> QED
        BY <4>1, <4>2
    <3>6. LeftAlone(how, l, new, old, p)
      BY <3>5 DEF LeftAlone, x, y
    <3> QED
      BY <3>3, <3>4, <3>6 DEF SameKinds, GetAt, w, y, R
  <2> QED
    BY <2>9, <2>10, <2>11 DEF R
<1> QED
  BY <1>8, <1>9

\* A text that is reached through containers of the same kinds.
LEMMA TextAlike ==
  ASSUME NEW u, NEW v, Sound(v), NEW p, IsText(v, p), SameKinds(v, u, p)
  PROVE  IsText(u, p)
<1>1. PICK S : p \in Seq(S)
  BY TextOnTheWay
<1>2. Len(p) \in 0..MaxDepth
  BY TextOnTheWay
<1>3. Len(p) \in Nat /\ Len(p) <= MaxDepth /\ Len(p) \in 0..Len(p)
  BY <1>2, DepthAssumption
<1>4. ASSUME NEW i \in 1..Len(p) PROVE p[i] \in Segments(Walk(u, p)[i - 1])
  <2>1. i \in 0..Len(p) /\ i - 1 \in 0..Len(p)
    BY <1>3
  <2>2. Walk(u, p)[i].kind = Walk(v, p)[i].kind /\ Walk(u, p)[i - 1].kind = Walk(v, p)[i - 1].kind
    BY <2>1 DEF SameKinds
  <2>3. Walk(u, p)[i] # Missing /\ (Walk(u, p)[i - 1].kind = "array" => CanonicalIndex(p[i]) = p[i])
    BY <2>2, TextOnTheWay, KindsApart
  <2>4. Walk(u, p)[i] = Child(Walk(u, p)[i - 1], p[i])
    BY <1>1, WalkSteps
  <2> QED
    BY <2>3, <2>4, SegmentFacts
<1>5. p \in Nodes(u)
  BY <1>1, <1>3, <1>4, NodeOf
<1> QED
  BY <1>3, <1>5 DEF IsText, SameKinds, GetAt

\* Only objects are on the way along c, as far as v has anything there.
ObjectsOn(v, c) ==
    \A i \in 1..Len(c) : Walk(v, c)[i - 1] = Missing \/ Walk(v, c)[i - 1].kind = "object"

\* Where two values have nothing but objects on the way, what is at the end comes from
\* one of them, or both have something there.
LEMMA ThroughObjects ==
  ASSUME NEW how, NEW old, NEW new, NEW l, NEW f, IsMerge(how, old, new, l, f), Sound(old), Sound(new),
         old.kind = "object", new.kind = "object", NEW S, NEW c \in Seq(S), Len(c) <= MaxDepth,
         ObjectsOn(old, c), ObjectsOn(new, c),
         \A i \in 1..Len(c) : Strategy(how, Upto(c, i - 1)) # "Replace"
  PROVE  \A i \in 0..Len(c) :
            \/ Open(f, old, new, f[<<>>], c, i)
            \/ Walk(new, c)[i] = Missing /\ Walk(f[<<>>], c)[i] = Walk(old, c)[i]
            \/ Walk(old, c)[i] = Missing /\ Walk(f[<<>>], c)[i] = Walk(new, c)[i]
<1> DEFINE R == f[<<>>]
           w == Walk(R, c)
           x == Walk(new, c)
           y == Walk(old, c)
           Good(i) == \/ Open(f, old, new, R, c, i)
                      \/ x[i] = Missing /\ w[i] = y[i]
                      \/ y[i] = Missing /\ w[i] = x[i]
           Bad == {i \in 0..Len(c) : ~ Good(i)}
<1>1. Len(c) \in Nat
  BY LenProperties
<1>2. /\ w[0] = R /\ x[0] = new /\ y[0] = old
      /\ \A i \in 1..Len(c) : /\ w[i] = Child(w[i - 1], c[i]) /\ x[i] = Child(x[i - 1], c[i])
                              /\ y[i] = Child(y[i - 1], c[i])
  BY WalkSteps
<1>3. Open(f, old, new, R, c, 0)
  BY <1>2, UptoEnds, RootNode DEF Open, Both
<1>4. \A t : Child(Missing, t) = Missing
  BY ChildOfNothing
<1>5. ASSUME NEW i \in 1..Len(c), Open(f, old, new, R, c, i - 1) PROVE Good(i)
  <2>1. Onward(how, l, f, old, new, R, c, i)
    BY <1>5, OpenOnward
  <2>2. i - 1 \in 0..Len(c) /\ Upto(c, i - 1) \in Both(old, new)
    BY <1>1, <1>5 DEF Open
  <2>3. y[i - 1].kind = "object" /\ x[i - 1].kind = "object"
    <3>1. CASE i = 1
      BY <1>2, <3>1
    <3>2. CASE i # 1
      <4>1. Upto(c, i - 1) # <<>>
        <5>1. Upto(c, i - 1) \in Seq(S) /\ Len(Upto(c, i - 1)) = i - 1
          BY <2>2, UptoPoints
        <5> QED
          BY <3>2, <5>1, EmptySeq
      <4>2. GetAt(old, Upto(c, i - 1)) # Missing /\ GetAt(new, Upto(c, i - 1)) # Missing
        BY <2>2, <4>1, NodeThere DEF Both
      <4>3. y[i - 1] # Missing /\ x[i - 1] # Missing
        BY <2>2, <4>2, WalkUpto
      <4> QED
        BY <4>3 DEF ObjectsOn
    <3> QED
      BY <3>1, <3>2
  <2>4. Joining(how, Upto(c, i - 1), y[i - 1], x[i - 1])
    BY <2>3 DEF Joining
  <2>5. IF x[i] = Missing THEN w[i] = y[i]
        ELSE Open(f, old, new, R, c, i) \/ (Upto(c, i) \notin Both(old, new) /\ w[i] = x[i])
    BY <2>1, <2>4 DEF Onward
  <2>6. x[i] # Missing /\ y[i] # Missing => Upto(c, i) \in Both(old, new)
    BY <2>2, <2>3, OpenFurther
  <2> QED
    BY <2>5, <2>6
<1> HIDE DEF w, x, y, R
<1>6. Bad = {}
  <2> SUFFICES ASSUME Bad # {} PROVE FALSE
    OBVIOUS
  <2>1. Bad \in SUBSET Nat
    OBVIOUS
  <2>2. PICK i \in Bad : \A j \in Bad : i <= j
    BY <2>1, LeastOne
  <2>3. i \in 1..Len(c) /\ i - 1 \in 0..Len(c) /\ ~ (i <= i - 1)
    BY <1>1, <1>3, <2>2
  <2>4. Good(i - 1) /\ ~ Good(i)
    BY <2>2, <2>3
  <2>5. ~ Open(f, old, new, R, c, i - 1)
    BY <1>5, <2>3, <2>4
  <2> QED
    BY <1>2, <1>4, <2>3, <2>4, <2>5
<1> QED
  BY <1>6 DEF w, x, y, R

\* Arrays that are to be appended.
LEMMA AppendedAt ==
  ASSUME NEW how, NEW old, NEW new, NEW l, NEW f, IsMerge(how, old, new, l, f), Sound(old), Sound(new),
         old.kind = "object", new.kind = "object", NEW S, NEW c \in Seq(S), Len(c) <= MaxDepth,
         ObjectsOn(old, c), ObjectsOn(new, c),
         \A i \in 1..Len(c) : Strategy(how, Upto(c, i - 1)) # "Replace",
         Strategy(how, c) = "Append",
         Has(old, c) => GetAt(old, c).kind = "array", Has(new, c) => GetAt(new, c).kind = "array",
         Has(new, c) => ~ Patches(l, c)
  PROVE  /\ ObjectsOn(f[<<>>], c)
         /\ GetAt(f[<<>>], c) = IF ~ Has(new, c) THEN GetAt(old, c)
                                ELSE IF ~ Has(old, c) THEN GetAt(new, c)
                                ELSE Array(Appended(GetAt(old, c).items, GetAt(new, c).items))
<1> DEFINE R == f[<<>>]
           w == Walk(R, c)
           x == Walk(new, c)
           y == Walk(old, c)
<1>1. Len(c) \in Nat /\ Len(c) \in 0..Len(c) /\ Upto(c, Len(c)) = c
  BY LenProperties, UptoEnds
<1>2. \A i \in 0..Len(c) :
         \/ Open(f, old, new, R, c, i)
         \/ x[i] = Missing /\ w[i] = y[i]
         \/ y[i] = Missing /\ w[i] = x[i]
  BY ThroughObjects
<1>3. ASSUME NEW i \in 1..Len(c) PROVE w[i - 1] = Missing \/ w[i - 1].kind = "object"
  <2>1. i - 1 \in 0..Len(c)
    BY <1>1
  <2>2. (x[i - 1] = Missing \/ x[i - 1].kind = "object") /\ (y[i - 1] = Missing \/ y[i - 1].kind = "object")
    BY DEF ObjectsOn
  <2>3. CASE Open(f, old, new, R, c, i - 1)
    <3>1. w[i - 1].kind = x[i - 1].kind /\ (x[i - 1].kind \notin {"array", "object"} => w[i - 1] = x[i - 1])
      BY <2>1, <2>3, OpenKind
    <3>2. Missing.kind \notin {"array", "object"}
      BY DEF Missing
    <3> QED
      BY <2>2, <3>1, <3>2
  <2> QED
    BY <1>2, <2>1, <2>2, <2>3
<1>4. ObjectsOn(R, c)
  BY <1>3 DEF ObjectsOn
<1>5. ASSUME Open(f, old, new, R, c, Len(c)), Strategy(how, c) = "Append"
      PROVE  Has(new, c) /\ Has(old, c) /\ GetAt(R, c) = Array(Appended(GetAt(old, c).items, GetAt(new, c).items))
  <2>1. c \in Both(old, new) /\ GetAt(R, c) = f[c]
    BY <1>1, <1>5 DEF Open, GetAt
  <2>2. c # <<>>
    BY <1>5 DEF Strategy
  <2>3. Has(new, c) /\ Has(old, c)
    BY <2>1, <2>2, NodeThere DEF Both, Has
  <2>4. MergeStep(how, old, new, l, f, c)
    BY <2>1, MergeSteps
  <2>5. Appending(how, l, c, GetAt(old, c), GetAt(new, c))
    BY <2>3 DEF Appending
  <2> QED
    BY <2>1, <2>3, <2>4, <2>5 DEF MergeStep
<1>6. GetAt(R, c) = w[Len(c)] /\ GetAt(old, c) = y[Len(c)] /\ GetAt(new, c) = x[Len(c)]
  BY DEF GetAt
<1> HIDE DEF w, x, y, R
<1>7. GetAt(R, c) = IF ~ Has(new, c) THEN GetAt(old, c)
                    ELSE IF ~ Has(old, c) THEN GetAt(new, c)
                    ELSE Array(Appended(GetAt(old, c).items, GetAt(new, c).items))
  <2>1. CASE Open(f, old, new, R, c, Len(c))
    BY <1>5, <2>1
  <2>2. CASE ~ Open(f, old, new, R, c, Len(c))
    BY <1>1, <1>2, <1>6, <2>2 DEF Has
  <2> QED
    BY <2>1, <2>2
<1> QED
  BY <1>4, <1>7 DEF R

-----------------------------------------------------------------------------
(***************************************************************************)
(* Layers: what the records of their array overrides say of their values.  *)
(***************************************************************************)
\* The arrays of which l writes single elements are those its overrides have elements of.
Linked(l) ==
    \A c : IsPath(c) /\ c # <<>> /\ GetAt(l.value, c).kind = "array" =>
              (Patches(l, c) <=> WritesElements(l, c))

\* There is an entry for every text of l, but for one that is inside what an override gave.
Told(l) ==
    \A q : IsText(l.value, q) =>
       q \in l.entries \/ \E i \in DOMAIN l.claimed : IsStrictPrefix(Place(l, i), q)

\* A layer that can be merged.
IsLayer(l) == IsTree(l.value) /\ l.value.kind = "object" /\ Linked(l) /\ Told(l)

LEMMA PrefixesUpto ==
  ASSUME NEW S, NEW p \in Seq(S)
  PROVE  /\ Prefixes(p) = {Upto(p, i) : i \in 0..Len(p)}
         /\ Prefixes(p) \ {<<>>} = {Upto(p, i) : i \in 1..Len(p)}
         /\ Prefixes(p) \ {p} = {Upto(p, i - 1) : i \in 1..Len(p)}
         /\ \A i \in 1..Len(p) : Front(Upto(p, i)) = Upto(p, i - 1)
<1>1. Len(p) \in Nat /\ \A i \in 0..Len(p) : Upto(p, i) \in Seq(S) /\ Len(Upto(p, i)) = i
  BY LenProperties, UptoPoints
<1>2. Prefixes(p) = {Upto(p, i) : i \in 0..Len(p)}
  BY DEF Prefixes, Upto
<1>3. \A i \in 0..Len(p) : (Upto(p, i) = <<>> <=> i = 0) /\ (Upto(p, i) = p <=> i = Len(p))
  <2> SUFFICES ASSUME NEW i \in 0..Len(p) PROVE Upto(p, i) = <<>> <=> i = 0
    BY UptoWhole
  <2> QED
    BY <1>1, EmptySeq
<1>4. Prefixes(p) \ {<<>>} = {Upto(p, i) : i \in 1..Len(p)}
  <2>1. \A i \in 0..Len(p) : i # 0 <=> i \in 1..Len(p)
    BY <1>1
  <2>2. \A i \in 1..Len(p) : i \in 0..Len(p)
    BY <1>1
  <2> QED
    BY <1>2, <1>3, <2>1, <2>2
<1>5. Prefixes(p) \ {p} = {Upto(p, i - 1) : i \in 1..Len(p)}
  <2>1. \A i \in 0..Len(p) : i # Len(p) => i + 1 \in 1..Len(p) /\ (i + 1) - 1 = i
    BY <1>1
  <2>2. \A i \in 1..Len(p) : i - 1 \in 0..Len(p) /\ i - 1 # Len(p)
    BY <1>1
  <2> QED
    BY <1>2, <1>3, <2>1, <2>2
<1>6. ASSUME NEW i \in 1..Len(p) PROVE Front(Upto(p, i)) = Upto(p, i - 1)
  <2> DEFINE c == Upto(p, i)
             d == Upto(p, i - 1)
  <2>6. i \in 0..Len(p) /\ i - 1 \in 0..Len(p) /\ i # 0
    BY <1>1
  <2>7. c \in Seq(S) /\ Len(c) = i /\ \A j \in 1..i : c[j] = p[j]
    BY <2>6, UptoPoints
  <2>8. d \in Seq(S) /\ Len(d) = i - 1 /\ \A j \in 1..(i - 1) : d[j] = p[j]
    BY <2>6, UptoPoints
  <2>1. /\ i \in 0..Len(p) /\ i - 1 \in 0..Len(p) /\ i # 0
        /\ c \in Seq(S) /\ Len(c) = i /\ \A j \in 1..i : c[j] = p[j]
        /\ d \in Seq(S) /\ Len(d) = i - 1 /\ \A j \in 1..(i - 1) : d[j] = p[j]
    BY <2>6, <2>7, <2>8
  <2> HIDE DEF c, d
  <2>2. c # <<>>
    BY <2>1, EmptySeq
  <2>3. Front(c) \in Seq(S) /\ Len(Front(c)) = i - 1 /\ \A j \in 1..(i - 1) : Front(c)[j] = c[j]
    BY <2>1, <2>2, FrontPoints
  <2>4. \A j \in 1..(i - 1) : Front(c)[j] = d[j]
    BY <2>1, <2>3
  <2>5. Front(c) = d
    BY <2>1, <2>3, <2>4, SeqEqual
  <2> QED
    BY <2>5 DEF c, d
<1> QED
  BY <1>2, <1>4, <1>5, <1>6

\* LeavesAlone, one step after the other.
LEMMA AloneEither ==
  ASSUME NEW l, IsLayer(l), NEW v, NEW S, NEW p \in Seq(S)
  PROVE  LeavesAlone(l, v, p) <=> LeftAlone(metadata.merge, l, l.value, v, p)
<1> DEFINE Clear(c) ==
             LET new == GetAt(l.value, c)
                 both(kind) == c # p /\ new.kind = kind /\ GetAt(v, c).kind = kind
             IN  \/ new = Missing
                 \/ Skips(l, c)
                 \/ both("object") /\ Strategy(metadata.merge, c) # "Replace"
                 \/ both("array") /\ (WritesElements(l, c) \/ Strategy(metadata.merge, c) = "Append")
           x == Walk(l.value, p)
           y == Walk(v, p)
<1>1. LeavesAlone(l, v, p) <=> \A c \in Prefixes(p) \ {<<>>} : Clear(c)
  BY DEF LeavesAlone
<1>2. Prefixes(p) \ {<<>>} = {Upto(p, i) : i \in 1..Len(p)}
  BY PrefixesUpto
<1>3. ASSUME NEW i \in 1..Len(p)
      PROVE  Clear(Upto(p, i)) <=>
               \/ x[i] = Missing
               \/ x[i] = Null /\ x[i - 1].kind = "array" /\ Patches(l, Upto(p, i - 1))
               \/ /\ Upto(p, i) # p /\ x[i].kind = "object" /\ y[i].kind = "object"
                  /\ Strategy(metadata.merge, Upto(p, i)) # "Replace"
               \/ /\ Upto(p, i) # p /\ x[i].kind = "array" /\ y[i].kind = "array"
                  /\ Patches(l, Upto(p, i)) \/ Strategy(metadata.merge, Upto(p, i)) = "Append"
  <2> DEFINE c == Upto(p, i)
             d == Upto(p, i - 1)
  <2>1. i \in 0..Len(p) /\ i - 1 \in 0..Len(p) /\ Len(p) \in Nat /\ i # 0
    BY LenProperties
  <2>2. GetAt(l.value, c) = x[i] /\ GetAt(v, c) = y[i] /\ GetAt(l.value, d) = x[i - 1]
    BY <2>1, WalkUpto
  <2>3. Front(c) = d
    BY PrefixesUpto
  <2>4. c \in Seq(S) /\ Len(c) = i /\ d \in Seq(S) /\ Len(d) = i - 1
    BY <2>1, UptoPoints
  <2>5. IsPath(c) /\ c # <<>> /\ IsPath(d)
    BY <2>1, <2>4, EmptySeq DEF IsPath
  <2>6. x[i].kind = "array" => (Patches(l, c) <=> WritesElements(l, c))
    BY <2>2, <2>5 DEF IsLayer, Linked
  <2>7. x[i - 1].kind = "array" => d # <<>>
    <3> SUFFICES ASSUME d = <<>> PROVE x[i - 1].kind = "object"
      OBVIOUS
    <3>1. i - 1 = 0
      BY <2>4, EmptySeq
    <3>2. x[0] = l.value
      BY WalkSteps
    <3> QED
      BY <3>1, <3>2 DEF IsLayer
  <2>8. x[i - 1].kind = "array" => (Patches(l, d) <=> WritesElements(l, d))
    BY <2>2, <2>5, <2>7 DEF IsLayer, Linked
  <2> HIDE DEF c, d, x, y
  <2>9. Skips(l, c) <=> x[i] = Null /\ x[i - 1].kind = "array" /\ Patches(l, d)
    BY <2>2, <2>3, <2>8 DEF Skips
  <2>10. Clear(c) <=>
            \/ x[i] = Missing
            \/ Skips(l, c)
            \/ c # p /\ x[i].kind = "object" /\ y[i].kind = "object" /\ Strategy(metadata.merge, c) # "Replace"
            \/ /\ c # p /\ x[i].kind = "array" /\ y[i].kind = "array"
               /\ WritesElements(l, c) \/ Strategy(metadata.merge, c) = "Append"
    BY <2>2
  <2> HIDE DEF Clear
  <2>11. Clear(c) <=>
            \/ x[i] = Missing
            \/ x[i] = Null /\ x[i - 1].kind = "array" /\ Patches(l, d)
            \/ c # p /\ x[i].kind = "object" /\ y[i].kind = "object" /\ Strategy(metadata.merge, c) # "Replace"
            \/ /\ c # p /\ x[i].kind = "array" /\ y[i].kind = "array"
               /\ Patches(l, c) \/ Strategy(metadata.merge, c) = "Append"
    BY <2>6, <2>9, <2>10
  <2> QED
    BY <2>11 DEF c, d
<1> HIDE DEF Clear
<1>4. LeavesAlone(l, v, p) <=> \A i \in 1..Len(p) : Clear(Upto(p, i))
  BY <1>1, <1>2
<1> QED
  BY <1>3, <1>4 DEF LeftAlone

-----------------------------------------------------------------------------
(***************************************************************************)
(* The loops over the layers and over the writes of a patch.  FoldLeft is  *)
(* the value, at the whole domain of the list, of a function of the sets of*)
(* indices it is defined by.                                               *)
(***************************************************************************)
Step(loop, acc, x) ==
    IF loop[1] = "env" THEN CanonicalPath(x.value, acc)
    ELSE IF loop[1] = "merge" THEN Merged(loop[2], acc, x.value, x)
    ELSE IF Refused(acc) THEN acc ELSE WithWrite(acc, x)

IsFold(loop, g, base, s, k) ==
    g = [t \in SUBSET (1..k) |->
           IF t = {} THEN base ELSE Step(loop, g[t \ {Max(t)}], s[Max(t)])]

LEMMA MaxOfSet ==
  ASSUME NEW k \in Nat, NEW t \in SUBSET (1..k), k \in t
  PROVE  Max(t) = k
<1>1. k \in t /\ \A y \in t : k >= y
  OBVIOUS
<1>2. \A x \in t : (\A y \in t : x >= y) => x = k
  BY <1>1
<1>3. Max(t) \in t /\ \A y \in t : Max(t) >= y
  BY <1>1 DEF Max
<1> QED
  BY <1>2, <1>3

LEMMA FoldExists ==
  ASSUME NEW loop, NEW base, NEW s, NEW k \in Nat
  PROVE  \E g : IsFold(loop, g, base, s, k)
<1> DEFINE Bad == {n \in Nat : ~ \E g : IsFold(loop, g, base, s, n)}
<1>1. ASSUME NEW n \in Nat, NEW g, IsFold(loop, g, base, s, n)
      PROVE  \E h : IsFold(loop, h, base, s, n + 1)
  <2> DEFINE h == [t \in SUBSET (1..(n + 1)) |->
                     IF n + 1 \in t THEN Step(loop, g[t \ {n + 1}], s[n + 1]) ELSE g[t]]
             W(t) == IF t = {} THEN base ELSE Step(loop, h[t \ {Max(t)}], s[Max(t)])
  <2>1. ASSUME NEW t \in SUBSET (1..(n + 1)) PROVE h[t] = W(t)
    <3>1. CASE n + 1 \in t
      <4>1. Max(t) = n + 1
        BY <3>1, MaxOfSet
      <4>2. t \ {n + 1} \in SUBSET (1..(n + 1)) /\ n + 1 \notin t \ {n + 1}
        OBVIOUS
      <4>3. h[t \ {n + 1}] = g[t \ {n + 1}]
        BY <4>2
      <4> QED
        BY <3>1, <4>1, <4>3
    <3>2. CASE n + 1 \notin t
      <4>1. t \in SUBSET (1..n)
        BY <3>2
      <4>2. h[t] = g[t]
        BY <3>2
      <4>3. g[t] = IF t = {} THEN base ELSE Step(loop, g[t \ {Max(t)}], s[Max(t)])
        BY <1>1, <4>1 DEF IsFold
      <4>4. t \ {Max(t)} \in SUBSET (1..(n + 1)) /\ n + 1 \notin t \ {Max(t)}
        BY <3>2
      <4>5. h[t \ {Max(t)}] = g[t \ {Max(t)}]
        BY <4>4
      <4> QED
        BY <4>2, <4>3, <4>5
    <3> QED
      BY <3>1, <3>2
  <2>2. h = [t \in SUBSET (1..(n + 1)) |-> W(t)]
    BY <2>1
  <2> QED
    BY <2>2 DEF IsFold
<1>2. \E g : IsFold(loop, g, base, s, 0)
  <2> DEFINE g == [t \in SUBSET (1..0) |-> base]
  <2>1. \A t \in SUBSET (1..0) : t = {}
    OBVIOUS
  <2>2. IsFold(loop, g, base, s, 0)
    BY <2>1 DEF IsFold
  <2> QED
    BY <2>2
<1>3. Bad = {}
  <2> SUFFICES ASSUME Bad # {} PROVE FALSE
    OBVIOUS
  <2>1. PICK m \in Bad : \A n \in Bad : m <= n
    BY LeastOne
  <2>2. m # 0 /\ m \in Nat
    BY <1>2
  <2>3. m - 1 \in Nat /\ m - 1 \notin Bad
    BY <2>1, <2>2
  <2>4. \E g : IsFold(loop, g, base, s, m - 1)
    BY <2>3
  <2>5. \E h : IsFold(loop, h, base, s, (m - 1) + 1)
    BY <1>1, <2>3, <2>4
  <2> QED
    BY <2>2, <2>5
<1> QED
  BY <1>3

\* The states of a loop before and after each of its turns.
IsRun(loop, g, base, s, n) ==
    /\ g[{}] = base
    /\ \A k \in 1..n : g[1..k] = Step(loop, g[1..(k - 1)], s[k])

LEMMA FoldRuns ==
  ASSUME NEW loop, NEW base, NEW s, NEW n \in Nat, NEW iter,
         IsFold(loop, iter, base, s, n)
  PROVE  IsRun(loop, iter, base, s, n)
<1>1. iter[{}] = base
  BY DEF IsFold
<1>2. ASSUME NEW k \in 1..n PROVE iter[1..k] = Step(loop, iter[1..(k - 1)], s[k])
  <2>1. 1..k \in SUBSET (1..n) /\ k \in Nat /\ k \in 1..k
    BY SMT
  <2>2. Max(1..k) = k
    BY <2>1, MaxOfSet
  <2>3. (1..k) \ {k} = 1..(k - 1)
    OBVIOUS
  <2>4. 1..k # {}
    BY <2>1
  <2> QED
    BY <2>1, <2>2, <2>3, <2>4 DEF IsFold
<1> QED
  BY <1>1, <1>2 DEF IsRun

LEMMA EnvPathRuns ==
  ASSUME NEW p, NEW n \in Nat, DOMAIN layers = 1..n
  PROVE  \E g : IsRun(<<"env">>, g, p, layers, n) /\ EnvPath(p) = CanonicalPath(env.value, g[1..n])
<1> DEFINE F(g) == [t \in SUBSET (1..n) |->
                      IF t = {} THEN p ELSE CanonicalPath(layers[Max(t)].value, g[t \ {Max(t)}])]
           iter == CHOOSE g : g = F(g)
<1>1. \E g : g = F(g)
  <2>1. PICK g : IsFold(<<"env">>, g, p, layers, n)
    BY FoldExists
  <2>2. g = F(g)
    BY <2>1 DEF IsFold, Step
  <2> QED
    BY <2>2
<1>2. iter = F(iter)
  BY <1>1
<1>3. EnvPath(p) = CanonicalPath(env.value, iter[1..n])
  BY DEF EnvPath, FoldLeft, MapThenFoldSet
<1> HIDE DEF iter
<1>4. IsFold(<<"env">>, iter, p, layers, n)
  BY <1>2 DEF IsFold, Step
<1>5. IsRun(<<"env">>, iter, p, layers, n)
  BY <1>4, FoldRuns
<1> QED
  BY <1>3, <1>5

LEMMA ReplayedRuns ==
  ASSUME NEW source, NEW shape, NEW writes, NEW n \in Nat, DOMAIN writes = 1..n
  PROVE  \E g : IsRun(<<"replay">>, g, NewBuilder(source, shape), writes, n) /\ Replayed(source, shape, writes) = g[1..n]
<1> DEFINE F(g) == [t \in SUBSET (1..n) |->
                      IF t = {} THEN NewBuilder(source, shape)
                      ELSE IF Refused(g[t \ {Max(t)}]) THEN g[t \ {Max(t)}]
                           ELSE WithWrite(g[t \ {Max(t)}], writes[Max(t)])]
           iter == CHOOSE g : g = F(g)
<1>1. \E g : g = F(g)
  <2>1. PICK g : IsFold(<<"replay">>, g, NewBuilder(source, shape), writes, n)
    BY FoldExists
  <2>2. g = F(g)
    BY <2>1 DEF IsFold, Step
  <2> QED
    BY <2>2
<1>2. iter = F(iter)
  BY <1>1
<1>3. Replayed(source, shape, writes) = iter[1..n]
  BY DEF Replayed, FoldLeft, MapThenFoldSet
<1> HIDE DEF iter
<1>4. IsFold(<<"replay">>, iter, NewBuilder(source, shape), writes, n)
  BY <1>2 DEF IsFold, Step
<1>5. IsRun(<<"replay">>, iter, NewBuilder(source, shape), writes, n)
  BY <1>4, FoldRuns
<1> QED
  BY <1>3, <1>5

-----------------------------------------------------------------------------
(***************************************************************************)
(* The records of the layers, and what they are once the paths are         *)
(* canonical.                                                              *)
(***************************************************************************)
LayerFields == {"source", "value", "entries", "coercible", "indexed", "direct", "base", "lengths", "claimed"}

LEMMA NewFacts ==
  ASSUME NEW source, NEW v
  PROVE  LET l == FromValue(source, v)
         IN  /\ DOMAIN l = LayerFields
             /\ l.source = source /\ l.value = v /\ l.entries = Nodes(v) \ {<<>>}
             /\ l.indexed = {} /\ l.direct = {} /\ l.claimed = <<>>
BY DEF FromValue, LayerFields

IsNoted(new, l, p, containers, x, value) ==
    /\ DOMAIN new = LayerFields
    /\ new.source = l.source /\ new.value = value
    /\ new.entries = l.entries \cup (Prefixes(p) \ {<<>>})
    /\ new.indexed = l.indexed \cup containers
    /\ new.direct = IF x.kind = "array" THEN l.direct \cup {p} ELSE l.direct
    /\ new.claimed = Append(l.claimed, [path |-> p, value |-> x])

LEMMA NotedFacts ==
  ASSUME NEW l, DOMAIN l = LayerFields, NEW p, NEW containers, NEW x, NEW value
  PROVE  IsNoted(Noted(l, p, containers, x, value), l, p, containers, x, value)
<1> DEFINE a == NoteIndexed(l, p, containers)
           b == IF x.kind = "array" THEN NoteDirect(a, p, x) ELSE a
           Kept(m) == /\ DOMAIN m = LayerFields
                      /\ m.source = l.source /\ m.entries = l.entries /\ m.indexed = l.indexed
                      /\ m.direct = l.direct /\ m.claimed = l.claimed
<1>1. Kept(a)
  BY DEF NoteIndexed, LayerFields
<1> HIDE DEF a
<1>2. Kept(NoteDirect(a, p, x))
  BY <1>1 DEF NoteDirect, LayerFields
<1>3. Kept(b)
  BY <1>1, <1>2
<1>4. Noted(l, p, containers, x, value)
        = [b EXCEPT !.value = value,
                    !.entries = @ \cup (Prefixes(p) \ {<<>>}),
                    !.indexed = @ \cup containers,
                    !.direct = IF x.kind = "array" THEN @ \cup {p} ELSE @,
                    !.claimed = Append(@, [path |-> p, value |-> x])]
  BY DEF Noted, a
<1> HIDE DEF b
<1> QED
  BY <1>3, <1>4 DEF LayerFields, IsNoted

LEMMA CanonicalizedFacts ==
  ASSUME NEW l, DOMAIN l = LayerFields
  PROVE  LET new == Canonicalized(l)
             All(paths) == {CanonicalPath(l.value, p) : p \in paths}
         IN  /\ DOMAIN new = LayerFields
             /\ new.source = l.source /\ new.value = l.value /\ new.claimed = l.claimed
             /\ new.entries = All(l.entries) /\ new.indexed = All(l.indexed) /\ new.direct = All(l.direct)
BY DEF Canonicalized, LayerFields

LEMMA PlaceFacts ==
  ASSUME NEW v, NEW S, NEW p \in Seq(S)
  PROVE  /\ IsPath(CanonicalPath(v, p)) /\ Len(CanonicalPath(v, p)) = Len(p)
         /\ \A i \in 1..Len(p) : IsIndex(CanonicalPath(v, p)[i]) <=> IsIndex(p[i])
         /\ \A k \in 0..Len(p) : CanonicalPath(v, Upto(p, k)) = Upto(CanonicalPath(v, p), k)
<1> DEFINE c == CanonicalPath(v, p)
<1>1. c \in Seq(Written(S)) /\ Respelled(v, p, c)
  BY CanonicalSegments
<1>2. Len(p) \in Nat /\ DOMAIN p = 1..Len(p)
  BY LenProperties
<1>3. \A i \in 1..Len(p) : c[i] = IF Walk(v, p)[i - 1].kind = "array" /\ IsIndex(p[i]) THEN CanonicalIndex(p[i]) ELSE p[i]
  BY <1>2 DEF CanonicalPath
<1> HIDE DEF c
<1>4. \A i \in 1..Len(p) : IsIndex(c[i]) <=> IsIndex(p[i])
  <2> SUFFICES ASSUME NEW i \in 1..Len(p) PROVE IsIndex(c[i]) <=> IsIndex(p[i])
    OBVIOUS
  <2>1. Norm(c[i]) = Norm(p[i])
    BY <1>1 DEF Respelled
  <2> QED
    BY <2>1, NormEqual
<1>5. ASSUME NEW k \in 0..Len(p) PROVE CanonicalPath(v, Upto(p, k)) = Upto(c, k)
  <2> DEFINE q == Upto(p, k)
             d == CanonicalPath(v, q)
             e == Upto(c, k)
  <2>1. q \in Seq(S) /\ Len(q) = k /\ \A i \in 1..k : q[i] = p[i]
    BY UptoPoints
  <2>2. \A i \in 0..k : Walk(v, q)[i] = Walk(v, p)[i]
    BY WalkUpto
  <2> HIDE DEF q
  <2>3. d \in Seq(Written(S)) /\ Len(d) = k
    BY <2>1, CanonicalSegments DEF Respelled
  <2>4. DOMAIN q = 1..k
    BY <2>1, LenProperties
  <2>5. \A i \in 1..k : d[i] = IF Walk(v, q)[i - 1].kind = "array" /\ IsIndex(q[i]) THEN CanonicalIndex(q[i]) ELSE q[i]
    BY <2>4 DEF CanonicalPath
  <2> HIDE DEF d
  <2>6. e \in Seq(Written(S)) /\ Len(e) = k /\ \A i \in 1..k : e[i] = c[i]
    <3>1. Len(c) = Len(p)
      BY <1>1 DEF Respelled
    <3> QED
      BY <1>1, <3>1, UptoPoints
  <2> HIDE DEF e
  <2>7. \A i \in 1..k : d[i] = e[i]
    <3> SUFFICES ASSUME NEW i \in 1..k PROVE d[i] = e[i]
      OBVIOUS
    <3>1. i \in 1..Len(p) /\ i - 1 \in 0..k
      BY <1>2
    <3>2. q[i] = p[i] /\ Walk(v, q)[i - 1] = Walk(v, p)[i - 1] /\ e[i] = c[i]
      BY <2>1, <2>2, <2>6, <3>1
    <3> QED
      BY <1>3, <2>5, <3>1, <3>2
  <2>8. d = e
    BY <2>3, <2>6, <2>7, SeqEqual
  <2> QED
    BY <2>8 DEF d, e, q
<1>6. Len(c) = Len(p) /\ IsPath(c)
  BY <1>1 DEF Respelled, IsPath
<1> QED
  BY <1>4, <1>5, <1>6 DEF c

LEMMA PrefixUpto ==
  ASSUME NEW S, NEW q \in Seq(S), NEW c, IsPath(c)
  PROVE  /\ IsPrefix(c, q) <=> \E k \in 0..Len(q) : c = Upto(q, k)
         /\ IsStrictPrefix(c, q) <=> \E k \in 1..Len(q) : c = Upto(q, k - 1)
         /\ ElementOf(c, q) <=> \E k \in 1..Len(q) : c = Upto(q, k - 1) /\ IsIndex(q[k])
<1>1. PICK T : c \in Seq(T)
  BY DEF IsPath
<1>2. Len(c) \in Nat /\ Len(q) \in Nat /\ Upto(c, Len(c)) = c
  BY <1>1, LenProperties, UptoEnds
<1>3. \A k \in 0..Len(q) : Len(Upto(q, k)) = k /\ Upto(q, k) \in Seq(S) /\ (Upto(q, k) = q <=> k = Len(q))
  BY UptoPoints, UptoWhole
<1>4. IsPrefix(c, q) <=> Len(c) <= Len(q) /\ c = Upto(q, Len(c))
  BY <1>2 DEF IsPrefix, Upto
<1>5. IsPrefix(c, q) <=> \E k \in 0..Len(q) : c = Upto(q, k)
  BY <1>2, <1>3, <1>4
<1>6. IsStrictPrefix(c, q) <=> Len(c) < Len(q) /\ c = Upto(q, Len(c))
  <2>1. IsStrictPrefix(c, q) <=> IsPrefix(c, q) /\ c # q
    BY DEF IsStrictPrefix
  <2>2. IsPrefix(c, q) => Len(c) \in 0..Len(q)
    BY <1>2, <1>4
  <2>3. IsPrefix(c, q) => (c = q <=> Len(c) = Len(q))
    BY <1>3, <1>4, <2>2
  <2> QED
    BY <1>2, <1>4, <2>1, <2>3
<1>7. \A k \in 1..Len(q) : k - 1 \in 0..Len(q) /\ (k - 1) + 1 = k
  BY <1>2
<1>8. IsStrictPrefix(c, q) <=> \E k \in 1..Len(q) : c = Upto(q, k - 1)
  <2>1. ASSUME IsStrictPrefix(c, q) PROVE \E k \in 1..Len(q) : c = Upto(q, k - 1)
    <3>1. Len(c) + 1 \in 1..Len(q) /\ (Len(c) + 1) - 1 = Len(c)
      BY <1>2, <1>6, <2>1
    <3> QED
      BY <1>6, <2>1, <3>1
  <2>2. ASSUME NEW k \in 1..Len(q), c = Upto(q, k - 1) PROVE IsStrictPrefix(c, q)
    <3>1. Len(c) = k - 1
      BY <1>3, <1>7, <2>2
    <3> QED
      BY <1>2, <1>6, <2>2, <3>1
  <2> QED
    BY <2>1, <2>2
<1>9. ElementOf(c, q) <=> IsStrictPrefix(c, q) /\ IsIndex(q[Len(c) + 1])
  BY DEF ElementOf
<1>10. \A k \in 1..Len(q) : c = Upto(q, k - 1) => Len(c) + 1 = k
  BY <1>3, <1>7
<1>11. ElementOf(c, q) <=> \E k \in 1..Len(q) : c = Upto(q, k - 1) /\ IsIndex(q[k])
  BY <1>8, <1>9, <1>10
<1> QED
  BY <1>5, <1>8, <1>11

-----------------------------------------------------------------------------
(***************************************************************************)
(* What a write adds: besides what is written nothing but empty containers *)
(* and nulls.                                                              *)
(***************************************************************************)
\* What is written is in containers of the kinds it was written for.
IsMade(c, s, made) ==
    made.kind = c.kind /\ \A t : ~ Same(c, s, t) => Child(made, t) = Child(c, t)

\* What is made on the way has nothing in it.
LEMMA EmptyInside ==
  ASSUME NEW u \in {Null, EmptyObject, Array(<<>>)}, NEW t
  PROVE  Child(u, t) = Missing
<1>1. Child(Null, t) = Missing
  BY ChildOfNothing
<1>2. Child(EmptyObject, t) = Missing
  BY DEF EmptyObject, Object, Child
<1>3. Child(Array(<<>>), t) = Missing
  <2>1. \A n \in DOMAIN Indices : ~ (Indices[n] < 0)
    BY IndexFacts
  <2> QED
    BY <2>1 DEF Array, Child, IsIndex
<1> QED
  BY <1>1, <1>2, <1>3

\* What c has beyond o is empty.
IsGrown(c, o) ==
    /\ o \notin {Missing, Null} => c.kind = o.kind
    /\ \A t : \/ Child(c, t) = Child(o, t)
              \/ Child(o, t) = Missing /\ Child(c, t) \in {Null, EmptyObject, Array(<<>>)}

\* The containers c of a path p have what v has on the way along p.
GrowsAlong(v, p, c) ==
    \A q : IsPath(q) =>
       \A k \in 1..Len(p) : k - 1 <= Len(q) /\ (\A i \in 1..(k - 1) : Same(c[i], p[i], q[i]))
                              => IsGrown(c[k], Walk(v, q)[k - 1])

LEMMA InsertGrows ==
  ASSUME NEW v, IsTree(v), NEW S, NEW p \in Seq(S), p # <<>>
  PROVE  GrowsAlong(v, p, Containers(v, p))
<1> DEFINE c == Containers(v, p)
<1> SUFFICES ASSUME NEW q, IsPath(q), NEW k \in 1..Len(p), k - 1 <= Len(q),
                    \A i \in 1..(k - 1) : Same(c[i], p[i], q[i])
             PROVE  IsGrown(c[k], Walk(v, q)[k - 1])
  BY DEF GrowsAlong
<1> DEFINE b == Entry(v, p, k)
           o == Walk(v, q)[k - 1]
<1>1. PICK R : q \in Seq(R)
  BY DEF IsPath
<1>2. GrownFrom(b, o, p, k)
  BY <1>1, GrownAlong
<1>3. IsTree(b) /\ c[k] = Widened(b, p, k)
  BY EntryTrees
<1> HIDE DEF b, o, c
<1>4. c[k].kind = b.kind
  BY <1>3, WidenedFacts
<1>5. o \notin {Missing, Null} => c[k].kind = o.kind
  BY <1>2, <1>4 DEF GrownFrom
<1>6. ASSUME NEW t
      PROVE  Child(c[k], t) = Child(o, t) \/ (Child(o, t) = Missing /\ Child(c[k], t) \in {Null, EmptyObject, Array(<<>>)})
  <2>1. \/ Child(Widened(b, p, k), t) = Child(o, t)
        \/ Child(o, t) = Missing /\ Child(Widened(b, p, k), t) = Filler(p, k)
    BY <1>2, <1>3, GrownChild
  <2>2. Filler(p, k) \in {Null, EmptyObject, Array(<<>>)}
    BY FillerTree
  <2> QED
    BY <1>3, <2>1, <2>2
<1> QED
  BY <1>5, <1>6 DEF IsGrown, c, o

LEMMA FilledMade ==
  ASSUME NEW S, NEW p \in Seq(S), p # <<>>, NEW c, NEW x, IsValue(x),
         \A i \in 1..Len(p) : IsTree(c[i]) /\ Holds(c[i], p[i]),
         NEW R, NEW q \in Seq(R), NEW k \in 1..Len(p), k - 1 <= Len(q),
         \A i \in 1..(k - 1) : Same(c[i], p[i], q[i])
  PROVE  IsMade(c[k], p[k], Walk(Filled(c, p, x)[1], q)[k - 1])
<1> DEFINE n == Len(p)
           g == Filled(c, p, x)
<1>1. n \in Nat \ {0}
  BY EmptySeq
<1>3. Towers(c, p, g, n)
  BY FilledTower
<1>4. g[n] = Replace(c[n], p[n], x) /\ \A i \in 1..(n - 1) : g[i] = Replace(c[i], p[i], g[i + 1])
  BY FilledSteps
<1>5. k \in 1..n
  OBVIOUS
<1> HIDE DEF n, g
<1>6. \A i \in 1..n : IsValue(g[i])
  BY <1>3, TowerTrees
<1>7. PICK y : IsValue(y) /\ g[k] = Replace(c[k], p[k], y)
  <2>1. CASE k = n
    BY <1>4, <2>1
  <2>2. CASE k # n
    <3>1. k \in 1..(n - 1) /\ k + 1 \in 1..n
      BY <1>1, <1>5, <2>2
    <3> QED
      BY <1>4, <1>6, <3>1
  <2> QED
    BY <2>1, <2>2
<1>9. Walk(g[1], q)[k - 1] = g[k]
  BY <1>3, <1>5, TowerWalk
<1>10. IsTree(c[k]) /\ Holds(c[k], p[k])
  OBVIOUS
<1>11. /\ Replace(c[k], p[k], y).kind = c[k].kind
       /\ \A t : Child(Replace(c[k], p[k], y), t) = IF Same(c[k], p[k], t) THEN y ELSE Child(c[k], t)
  BY <1>7, <1>10, ReplaceFacts
<1> QED
  BY <1>7, <1>9, <1>11 DEF g, IsMade

LEMMA GrownText ==
  ASSUME NEW v, IsTree(v), NEW S, NEW p \in Seq(S), p # <<>>, NEW c, GrowsAlong(v, p, c),
         \A i \in 1..Len(p) : IsTree(c[i]) /\ Holds(c[i], p[i]), NEW x, IsValue(x),
         NEW r, r = Filled(c, p, x)[1], NEW q, IsText(r, q)
  PROVE  IsPrefix(CanonicalPath(r, p), q) \/ (IsText(v, q) /\ SameKinds(r, v, q))
<1> DEFINE n == Len(p)
           w == Walk(r, q)
           o == Walk(v, q)
           d == CanonicalPath(r, p)
           Bad == {i \in 1..n : i <= Len(q) /\ ~ Same(c[i], p[i], q[i])}
<1>1. n \in Nat \ {0}
  BY EmptySeq
<1>2. Sound(r)
  <2>1. Towers(c, p, Filled(c, p, x), n) /\ 1 \in 1..n
    BY <1>1, FilledTower
  <2>2. IsTree(r)
    BY <2>1, TowerTrees DEF IsValue
  <2> QED
    BY <2>2, TreeSound
<1>3. PICK R : q \in Seq(R)
  BY <1>2, TextOnTheWay
<1>4. IsPath(q) /\ Len(q) \in Nat
  BY <1>3, LenProperties DEF IsPath
<1>5. \A i \in 1..Len(q) : /\ w[i].kind \in {"object", "array", "string"}
                           /\ w[i - 1].kind = "array" => IsIndex(q[i]) /\ CanonicalIndex(q[i]) = q[i]
  BY <1>2, TextOnTheWay
<1>6. w[Len(q)].kind = "string"
  BY DEF IsText, GetAt
<1>7. \A i \in 1..Len(q) : w[i] = Child(w[i - 1], q[i]) /\ o[i] = Child(o[i - 1], q[i])
  BY <1>3, WalkSteps
<1>8. ASSUME NEW k \in 1..n, k - 1 <= Len(q), \A i \in 1..(k - 1) : Same(c[i], p[i], q[i])
      PROVE  IsMade(c[k], p[k], w[k - 1]) /\ IsGrown(c[k], o[k - 1])
  BY <1>3, <1>4, <1>8, FilledMade DEF GrowsAlong
<1>9. \A i \in 1..n : c[i].kind \in {"object", "array"}
  BY DEF Holds
<1>10. CASE Bad = {}
  <2>1. ASSUME NEW i \in 1..n, i <= Len(q) PROVE Same(c[i], p[i], q[i])
    BY <1>10, <2>1
  <2>2. n <= Len(q)
    <3> SUFFICES ASSUME Len(q) < n PROVE FALSE
      BY <1>1, <1>4
    <3> DEFINE k == Len(q) + 1
    <3>1. k \in 1..n /\ k - 1 = Len(q) /\ \A i \in 1..(k - 1) : i \in 1..n /\ i <= Len(q)
      BY <1>1, <1>4
    <3> HIDE DEF k, n, w, o, Bad
    <3>2. IsMade(c[k], p[k], w[k - 1])
      BY <1>8, <2>1, <3>1
    <3> QED
      BY <1>6, <1>9, <3>1, <3>2 DEF IsMade
  <2>3. ASSUME NEW i \in 1..n PROVE w[i - 1].kind = c[i].kind /\ Same(c[i], p[i], q[i])
    <3>1. i - 1 <= Len(q) /\ i <= Len(q) /\ \A j \in 1..(i - 1) : j \in 1..n /\ j <= Len(q)
      BY <1>1, <1>4, <2>2
    <3> HIDE DEF n, w, o, Bad
    <3>2. IsMade(c[i], p[i], w[i - 1])
      BY <1>8, <2>1, <3>1
    <3> QED
      BY <2>1, <3>1, <3>2 DEF IsMade
  <2>4. ASSUME NEW i \in 1..n PROVE Walk(r, p)[i - 1] = w[i - 1]
    <3>1. i - 1 \in Nat /\ i - 1 <= Len(q) /\ i - 1 <= Len(p) /\ \A j \in 1..(i - 1) : j \in 1..n
      BY <1>1, <2>2
    <3>2. \A j \in 1..(i - 1) : Same(w[j - 1], q[j], p[j])
      BY <2>3, <3>1 DEF Same
    <3> HIDE DEF n
    <3> QED
      BY <1>3, <3>1, <3>2, SameWay
  <2>5. d \in Seq(Written(S)) /\ Len(d) = n
    BY CanonicalSegments DEF Respelled
  <2>6. ASSUME NEW i \in 1..n PROVE d[i] = q[i]
    <3>1. i \in DOMAIN p /\ i \in 1..Len(q)
      BY <1>4, <2>2, LenProperties
    <3>2. d[i] = IF w[i - 1].kind = "array" /\ IsIndex(p[i]) THEN CanonicalIndex(p[i]) ELSE p[i]
      BY <2>4, <3>1 DEF CanonicalPath
    <3>3. w[i - 1].kind = "array" => IsIndex(q[i]) /\ CanonicalIndex(q[i]) = q[i]
      BY <1>5, <3>1
    <3>4. w[i - 1].kind \in {"object", "array"} /\ Same(w[i - 1], p[i], q[i])
      BY <1>9, <2>3 DEF Same
    <3> HIDE DEF w, d, n
    <3>5. CASE w[i - 1].kind = "object"
      BY <3>2, <3>4, <3>5 DEF Same
    <3>6. CASE w[i - 1].kind = "array"
      <4>1. Norm(p[i]) = Norm(q[i]) /\ Norm(q[i]) = q[i]
        BY <3>3, <3>4, <3>6 DEF Same, Norm
      <4>2. IsIndex(p[i])
        BY <3>3, <3>6, <4>1, NormEqual
      <4> QED
        BY <3>2, <3>6, <4>1, <4>2 DEF Norm
    <3> QED
      BY <3>4, <3>5, <3>6
  <2> DEFINE U == Written(S) \cup R
  <2>7. d \in Seq(U) /\ q \in Seq(U)
    <3>1. Written(S) \subseteq U /\ R \subseteq U
      OBVIOUS
    <3> HIDE DEF U
    <3> QED
      BY <1>3, <2>5, <3>1, SeqMonotonic
  <2> HIDE DEF U, d
  <2>8. IsPrefix(d, q)
    BY <2>2, <2>5, <2>6, <2>7, PrefixPoints
  <2> QED
    BY <2>8 DEF d
<1>11. CASE Bad # {}
  <2>1. PICK k \in Bad : \A i \in Bad : k <= i
    <3>1. Bad \in SUBSET Nat
      BY <1>1
    <3> HIDE DEF Bad
    <3> QED
      BY <1>11, <3>1, LeastOne
  <2>2. k \in 1..n /\ k \in 1..Len(q) /\ k - 1 <= Len(q) /\ ~ Same(c[k], p[k], q[k])
    BY <1>1, <1>4, <2>1
  <2>3. \A i \in 1..(k - 1) : Same(c[i], p[i], q[i])
    <3> SUFFICES ASSUME NEW i \in 1..(k - 1) PROVE Same(c[i], p[i], q[i])
      OBVIOUS
    <3>1. i \in 1..n /\ i <= Len(q) /\ ~ (k <= i)
      BY <1>1, <1>4, <2>2
    <3>2. i \notin Bad
      BY <2>1, <3>1
    <3> QED
      BY <3>1, <3>2
  <2> HIDE DEF n, w, o, Bad
  <2>4. w[k] = Child(c[k], q[k])
    BY <1>7, <1>8, <2>2, <2>3 DEF IsMade
  <2>5. Child(c[k], q[k]) \notin {Null, EmptyObject, Array(<<>>)}
    <3> SUFFICES ASSUME w[k] \in {Null, EmptyObject, Array(<<>>)} PROVE FALSE
      BY <2>4
    <3>1. w[k].kind \in {"object", "array"}
      BY <1>5, <2>2 DEF Null, EmptyObject, Object, Array
    <3>2. k # Len(q)
      BY <1>6, <3>1
    <3>3. k + 1 \in 1..Len(q) /\ (k + 1) - 1 = k
      BY <1>4, <2>2, <3>2
    <3>4. \A t : Child(w[k], t) = Missing
      BY EmptyInside
    <3>5. w[k + 1] = Missing
      BY <1>7, <3>3, <3>4
    <3> QED
      BY <1>5, <3>3, <3>5 DEF Missing
  <2>6. w[k] = o[k]
    <3>1. IsGrown(c[k], o[k - 1])
      BY <1>8, <2>2, <2>3
    <3>2. Child(c[k], q[k]) = Child(o[k - 1], q[k])
      BY <2>5, <3>1 DEF IsGrown
    <3> QED
      BY <1>7, <2>2, <2>4, <3>2
  <2>7. ASSUME NEW j \in k..Len(q) PROVE w[j] = o[j]
    <3> DEFINE f == Upto(q, j)
    <3>1. j \in 0..Len(q) /\ k \in 0..j
      BY <1>4, <2>2
    <3>2. f \in Seq(R) /\ Len(f) = j
      BY <1>3, <3>1, UptoPoints
    <3>3. GetAt(r, f) = w[j] /\ Walk(r, f)[k] = w[k] /\ GetAt(v, f) = o[j] /\ Walk(v, f)[k] = o[k]
      BY <1>3, <3>1, WalkUpto DEF w, o
    <3> HIDE DEF f
    <3>4. GetAt(r, f) = GetAt(v, f)
      BY <2>6, <3>1, <3>2, <3>3, WalksMeet
    <3> QED
      BY <3>3, <3>4
  <2>8. ASSUME NEW j \in 1..k PROVE w[j - 1].kind = o[j - 1].kind
    <3> DEFINE f == Upto(q, k)
    <3>1. k \in 0..Len(q) /\ j - 1 \in 0..k
      BY <1>4, <2>2
    <3>2. f \in Seq(R) /\ Len(f) = k
      BY <1>3, <3>1, UptoPoints
    <3>3. GetAt(v, f) = o[k] /\ Walk(v, f)[j - 1] = o[j - 1]
      BY <1>3, <3>1, WalkUpto DEF o
    <3> HIDE DEF f
    <3>4. Has(v, f)
      <4>1. w[k] # Missing
        BY <1>5, <2>2 DEF Missing
      <4> QED
        BY <2>6, <3>3, <4>1 DEF Has
    <3>5. Holds(o[j - 1], f[j])
      BY <3>2, <3>3, <3>4, HeldOnTheWay
    <3>6. o[j - 1] \notin {Missing, Null}
      BY <3>5 DEF Holds, Missing, Null
    <3>7. j \in 1..n /\ j - 1 <= Len(q) /\ \A i \in 1..(j - 1) : i \in 1..(k - 1)
      BY <1>1, <1>4, <2>2
    <3>8. IsMade(c[j], p[j], w[j - 1]) /\ IsGrown(c[j], o[j - 1])
      BY <1>8, <2>3, <3>7
    <3> QED
      BY <3>6, <3>8 DEF IsMade, IsGrown
  <2>9. SameKinds(r, v, q)
    <3> SUFFICES ASSUME NEW i \in 0..Len(q) PROVE w[i].kind = o[i].kind
      BY DEF SameKinds, w, o
    <3>1. CASE i < k
      <4>1. i + 1 \in 1..k /\ (i + 1) - 1 = i
        BY <2>2, <3>1
      <4> QED
        BY <2>8, <4>1
    <3>2. CASE k <= i
      BY <2>7, <3>2
    <3> QED
      BY <1>4, <2>2, <3>1, <3>2
  <2> QED
    BY <1>2, <2>9, TextAlike
<1> QED
  BY <1>10, <1>11

\* A path that was spelled along what is the same still is.
LEMMA SpelledAlike ==
  ASSUME NEW v, NEW r, NEW q, IsPath(q), SameKinds(r, v, q), NEW S, NEW p \in Seq(S),
         IsPrefix(CanonicalPath(v, p), q)
  PROVE  CanonicalPath(r, p) = CanonicalPath(v, p)
<1> DEFINE d == CanonicalPath(v, p)
           n == Len(p)
<1>1. PICK R : q \in Seq(R)
  BY DEF IsPath
<1>2. d \in Seq(Written(S)) /\ Respelled(v, p, d)
  BY CanonicalSegments
<1> DEFINE U == Written(S) \cup R
<1>3. d \in Seq(U) /\ q \in Seq(U)
  <2>1. Written(S) \subseteq U /\ R \subseteq U
    OBVIOUS
  <2> HIDE DEF U, d
  <2> QED
    BY <1>1, <1>2, <2>1, SeqMonotonic
<1> HIDE DEF U, d
<1>4. n \in Nat /\ Len(q) \in Nat /\ Len(d) = n /\ n <= Len(q) /\ \A i \in 1..n : d[i] = q[i]
  <2>1. IsPrefix(d, q)
    BY DEF d
  <2> QED
    BY <1>2, <1>3, <2>1, PrefixPoints, LenProperties DEF Respelled
<1>5. \A i \in 0..n : Walk(v, q)[i] = Walk(v, p)[i]
  <2>1. \A i \in 0..n : Walk(v, q)[i] = Walk(v, d)[i]
    BY <1>3, <1>4, SameStart
  <2> QED
    BY <1>2, <2>1 DEF Respelled
<1>6. ASSUME NEW i \in 1..n PROVE Same(Walk(r, q)[i - 1], q[i], p[i])
  <2>1. i - 1 \in 0..Len(q) /\ i - 1 \in 0..n
    BY <1>4
  <2>2. Walk(r, q)[i - 1].kind = Walk(v, p)[i - 1].kind
    BY <1>5, <2>1 DEF SameKinds
  <2>3. Norm(q[i]) = Norm(p[i]) /\ (Walk(v, p)[i - 1].kind # "array" => q[i] = p[i])
    BY <1>2, <1>4 DEF Respelled
  <2> QED
    BY <2>2, <2>3 DEF Same
<1>7. ASSUME NEW i \in 1..n PROVE Walk(r, p)[i - 1].kind = Walk(v, p)[i - 1].kind
  <2>1. i - 1 \in Nat /\ i - 1 <= n /\ i - 1 <= Len(q) /\ i - 1 \in 0..Len(q) /\ i - 1 \in 0..n
        /\ \A j \in 1..(i - 1) : j \in 1..n
    BY <1>4
  <2>2. Walk(r, p)[i - 1] = Walk(r, q)[i - 1]
    BY <1>1, <1>6, <2>1, SameWay
  <2> QED
    BY <1>5, <2>1, <2>2 DEF SameKinds
<1>8. DOMAIN p = 1..n
  BY LenProperties
<1> QED
  BY <1>7, <1>8 DEF CanonicalPath

-----------------------------------------------------------------------------
\* A layer as it is being built: its value, and its records of whole arrays.
IsBuilt(l) ==
    /\ DOMAIN l = LayerFields
    /\ IsTree(l.value) /\ l.value.kind = "object"
    /\ \E U : l.claimed \in Seq(U)
    /\ \A i \in DOMAIN l.claimed : IsPath(l.claimed[i].path) /\ l.claimed[i].path # <<>>
    /\ l.direct = {l.claimed[i].path : i \in {j \in DOMAIN l.claimed : l.claimed[j].value.kind = "array"}}

\* Its records of elements: each is the container of an element it wrote, and those
\* that are arrays are all there.
IndexedSound(l) ==
    \A c \in l.indexed : \E i \in DOMAIN l.claimed : \E k \in 1..Len(l.claimed[i].path) :
       c = Upto(l.claimed[i].path, k - 1) /\ IsIndex(l.claimed[i].path[k])

IndexedComplete(l) ==
    \A i \in DOMAIN l.claimed : \A k \in 2..Len(l.claimed[i].path) :
       /\ IsIndex(l.claimed[i].path[k])
       /\ GetAt(l.value, Upto(l.claimed[i].path, k - 1)).kind = "array"
       => Upto(l.claimed[i].path, k - 1) \in l.indexed

\* Its entries: one for each text, but for a text that is inside what an override gave.
EntriesComplete(l) ==
    \A q : IsText(l.value, q) =>
       \/ \E e \in l.entries : CanonicalPath(l.value, e) = q
       \/ \E i \in DOMAIN l.claimed : IsStrictPrefix(CanonicalPath(l.value, l.claimed[i].path), q)

IsRecorded(l) == IsBuilt(l) /\ IndexedSound(l) /\ IndexedComplete(l) /\ EntriesComplete(l)

LEMMA RecordedLayer ==
  ASSUME NEW l, IsRecorded(l)
  PROVE  IsLayer(Canonicalized(l))
<1> DEFINE new == Canonicalized(l)
           v == l.value
           P(i) == l.claimed[i].path
           Q(i) == CanonicalPath(v, P(i))
           All(paths) == {CanonicalPath(v, p) : p \in paths}
<1>1. /\ new.value = v /\ new.claimed = l.claimed
      /\ new.indexed = All(l.indexed) /\ new.direct = All(l.direct) /\ new.entries = All(l.entries)
  BY CanonicalizedFacts DEF IsRecorded, IsBuilt
<1>2. IsTree(v) /\ v.kind = "object"
  BY DEF IsRecorded, IsBuilt
<1>3. \A i \in DOMAIN l.claimed : IsPath(P(i)) /\ P(i) # <<>>
  BY DEF IsRecorded, IsBuilt
<1>4. \A i \in DOMAIN l.claimed : Place(new, i) = Q(i)
  BY <1>1 DEF Place
<1>5. ASSUME NEW c, IsPath(c), c # <<>>, GetAt(v, c).kind = "array"
      PROVE  Patches(new, c) <=> WritesElements(new, c)
  <2>1. c \in new.direct <=> \E i \in DOMAIN l.claimed : Q(i) = c /\ l.claimed[i].value.kind = "array"
    BY <1>1 DEF IsRecorded, IsBuilt
  <2>2. ASSUME c \in new.indexed PROVE \E i \in DOMAIN l.claimed : ElementOf(c, Q(i))
    <3>1. PICK d \in l.indexed : c = CanonicalPath(v, d)
      BY <1>1, <2>2
    <3>2. PICK i \in DOMAIN l.claimed : \E k \in 1..Len(P(i)) : d = Upto(P(i), k - 1) /\ IsIndex(P(i)[k])
      BY <3>1 DEF IsRecorded, IndexedSound
    <3>3. PICK k \in 1..Len(P(i)) : d = Upto(P(i), k - 1) /\ IsIndex(P(i)[k])
      BY <3>2
    <3>4. PICK S : P(i) \in Seq(S)
      BY <1>3 DEF IsPath
    <3>5. k - 1 \in 0..Len(P(i))
      BY <3>4, LenProperties
    <3>6. IsPath(Q(i)) /\ Len(Q(i)) = Len(P(i)) /\ c = Upto(Q(i), k - 1) /\ IsIndex(Q(i)[k])
      BY <3>1, <3>3, <3>4, <3>5, PlaceFacts
    <3>7. PICK T : Q(i) \in Seq(T)
      BY <3>6 DEF IsPath
    <3> HIDE DEF P, Q
    <3> QED
      BY <1>5, <3>6, <3>7, PrefixUpto
  <2>3. ASSUME NEW i \in DOMAIN l.claimed, ElementOf(c, Q(i)) PROVE c \in new.indexed
    <3>1. PICK S : P(i) \in Seq(S)
      BY <1>3 DEF IsPath
    <3>2. /\ IsPath(Q(i)) /\ Len(Q(i)) = Len(P(i))
          /\ \A k \in 1..Len(P(i)) : IsIndex(Q(i)[k]) <=> IsIndex(P(i)[k])
          /\ \A k \in 0..Len(P(i)) : CanonicalPath(v, Upto(P(i), k)) = Upto(Q(i), k)
      BY <3>1, PlaceFacts
    <3>3. PICK T : Q(i) \in Seq(T)
      BY <3>2 DEF IsPath
    <3> HIDE DEF P, Q
    <3>4. PICK k \in 1..Len(Q(i)) : c = Upto(Q(i), k - 1) /\ IsIndex(Q(i)[k])
      BY <1>5, <2>3, <3>3, PrefixUpto
    <3>5. Len(P(i)) \in Nat /\ k - 1 \in 0..Len(P(i)) /\ k \in 1..Len(P(i))
      BY <3>1, <3>2, LenProperties
    <3>6. k # 1
      <4>1. Upto(Q(i), 0) = <<>>
        BY <3>3, UptoEnds
      <4> QED
        BY <1>5, <3>4, <4>1
    <3> DEFINE d == Upto(P(i), k - 1)
    <3>7. c = CanonicalPath(v, d) /\ IsIndex(P(i)[k])
      BY <3>2, <3>4, <3>5
    <3>8. d \in Seq(S)
      BY <3>1, <3>5, UptoPoints
    <3> HIDE DEF d
    <3>9. GetAt(v, d).kind = "array"
      <4>1. GetAt(v, c) = GetAt(v, d)
        BY <3>7, <3>8, CanonicalSegments
      <4> QED
        BY <1>5, <4>1
    <3>10. k \in 2..Len(P(i))
      BY <3>5, <3>6
    <3>11. d \in l.indexed
      BY <3>7, <3>9, <3>10 DEF IsRecorded, IndexedComplete, P, d
    <3> QED
      BY <1>1, <3>7, <3>11
  <2>4. WritesElements(new, c) <=>
          /\ \E i \in DOMAIN l.claimed : ElementOf(c, Q(i))
          /\ ~ \E i \in DOMAIN l.claimed : Q(i) = c /\ l.claimed[i].value.kind = "array"
    BY <1>1, <1>4 DEF WritesElements
  <2> HIDE DEF new, Q, All
  <2> QED
    BY <1>5, <2>1, <2>2, <2>3, <2>4 DEF Patches
<1>6. ASSUME NEW q, IsText(v, q)
      PROVE  q \in new.entries \/ \E i \in DOMAIN new.claimed : IsStrictPrefix(Place(new, i), q)
  <2>1. CASE \E e \in l.entries : CanonicalPath(v, e) = q
    BY <1>1, <2>1
  <2>2. CASE \E i \in DOMAIN l.claimed : IsStrictPrefix(Q(i), q)
    BY <1>1, <1>4, <2>2
  <2> QED
    BY <1>6, <2>1, <2>2 DEF IsRecorded, EntriesComplete
<1> HIDE DEF new, v, All, Q, P
<1> QED
  BY <1>1, <1>2, <1>5, <1>6 DEF IsLayer, Linked, Told, new

\* The overrides after one more, new, of a sequence.
IsOneMore(claimed, old, new) ==
    /\ \E T : claimed \in Seq(T)
    /\ DOMAIN claimed = (DOMAIN old) \cup {Len(old) + 1} /\ Len(old) + 1 \notin DOMAIN old
    /\ \A i \in DOMAIN old : claimed[i] = old[i]
    /\ claimed[Len(old) + 1] = new

LEMMA OneMore ==
  ASSUME NEW U, NEW s \in Seq(U), NEW x
  PROVE  IsOneMore(Append(s, x), s, x)
<1> DEFINE T == U \cup {x}
<1>1. s \in Seq(T) /\ x \in T
  BY SeqMonotonic
<1> HIDE DEF T
<1>2. /\ Append(s, x) \in Seq(T) /\ Len(Append(s, x)) = Len(s) + 1
      /\ \A i \in 1..Len(s) : Append(s, x)[i] = s[i]
      /\ Append(s, x)[Len(s) + 1] = x
  BY <1>1, AppendProperties
<1>3. Len(s) \in Nat /\ DOMAIN s = 1..Len(s) /\ DOMAIN Append(s, x) = 1..(Len(s) + 1)
  BY <1>1, <1>2, LenProperties
<1> QED
  BY <1>2, <1>3 DEF IsOneMore

\* The records after one more override.
LEMMA BuiltMore ==
  ASSUME NEW l, IsBuilt(l), NEW p, IsPath(p), p # <<>>, NEW containers, NEW x, NEW value,
         IsTree(value), value.kind = "object"
  PROVE  /\ IsBuilt(Noted(l, p, containers, x, value))
         /\ IsOneMore(Noted(l, p, containers, x, value).claimed, l.claimed, [path |-> p, value |-> x])
<1> DEFINE new == Noted(l, p, containers, x, value)
           k == Len(l.claimed) + 1
           w == [path |-> p, value |-> x]
<1>1. /\ DOMAIN new = LayerFields /\ new.value = value
      /\ new.direct = IF x.kind = "array" THEN l.direct \cup {p} ELSE l.direct
      /\ new.claimed = Append(l.claimed, w)
  <2>1. IsNoted(new, l, p, containers, x, value)
    BY NotedFacts DEF IsBuilt
  <2> QED
    BY <2>1 DEF IsNoted
<1> HIDE DEF new, w
<1>2. PICK U : l.claimed \in Seq(U)
  BY DEF IsBuilt
<1>3. /\ \E T : new.claimed \in Seq(T)
      /\ DOMAIN new.claimed = (DOMAIN l.claimed) \cup {k} /\ k \notin DOMAIN l.claimed
      /\ \A i \in DOMAIN l.claimed : new.claimed[i] = l.claimed[i]
      /\ new.claimed[k] = w
  <2>1. IsOneMore(Append(l.claimed, w), l.claimed, w)
    BY <1>2, OneMore
  <2> QED
    BY <1>1, <2>1 DEF IsOneMore
<1> HIDE DEF k
<1>4. w.path = p /\ w.value = x
  BY DEF w
<1>5. \A i \in DOMAIN new.claimed : IsPath(new.claimed[i].path) /\ new.claimed[i].path # <<>>
  BY <1>3, <1>4 DEF IsBuilt
<1>6. new.direct = {new.claimed[i].path : i \in {j \in DOMAIN new.claimed : new.claimed[j].value.kind = "array"}}
  <2>1. l.direct = {l.claimed[i].path : i \in {j \in DOMAIN l.claimed : l.claimed[j].value.kind = "array"}}
    BY DEF IsBuilt
  <2>2. ASSUME NEW c
        PROVE  c \in new.direct <=> \E i \in DOMAIN new.claimed : new.claimed[i].value.kind = "array" /\ c = new.claimed[i].path
    <3>1. c \in l.direct <=> \E i \in DOMAIN l.claimed : l.claimed[i].value.kind = "array" /\ c = l.claimed[i].path
      BY <2>1
    <3>2. (\E i \in DOMAIN new.claimed : new.claimed[i].value.kind = "array" /\ c = new.claimed[i].path)
            <=> \/ \E i \in DOMAIN l.claimed : l.claimed[i].value.kind = "array" /\ c = l.claimed[i].path
                \/ x.kind = "array" /\ c = p
      BY <1>3, <1>4
    <3> QED
      BY <1>1, <3>1, <3>2
  <2> QED
    BY <2>2
<1>7. IsBuilt(new)
  BY <1>1, <1>3, <1>5, <1>6 DEF IsBuilt
<1>8. IsOneMore(new.claimed, l.claimed, w)
  BY <1>3 DEF IsOneMore, k
<1> QED
  BY <1>7, <1>8 DEF new, w

\* What an override gave: there is an entry for its path, and every text is in one of them.
Given(l) ==
    /\ \A i \in DOMAIN l.claimed : l.claimed[i].path \in l.entries
    /\ \A q : IsText(l.value, q) =>
          \E i \in DOMAIN l.claimed : IsPrefix(CanonicalPath(l.value, l.claimed[i].path), q)

LEMMA GivenComplete ==
  ASSUME NEW l, Given(l)
  PROVE  EntriesComplete(l)
BY DEF Given, EntriesComplete, IsStrictPrefix

LEMMA GivenMore ==
  ASSUME NEW l, IsBuilt(l), Given(l), NEW p, IsPath(p), p # <<>>, NEW containers, NEW x, IsValue(x),
         NEW c, GrowsAlong(l.value, p, c), \A i \in 1..Len(p) : IsTree(c[i]) /\ Holds(c[i], p[i]),
         NEW r, r = Filled(c, p, x)[1], IsTree(r), r.kind = "object"
  PROVE  Given(Noted(l, p, containers, x, r))
<1> DEFINE new == Noted(l, p, containers, x, r)
           n == Len(l.claimed) + 1
           w == [path |-> p, value |-> x]
           v == l.value
<1>1. IsNoted(new, l, p, containers, x, r)
  BY NotedFacts DEF IsBuilt
<1>2. IsOneMore(new.claimed, l.claimed, w)
  BY BuiltMore
<1>3. PICK S : p \in Seq(S)
  BY DEF IsPath
<1>4. IsTree(v) /\ \A i \in DOMAIN l.claimed : IsPath(l.claimed[i].path)
  BY DEF IsBuilt
<1> HIDE DEF new, v
<1>5. w.path = p
  OBVIOUS
<1> HIDE DEF w
<1>6. /\ DOMAIN new.claimed = (DOMAIN l.claimed) \cup {n}
      /\ \A i \in DOMAIN l.claimed : new.claimed[i] = l.claimed[i]
      /\ new.claimed[n].path = p
  BY <1>2, <1>5 DEF IsOneMore
<1> HIDE DEF n
<1>7. new.value = r /\ new.entries = l.entries \cup (Prefixes(p) \ {<<>>})
  BY <1>1 DEF IsNoted
<1>8. p \in Prefixes(p) \ {<<>>}
  <2>1. Upto(p, Len(p)) = p /\ Len(p) \in 0..Len(p)
    BY <1>3, UptoEnds, LenProperties
  <2> QED
    BY <1>3, <2>1, PrefixesUpto
<1>9. ASSUME NEW i \in DOMAIN new.claimed PROVE new.claimed[i].path \in new.entries
  BY <1>6, <1>7, <1>8, <1>9 DEF Given
<1>10. ASSUME NEW q, IsText(r, q)
       PROVE  \E i \in DOMAIN new.claimed : IsPrefix(CanonicalPath(r, new.claimed[i].path), q)
  <2>1. IsPrefix(CanonicalPath(r, p), q) \/ (IsText(v, q) /\ SameKinds(r, v, q))
    BY <1>3, <1>4, <1>10, GrownText DEF v
  <2>2. CASE IsPrefix(CanonicalPath(r, p), q)
    BY <1>6, <2>2
  <2>3. CASE IsText(v, q) /\ SameKinds(r, v, q)
    <3>1. PICK i \in DOMAIN l.claimed : IsPrefix(CanonicalPath(v, l.claimed[i].path), q)
      BY <2>3 DEF Given, v
    <3>2. PICK R : l.claimed[i].path \in Seq(R)
      BY <1>4 DEF IsPath
    <3>3. IsPath(q)
      BY <1>4, <2>3, TreeSound, TextOnTheWay DEF IsPath
    <3>4. CanonicalPath(r, l.claimed[i].path) = CanonicalPath(v, l.claimed[i].path)
      BY <2>3, <3>1, <3>2, <3>3, SpelledAlike
    <3>5. i \in DOMAIN new.claimed /\ new.claimed[i] = l.claimed[i]
      BY <1>6
    <3> QED
      BY <3>1, <3>4, <3>5
  <2> QED
    BY <2>1, <2>2, <2>3
<1> QED
  BY <1>7, <1>9, <1>10 DEF Given, new

LEMMA IndexedSoundMore ==
  ASSUME NEW l, IsBuilt(l), IndexedSound(l), NEW p, IsPath(p), p # <<>>, NEW containers, NEW x, NEW value,
         IsTree(value), value.kind = "object",
         \A c \in containers : \E k \in 1..Len(p) : c = Upto(p, k - 1) /\ IsIndex(p[k])
  PROVE  IndexedSound(Noted(l, p, containers, x, value))
<1> DEFINE new == Noted(l, p, containers, x, value)
           n == Len(l.claimed) + 1
           w == [path |-> p, value |-> x]
<1>1. IsNoted(new, l, p, containers, x, value)
  BY NotedFacts DEF IsBuilt
<1>2. IsOneMore(new.claimed, l.claimed, w)
  BY BuiltMore
<1> HIDE DEF new
<1>3. w.path = p
  OBVIOUS
<1> HIDE DEF w
<1>6. /\ DOMAIN new.claimed = (DOMAIN l.claimed) \cup {n}
      /\ \A i \in DOMAIN l.claimed : new.claimed[i] = l.claimed[i]
      /\ new.claimed[n] = w
  BY <1>2 DEF IsOneMore
<1>7. new.indexed = l.indexed \cup containers
  BY <1>1 DEF IsNoted
<1> HIDE DEF n
<1> SUFFICES ASSUME NEW c \in new.indexed
             PROVE  \E i \in DOMAIN new.claimed : \E k \in 1..Len(new.claimed[i].path) :
                       c = Upto(new.claimed[i].path, k - 1) /\ IsIndex(new.claimed[i].path[k])
  BY DEF IndexedSound, new
<1>4. CASE c \in l.indexed
  <2>1. PICK i \in DOMAIN l.claimed : \E k \in 1..Len(l.claimed[i].path) :
                       c = Upto(l.claimed[i].path, k - 1) /\ IsIndex(l.claimed[i].path[k])
    BY <1>4 DEF IndexedSound
  <2>2. i \in DOMAIN new.claimed /\ new.claimed[i] = l.claimed[i]
    BY <1>6
  <2> QED
    BY <2>1, <2>2
<1>5. CASE c \in containers
  <2>1. n \in DOMAIN new.claimed /\ new.claimed[n].path = p
    BY <1>3, <1>6
  <2> QED
    BY <1>5, <2>1
<1> QED
  BY <1>4, <1>5, <1>7

LEMMA ContainersIndexed ==
  ASSUME NEW S, NEW p \in Seq(S)
  PROVE  IndexedContainers(p) = {Upto(p, k - 1) : k \in {j \in 2..Len(p) : IsIndex(p[j])}}
BY DEF IndexedContainers, Upto

\* insert_path leaves an object an object.
LEMMA InsertObject ==
  ASSUME NEW v, NEW x, NEW p, IsPath(p), p # <<>>, IsTree(v), v.kind = "object", IsValue(x),
         InsertPath(v, p, x) # Conflict
  PROVE  IsTree(InsertPath(v, p, x)) /\ InsertPath(v, p, x).kind = "object"
<1>1. PICK S : p \in Seq(S)
  BY DEF IsPath
<1> DEFINE c == Containers(v, p)
           g == Filled(c, p, x)
<1>2. IsTree(InsertPath(v, p, x)) /\ InsertPath(v, p, x) = g[1]
  BY <1>1, InsertTree, InsertTower DEF IsValue
<1>3. Len(p) \in Nat \ {0}
  BY <1>1, EmptySeq, LenProperties
<1>4. c[1] = v
  <2>1. c[1] = Widened(v, p, 1)
    BY <1>1, ContainersSteps
  <2> QED
    BY <2>1 DEF Widened
<1>5. \E y : g[1] = Replace(c[1], p[1], y)
  <2>1. g[Len(p)] = Replace(c[Len(p)], p[Len(p)], x)
        /\ \A i \in 1..(Len(p) - 1) : g[i] = Replace(c[i], p[i], g[i + 1])
    BY <1>1, FilledSteps
  <2> HIDE DEF g, c
  <2> QED
    BY <1>3, <2>1
<1> HIDE DEF g, c
<1>6. g[1].kind = "object"
  BY <1>4, <1>5 DEF Replace, Object
<1> QED
  BY <1>2, <1>6

\* The layers of the environment and of the command line: all elements they wrote
\* are recorded.
IsOverrides(l) ==
    /\ IsBuilt(l) /\ IndexedSound(l) /\ Given(l)
    /\ \A i \in DOMAIN l.claimed : \A k \in 2..Len(l.claimed[i].path) :
          IsIndex(l.claimed[i].path[k]) => Upto(l.claimed[i].path, k - 1) \in l.indexed

LEMMA OverrideMore ==
  ASSUME NEW l, IsOverrides(l), NEW p, IsPath(p), p # <<>>, NEW x, IsValue(x),
         WithOverride(l, p, x).value # Conflict
  PROVE  IsOverrides(WithOverride(l, p, x)) /\ WithOverride(l, p, x).source = l.source
<1> DEFINE v == InsertPath(l.value, p, x)
           cs == IndexedContainers(p)
           new == Noted(l, p, cs, x, v)
           n == Len(l.claimed) + 1
           w == [path |-> p, value |-> x]
<1>1. WithOverride(l, p, x) = new
  BY DEF WithOverride
<1>2. IsBuilt(l) /\ DOMAIN l = LayerFields
  BY DEF IsOverrides, IsBuilt
<1>3. new.value = v /\ new.indexed = l.indexed \cup cs /\ new.source = l.source
  <2>1. IsNoted(new, l, p, cs, x, v)
    BY <1>2, NotedFacts
  <2> HIDE DEF new
  <2> QED
    BY <2>1 DEF IsNoted
<1>4. IsTree(v) /\ v.kind = "object"
  BY <1>1, <1>2, <1>3, InsertObject DEF IsBuilt
<1>5. PICK S : p \in Seq(S)
  BY DEF IsPath
<1>6. cs = {Upto(p, k - 1) : k \in {j \in 2..Len(p) : IsIndex(p[j])}}
  BY <1>5, ContainersIndexed
<1>12. Given(new)
  <2> DEFINE u == l.value
             c == Containers(u, p)
  <2>1. IsTree(u) /\ v # Conflict
    BY <1>1, <1>2, <1>3 DEF IsBuilt
  <2>2. v = Filled(c, p, x)[1]
    BY <1>5, <2>1, InsertTower
  <2>3. \A i \in 1..Len(p) : IsTree(c[i]) /\ Holds(c[i], p[i])
    BY <1>5, <2>1, InsertTower
  <2>4. GrowsAlong(u, p, c)
    BY <1>5, <2>1, InsertGrows
  <2> HIDE DEF v, c
  <2> QED
    BY <1>2, <1>4, <2>2, <2>3, <2>4, GivenMore DEF IsOverrides
<1> HIDE DEF v, cs
<1>7. /\ IsBuilt(new)
      /\ DOMAIN new.claimed = (DOMAIN l.claimed) \cup {n}
      /\ \A i \in DOMAIN l.claimed : new.claimed[i] = l.claimed[i]
      /\ new.claimed[n] = w
  <2>1. IsBuilt(new) /\ IsOneMore(new.claimed, l.claimed, w)
    BY <1>2, <1>4, BuiltMore
  <2> HIDE DEF new, w
  <2> QED
    BY <2>1 DEF IsOneMore
<1>8. \A c \in cs : \E k \in 1..Len(p) : c = Upto(p, k - 1) /\ IsIndex(p[k])
  <2>1. \A k \in 2..Len(p) : k \in 1..Len(p)
    OBVIOUS
  <2> QED
    BY <1>6, <2>1
<1>9. IndexedSound(new)
  BY <1>2, <1>4, <1>8, IndexedSoundMore DEF IsOverrides
<1>10. w.path = p
  OBVIOUS
<1> HIDE DEF new, w, n
<1>11. ASSUME NEW i \in DOMAIN new.claimed, NEW k \in 2..Len(new.claimed[i].path), IsIndex(new.claimed[i].path[k])
       PROVE  Upto(new.claimed[i].path, k - 1) \in new.indexed
  <2>1. CASE i \in DOMAIN l.claimed
    BY <1>3, <1>7, <1>11, <2>1 DEF IsOverrides
  <2>2. CASE i = n
    <3>1. new.claimed[i].path = p
      BY <1>7, <1>10, <2>2
    <3> QED
      BY <1>3, <1>6, <1>11, <3>1
  <2> QED
    BY <1>7, <2>1, <2>2
<1> QED
  BY <1>1, <1>3, <1>7, <1>9, <1>11, <1>12 DEF IsOverrides

LEMMA OverridesRecorded ==
  ASSUME NEW l, IsOverrides(l)
  PROVE  IsRecorded(l)
BY GivenComplete DEF IsOverrides, IsRecorded, IndexedComplete

LEMMA NewOverrides ==
  ASSUME NEW source
  PROVE  IsOverrides(NewLayer(source)) /\ NewLayer(source).source = source
<1> DEFINE l == NewLayer(source)
<1>1. /\ DOMAIN l = LayerFields /\ l.source = source /\ l.value = EmptyObject
      /\ l.indexed = {} /\ l.direct = {} /\ l.claimed = <<>>
  BY NewFacts DEF NewLayer
<1>2. DOMAIN <<>> = {} /\ <<>> \in Seq({})
  BY EmptySeq
<1>3. IsTree(EmptyObject) /\ EmptyObject.kind = "object"
  BY EmptyTrees DEF EmptyObject, Object
<1>5. \A q : ~ IsText(EmptyObject, q)
  <2> SUFFICES ASSUME NEW q, IsText(EmptyObject, q) PROVE FALSE
    OBVIOUS
  <2>1. PICK S : q \in Seq(S)
    BY <1>3, TreeSound, TextOnTheWay
  <2>2. Len(q) \in Nat /\ Walk(EmptyObject, q)[0] = EmptyObject
        /\ \A i \in 1..Len(q) : Walk(EmptyObject, q)[i] = Child(Walk(EmptyObject, q)[i - 1], q[i])
    BY <2>1, LenProperties, WalkSteps
  <2>3. Walk(EmptyObject, q)[Len(q)].kind = "string"
    BY DEF IsText, GetAt
  <2>4. \A i \in 1..Len(q) : Walk(EmptyObject, q)[i].kind \in {"object", "array", "string"}
    BY <1>3, TreeSound, TextOnTheWay
  <2>5. Len(q) # 0
    BY <1>3, <2>2, <2>3
  <2>6. 1 \in 1..Len(q)
    BY <2>2, <2>5
  <2>7. Walk(EmptyObject, q)[1] = Missing
    BY <2>2, <2>6, EmptyInside
  <2> QED
    BY <2>4, <2>6, <2>7 DEF Missing
<1> HIDE DEF l
<1>6. Given(l)
  BY <1>1, <1>2, <1>5 DEF Given
<1>4. IsBuilt(l)
  BY <1>1, <1>2, <1>3 DEF IsBuilt
<1> QED
  BY <1>1, <1>2, <1>4, <1>6 DEF IsOverrides, IndexedSound, l

\* A path of a text is canonical.
LEMMA TextCanonical ==
  ASSUME NEW v, Sound(v), NEW q, IsText(v, q)
  PROVE  CanonicalPath(v, q) = q
<1> DEFINE d == CanonicalPath(v, q)
           w == Walk(v, q)
<1>1. PICK S : q \in Seq(S)
  BY TextOnTheWay
<1>2. \A i \in 1..Len(q) : w[i - 1].kind = "array" => IsIndex(q[i]) /\ CanonicalIndex(q[i]) = q[i]
  BY TextOnTheWay
<1>3. DOMAIN q = 1..Len(q)
  BY <1>1, LenProperties
<1>4. \A i \in 1..Len(q) : d[i] = q[i]
  BY <1>2, <1>3 DEF CanonicalPath
<1>5. d \in Seq(Written(S)) /\ Len(d) = Len(q)
  BY <1>1, CanonicalSegments DEF Respelled
<1> DEFINE U == Written(S) \cup S
<1>6. Written(S) \subseteq U /\ S \subseteq U
  OBVIOUS
<1> HIDE DEF U, d
<1>7. d \in Seq(U) /\ q \in Seq(U)
  BY <1>1, <1>5, <1>6, SeqMonotonic
<1>8. d = q
  BY <1>4, <1>5, <1>7, SeqEqual
<1> QED
  BY <1>8 DEF d

\* A file, or what the defaults are serialized to.
LEMMA ValueLayer ==
  ASSUME NEW source, NEW v, IsTree(v), v.kind = "object"
  PROVE  /\ IsLayer(FromValue(source, v)) /\ IsLayer(Canonicalized(FromValue(source, v)))
         /\ FromValue(source, v).source = source /\ Canonicalized(FromValue(source, v)).source = source
<1> DEFINE l == FromValue(source, v)
<1>1. /\ DOMAIN l = LayerFields /\ l.source = source /\ l.value = v /\ l.entries = Nodes(v) \ {<<>>}
      /\ l.indexed = {} /\ l.direct = {} /\ l.claimed = <<>>
  BY NewFacts
<1>2. DOMAIN <<>> = {} /\ <<>> \in Seq({})
  BY EmptySeq
<1> HIDE DEF l
<1>5. ASSUME NEW q, IsText(v, q) PROVE q \in l.entries /\ CanonicalPath(v, q) = q
  <2>1. Sound(v)
    BY TreeSound
  <2>2. PICK S : q \in Seq(S)
    BY <1>5, <2>1, TextOnTheWay
  <2>3. q # <<>>
    <3> SUFFICES ASSUME q = <<>> PROVE FALSE
      OBVIOUS
    <3>1. Len(q) = 0
      BY <2>2, EmptySeq
    <3>2. Walk(v, q)[0] = v
      BY <2>2, WalkSteps
    <3> QED
      BY <1>5, <3>1, <3>2 DEF IsText, GetAt
  <2> QED
    BY <1>1, <1>5, <2>1, <2>3, TextCanonical DEF IsText
<1>6. EntriesComplete(l) /\ Told(l)
  BY <1>1, <1>5 DEF EntriesComplete, Told
<1>3. IsRecorded(l)
  BY <1>1, <1>2, <1>6 DEF IsRecorded, IsBuilt, IndexedSound, IndexedComplete
<1>4. Linked(l)
  <2>1. \A c : ~ Patches(l, c) /\ ~ WritesElements(l, c)
    BY <1>1, <1>2 DEF Patches, WritesElements
  <2> QED
    BY <2>1 DEF Linked
<1> QED
  BY <1>1, <1>3, <1>4, <1>6, RecordedLayer, CanonicalizedFacts DEF IsLayer, l

-----------------------------------------------------------------------------
(***************************************************************************)
(* Typed patches: the containers on the way to a write are those the shape *)
(* says, and later writes leave them the containers they are.              *)
(***************************************************************************)
\* One turn on the way along p: through the shape, or through the value.
PatchTurn(way, p, set, got, i) ==
    IF way = "shape"
      THEN LET known == Child(got, p[i - 1])
           IN  IF ~ Takes(got, p[i - 1]) \/ known # Missing THEN known
               ELSE IF i \in set THEN Array(<<>>) ELSE EmptyObject
      ELSE LET asked == IF got.shape.kind = got.value.kind THEN Child(got.shape, p[i - 1]) ELSE Missing
               empty == IF ContainerKind(asked, i \in set) = "array" THEN Array(<<>>) ELSE EmptyObject
               old == Child(got.value, p[i - 1])
           IN  [value |-> WithNulls(OrEmpty(old, got.value.kind = "array", empty), p[i]), shape |-> asked]

IsPatchWay(way, p, set, base, n, g) ==
    g = [i \in 1..n |-> IF i = 1 THEN base ELSE PatchTurn(way, p, set, g[i - 1], i)]

LEMMA PatchWayExists ==
  ASSUME NEW way, NEW p, NEW set, NEW base, NEW n \in Nat
  PROVE  \E g : IsPatchWay(way, p, set, base, n, g)
<1> DEFINE Bad == {k \in Nat : ~ \E g : IsPatchWay(way, p, set, base, k, g)}
<1>1. ASSUME NEW k \in Nat, NEW g, IsPatchWay(way, p, set, base, k, g)
      PROVE  \E h : IsPatchWay(way, p, set, base, k + 1, h)
  <2> DEFINE h == [i \in 1..(k + 1) |-> IF i # k + 1 THEN g[i]
                                        ELSE IF i = 1 THEN base ELSE PatchTurn(way, p, set, g[i - 1], i)]
             W(i) == IF i = 1 THEN base ELSE PatchTurn(way, p, set, h[i - 1], i)
  <2>1. ASSUME NEW i \in 1..(k + 1) PROVE h[i] = W(i)
    <3>1. i # 1 => i - 1 \in 1..(k + 1) /\ i - 1 # k + 1
      OBVIOUS
    <3>2. i # 1 => h[i - 1] = g[i - 1]
      BY <3>1
    <3>3. CASE i = k + 1
      BY <3>2, <3>3
    <3>4. CASE i # k + 1
      <4>1. i \in 1..k
        BY <3>4
      <4>2. g[i] = IF i = 1 THEN base ELSE PatchTurn(way, p, set, g[i - 1], i)
        BY <1>1, <4>1 DEF IsPatchWay
      <4>3. h[i] = g[i]
        BY <3>4
      <4> QED
        BY <3>2, <4>2, <4>3
    <3> QED
      BY <3>3, <3>4
  <2>2. h = [i \in 1..(k + 1) |-> W(i)]
    BY <2>1
  <2> QED
    BY <2>2 DEF IsPatchWay
<1>2. \E g : IsPatchWay(way, p, set, base, 0, g)
  <2> DEFINE g == [i \in 1..0 |-> base]
             W(i) == IF i = 1 THEN base ELSE PatchTurn(way, p, set, g[i - 1], i)
  <2>1. \A i \in 1..0 : FALSE
    OBVIOUS
  <2>2. g = [i \in 1..0 |-> W(i)]
    BY <2>1
  <2> QED
    BY <2>2 DEF IsPatchWay
<1>3. Bad = {}
  <2> SUFFICES ASSUME Bad # {} PROVE FALSE
    OBVIOUS
  <2>1. PICK m \in Bad : \A k \in Bad : m <= k
    BY LeastOne
  <2>2. m \in Nat /\ m # 0
    BY <1>2
  <2>3. m - 1 \in Nat /\ m - 1 \notin Bad
    BY <2>1, <2>2
  <2>4. \E g : IsPatchWay(way, p, set, base, m - 1, g)
    BY <2>3
  <2>5. \E h : IsPatchWay(way, p, set, base, (m - 1) + 1, h)
    BY <1>1, <2>3, <2>4
  <2> QED
    BY <2>2, <2>5
<1> QED
  BY <1>3

LEMMA ShapesSteps ==
  ASSUME NEW shape, NEW explicit, NEW S, NEW p \in Seq(S), p # <<>>
  PROVE  LET on == ShapesAlong(shape, p, explicit)
         IN  /\ on[1] = shape
             /\ \A i \in 2..Len(p) : on[i] = PatchTurn("shape", p, explicit, on[i - 1], i)
<1> DEFINE n == Len(p)
           F(g) == [i \in 1..Len(p) |->
                      IF i = 1 THEN shape
                      ELSE LET above == g[i - 1]
                               known == Child(above, p[i - 1])
                           IN  IF ~ Takes(above, p[i - 1]) \/ known # Missing THEN known
                               ELSE IF i \in explicit THEN Array(<<>>) ELSE EmptyObject]
           on == ShapesAlong(shape, p, explicit)
<1>1. n \in Nat \ {0}
  BY EmptySeq
<1>2. \E g : g = F(g)
  <2>1. PICK g : IsPatchWay("shape", p, explicit, shape, n, g)
    BY <1>1, PatchWayExists
  <2>2. g = F(g)
    BY <2>1 DEF IsPatchWay, PatchTurn
  <2> QED
    BY <2>2
<1>3. on = CHOOSE g : g = F(g)
  BY DEF ShapesAlong
<1>4. on = F(on)
  <2> HIDE DEF F, on
  <2> QED
    BY <1>2, <1>3
<1> HIDE DEF on
<1>5. on = [i \in 1..n |-> IF i = 1 THEN shape ELSE PatchTurn("shape", p, explicit, on[i - 1], i)]
  BY <1>4 DEF PatchTurn
<1> HIDE DEF n, F
<1>6. \A i \in 1..n : on[i] = IF i = 1 THEN shape ELSE PatchTurn("shape", p, explicit, on[i - 1], i)
  BY <1>5
<1>7. 1 \in 1..n /\ \A i \in 2..n : i \in 1..n /\ i # 1
  BY <1>1
<1>8. on[1] = shape /\ \A i \in 2..n : on[i] = PatchTurn("shape", p, explicit, on[i - 1], i)
  BY <1>6, <1>7
<1> QED
  BY <1>8 DEF on, n

LEMMA ShapedSteps ==
  ASSUME NEW v, NEW shape, NEW arrays, NEW S, NEW p \in Seq(S), p # <<>>
  PROVE  LET way == ShapedContainers(v, shape, p, arrays)
         IN  /\ way[1] = [value |-> WithNulls(v, p[1]), shape |-> shape]
             /\ \A i \in 2..Len(p) : way[i] = PatchTurn("value", p, arrays, way[i - 1], i)
<1> DEFINE n == Len(p)
           base == [value |-> WithNulls(v, p[1]), shape |-> shape]
           F(g) == [i \in 1..Len(p) |->
                      IF i = 1 THEN [value |-> WithNulls(v, p[1]), shape |-> shape]
                      ELSE LET above == g[i - 1]
                               asked == IF above.shape.kind = above.value.kind THEN Child(above.shape, p[i - 1]) ELSE Missing
                               empty == IF ContainerKind(asked, i \in arrays) = "array" THEN Array(<<>>) ELSE EmptyObject
                               old == Child(above.value, p[i - 1])
                           IN  [value |-> WithNulls(OrEmpty(old, above.value.kind = "array", empty), p[i]),
                                shape |-> asked]]
           on == ShapedContainers(v, shape, p, arrays)
<1>1. n \in Nat \ {0}
  BY EmptySeq
<1>2. \E g : g = F(g)
  <2>1. PICK g : IsPatchWay("value", p, arrays, base, n, g)
    BY <1>1, PatchWayExists
  <2>2. g = F(g)
    BY <2>1 DEF IsPatchWay, PatchTurn
  <2> QED
    BY <2>2
<1>3. on = CHOOSE g : g = F(g)
  BY DEF ShapedContainers
<1>4. on = F(on)
  <2> HIDE DEF F, on
  <2> QED
    BY <1>2, <1>3
<1> HIDE DEF on
<1>5. on = [i \in 1..n |-> IF i = 1 THEN base ELSE PatchTurn("value", p, arrays, on[i - 1], i)]
  BY <1>4 DEF PatchTurn
<1> HIDE DEF n, F
<1>6. \A i \in 1..n : on[i] = IF i = 1 THEN base ELSE PatchTurn("value", p, arrays, on[i - 1], i)
  BY <1>5
<1>7. 1 \in 1..n /\ \A i \in 2..n : i \in 1..n /\ i # 1
  BY <1>1
<1>8. on[1] = base /\ \A i \in 2..n : on[i] = PatchTurn("value", p, arrays, on[i - 1], i)
  BY <1>6, <1>7
<1> QED
  BY <1>8 DEF on, n

\* The path as it is written in the shape, and its segments that address elements.
IsCanonical(shape, explicit, p, q, arrays) ==
    /\ IsPath(q) /\ Len(q) = Len(p)
    /\ \A i \in 1..Len(p) :
          /\ IsIndex(q[i]) <=> IsIndex(p[i])
          /\ i \in arrays <=> ShapesAlong(shape, p, explicit)[i].kind = "array" /\ IsIndex(p[i])
          /\ i \in arrays => IsIndex(q[i]) /\ CanonicalIndex(q[i]) = q[i]
          /\ Child(ShapesAlong(shape, p, explicit)[i], q[i]) = Child(ShapesAlong(shape, p, explicit)[i], p[i])

LEMMA PatchPathFacts ==
  ASSUME NEW shape, NEW explicit, NEW S, NEW p \in Seq(S)
  PROVE  /\ IsCanonical(shape, explicit, p, PatchPath(shape, p, explicit).path, PatchPath(shape, p, explicit).arrays)
         /\ PatchPath(shape, p, explicit).arrays \subseteq 1..Len(p)
<1> DEFINE on == ShapesAlong(shape, p, explicit)
           arrays == {i \in DOMAIN p : on[i].kind = "array" /\ IsIndex(p[i])}
           q == [i \in DOMAIN p |-> IF i \in arrays THEN CanonicalIndex(p[i]) ELSE p[i]]
<1>1. PatchPath(shape, p, explicit).path = q /\ PatchPath(shape, p, explicit).arrays = arrays
  BY DEF PatchPath
<1>2. Len(p) \in Nat /\ DOMAIN p = 1..Len(p) /\ \A i \in 1..Len(p) : p[i] \in S
  BY LenProperties, ElementOfSeq
<1> HIDE DEF on
<1>3. arrays \subseteq 1..Len(p) /\ \A i \in 1..Len(p) : i \in arrays <=> on[i].kind = "array" /\ IsIndex(p[i])
  BY <1>2
<1> HIDE DEF arrays
<1>4. \A i \in 1..Len(p) : q[i] = IF i \in arrays THEN CanonicalIndex(p[i]) ELSE p[i]
  BY <1>2
<1>5. \A i \in 1..Len(p) : q[i] \in Written(S)
  BY <1>2, <1>3, IndexFacts DEF Written, IsIndex
<1>6. q \in [1..Len(p) -> Written(S)]
  BY <1>2, <1>5
<1> HIDE DEF q
<1>7. q \in Seq(Written(S)) /\ Len(q) = Len(p)
  <2>1. q \in Seq(Written(S))
    BY <1>2, <1>6, SeqDef
  <2> QED
    BY <1>2, <1>6, <2>1, LenProperties
<1>8. ASSUME NEW i \in 1..Len(p)
      PROVE  /\ IsIndex(q[i]) <=> IsIndex(p[i])
             /\ i \in arrays => IsIndex(q[i]) /\ CanonicalIndex(q[i]) = q[i]
             /\ Child(on[i], q[i]) = Child(on[i], p[i])
  <2>1. CASE i \in arrays
    <3>1. on[i].kind = "array" /\ IsIndex(p[i]) /\ q[i] = CanonicalIndex(p[i])
      BY <1>3, <1>4, <2>1
    <3>2. IsIndex(q[i]) /\ Indices[q[i]] = Indices[p[i]]
      BY <3>1, IndexFacts DEF IsIndex
    <3>3. CanonicalIndex(q[i]) = q[i]
      BY <3>1 DEF CanonicalIndex
    <3> QED
      BY <3>1, <3>2, <3>3 DEF Child
  <2>2. CASE i \notin arrays
    BY <1>4, <2>2
  <2> QED
    BY <2>1, <2>2
<1>9. IsCanonical(shape, explicit, p, q, arrays)
  BY <1>3, <1>7, <1>8 DEF IsCanonical, IsPath, on
<1> QED
  BY <1>1, <1>3, <1>9

LEMMA WithNullsFacts ==
  ASSUME NEW c, NEW s, IsTree(c)
  PROVE  /\ IsTree(WithNulls(c, s))
         /\ WithNulls(c, s).kind = c.kind
         /\ Takes(c, s) => Holds(WithNulls(c, s), s)
         /\ \A t : \/ Child(WithNulls(c, s), t) = Child(c, t)
                   \/ Child(c, t) = Missing /\ Child(WithNulls(c, s), t) = Null /\ c.kind = "array"
<1> DEFINE p == <<s>>
<1>1. Len(p) = 1 /\ p[1] = s
  OBVIOUS
<1> HIDE DEF p
<1>2. WithNulls(c, s) = Widened(c, p, 1)
  BY <1>1 DEF WithNulls, Widened
<1>3. Filler(p, 1) = Null
  BY <1>1 DEF Filler
<1>4. /\ IsTree(Widened(c, p, 1)) /\ Widened(c, p, 1).kind = c.kind
      /\ c.kind = "array" /\ IsIndex(p[1]) => Holds(Widened(c, p, 1), p[1])
      /\ \A t : \/ Child(Widened(c, p, 1), t) = Child(c, t)
                \/ /\ Child(c, t) = Missing /\ c.kind = "array" /\ IsIndex(t)
                   /\ Child(Widened(c, p, 1), t) = Filler(p, 1)
  BY WidenedFacts
<1> QED
  BY <1>1, <1>2, <1>3, <1>4 DEF Takes, Holds

LEMMA ValueTurn ==
  ASSUME NEW p, NEW set, NEW got, NEW i
  PROVE  /\ PatchTurn("value", p, set, got, i).shape
              = IF got.shape.kind = got.value.kind THEN Child(got.shape, p[i - 1]) ELSE Missing
         /\ \E empty \in {Array(<<>>), EmptyObject} :
               PatchTurn("value", p, set, got, i).value
                 = WithNulls(OrEmpty(Child(got.value, p[i - 1]), got.value.kind = "array", empty), p[i])
<1> DEFINE asked == IF got.shape.kind = got.value.kind THEN Child(got.shape, p[i - 1]) ELSE Missing
           empty == IF ContainerKind(asked, i \in set) = "array" THEN Array(<<>>) ELSE EmptyObject
           new == WithNulls(OrEmpty(Child(got.value, p[i - 1]), got.value.kind = "array", empty), p[i])
<1>1. PatchTurn("value", p, set, got, i) = [value |-> new, shape |-> asked]
  BY DEF PatchTurn
<1>2. empty \in {Array(<<>>), EmptyObject}
  OBVIOUS
<1>3. \E e \in {Array(<<>>), EmptyObject} :
        new = WithNulls(OrEmpty(Child(got.value, p[i - 1]), got.value.kind = "array", e), p[i])
  <2> HIDE DEF empty
  <2> QED
    BY <1>2
<1> HIDE DEF new, asked
<1>4. PatchTurn("value", p, set, got, i).shape = asked /\ PatchTurn("value", p, set, got, i).value = new
  BY <1>1
<1> QED
  BY <1>3, <1>4 DEF asked

\* On the way the shape is known, or nothing is.
LEMMA ShapeFollowed ==
  ASSUME NEW v, NEW shape, NEW explicit, NEW S, NEW p \in Seq(S), p # <<>>, NEW q, NEW arrays,
         IsCanonical(shape, explicit, p, q, arrays)
  PROVE  \A i \in 1..Len(p) :
            ShapedContainers(v, shape, q, arrays)[i].shape \in {Missing, ShapesAlong(shape, p, explicit)[i]}
<1> DEFINE n == Len(p)
           on == ShapesAlong(shape, p, explicit)
           way == ShapedContainers(v, shape, q, arrays)
           Bad == {i \in 1..n : way[i].shape \notin {Missing, on[i]}}
<1>1. n \in Nat \ {0}
  BY EmptySeq
<1>2. on[1] = shape /\ \A i \in 2..n : on[i] = PatchTurn("shape", p, explicit, on[i - 1], i)
  BY ShapesSteps
<1>3. PICK T : q \in Seq(T)
  BY DEF IsCanonical, IsPath
<1>4. Len(q) = n /\ \A i \in 1..n : Child(on[i], q[i]) = Child(on[i], p[i])
  BY DEF IsCanonical
<1>5. q # <<>>
  BY <1>1, <1>4, EmptySeq
<1>6. way[1] = [value |-> WithNulls(v, q[1]), shape |-> shape]
      /\ \A i \in 2..n : way[i] = PatchTurn("value", q, arrays, way[i - 1], i)
  BY <1>3, <1>4, <1>5, ShapedSteps
<1> HIDE DEF n, on, way
<1>7. ASSUME NEW i \in 2..n, way[i - 1].shape \in {Missing, on[i - 1]} PROVE way[i].shape \in {Missing, on[i]}
  <2> DEFINE above == way[i - 1].shape
             known == Child(on[i - 1], p[i - 1])
  <2>1. way[i].shape = IF above.kind = way[i - 1].value.kind THEN Child(above, q[i - 1]) ELSE Missing
    BY <1>6, ValueTurn
  <2>2. \A s : Child(Missing, s) = Missing
    BY DEF Child, Missing
  <2>3. i - 1 \in 1..n
    BY <1>1
  <2>4. Child(on[i - 1], q[i - 1]) = known
    BY <1>4, <2>3
  <2>5. known # Missing => on[i] = known
    BY <1>2 DEF PatchTurn
  <2> HIDE DEF above, known
  <2>6. above \in {Missing, on[i - 1]}
    BY <1>7 DEF above
  <2> QED
    BY <2>1, <2>2, <2>4, <2>5, <2>6
<1>8. Bad = {}
  <2> SUFFICES ASSUME Bad # {} PROVE FALSE
    OBVIOUS
  <2>1. Bad \in SUBSET Nat
    BY <1>1
  <2>2. PICK m \in Bad : \A k \in Bad : m <= k
    <3> HIDE DEF Bad
    <3> QED
      BY <2>1, LeastOne
  <2>3. m \in 1..n /\ way[m].shape \notin {Missing, on[m]}
    OBVIOUS
  <2>4. way[1].shape = shape
    BY <1>6
  <2>5. m \in 2..n /\ m - 1 \in 1..n
    BY <1>1, <1>2, <2>3, <2>4
  <2>6. m - 1 \notin Bad
    BY <2>2, <2>3
  <2>7. way[m - 1].shape \in {Missing, on[m - 1]}
    BY <2>5, <2>6
  <2> QED
    BY <1>7, <2>3, <2>5, <2>7
<1> QED
  BY <1>8 DEF n, on, way

\* The containers of a write: those v has on the way or new ones, each with a place for
\* the next segment, and the arrays those the shape says.
IsWrite(v, p, arrays, c) ==
    /\ c[1] = WithNulls(v, p[1])
    /\ \A i \in 1..Len(p) : IsTree(c[i]) /\ c[i].kind \in {"object", "array"} /\ Holds(c[i], p[i])
    /\ \A i \in 2..Len(p) :
          /\ c[i].kind = "array" <=> i \in arrays
          /\ \E empty \in {Array(<<>>), EmptyObject} :
                c[i] = WithNulls(OrEmpty(Child(c[i - 1], p[i - 1]), c[i - 1].kind = "array", empty), p[i])

LEMMA WriteMade ==
  ASSUME NEW v, IsTree(v), NEW shape, NEW explicit, NEW S, NEW p \in Seq(S), p # <<>>, NEW q, NEW arrays,
         IsCanonical(shape, explicit, p, q, arrays), NEW x, InsertShaped(v, shape, q, arrays, x) # Conflict
  PROVE  \E c : IsWrite(v, q, arrays, c) /\ InsertShaped(v, shape, q, arrays, x) = Filled(c, q, x)[1]
<1> DEFINE n == Len(p)
           on == ShapesAlong(shape, p, explicit)
           way == ShapedContainers(v, shape, q, arrays)
           c == [i \in DOMAIN q |-> way[i].value]
           Bad == {i \in 1..n : ~ IsTree(c[i])}
<1>1. n \in Nat \ {0}
  BY EmptySeq
<1>2. PICK T : q \in Seq(T)
  BY DEF IsCanonical, IsPath
<1>3. Len(q) = n /\ DOMAIN q = 1..n
  BY <1>2, LenProperties DEF IsCanonical
<1>4. q # <<>>
  BY <1>1, <1>3, EmptySeq
<1>5. way[1] = [value |-> WithNulls(v, q[1]), shape |-> shape]
      /\ \A i \in 2..n : way[i] = PatchTurn("value", q, arrays, way[i - 1], i)
  BY <1>2, <1>3, <1>4, ShapedSteps
<1>6. ~ \E i \in DOMAIN q : UnfitShaped(way[i], q, arrays, i)
  BY DEF InsertShaped, FilledShaped
<1>7. InsertShaped(v, shape, q, arrays, x) = Filled(c, q, x)[1]
  BY <1>6 DEF InsertShaped, FilledShaped
<1>8. \A i \in 1..n : way[i].shape \in {Missing, on[i]}
  BY ShapeFollowed
<1>9. \A i \in 1..n : i \in arrays <=> on[i].kind = "array" /\ IsIndex(p[i])
  BY DEF IsCanonical
<1>10. \A i \in 1..n : IsIndex(q[i]) <=> IsIndex(p[i])
  BY DEF IsCanonical
<1> HIDE DEF n, on, way
<1>11. \A i \in 1..n : c[i] = way[i].value
  BY <1>3
<1> HIDE DEF c
<1>12. c[1] = WithNulls(v, q[1])
  BY <1>1, <1>5, <1>11
<1>13. ASSUME NEW i \in 2..n
       PROVE  \E empty \in {Array(<<>>), EmptyObject} :
                 c[i] = WithNulls(OrEmpty(Child(c[i - 1], q[i - 1]), c[i - 1].kind = "array", empty), q[i])
  <2>1. i \in 1..n /\ i - 1 \in 1..n
    BY <1>1
  <2>2. c[i] = way[i].value /\ c[i - 1] = way[i - 1].value
    BY <1>11, <2>1
  <2>3. way[i] = PatchTurn("value", q, arrays, way[i - 1], i)
    BY <1>5
  <2> QED
    BY <2>2, <2>3, ValueTurn
<1>14. \A i \in 1..n : Takes(c[i], q[i]) /\ (i > 1 => c[i].kind = ContainerKind(way[i].shape, i \in arrays))
  BY <1>3, <1>6, <1>11 DEF UnfitShaped
<1>15. ASSUME NEW i \in 2..n PROVE c[i].kind = "array" <=> i \in arrays
  <2>1. i \in 1..n /\ i > 1
    OBVIOUS
  <2>2. c[i].kind = ContainerKind(way[i].shape, i \in arrays) /\ (c[i].kind = "array" => IsIndex(q[i]))
    BY <1>14, <2>1 DEF Takes
  <2>3. CASE way[i].shape = Missing
    BY <2>2, <2>3 DEF ContainerKind
  <2>4. CASE way[i].shape # Missing
    <3>1. way[i].shape = on[i] /\ on[i].kind = c[i].kind
      BY <1>8, <2>1, <2>2, <2>4 DEF ContainerKind
    <3> QED
      BY <1>9, <1>10, <2>1, <2>2, <3>1
  <2> QED
    BY <2>3, <2>4
<1>16. ASSUME NEW i \in 2..n, IsTree(c[i - 1]) PROVE IsTree(c[i])
  <2>1. PICK empty \in {Array(<<>>), EmptyObject} :
           c[i] = WithNulls(OrEmpty(Child(c[i - 1], q[i - 1]), c[i - 1].kind = "array", empty), q[i])
    BY <1>13
  <2>2. IsTree(empty) /\ IsTree(Child(c[i - 1], q[i - 1]))
    BY <1>16, EmptyTrees, ChildTree
  <2>3. IsTree(OrEmpty(Child(c[i - 1], q[i - 1]), c[i - 1].kind = "array", empty))
    BY <2>2 DEF OrEmpty
  <2> QED
    BY <2>1, <2>3, WithNullsFacts
<1>17. Bad = {}
  <2> SUFFICES ASSUME Bad # {} PROVE FALSE
    OBVIOUS
  <2>1. Bad \in SUBSET Nat
    BY <1>1
  <2>2. PICK m \in Bad : \A k \in Bad : m <= k
    <3> HIDE DEF Bad
    <3> QED
      BY <2>1, LeastOne
  <2>3. IsTree(c[1])
    BY <1>12, WithNullsFacts
  <2>4. m \in 2..n /\ m - 1 \in 1..n
    BY <1>1, <2>3
  <2>5. m - 1 \notin Bad
    BY <2>2, <2>4
  <2>6. IsTree(c[m - 1])
    BY <2>4, <2>5
  <2> QED
    BY <1>16, <2>4, <2>6
<1>18. ASSUME NEW i \in 1..n PROVE IsTree(c[i]) /\ c[i].kind \in {"object", "array"} /\ Holds(c[i], q[i])
  <2>1. IsTree(c[i]) /\ Takes(c[i], q[i])
    BY <1>14, <1>17
  <2>2. \E u : IsTree(u) /\ c[i] = WithNulls(u, q[i])
    <3>1. CASE i = 1
      BY <1>12, <3>1
    <3>2. CASE i # 1
      <4>1. i \in 2..n /\ i - 1 \in 1..n
        BY <1>1, <3>2
      <4>2. PICK empty \in {Array(<<>>), EmptyObject} :
               c[i] = WithNulls(OrEmpty(Child(c[i - 1], q[i - 1]), c[i - 1].kind = "array", empty), q[i])
        BY <1>13, <4>1
      <4>3. IsTree(c[i - 1])
        BY <1>17, <4>1
      <4>4. IsTree(OrEmpty(Child(c[i - 1], q[i - 1]), c[i - 1].kind = "array", empty))
        BY <4>3, EmptyTrees, ChildTree DEF OrEmpty
      <4> QED
        BY <4>2, <4>4
    <3> QED
      BY <3>1, <3>2
  <2>3. PICK u : IsTree(u) /\ c[i] = WithNulls(u, q[i])
    BY <2>2
  <2>4. u.kind = c[i].kind /\ (Takes(u, q[i]) => Holds(c[i], q[i]))
    BY <2>3, WithNullsFacts
  <2> QED
    BY <2>1, <2>4 DEF Takes
<1>19. IsWrite(v, q, arrays, c)
  BY <1>3, <1>12, <1>13, <1>15, <1>18 DEF IsWrite
<1> QED
  BY <1>7, <1>19

LEMMA WriteWay ==
  ASSUME NEW v, NEW T, NEW q \in Seq(T), q # <<>>, NEW arrays, NEW c, IsWrite(v, q, arrays, c),
         NEW x, IsValue(x), NEW S, NEW e \in Seq(S), NEW k \in 1..Len(q), k - 1 <= Len(e),
         \A i \in 1..(k - 1) : e[i] = q[i]
  PROVE  IsMade(c[k], q[k], Walk(Filled(c, q, x)[1], e)[k - 1])
<1>1. \A i \in 1..Len(q) : IsTree(c[i]) /\ Holds(c[i], q[i])
  BY DEF IsWrite
<1>2. \A i \in 1..(k - 1) : Same(c[i], q[i], e[i])
  BY DEF Same
<1> QED
  BY <1>1, <1>2, FilledMade

\* A write adds nothing but what is written, and makes what it is in.
LEMMA WriteGrows ==
  ASSUME NEW v, IsTree(v), NEW T, NEW q \in Seq(T), q # <<>>, NEW arrays, NEW c, IsWrite(v, q, arrays, c)
  PROVE  GrowsAlong(v, q, c)
<1> SUFFICES ASSUME NEW e, IsPath(e), NEW n \in 1..Len(q), n - 1 <= Len(e),
                    \A i \in 1..(n - 1) : Same(c[i], q[i], e[i])
             PROVE  IsGrown(c[n], Walk(v, e)[n - 1])
  BY DEF GrowsAlong
<1> DEFINE w == Walk(v, e)
           Bad == {k \in 1..n : ~ IsGrown(c[k], w[k - 1])}
<1>1. PICK S : e \in Seq(S)
  BY DEF IsPath
<1>2. Len(q) \in Nat /\ Len(e) \in Nat
  BY <1>1, LenProperties
<1>3. w[0] = v /\ \A i \in 1..Len(e) : w[i] = Child(w[i - 1], e[i])
  BY <1>1, WalkSteps
<1>4. \A i \in 0..Len(e) : IsTree(w[i])
  BY <1>1, WalkTrees
<1>5. /\ c[1] = WithNulls(v, q[1])
      /\ \A i \in 2..Len(q) : \E empty \in {Array(<<>>), EmptyObject} :
            c[i] = WithNulls(OrEmpty(Child(c[i - 1], q[i - 1]), c[i - 1].kind = "array", empty), q[i])
      /\ \A i \in 1..Len(q) : IsTree(c[i])
  BY DEF IsWrite
<1> HIDE DEF w
<1>6. IsGrown(c[1], w[1 - 1])
  BY <1>3, <1>5, WithNullsFacts DEF IsGrown
<1>7. ASSUME NEW k \in 2..n, IsGrown(c[k - 1], w[k - 2]) PROVE IsGrown(c[k], w[k - 1])
  <2> DEFINE old == Child(c[k - 1], q[k - 1])
             o == w[k - 1]
  <2>1. k \in 2..Len(q) /\ k - 1 \in 1..(n - 1) /\ k - 1 \in 1..Len(e) /\ (k - 1) - 1 = k - 2
        /\ k - 1 \in 0..Len(e) /\ k - 1 \in 1..Len(q)
    BY <1>2
  <2>2. PICK empty \in {Array(<<>>), EmptyObject} :
           c[k] = WithNulls(OrEmpty(old, c[k - 1].kind = "array", empty), q[k])
    BY <1>5, <2>1
  <2>3. old = Child(c[k - 1], e[k - 1])
    BY <2>1, SameChild
  <2>4. o = Child(w[k - 2], e[k - 1])
    BY <1>3, <2>1
  <2>5. old = o \/ (o = Missing /\ old \in {Null, EmptyObject, Array(<<>>)})
    BY <1>7, <2>3, <2>4 DEF IsGrown
  <2>6. IsTree(o) /\ IsTree(old)
    BY <1>4, <1>5, <2>1, ChildTree
  <2> HIDE DEF old, o
  <2> DEFINE made == OrEmpty(old, c[k - 1].kind = "array", empty)
  <2>7. made = o \/ (o \in {Missing, Null} /\ made \in {Null, EmptyObject, Array(<<>>)})
    BY <2>5 DEF OrEmpty
  <2>8. IsTree(made)
    BY <2>6, <2>7, EmptyTrees
  <2> HIDE DEF made
  <2>9. /\ c[k].kind = made.kind
        /\ \A t : \/ Child(c[k], t) = Child(made, t)
                  \/ Child(made, t) = Missing /\ Child(c[k], t) = Null
    BY <2>2, <2>8, WithNullsFacts DEF made
  <2>10. \A t : made # o => Child(o, t) = Missing /\ Child(made, t) = Missing
    BY <2>7, ChildOfNothing, EmptyInside
  <2>11. o \notin {Missing, Null} => c[k].kind = o.kind
    BY <2>7, <2>9
  <2>12. \A t : \/ Child(c[k], t) = Child(o, t)
                \/ Child(o, t) = Missing /\ Child(c[k], t) \in {Null, EmptyObject, Array(<<>>)}
    BY <2>9, <2>10
  <2> QED
    BY <2>11, <2>12 DEF IsGrown, o
<1>8. Bad = {}
  <2> SUFFICES ASSUME Bad # {} PROVE FALSE
    OBVIOUS
  <2>1. Bad \in SUBSET Nat
    BY <1>2
  <2>2. PICK k \in Bad : \A i \in Bad : k <= i
    <3> HIDE DEF Bad
    <3> QED
      BY <2>1, LeastOne
  <2>3. k \in 2..n /\ k - 1 \in 1..n /\ (k - 1) - 1 = k - 2
    BY <1>2, <1>6
  <2>4. k - 1 \notin Bad
    BY <2>2, <2>3
  <2>5. IsGrown(c[k - 1], w[k - 2])
    BY <2>3, <2>4
  <2> QED
    BY <1>7, <2>3, <2>5
<1> QED
  BY <1>2, <1>8 DEF w

\* The containers of v on the way along e are there, and e parts from q at its m-th
\* segment; both spell their indices the canonical way.
PartsAt(v, q, arrays, e, m) ==
    /\ \A i \in arrays \cap (1..Len(q)) : IsIndex(q[i]) /\ CanonicalIndex(q[i]) = q[i]
    /\ \A j \in 1..Len(e) : Walk(v, e)[j - 1].kind \in {"object", "array"}
    /\ \A j \in 2..Len(e) : Walk(v, e)[j - 1].kind = "array" => IsIndex(e[j]) /\ CanonicalIndex(e[j]) = e[j]
    /\ m \in 1..Len(q) /\ m <= Len(e) /\ e[m] # q[m] /\ \A i \in 1..(m - 1) : e[i] = q[i]

\* A write leaves the containers on the way to something else what they are.
LEMMA WriteKeeps ==
  ASSUME NEW v, v.kind = "object", IsTree(v), NEW T, NEW q \in Seq(T), q # <<>>, NEW arrays, NEW c,
         IsWrite(v, q, arrays, c), NEW x, IsValue(x), NEW S, NEW e \in Seq(S), NEW m, PartsAt(v, q, arrays, e, m)
  PROVE  \A j \in 1..Len(e) : Walk(Filled(c, q, x)[1], e)[j - 1].kind = Walk(v, e)[j - 1].kind
<1> USE DEF PartsAt
<1> DEFINE n == Len(q)
           r == Filled(c, q, x)[1]
           w == Walk(v, e)
           u == Walk(r, e)
           Bad == {k \in 1..m : c[k] # WithNulls(w[k - 1], q[k])}
<1>1. n \in Nat \ {0} /\ Len(e) \in Nat /\ m \in 1..n /\ m \in 1..Len(e)
  BY EmptySeq, LenProperties
<1>2. w[0] = v /\ \A i \in 1..Len(e) : w[i] = Child(w[i - 1], e[i])
  BY WalkSteps
<1>3. u[0] = r /\ \A i \in 1..Len(e) : u[i] = Child(u[i - 1], e[i])
  BY WalkSteps
<1>4. \A i \in 0..Len(e) : IsTree(w[i])
  BY WalkTrees
<1>5. \A j \in 1..Len(e) : w[j - 1].kind \in {"object", "array"}
  OBVIOUS
<1>6. /\ c[1] = WithNulls(v, q[1])
      /\ \A i \in 2..n : /\ c[i].kind = "array" => i \in arrays
                         /\ \E empty \in {Array(<<>>), EmptyObject} :
                               c[i] = WithNulls(OrEmpty(Child(c[i - 1], q[i - 1]), c[i - 1].kind = "array", empty), q[i])
  BY DEF IsWrite
<1>7. \A k \in 1..m : /\ u[k - 1].kind = c[k].kind
                      /\ \A s : ~ Same(c[k], q[k], s) => Child(u[k - 1], s) = Child(c[k], s)
  <2> SUFFICES ASSUME NEW k \in 1..m PROVE IsMade(c[k], q[k], u[k - 1])
    BY DEF IsMade
  <2>1. k \in 1..Len(q) /\ k - 1 <= Len(e) /\ \A i \in 1..(k - 1) : e[i] = q[i]
    BY <1>1
  <2> QED
    BY <2>1, WriteWay
<1>8. \A j \in 2..Len(e) : w[j - 1].kind = "array" => IsIndex(e[j]) /\ CanonicalIndex(e[j]) = e[j]
  OBVIOUS
<1> HIDE DEF w, u, r, n
<1>9. \A j \in 1..Len(e) : w[j - 1] # Missing /\ w[j - 1] # Null
  BY <1>5 DEF Missing, Null
<1>10. ASSUME NEW k \in 2..m, c[k - 1] = WithNulls(w[k - 2], q[k - 1]) PROVE c[k] = WithNulls(w[k - 1], q[k])
  <2>1. k \in 2..n /\ k - 1 \in 1..(m - 1) /\ k \in 1..Len(e) /\ k - 1 \in 1..Len(e) /\ (k - 1) - 1 = k - 2
        /\ k - 2 \in 0..Len(e)
    BY <1>1
  <2>2. PICK empty : c[k] = WithNulls(OrEmpty(Child(c[k - 1], q[k - 1]), c[k - 1].kind = "array", empty), q[k])
    BY <1>6, <2>1
  <2>3. e[k - 1] = q[k - 1]
    BY <2>1
  <2>4. w[k - 1] = Child(w[k - 2], q[k - 1])
    BY <1>2, <2>1, <2>3
  <2>5. w[k - 1] # Missing /\ w[k - 1] # Null
    BY <1>9, <2>1
  <2>6. IsTree(w[k - 2])
    BY <1>4, <2>1
  <2>7. Child(c[k - 1], q[k - 1]) = w[k - 1]
    BY <1>10, <2>4, <2>5, <2>6, WithNullsFacts
  <2>8. OrEmpty(w[k - 1], c[k - 1].kind = "array", empty) = w[k - 1]
    BY <2>5 DEF OrEmpty
  <2> QED
    BY <2>2, <2>7, <2>8
<1>11. Bad = {}
  <2> SUFFICES ASSUME Bad # {} PROVE FALSE
    OBVIOUS
  <2>1. Bad \in SUBSET Nat
    BY <1>1
  <2>2. PICK k \in Bad : \A i \in Bad : k <= i
    <3> HIDE DEF Bad
    <3> QED
      BY <2>1, LeastOne
  <2>3. c[1] = WithNulls(w[1 - 1], q[1])
    BY <1>2, <1>6
  <2>4. k \in 2..m /\ k - 1 \in 1..m /\ (k - 1) - 1 = k - 2
    BY <1>1, <2>3
  <2>5. k - 1 \notin Bad
    BY <2>2, <2>4
  <2>6. c[k - 1] = WithNulls(w[k - 2], q[k - 1])
    BY <2>4, <2>5
  <2> QED
    BY <1>10, <2>4, <2>6
<1>12. \A k \in 1..m : c[k].kind = w[k - 1].kind
  <2> SUFFICES ASSUME NEW k \in 1..m PROVE c[k].kind = w[k - 1].kind
    OBVIOUS
  <2>1. c[k] = WithNulls(w[k - 1], q[k])
    BY <1>11
  <2>2. IsTree(w[k - 1])
    BY <1>1, <1>4
  <2> QED
    BY <2>1, <2>2, WithNullsFacts
<1>13. ~ Same(c[m], q[m], e[m])
  <2>1. c[m].kind = w[m - 1].kind /\ w[m - 1].kind \in {"object", "array"}
    BY <1>1, <1>5, <1>12
  <2>2. CASE c[m].kind = "object"
    BY <2>2 DEF Same
  <2>3. CASE c[m].kind = "array"
    <3>1. m # 1
      <4>1. w[1 - 1] = v
        BY <1>2
      <4> QED
        BY <2>1, <2>3, <4>1
    <3>2. m \in 2..n /\ m \in 2..Len(e)
      BY <1>1, <3>1
    <3>3. m \in arrays
      BY <1>6, <2>3, <3>2
    <3>4. IsIndex(q[m]) /\ CanonicalIndex(q[m]) = q[m]
      BY <3>3
    <3>5. IsIndex(e[m]) /\ CanonicalIndex(e[m]) = e[m]
      BY <1>8, <2>1, <2>3, <3>2
    <3> QED
      BY <2>3, <3>4, <3>5 DEF Same, Norm
  <2> QED
    BY <2>1, <2>2, <2>3
<1>14. m < Len(e) => u[m] = w[m]
  <2> SUFFICES ASSUME m < Len(e) PROVE u[m] = w[m]
    OBVIOUS
  <2>1. m \in 1..m /\ m - 1 \in 0..Len(e) /\ m + 1 \in 1..Len(e) /\ (m + 1) - 1 = m
    BY <1>1
  <2>2. u[m] = Child(c[m], e[m])
    BY <1>1, <1>3, <1>7, <1>13, <2>1
  <2>3. c[m] = WithNulls(w[m - 1], q[m])
    BY <1>11, <2>1
  <2>4. w[m] = Child(w[m - 1], e[m]) /\ w[m] # Missing
    BY <1>1, <1>2, <1>9, <2>1
  <2>5. IsTree(w[m - 1])
    BY <1>4, <2>1
  <2> QED
    BY <2>2, <2>3, <2>4, <2>5, WithNullsFacts
<1> SUFFICES ASSUME NEW j \in 1..Len(e) PROVE u[j - 1].kind = w[j - 1].kind
  BY DEF u, w, r
<1>15. CASE j <= m
  BY <1>1, <1>7, <1>12, <1>15
<1>16. CASE m < j
  <2> DEFINE f == Upto(e, j - 1)
  <2>1. j - 1 \in 0..Len(e) /\ m \in 0..(j - 1) /\ m < Len(e)
    BY <1>1, <1>16
  <2>2. f \in Seq(S) /\ Len(f) = j - 1
    BY <2>1, UptoPoints
  <2>3. /\ GetAt(v, f) = w[j - 1] /\ Walk(v, f)[m] = w[m]
        /\ GetAt(r, f) = u[j - 1] /\ Walk(r, f)[m] = u[m]
    BY <2>1, WalkUpto DEF w, u
  <2> HIDE DEF f
  <2>4. GetAt(v, f) = GetAt(r, f)
    BY <1>14, <2>1, <2>2, <2>3, WalksMeet
  <2> QED
    BY <2>3, <2>4
<1> QED
  BY <1>1, <1>15, <1>16

\* Two paths of which neither begins with the other part somewhere.
LEMMA PathsPart ==
  ASSUME NEW p, IsPath(p), NEW e, IsPath(e), ~ IsPrefix(e, p), ~ IsPrefix(p, e)
  PROVE  \E m \in 1..Len(p) : m <= Len(e) /\ e[m] # p[m] /\ \A i \in 1..(m - 1) : e[i] = p[i]
<1>1. PICK T : p \in Seq(T)
  BY DEF IsPath
<1>2. PICK S : e \in Seq(S)
  BY DEF IsPath
<1> DEFINE U == S \cup T
           Bad == {i \in 1..Len(p) : i <= Len(e) /\ e[i] # p[i]}
<1>3. S \subseteq U /\ T \subseteq U
  OBVIOUS
<1> HIDE DEF U
<1>4. p \in Seq(U) /\ e \in Seq(U)
  BY <1>1, <1>2, <1>3, SeqMonotonic
<1>5. Len(p) \in Nat /\ Len(e) \in Nat
  BY <1>1, <1>2, LenProperties
<1>6. Bad # {}
  <2> SUFFICES ASSUME Bad = {} PROVE FALSE
    OBVIOUS
  <2>1. CASE Len(e) <= Len(p)
    <3>1. \A i \in 1..Len(e) : e[i] = p[i]
      BY <1>5, <2>1
    <3> QED
      BY <1>4, <2>1, <3>1, PrefixPoints
  <2>2. CASE Len(p) <= Len(e)
    <3>1. \A i \in 1..Len(p) : p[i] = e[i]
      BY <1>5, <2>2
    <3> QED
      BY <1>4, <2>2, <3>1, PrefixPoints
  <2> QED
    BY <1>5, <2>1, <2>2
<1>7. PICK m \in Bad : \A k \in Bad : m <= k
  <2>1. Bad \in SUBSET Nat
    OBVIOUS
  <2> HIDE DEF Bad
  <2> QED
    BY <1>6, <2>1, LeastOne
<1>8. ASSUME NEW i \in 1..(m - 1) PROVE e[i] = p[i]
  <2>1. i \in 1..Len(p) /\ i <= Len(e) /\ ~ (m <= i)
    BY <1>5
  <2>2. i \notin Bad
    BY <1>7, <2>1
  <2> QED
    BY <2>1, <2>2
<1> QED
  BY <1>8

\* A layer as a typed patch builds it: the containers on the way to its writes are
\* there, and the arrays among them are recorded.
Sturdy(v, indexed, e) ==
    \A j \in 2..Len(e) :
       /\ Walk(v, e)[j - 1].kind \in {"object", "array"}
       /\ Walk(v, e)[j - 1].kind = "array" =>
             IsIndex(e[j]) /\ CanonicalIndex(e[j]) = e[j] /\ Upto(e, j - 1) \in indexed

IsPatchLayer(l) ==
    /\ IsBuilt(l) /\ IndexedSound(l) /\ Given(l)
    /\ \A i \in DOMAIN l.claimed : Sturdy(l.value, l.indexed, l.claimed[i].path)

LEMMA PatchRecorded ==
  ASSUME NEW l, IsPatchLayer(l)
  PROVE  IsRecorded(l)
<1> SUFFICES ASSUME NEW i \in DOMAIN l.claimed, NEW k \in 2..Len(l.claimed[i].path),
                    IsIndex(l.claimed[i].path[k]),
                    GetAt(l.value, Upto(l.claimed[i].path, k - 1)).kind = "array"
             PROVE  Upto(l.claimed[i].path, k - 1) \in l.indexed
  BY GivenComplete DEF IsRecorded, IndexedComplete, IsPatchLayer
<1> DEFINE e == l.claimed[i].path
<1>1. PICK S : e \in Seq(S)
  BY DEF IsPatchLayer, IsBuilt, IsPath
<1>2. Sturdy(l.value, l.indexed, e)
  BY DEF IsPatchLayer
<1>3. GetAt(l.value, Upto(e, k - 1)).kind = "array" /\ k \in 2..Len(e)
  OBVIOUS
<1> HIDE DEF e
<1>4. k - 1 \in 0..Len(e)
  BY <1>1, <1>3, LenProperties
<1>5. Walk(l.value, e)[k - 1].kind = "array"
  BY <1>1, <1>3, <1>4, WalkUpto
<1>6. Upto(e, k - 1) \in l.indexed
  BY <1>2, <1>3, <1>5 DEF Sturdy
<1> QED
  BY <1>6 DEF e

LEMMA PatchMore ==
  ASSUME NEW b, IsPatchLayer(b.layer), NEW w, IsPath(w.path), w.path # <<>>, IsValue(w.value),
         ~ Refused(WithWrite(b, w))
  PROVE  IsPatchLayer(WithWrite(b, w).layer) /\ WithWrite(b, w).layer.source = b.layer.source
<1> DEFINE l == b.layer
           canonical == PatchPath(b.shape, w.path, w.explicit)
           p == canonical.path
           arrays == canonical.arrays
           x == w.value
           v == l.value
           Inserted(u) == IF PatchClaimable(l, p) THEN InsertShaped(u, b.shape, p, arrays, x) ELSE Conflict
           value == IF Inserted(b.shape) = Conflict THEN Conflict ELSE Inserted(v)
           cs == ContainersWritten(w, canonical)
           new == Noted(l, p, cs, x, value)
           n == Len(l.claimed) + 1
           last == [path |-> p, value |-> x]
           r == InsertShaped(v, b.shape, p, arrays, x)
<1>1. WithWrite(b, w).layer = new
  BY DEF WithWrite, WriteAt
<1>2. PICK S : w.path \in Seq(S)
  BY DEF IsPath
<1>3. IsCanonical(b.shape, w.explicit, w.path, p, arrays) /\ arrays \subseteq 1..Len(w.path)
  BY <1>2, PatchPathFacts
<1>4. cs = {Upto(p, i - 1) : i \in arrays}
  BY DEF ContainersWritten, Upto
<1>5. IsBuilt(l) /\ IndexedSound(l) /\ DOMAIN l = LayerFields /\ IsTree(v) /\ v.kind = "object"
  BY DEF IsPatchLayer, IsBuilt
<1>6. IsValue(x)
  OBVIOUS
<1>7. new.value # Conflict
  BY <1>1 DEF Refused
<1>8. \A i \in DOMAIN l.claimed : Sturdy(v, l.indexed, l.claimed[i].path)
  BY DEF IsPatchLayer
<1> HIDE DEF canonical, cs, new, v
<1>9. IsNoted(new, l, p, cs, x, value)
  BY <1>5, NotedFacts DEF new
<1>10. new.value = value /\ new.indexed = l.indexed \cup cs /\ new.source = l.source
  <2> HIDE DEF p, x, value, l
  <2> QED
    BY <1>9 DEF IsNoted
<1>11. PatchClaimable(l, p) /\ value = r /\ r # Conflict
  <2> HIDE DEF l, p, x, arrays, r
  <2>1. value # Conflict
    BY <1>7, <1>10
  <2> QED
    BY <2>1 DEF r, v
<1>12. w.path # <<>> /\ IsPath(p) /\ Len(p) = Len(w.path) /\ Len(p) \in Nat \ {0}
  BY <1>2, <1>3, EmptySeq, LenProperties DEF IsCanonical
<1>13. PICK c : IsWrite(v, p, arrays, c) /\ r = Filled(c, p, x)[1]
  BY <1>2, <1>3, <1>5, <1>11, WriteMade
<1>14. \A i \in arrays : i \in 1..Len(p) /\ IsIndex(p[i]) /\ CanonicalIndex(p[i]) = p[i]
  BY <1>3, <1>12 DEF IsCanonical
<1> HIDE DEF p, x, arrays, value, l, r
<1>15. PICK T : p \in Seq(T)
  BY <1>12 DEF IsPath
<1>16. p # <<>>
  BY <1>12, EmptySeq
<1>17. \A k \in 1..Len(p) : Walk(r, p)[k - 1].kind = c[k].kind
  <2> SUFFICES ASSUME NEW k \in 1..Len(p) PROVE Walk(r, p)[k - 1].kind = c[k].kind
    OBVIOUS
  <2>1. k - 1 <= Len(p) /\ \A i \in 1..(k - 1) : p[i] = p[i]
    BY <1>12
  <2>2. IsMade(c[k], p[k], Walk(Filled(c, p, x)[1], p)[k - 1])
    BY <1>6, <1>13, <1>15, <1>16, <2>1, WriteWay
  <2> QED
    BY <1>13, <2>2 DEF IsMade
<1>18. IsTree(r) /\ r.kind = "object"
  <2>1. \A i \in 1..Len(p) : IsTree(c[i]) /\ Holds(c[i], p[i])
    BY <1>13 DEF IsWrite
  <2>2. Towers(c, p, Filled(c, p, x), Len(p))
    BY <1>6, <1>15, <1>16, <2>1, FilledTower
  <2>3. 1 \in 1..Len(p)
    BY <1>12
  <2>4. IsTree(r)
    BY <1>13, <2>2, <2>3, TowerTrees DEF IsValue
  <2>5. c[1].kind = "object"
    BY <1>5, <1>13, WithNullsFacts DEF IsWrite
  <2>6. Walk(r, p)[0] = r
    BY <1>15, WalkSteps
  <2> QED
    BY <1>17, <2>3, <2>4, <2>5, <2>6
<1>19. IsBuilt(new) /\ IsOneMore(new.claimed, l.claimed, last)
  BY <1>5, <1>11, <1>12, <1>16, <1>18, BuiltMore DEF new
<1>20. \A d \in cs : \E k \in 1..Len(p) : d = Upto(p, k - 1) /\ IsIndex(p[k])
  BY <1>4, <1>14
<1>21. IndexedSound(new)
  BY <1>5, <1>11, <1>12, <1>16, <1>18, <1>20, IndexedSoundMore DEF new
<1>27. Given(new)
  <2>1. \A i \in 1..Len(p) : IsTree(c[i]) /\ Holds(c[i], p[i])
    BY <1>13 DEF IsWrite
  <2>2. GrowsAlong(v, p, c)
    BY <1>5, <1>13, <1>15, <1>16, WriteGrows
  <2>3. Given(l) /\ v = l.value
    BY DEF IsPatchLayer, l, v
  <2> QED
    BY <1>5, <1>6, <1>11, <1>12, <1>13, <1>16, <1>18, <2>1, <2>2, <2>3, GivenMore DEF new
<1>22. new.value = r /\ l.indexed \subseteq new.indexed /\ cs \subseteq new.indexed
  BY <1>10, <1>11
<1>23. Sturdy(r, new.indexed, p)
  <2> SUFFICES ASSUME NEW j \in 2..Len(p)
               PROVE  /\ Walk(r, p)[j - 1].kind \in {"object", "array"}
                      /\ Walk(r, p)[j - 1].kind = "array" =>
                            IsIndex(p[j]) /\ CanonicalIndex(p[j]) = p[j] /\ Upto(p, j - 1) \in new.indexed
    BY DEF Sturdy
  <2>1. j \in 1..Len(p)
    BY <1>12
  <2>2. c[j].kind \in {"object", "array"} /\ (c[j].kind = "array" => j \in arrays)
    BY <1>13, <2>1 DEF IsWrite
  <2>3. j \in arrays => Upto(p, j - 1) \in cs
    BY <1>4
  <2> QED
    BY <1>14, <1>17, <1>22, <2>1, <2>2, <2>3
<1>24. ASSUME NEW i \in DOMAIN l.claimed PROVE Sturdy(r, new.indexed, l.claimed[i].path)
  <2> DEFINE e == l.claimed[i].path
  <2>1. IsPath(e) /\ e # <<>>
    BY <1>5 DEF IsBuilt
  <2>2. ~ IsPrefix(e, p) /\ ~ IsPrefix(p, e)
    BY <1>11 DEF PatchClaimable, ClaimedPaths
  <2>3. Sturdy(v, l.indexed, e)
    BY <1>8
  <2> HIDE DEF e
  <2>4. PICK R : e \in Seq(R)
    BY <2>1 DEF IsPath
  <2>5. Len(e) \in Nat \ {0}
    BY <2>1, <2>4, EmptySeq
  <2>6. PICK m \in 1..Len(p) : m <= Len(e) /\ e[m] # p[m] /\ \A k \in 1..(m - 1) : e[k] = p[k]
    BY <1>12, <2>1, <2>2, PathsPart
  <2>7. \A j \in 1..Len(e) : Walk(v, e)[j - 1].kind \in {"object", "array"}
    <3>1. Walk(v, e)[1 - 1] = v
      BY <2>4, WalkSteps
    <3>2. \A j \in 1..Len(e) : j # 1 => j \in 2..Len(e)
      OBVIOUS
    <3> QED
      BY <1>5, <2>3, <3>1, <3>2 DEF Sturdy
  <2>8. \A j \in 2..Len(e) : Walk(v, e)[j - 1].kind = "array" => IsIndex(e[j]) /\ CanonicalIndex(e[j]) = e[j]
    BY <2>3 DEF Sturdy
  <2>9. \A j \in 1..Len(e) : Walk(Filled(c, p, x)[1], e)[j - 1].kind = Walk(v, e)[j - 1].kind
    <3>1. IsTree(v) /\ v.kind = "object" /\ IsWrite(v, p, arrays, c) /\ IsValue(x)
      BY <1>5, <1>6, <1>13
    <3>2. PartsAt(v, p, arrays, e, m)
      BY <1>14, <2>6, <2>7, <2>8 DEF PartsAt
    <3> QED
      BY <1>15, <1>16, <2>4, <3>1, <3>2, WriteKeeps
  <2>10. \A j \in 2..Len(e) : j \in 1..Len(e)
    BY <2>5
  <2>11. Sturdy(r, new.indexed, e)
    BY <1>13, <1>22, <2>3, <2>9, <2>10 DEF Sturdy
  <2> QED
    BY <2>11 DEF e
<1>25. last.path = p
  BY DEF last
<1> HIDE DEF last
<1>26. \A i \in DOMAIN new.claimed : Sturdy(new.value, new.indexed, new.claimed[i].path)
  BY <1>19, <1>22, <1>23, <1>24, <1>25 DEF IsOneMore
<1> QED
  BY <1>1, <1>10, <1>19, <1>21, <1>26, <1>27 DEF IsPatchLayer, l

LEMMA NewPatch ==
  ASSUME NEW source, NEW shape
  PROVE  /\ IsPatchLayer(NewBuilder(source, shape).layer) /\ NewBuilder(source, shape).layer.source = source
         /\ ~ Refused(NewBuilder(source, shape))
<1> DEFINE l == NewLayer(source)
<1>1. NewBuilder(source, shape).layer = l
  BY DEF NewBuilder
<1>2. IsOverrides(l) /\ l.source = source
  BY NewOverrides
<1>3. l.claimed = <<>> /\ l.value = EmptyObject
  BY NewFacts DEF NewLayer
<1>4. DOMAIN <<>> = {}
  OBVIOUS
<1> HIDE DEF l
<1>5. IsPatchLayer(l)
  BY <1>2, <1>3, <1>4 DEF IsOverrides, IsPatchLayer
<1>6. EmptyObject # Conflict
  BY DEF EmptyObject, Object, Conflict
<1> QED
  BY <1>1, <1>2, <1>3, <1>5, <1>6 DEF Refused

IsPatchWrite(w) == IsPath(w.path) /\ w.path # <<>> /\ IsValue(w.value)

\* A patch that is replayed and not refused.
LEMMA ReplayedLayer ==
  ASSUME NEW source, NEW shape, NEW n \in Nat, NEW writes, DOMAIN writes = 1..n,
         \A i \in 1..n : IsPatchWrite(writes[i]), ~ Refused(Replayed(source, shape, writes))
  PROVE  /\ IsPatchLayer(Replayed(source, shape, writes).layer)
         /\ Replayed(source, shape, writes).layer.source = source
<1>1. PICK g : IsRun(<<"replay">>, g, NewBuilder(source, shape), writes, n) /\ Replayed(source, shape, writes) = g[1..n]
  BY ReplayedRuns
<1> DEFINE Good(b) == ~ Refused(b) => IsPatchLayer(b.layer) /\ b.layer.source = source
           Bad == {k \in 0..n : ~ Good(g[1..k])}
<1>2. Good(g[1..0])
  <2>1. 1..0 = {}
    OBVIOUS
  <2> QED
    BY <1>1, <2>1, NewPatch DEF IsRun
<1>3. ASSUME NEW k \in 1..n, Good(g[1..(k - 1)]) PROVE Good(g[1..k])
  <2> DEFINE a == g[1..(k - 1)]
  <2>1. g[1..k] = IF Refused(a) THEN a ELSE WithWrite(a, writes[k])
    BY <1>1 DEF IsRun, Step
  <2>2. IsPatchWrite(writes[k]) /\ Good(a)
    BY <1>3
  <2> HIDE DEF a
  <2> QED
    BY <2>1, <2>2, PatchMore DEF IsPatchWrite
<1> HIDE DEF Good
<1>4. Bad = {}
  <2> SUFFICES ASSUME Bad # {} PROVE FALSE
    OBVIOUS
  <2>1. Bad \in SUBSET Nat
    OBVIOUS
  <2>2. PICK k \in Bad : \A i \in Bad : k <= i
    <3> HIDE DEF Bad
    <3> QED
      BY <2>1, LeastOne
  <2>3. k \in 1..n /\ k - 1 \in 0..n
    BY <1>2
  <2>4. k - 1 \notin Bad
    BY <2>2, <2>3
  <2>5. Good(g[1..(k - 1)])
    BY <2>3, <2>4
  <2> QED
    BY <1>3, <2>3, <2>5
<1>5. Good(g[1..n])
  BY <1>4
<1> QED
  BY <1>1, <1>5 DEF Good

-----------------------------------------------------------------------------
(***************************************************************************)
(* The merge of the stack: what is true of the merge of its first n layers.*)
(***************************************************************************)
\* Merging the layers above k, up to n, leaves what layer k has at p.
Undisturbed(how, stack, k, p, n) ==
    \A j \in (k + 1)..n : LeftAlone(how, stack[j], stack[j].value, stack[k].value, p)

\* What layer k has at p may go behind other elements.
MayShift(how, stack, k, p) ==
    /\ k > 1
    /\ \E i \in 0..Len(p) : /\ Strategy(how, Upto(p, i)) = "Append"
                            /\ Walk(stack[k].value, p)[i].kind = "array"
                            /\ ~ Patches(stack[k], Upto(p, i))

\* m has at p what layer k has there.
From(stack, m, k, p) ==
    SameKinds(m, stack[k].value, p) /\ GetAt(m, p) = GetAt(stack[k].value, p)

Kept(how, stack, m, n) ==
    \A k \in 1..n : \A p : IsText(stack[k].value, p) /\ Undisturbed(how, stack, k, p, n)
                           /\ ~ MayShift(how, stack, k, p) => From(stack, m, k, p)

Found(how, stack, m, n) ==
    \A p : IsText(m, p) =>
       \E k \in 1..n : \/ MayShift(how, stack, k, p)
                       \/ Undisturbed(how, stack, k, p, n) /\ From(stack, m, k, p)

\* What is left alone depends on the kinds of what there is.
LEMMA AloneAlike ==
  ASSUME NEW how, NEW l, NEW new, NEW u, NEW v, NEW p, SameKinds(u, v, p), Len(p) \in Nat
  PROVE  LeftAlone(how, l, new, u, p) <=> LeftAlone(how, l, new, v, p)
<1>1. \A i \in 1..Len(p) : Walk(u, p)[i].kind = Walk(v, p)[i].kind
  BY DEF SameKinds
<1> QED
  BY <1>1 DEF LeftAlone

LEMMA AlikeBoth ==
  ASSUME NEW u, NEW v, NEW w, NEW p, SameKinds(u, v, p)
  PROVE  /\ SameKinds(v, u, p)
         /\ SameKinds(v, w, p) => SameKinds(u, w, p)
BY DEF SameKinds

\* One layer more: its texts come in, and those it leaves alone stay.
LEMMA KeptMore ==
  ASSUME NEW how, NEW stack, NEW n \in Nat \ {0}, \A k \in 1..(n + 1) : IsLayer(stack[k]),
         NEW m, Sound(m), m.kind = "object", Kept(how, stack, m, n)
  PROVE  Kept(how, stack, Merged(how, m, stack[n + 1].value, stack[n + 1]), n + 1)
<1> DEFINE l == stack[n + 1]
           new == l.value
           r == Merged(how, m, new, l)
<1>1. PICK f : IsMerge(how, m, new, l, f) /\ r = f[<<>>]
  BY MergeExists
<1>2. \A k \in 1..(n + 1) : Sound(stack[k].value) /\ stack[k].value.kind = "object"
  BY TreeSound DEF IsLayer
<1>3. Sound(new) /\ new.kind = "object"
  BY <1>2
<1> HIDE DEF r
<1> SUFFICES ASSUME NEW k \in 1..(n + 1), NEW p, IsText(stack[k].value, p),
                    Undisturbed(how, stack, k, p, n + 1), ~ MayShift(how, stack, k, p)
             PROVE  From(stack, r, k, p)
  BY DEF Kept, r
<1>4. PICK S : p \in Seq(S)
  BY <1>2, TextOnTheWay
<1>5. Len(p) \in Nat
  BY <1>4, LenProperties
<1>6. CASE k = n + 1
  <2>1. IsText(new, p)
    BY <1>6
  <2>2. ASSUME NEW i \in 1..Len(p), Appending(how, l, Upto(p, i - 1), Walk(m, p)[i - 1], Walk(new, p)[i - 1])
        PROVE  FALSE
    <3>1. /\ Strategy(how, Upto(p, i - 1)) = "Append" /\ ~ Patches(l, Upto(p, i - 1))
          /\ Walk(new, p)[i - 1].kind = "array"
      BY <2>2 DEF Appending
    <3>2. i - 1 \in 0..Len(p) /\ k > 1
      BY <1>5, <1>6
    <3> QED
      BY <1>6, <3>1, <3>2 DEF MayShift
  <2> HIDE DEF l, new
  <2>3. SameKinds(f[<<>>], new, p) /\ GetAt(f[<<>>], p) = GetAt(new, p)
    BY <1>1, <1>3, <2>1, <2>2, SaidStays
  <2> QED
    BY <1>1, <1>6, <2>3 DEF From, new, l
<1>7. CASE k # n + 1
  <2> DEFINE v == stack[k].value
  <2>1. k \in 1..n /\ n + 1 \in (k + 1)..(n + 1) /\ (k + 1)..n \subseteq (k + 1)..(n + 1)
    BY <1>7
  <2>2. Undisturbed(how, stack, k, p, n)
    BY <2>1 DEF Undisturbed
  <2>3. From(stack, m, k, p)
    BY <2>1, <2>2 DEF Kept
  <2>4. LeftAlone(how, l, new, v, p)
    BY <2>1 DEF Undisturbed
  <2>5. Sound(v) /\ IsText(v, p)
    BY <1>2
  <2>6. SameKinds(m, v, p) /\ GetAt(m, p) = GetAt(v, p)
    BY <2>3 DEF From
  <2> HIDE DEF l, new, v
  <2>7. SameKinds(f[<<>>], v, p) /\ GetAt(f[<<>>], p) = GetAt(m, p)
    BY <1>1, <1>3, <2>4, <2>5, <2>6, LeftStays
  <2> QED
    BY <1>1, <2>6, <2>7 DEF From, v
<1> QED
  BY <1>6, <1>7

\* What is made of objects is an object.
LEMMA MergedObject ==
  ASSUME NEW how, NEW old, NEW new, NEW l, NEW f, IsMerge(how, old, new, l, f), Sound(old), Sound(new),
         new.kind = "object"
  PROVE  Sound(f[<<>>]) /\ f[<<>>].kind = "object"
<1>1. <<>> \in Both(old, new)
  BY RootNode DEF Both
<1>2. Sound(f[<<>>])
  BY <1>1, MergeSound
<1>3. MergeStep(how, old, new, l, f, <<>>)
  BY <1>1, MergeSteps
<1>4. GetAt(new, <<>>) = new
  BY EmptySeq, WalkSteps DEF GetAt
<1> QED
  BY <1>2, <1>3, <1>4 DEF MergeStep

LEMMA FoundMore ==
  ASSUME NEW how, NEW stack, NEW n \in Nat \ {0}, \A k \in 1..(n + 1) : IsLayer(stack[k]),
         NEW m, Sound(m), m.kind = "object", Found(how, stack, m, n)
  PROVE  /\ Found(how, stack, Merged(how, m, stack[n + 1].value, stack[n + 1]), n + 1)
         /\ Sound(Merged(how, m, stack[n + 1].value, stack[n + 1]))
         /\ Merged(how, m, stack[n + 1].value, stack[n + 1]).kind = "object"
<1> DEFINE l == stack[n + 1]
           new == l.value
           r == Merged(how, m, new, l)
<1>1. PICK f : IsMerge(how, m, new, l, f) /\ r = f[<<>>]
  BY MergeExists
<1>2. \A k \in 1..(n + 1) : Sound(stack[k].value) /\ stack[k].value.kind = "object"
  BY TreeSound DEF IsLayer
<1>3. Sound(new) /\ new.kind = "object"
  BY <1>2
<1>4. l = stack[n + 1] /\ new = stack[n + 1].value
  OBVIOUS
<1> HIDE DEF r, l, new
<1>6. Sound(r) /\ r.kind = "object"
  BY <1>1, <1>3, MergedObject
<1>8. ASSUME NEW p, IsText(r, p)
      PROVE  \E k \in 1..(n + 1) : \/ MayShift(how, stack, k, p)
                                   \/ Undisturbed(how, stack, k, p, n + 1) /\ From(stack, r, k, p)
  <2>1. PICK S : p \in Seq(S)
    BY <1>6, <1>8, TextOnTheWay
  <2>2. Len(p) \in Nat
    BY <2>1, LenProperties
  <2>3. n + 1 \in 1..(n + 1) /\ n + 1 > 1 /\ 1..n \subseteq 1..(n + 1)
    OBVIOUS
  <2>4. \/ SameKinds(r, new, p) /\ GetAt(new, p) = GetAt(r, p)
        \/ SameKinds(r, m, p) /\ GetAt(m, p) = GetAt(r, p) /\ LeftAlone(how, l, new, m, p)
        \/ \E i \in 1..Len(p) : Appending(how, l, Upto(p, i - 1), Walk(m, p)[i - 1], Walk(new, p)[i - 1])
    BY <1>1, <1>3, <1>8, TextCame
  <2>5. CASE SameKinds(r, new, p) /\ GetAt(new, p) = GetAt(r, p)
    <3>1. Undisturbed(how, stack, n + 1, p, n + 1)
      BY DEF Undisturbed
    <3>2. From(stack, r, n + 1, p)
      BY <1>4, <2>5 DEF From
    <3> QED
      BY <2>3, <3>1, <3>2
  <2>6. CASE SameKinds(r, m, p) /\ GetAt(m, p) = GetAt(r, p) /\ LeftAlone(how, l, new, m, p)
    <3>1. IsText(m, p)
      BY <1>6, <1>8, <2>6, TextAlike
    <3>2. PICK k \in 1..n : \/ MayShift(how, stack, k, p)
                            \/ Undisturbed(how, stack, k, p, n) /\ From(stack, m, k, p)
      BY <3>1 DEF Found
    <3>3. CASE MayShift(how, stack, k, p)
      BY <2>3, <3>3
    <3>4. CASE Undisturbed(how, stack, k, p, n) /\ From(stack, m, k, p)
      <4> DEFINE v == stack[k].value
      <4>1. SameKinds(m, v, p) /\ GetAt(m, p) = GetAt(v, p)
        BY <3>4 DEF From
      <4> HIDE DEF v
      <4>2. LeftAlone(how, l, new, v, p)
        BY <2>2, <2>6, <4>1, AloneAlike
      <4>3. SameKinds(r, v, p)
        BY <2>6, <4>1, AlikeBoth
      <4>4. From(stack, r, k, p)
        BY <2>6, <4>1, <4>3 DEF From, v
      <4>5. ASSUME NEW j \in (k + 1)..(n + 1)
            PROVE  LeftAlone(how, stack[j], stack[j].value, v, p)
        <5>1. CASE j = n + 1
          BY <1>4, <4>2, <5>1
        <5>2. CASE j # n + 1
          <6>1. j \in (k + 1)..n
            BY <5>2
          <6> QED
            BY <3>4, <6>1 DEF Undisturbed, v
        <5> QED
          BY <5>1, <5>2
      <4>6. Undisturbed(how, stack, k, p, n + 1)
        BY <4>5 DEF Undisturbed, v
      <4> QED
        BY <2>3, <4>4, <4>6
    <3> QED
      BY <3>2, <3>3, <3>4
  <2>7. CASE \E i \in 1..Len(p) : Appending(how, l, Upto(p, i - 1), Walk(m, p)[i - 1], Walk(new, p)[i - 1])
    <3>1. PICK i \in 1..Len(p) : Appending(how, l, Upto(p, i - 1), Walk(m, p)[i - 1], Walk(new, p)[i - 1])
      BY <2>7
    <3>2. /\ Strategy(how, Upto(p, i - 1)) = "Append" /\ ~ Patches(l, Upto(p, i - 1))
          /\ Walk(new, p)[i - 1].kind = "array"
      BY <3>1 DEF Appending
    <3>3. i - 1 \in 0..Len(p)
      BY <2>2
    <3>4. MayShift(how, stack, n + 1, p)
      BY <1>4, <2>3, <3>2, <3>3 DEF MayShift
    <3> QED
      BY <2>3, <3>4
  <2> QED
    BY <2>4, <2>5, <2>6, <2>7
<1>9. Found(how, stack, r, n + 1)
  BY <1>8 DEF Found
<1> QED
  BY <1>6, <1>9 DEF r, new, l

\* all[i] is the elements of the first i layers of the stack.
Together(stack, c, all, n) ==
    /\ all[1] = Elements(stack[1].value, c)
    /\ \A i \in 2..n : all[i] = all[i - 1] \o Elements(stack[i].value, c)

\* The array at c is only appended to.
Appends(how, stack, c, n) ==
    /\ IsPath(c) /\ c # <<>> /\ Len(c) <= MaxDepth
    /\ Strategy(how, c) = "Append"
    /\ \A i \in 1..Len(c) : Strategy(how, Upto(c, i - 1)) # "Replace"
    /\ \A k \in 1..n :
          /\ ObjectsOn(stack[k].value, c)
          /\ Has(stack[k].value, c) => GetAt(stack[k].value, c).kind = "array" /\ ~ Patches(stack[k], c)

HasAll(stack, c, all, m, n) ==
    /\ ObjectsOn(m, c)
    /\ Has(m, c) => GetAt(m, c).kind = "array" /\ GetAt(m, c).items = all[n]
    /\ ~ Has(m, c) => all[n] = <<>> /\ \A k \in 1..n : ~ Has(stack[k].value, c)

LEMMA AppendedMore ==
  ASSUME NEW how, NEW stack, NEW n \in Nat \ {0}, \A k \in 1..(n + 1) : IsLayer(stack[k]),
         NEW m, Sound(m), m.kind = "object",
         NEW c, NEW all, NEW len \in Nat, n + 1 <= len, Appends(how, stack, c, len), Together(stack, c, all, len),
         HasAll(stack, c, all, m, n)
  PROVE  HasAll(stack, c, all, Merged(how, m, stack[n + 1].value, stack[n + 1]), n + 1)
<1> DEFINE l == stack[n + 1]
           new == l.value
           r == Merged(how, m, new, l)
           e == Elements(new, c)
<1>1. PICK f : IsMerge(how, m, new, l, f) /\ r = f[<<>>]
  BY MergeExists
<1>2. Sound(new) /\ new.kind = "object"
  <2>1. IsLayer(stack[n + 1])
    OBVIOUS
  <2> QED
    BY <2>1, TreeSound DEF IsLayer
<1>3. n + 1 \in 1..len /\ n + 1 \in 2..len /\ (n + 1) - 1 = n
  OBVIOUS
<1>4. PICK S : c \in Seq(S)
  BY DEF Appends, IsPath
<1>5. /\ ObjectsOn(new, c)
      /\ Has(new, c) => GetAt(new, c).kind = "array" /\ ~ Patches(l, c)
  BY <1>3 DEF Appends
<1>6. all[n + 1] = all[n] \o e
  BY <1>3 DEF Together
<1>7. /\ Len(c) <= MaxDepth /\ Strategy(how, c) = "Append"
      /\ \A i \in 1..Len(c) : Strategy(how, Upto(c, i - 1)) # "Replace"
  BY DEF Appends
<1>8. /\ ObjectsOn(m, c)
      /\ Has(m, c) => GetAt(m, c).kind = "array" /\ GetAt(m, c).items = all[n]
      /\ ~ Has(m, c) => all[n] = <<>> /\ \A k \in 1..n : ~ Has(stack[k].value, c)
  BY DEF HasAll
<1>9. e = IF GetAt(new, c).kind = "array" THEN GetAt(new, c).items ELSE <<>>
  BY DEF Elements
<1>10. Missing.kind # "array"
  BY DEF Missing
<1> HIDE DEF e
<1>11. new = stack[n + 1].value
  OBVIOUS
<1> HIDE DEF r, l, new
<1>12. /\ ObjectsOn(r, c)
       /\ GetAt(r, c) = IF ~ Has(new, c) THEN GetAt(m, c)
                        ELSE IF ~ Has(m, c) THEN GetAt(new, c)
                        ELSE Array(Appended(GetAt(m, c).items, GetAt(new, c).items))
  BY <1>1, <1>2, <1>4, <1>5, <1>7, <1>8, AppendedAt
<1>13. Len(c) \in 0..Len(c)
  BY <1>4, LenProperties
<1>14. Whole(GetAt(m, c)) /\ Whole(GetAt(new, c))
  BY <1>2, <1>4, <1>13, SoundWalk DEF GetAt
<1>15. \A s : (\E U : s \in Seq(U)) => s \o <<>> = s /\ <<>> \o s = s
  BY ConcatEmptySeq
<1>16. CASE ~ Has(new, c)
  <2>1. e = <<>>
    BY <1>9, <1>10, <1>16 DEF Has
  <2>2. GetAt(r, c) = GetAt(m, c)
    BY <1>12, <1>16
  <2>3. Has(r, c) <=> Has(m, c)
    BY <2>2 DEF Has
  <2>4. CASE Has(m, c)
    <3>1. \E U : all[n] \in Seq(U)
      BY <1>8, <1>14, <2>4 DEF Whole
    <3>2. all[n + 1] = all[n]
      BY <1>6, <1>15, <2>1, <3>1
    <3> QED
      BY <1>8, <1>12, <2>2, <2>3, <2>4, <3>2 DEF HasAll, r, l, new
  <2>5. CASE ~ Has(m, c)
    <3>1. all[n + 1] = <<>>
      <4>1. <<>> \in Seq({})
        BY EmptySeq
      <4> QED
        BY <1>6, <1>8, <1>15, <2>1, <2>5, <4>1
    <3>2. \A k \in 1..(n + 1) : ~ Has(stack[k].value, c)
      <4>1. \A k \in 1..(n + 1) : k \in 1..n \/ k = n + 1
        OBVIOUS
      <4> QED
        BY <1>8, <1>11, <1>16, <2>5, <4>1
    <3> QED
      BY <1>12, <2>3, <2>5, <3>1, <3>2 DEF HasAll, r, l, new
  <2> QED
    BY <2>4, <2>5
<1>17. CASE Has(new, c)
  <2>1. GetAt(new, c).kind = "array" /\ e = GetAt(new, c).items
    BY <1>5, <1>9, <1>17
  <2>2. \E U : e \in Seq(U)
    BY <1>14, <2>1 DEF Whole
  <2>3. CASE Has(m, c)
    <3>1. GetAt(r, c) = Array(all[n] \o e)
      BY <1>8, <1>12, <1>17, <2>1, <2>3 DEF Appended
    <3>2. GetAt(r, c).kind = "array" /\ GetAt(r, c).items = all[n] \o e
      BY <3>1 DEF Array
    <3>3. Has(r, c)
      BY <1>10, <3>2 DEF Has
    <3> QED
      BY <1>6, <1>12, <3>2, <3>3 DEF HasAll, r, l, new
  <2>4. CASE ~ Has(m, c)
    <3>1. GetAt(r, c) = GetAt(new, c)
      BY <1>12, <1>17, <2>4
    <3>2. all[n + 1] = e
      BY <1>6, <1>8, <1>15, <2>2, <2>4
    <3>3. Has(r, c)
      BY <1>17, <3>1 DEF Has
    <3> QED
      BY <1>12, <2>1, <3>1, <3>2, <3>3 DEF HasAll, r, l, new
  <2> QED
    BY <2>3, <2>4
<1> QED
  BY <1>16, <1>17

-----------------------------------------------------------------------------
(***************************************************************************)
(* The invariant: the sources are layers that can be merged, and the merge *)
(* of the first of them has what these have.                               *)
(***************************************************************************)
IsStack(s) ==
    /\ \E U : s \in Seq(U)
    /\ Len(s) >= 1
    /\ \A k \in 1..Len(s) : IsLayer(s[k]) /\ (s[k].source = "defaults" <=> k = 1)

SourcesInv ==
    /\ metadata \in Metadata
    /\ DOMAIN patch = {"use", "writes", "builder"}
    /\ patch.writes \in Seq(PatchWrites)
    /\ IsPatchLayer(patch.builder.layer) /\ patch.builder.layer.source = "custom"
    /\ IsOverrides(args) /\ args.source = "args"
    /\ IsOverrides(env) /\ env.source = "env"
    /\ IsStack(layers)

\* How many layers have been merged.
Count(i) == IF i = 1 THEN 1 ELSE i - 1

Unmerged == {"patch", "args", "files", "env", "fallbacks"}

IsMerged(how, stack, m, n) ==
    /\ Sound(m) /\ m.kind = "object"
    /\ Kept(how, stack, m, n)
    /\ Found(how, stack, m, n)
    /\ \A c, all : Appends(how, stack, c, Len(stack)) /\ Together(stack, c, all, Len(stack))
                     => HasAll(stack, c, all, m, n)

MergeInv ==
    /\ phase \in Unmerged => next = 1 /\ merged = layers[1].value
    /\ phase \in {"merge", "done"} =>
         /\ next \in 1..(Len(layers) + 1)
         /\ phase = "merge" => next <= Len(layers)
         /\ phase = "done" => next = Len(layers) + 1
         /\ IsMerged(metadata.merge, layers, merged, Count(next))

StackInv == SourcesInv /\ MergeInv

LEMMA MergedFirst ==
  ASSUME NEW how, NEW stack, IsStack(stack)
  PROVE  IsMerged(how, stack, stack[1].value, 1)
<1> DEFINE m == stack[1].value
<1>1. IsLayer(stack[1]) /\ Len(stack) \in Nat /\ 1 \in 1..Len(stack)
  BY LenProperties DEF IsStack
<1>2. Sound(m) /\ m.kind = "object"
  BY <1>1, TreeSound DEF IsLayer
<1>3. \A k \in 1..1 : k = 1
  OBVIOUS
<1>4. \A p : From(stack, m, 1, p) /\ Undisturbed(how, stack, 1, p, 1)
  BY DEF From, SameKinds, Undisturbed
<1>5. Kept(how, stack, m, 1)
  BY <1>3, <1>4 DEF Kept
<1>6. Found(how, stack, m, 1)
  BY <1>3, <1>4 DEF Found
<1>7. ASSUME NEW c, NEW all, Appends(how, stack, c, Len(stack)), Together(stack, c, all, Len(stack))
      PROVE  HasAll(stack, c, all, m, 1)
  <2>1. ObjectsOn(m, c) /\ (Has(m, c) => GetAt(m, c).kind = "array")
    BY <1>1, <1>7 DEF Appends
  <2>2. all[1] = IF GetAt(m, c).kind = "array" THEN GetAt(m, c).items ELSE <<>>
    BY <1>7 DEF Together, Elements
  <2>3. ~ Has(m, c) => GetAt(m, c).kind # "array"
    BY DEF Has, Missing
  <2>4. ~ Has(m, c) => \A k \in 1..1 : ~ Has(stack[k].value, c)
    BY <1>3
  <2> HIDE DEF m
  <2> QED
    BY <2>1, <2>2, <2>3, <2>4 DEF HasAll
<1> QED
  BY <1>2, <1>5, <1>6, <1>7 DEF IsMerged

LEMMA MergedMore ==
  ASSUME NEW how, NEW stack, IsStack(stack), NEW n \in Nat \ {0}, n + 1 <= Len(stack),
         NEW m, IsMerged(how, stack, m, n)
  PROVE  IsMerged(how, stack, Merged(how, m, stack[n + 1].value, stack[n + 1]), n + 1)
<1> DEFINE r == Merged(how, m, stack[n + 1].value, stack[n + 1])
<1>1. Len(stack) \in Nat
  BY LenProperties DEF IsStack
<1>2. \A k \in 1..(n + 1) : IsLayer(stack[k])
  BY <1>1 DEF IsStack
<1>3. Sound(m) /\ m.kind = "object" /\ Kept(how, stack, m, n) /\ Found(how, stack, m, n)
  BY DEF IsMerged
<1>4. Kept(how, stack, r, n + 1)
  BY <1>2, <1>3, KeptMore
<1>5. Found(how, stack, r, n + 1) /\ Sound(r) /\ r.kind = "object"
  BY <1>2, <1>3, FoundMore
<1>6. ASSUME NEW c, NEW all, Appends(how, stack, c, Len(stack)), Together(stack, c, all, Len(stack))
      PROVE  HasAll(stack, c, all, r, n + 1)
  <2>1. HasAll(stack, c, all, m, n)
    BY <1>6 DEF IsMerged
  <2> QED
    BY <1>1, <1>2, <1>3, <1>6, <2>1, AppendedMore
<1> HIDE DEF r
<1>7. IsMerged(how, stack, r, n + 1)
  BY <1>4, <1>5, <1>6 DEF IsMerged
<1> QED
  BY <1>7 DEF r

\* One more layer on the stack.
LEMMA StackMore ==
  ASSUME NEW s, IsStack(s), NEW l, IsLayer(l), l.source # "defaults"
  PROVE  IsStack(Append(s, l)) /\ Append(s, l)[1] = s[1]
<1>1. PICK U : s \in Seq(U)
  BY DEF IsStack
<1>2. IsOneMore(Append(s, l), s, l)
  BY <1>1, OneMore
<1>3. Len(s) \in Nat /\ Len(s) >= 1 /\ DOMAIN s = 1..Len(s)
  BY <1>1, LenProperties DEF IsStack
<1> DEFINE t == Append(s, l)
<1> HIDE DEF t
<1>4. PICK T : t \in Seq(T)
  BY <1>2 DEF IsOneMore, t
<1>5. DOMAIN t = (1..Len(s)) \cup {Len(s) + 1} /\ (\A i \in 1..Len(s) : t[i] = s[i]) /\ t[Len(s) + 1] = l
  BY <1>2, <1>3 DEF IsOneMore, t
<1>6. DOMAIN t = 1..Len(t) /\ Len(t) \in Nat
  BY <1>4, LenProperties
<1>7. Len(t) >= 1
  BY <1>3, <1>5, <1>6
<1>8. \A k \in 1..Len(t) : IsLayer(t[k]) /\ (t[k].source = "defaults" <=> k = 1)
  <2> SUFFICES ASSUME NEW k \in 1..Len(t) PROVE IsLayer(t[k]) /\ (t[k].source = "defaults" <=> k = 1)
    OBVIOUS
  <2>1. CASE k \in 1..Len(s)
    BY <1>5, <2>1 DEF IsStack
  <2>2. CASE k = Len(s) + 1
    BY <1>3, <1>5, <2>2
  <2> QED
    BY <1>5, <1>6, <2>1, <2>2
<1>9. t[1] = s[1]
  BY <1>3, <1>5
<1> QED
  BY <1>4, <1>7, <1>8, <1>9 DEF IsStack, t

\* Layers put on the stack together.
LEMMA StackJoin ==
  ASSUME NEW s, IsStack(s), NEW V, NEW u \in Seq(V),
         \A i \in 1..Len(u) : IsLayer(u[i]) /\ u[i].source # "defaults"
  PROVE  IsStack(s \o u) /\ (s \o u)[1] = s[1]
<1> DEFINE t == s \o u
           n == Len(u)
<1>1. PICK U : s \in Seq(U)
  BY DEF IsStack
<1> DEFINE T == U \cup V
<1>3. U \subseteq T /\ V \subseteq T
  OBVIOUS
<1>4. n = Len(u)
  OBVIOUS
<1> HIDE DEF T, n
<1>6. u \in Seq(T)
  BY <1>3, SeqMonotonic
<1>7. s \in Seq(T)
  BY <1>1, <1>3, SeqMonotonic
<1>8. Len(u) = n /\ n \in Nat /\ Len(s) \in Nat /\ Len(s) >= 1
  BY <1>4, <1>6, <1>7, LenProperties DEF IsStack
<1>9. /\ t \in Seq(T) /\ Len(t) = Len(s) + n
      /\ \A i \in 1..(Len(s) + n) : t[i] = IF i <= Len(s) THEN s[i] ELSE u[i - Len(s)]
  BY <1>6, <1>7, <1>8, ConcatProperties
<1> HIDE DEF t
<1>10. \A k \in 1..Len(t) : IsLayer(t[k]) /\ (t[k].source = "defaults" <=> k = 1)
  <2> SUFFICES ASSUME NEW k \in 1..Len(t) PROVE IsLayer(t[k]) /\ (t[k].source = "defaults" <=> k = 1)
    OBVIOUS
  <2>1. CASE k <= Len(s)
    <3>1. k \in 1..Len(s) /\ t[k] = s[k]
      BY <1>8, <1>9, <2>1
    <3> QED
      BY <3>1 DEF IsStack
  <2>2. CASE ~ (k <= Len(s))
    <3>1. k - Len(s) \in 1..n /\ k # 1 /\ t[k] = u[k - Len(s)]
      BY <1>8, <1>9, <2>2
    <3> QED
      BY <1>4, <3>1
  <2> QED
    BY <2>1, <2>2
<1>11. t[1] = s[1]
  BY <1>8, <1>9
<1>12. IsStack(t)
  BY <1>8, <1>9, <1>10 DEF IsStack
<1> QED
  BY <1>11, <1>12 DEF t

-----------------------------------------------------------------------------
(***************************************************************************)
(* Every step keeps the invariant.                                         *)
(***************************************************************************)
\* The overrides there are can be written.
LEMMA GivenWrites ==
  /\ \A o \in ArgOverrides \cup EnvOverrides \cup Fallbacks \cup PatchWrites :
        IsPath(o.path) /\ o.path # <<>> /\ IsValue(o.value)
  /\ \A v \in Defaults \cup FileValues : IsTree(v) /\ v.kind = "object"
BY LayeringAssumption DEF IsPath, IsValue, IsTree

LEMMA GivenPatches ==
  ASSUME NEW writes \in Seq(PatchWrites)
  PROVE  \E n \in Nat : DOMAIN writes = 1..n /\ \A i \in 1..n : IsPatchWrite(writes[i])
<1>1. Len(writes) \in Nat /\ DOMAIN writes = 1..Len(writes) /\ \A i \in 1..Len(writes) : writes[i] \in PatchWrites
  BY LenProperties, ElementOfSeq
<1>2. \A w \in PatchWrites : IsPatchWrite(w)
  BY GivenWrites DEF IsPatchWrite
<1> QED
  BY <1>1, <1>2

\* A typed patch, replayed for the values beneath it, is a layer.
LEMMA ReplayedStack ==
  ASSUME NEW source, NEW shape, NEW writes \in Seq(PatchWrites),
         ~ Refused(Replayed(source, shape, writes))
  PROVE  LET l == Canonicalized(Replayed(source, shape, writes).layer)
         IN  IsLayer(l) /\ l.source = source
<1>1. PICK n \in Nat : DOMAIN writes = 1..n /\ \A i \in 1..n : IsPatchWrite(writes[i])
  BY GivenPatches
<1> DEFINE k == Replayed(source, shape, writes).layer
<1>2. IsPatchLayer(k) /\ k.source = source
  BY <1>1, ReplayedLayer
<1> HIDE DEF k
<1>3. IsLayer(Canonicalized(k))
  BY <1>2, PatchRecorded, RecordedLayer
<1>4. Canonicalized(k).source = k.source
  BY <1>2, CanonicalizedFacts DEF IsPatchLayer, IsBuilt
<1> QED
  BY <1>2, <1>3, <1>4 DEF k

LEMMA OverridesStack ==
  ASSUME NEW l, IsOverrides(l)
  PROVE  IsLayer(Canonicalized(l)) /\ Canonicalized(l).source = l.source
<1>1. IsLayer(Canonicalized(l))
  BY OverridesRecorded, RecordedLayer
<1>2. Canonicalized(l).source = l.source
  BY CanonicalizedFacts DEF IsOverrides, IsBuilt
<1> QED
  BY <1>1, <1>2

\* The path of a variable, in the spelling of the values beneath, is a path.
LEMMA EnvPathPath ==
  ASSUME NEW p, IsPath(p), p # <<>>, IsStack(layers)
  PROVE  IsPath(EnvPath(p)) /\ EnvPath(p) # <<>>
<1> DEFINE n == Len(layers)
           Good(q) == IsPath(q) /\ q # <<>>
<1>1. n \in Nat /\ DOMAIN layers = 1..n
  BY LenProperties DEF IsStack
<1>2. PICK g : IsRun(<<"env">>, g, p, layers, n) /\ EnvPath(p) = CanonicalPath(env.value, g[1..n])
  BY <1>1, EnvPathRuns
<1>3. ASSUME NEW v, NEW q, Good(q) PROVE Good(CanonicalPath(v, q))
  <2>1. PICK S : q \in Seq(S)
    BY <1>3 DEF IsPath
  <2>2. IsPath(CanonicalPath(v, q)) /\ Len(CanonicalPath(v, q)) = Len(q)
    BY <2>1, PlaceFacts
  <2>3. Len(q) # 0
    BY <1>3, <2>1, EmptySeq
  <2>4. Len(<<>>) = 0
    BY EmptySeq
  <2> HIDE DEF Good
  <2>5. CanonicalPath(v, q) # <<>>
    BY <2>2, <2>3, <2>4
  <2> QED
    BY <2>2, <2>5 DEF Good
<1> DEFINE Bad == {k \in 0..n : ~ Good(g[1..k])}
<1>4. Good(g[1..0])
  <2>1. 1..0 = {}
    OBVIOUS
  <2> QED
    BY <1>2, <2>1 DEF IsRun
<1> HIDE DEF Good, n
<1>5. ASSUME NEW k \in 1..n, Good(g[1..(k - 1)]) PROVE Good(g[1..k])
  <2>1. g[1..k] = CanonicalPath(layers[k].value, g[1..(k - 1)])
    BY <1>2 DEF IsRun, Step
  <2> QED
    BY <1>3, <1>5, <2>1
<1>6. Bad = {}
  <2> SUFFICES ASSUME Bad # {} PROVE FALSE
    OBVIOUS
  <2>1. Bad \in SUBSET Nat
    BY <1>1
  <2>2. PICK k \in Bad : \A i \in Bad : k <= i
    <3> HIDE DEF Bad
    <3> QED
      BY <2>1, LeastOne
  <2>3. k \in 1..n /\ k - 1 \in 0..n
    BY <1>1, <1>4
  <2>4. k - 1 \notin Bad
    BY <2>2, <2>3
  <2>5. Good(g[1..(k - 1)])
    BY <2>3, <2>4
  <2> QED
    BY <1>5, <2>3, <2>5
<1>7. Good(g[1..n])
  BY <1>1, <1>6
<1> QED
  BY <1>2, <1>3, <1>7 DEF Good

LEMMA StackInit == Init => StackInv
<1> SUFFICES ASSUME Init PROVE StackInv
  OBVIOUS
<1>1. PICK v \in Defaults : layers = <<FromValue("defaults", v)>> /\ merged = v
  BY DEF Init
<1>2. IsTree(v) /\ v.kind = "object"
  BY GivenWrites
<1> DEFINE d == FromValue("defaults", v)
<1>3. IsLayer(d) /\ d.source = "defaults" /\ d.value = v
  BY <1>2, ValueLayer, NewFacts
<1> HIDE DEF d
<1>4. layers \in Seq({d}) /\ Len(layers) = 1 /\ layers[1] = d
  BY <1>1 DEF d
<1>5. IsStack(layers)
  BY <1>3, <1>4 DEF IsStack
<1>6. IsOverrides(args) /\ args.source = "args" /\ IsOverrides(env) /\ env.source = "env"
  BY NewOverrides DEF Init
<1>7. /\ DOMAIN patch = {"use", "writes", "builder"} /\ patch.writes = <<>>
      /\ patch.builder = NewBuilder("custom", EmptyObject)
  BY DEF Init
<1>8. patch.writes \in Seq(PatchWrites)
  BY <1>7, EmptySeq
<1>9. IsPatchLayer(patch.builder.layer) /\ patch.builder.layer.source = "custom"
  BY <1>7, NewPatch
<1>10. SourcesInv
  BY <1>5, <1>6, <1>7, <1>8, <1>9 DEF SourcesInv, Init
<1>11. next = 1 /\ phase = "patch" /\ merged = layers[1].value
  BY <1>1, <1>3, <1>4 DEF Init
<1>12. MergeInv
  BY <1>11 DEF MergeInv
<1> QED
  BY <1>10, <1>12 DEF StackInv

\* What a step has to leave as it is for the merge not to have begun.
LEMMA SourcesStep ==
  ASSUME StackInv, phase \in Unmerged, phase' \in Unmerged \cup {"refused"}, SourcesInv',
         layers[1] = layers'[1], UNCHANGED <<merged, next>>
  PROVE  StackInv'
<1>1. next' = 1 /\ merged' = layers'[1].value
  BY DEF StackInv, MergeInv
<1>2. phase' \notin {"merge", "done"}
  BY DEF Unmerged
<1> QED
  BY <1>1, <1>2 DEF StackInv, MergeInv

LEMMA WritePatchKeeps == StackInv /\ WritePatch => StackInv'
<1> SUFFICES ASSUME StackInv, WritePatch PROVE StackInv'
  OBVIOUS
<1>1. UNCHANGED <<metadata, args, env, layers, merged, next>> /\ phase = "patch"
  BY DEF WritePatch
<1>2. PICK w \in PatchWrites :
         IF Refused(WithWrite(patch.builder, w)) THEN phase' = "refused" /\ UNCHANGED patch
         ELSE /\ patch' = [patch EXCEPT !.writes = Append(@, w), !.builder = WithWrite(patch.builder, w)]
              /\ UNCHANGED phase
  BY DEF WritePatch
<1>3. SourcesInv
  BY DEF StackInv
<1>4. CASE Refused(WithWrite(patch.builder, w))
  <2>1. SourcesInv'
    BY <1>1, <1>2, <1>3, <1>4 DEF SourcesInv
  <2> QED
    BY <1>1, <1>2, <1>4, <2>1, SourcesStep DEF Unmerged
<1>5. CASE ~ Refused(WithWrite(patch.builder, w))
  <2> DEFINE b == WithWrite(patch.builder, w)
  <2>1. IsPatchLayer(b.layer) /\ b.layer.source = "custom"
    BY <1>3, <1>5, GivenWrites, PatchMore DEF SourcesInv
  <2>2. patch' = [patch EXCEPT !.writes = Append(@, w), !.builder = b] /\ UNCHANGED phase
    BY <1>2, <1>5
  <2> HIDE DEF b
  <2>3. DOMAIN patch = {"use", "writes", "builder"} /\ patch.writes \in Seq(PatchWrites)
    BY <1>3 DEF SourcesInv
  <2>4. /\ DOMAIN patch' = {"use", "writes", "builder"} /\ patch'.builder = b
        /\ patch'.writes = Append(patch.writes, w)
    BY <2>2, <2>3
  <2>5. patch'.writes \in Seq(PatchWrites)
    BY <2>3, <2>4, AppendProperties
  <2>6. SourcesInv'
    BY <1>1, <1>3, <2>1, <2>4, <2>5 DEF SourcesInv
  <2> QED
    BY <1>1, <2>2, <2>6, SourcesStep DEF Unmerged
<1> QED
  BY <1>4, <1>5

LEMMA PatchEndsKeeps == StackInv /\ PatchEnds => StackInv'
<1> SUFFICES ASSUME StackInv, PatchEnds PROVE StackInv'
  OBVIOUS
<1>1. UNCHANGED <<metadata, args, env, layers, merged, next>> /\ phase = "patch" /\ phase' = "args"
  BY DEF PatchEnds
<1>2. PICK use : patch' = [patch EXCEPT !.use = use]
  BY DEF PatchEnds
<1>3. SourcesInv
  BY DEF StackInv
<1>4. DOMAIN patch' = DOMAIN patch /\ patch'.writes = patch.writes /\ patch'.builder = patch.builder
  BY <1>2, <1>3 DEF SourcesInv
<1>5. SourcesInv'
  BY <1>1, <1>3, <1>4 DEF SourcesInv
<1> QED
  BY <1>1, <1>5, SourcesStep DEF Unmerged

LEMMA ParseSetKeeps == StackInv /\ ParseSet => StackInv'
<1> SUFFICES ASSUME StackInv, ParseSet PROVE StackInv'
  OBVIOUS
<1>1. UNCHANGED <<metadata, patch, env, layers, merged, next>> /\ phase = "args"
  BY DEF ParseSet
<1>2. PICK o \in ArgOverrides :
         \/ WithOverride(args, o.path, o.value).value # Conflict /\ args' = WithOverride(args, o.path, o.value)
            /\ UNCHANGED phase
         \/ phase' = "refused" /\ UNCHANGED args
  BY DEF ParseSet
<1>3. SourcesInv
  BY DEF StackInv
<1>4. IsOverrides(args') /\ args'.source = "args"
  <2>1. IsOverrides(args) /\ args.source = "args"
    BY <1>3 DEF SourcesInv
  <2>2. IsPath(o.path) /\ o.path # <<>> /\ IsValue(o.value)
    BY GivenWrites
  <2> QED
    BY <1>2, <2>1, <2>2, OverrideMore
<1>5. SourcesInv'
  BY <1>1, <1>3, <1>4 DEF SourcesInv
<1> QED
  BY <1>1, <1>2, <1>5, SourcesStep DEF Unmerged

LEMMA LoadFileKeeps == StackInv /\ LoadFile => StackInv'
<1> SUFFICES ASSUME StackInv, LoadFile PROVE StackInv'
  OBVIOUS
<1>1. UNCHANGED <<metadata, patch, args, env, merged, next, phase>> /\ phase = "files"
  BY DEF LoadFile
<1>2. PICK v \in FileValues : layers' = Append(layers, Canonicalized(FromValue("file", v)))
  BY DEF LoadFile
<1>3. SourcesInv
  BY DEF StackInv
<1> DEFINE l == Canonicalized(FromValue("file", v))
<1>4. IsLayer(l) /\ l.source = "file"
  BY GivenWrites, ValueLayer
<1> HIDE DEF l
<1>5. layers' = Append(layers, l) /\ IsStack(layers)
  BY <1>2, <1>3 DEF SourcesInv, l
<1>6. IsStack(layers') /\ layers'[1] = layers[1]
  BY <1>4, <1>5, StackMore
<1>7. SourcesInv'
  BY <1>1, <1>3, <1>6 DEF SourcesInv
<1> QED
  BY <1>1, <1>6, <1>7, SourcesStep DEF Unmerged

LEMMA FilesEndKeeps == StackInv /\ FilesEnd => StackInv'
<1> SUFFICES ASSUME StackInv, FilesEnd PROVE StackInv'
  OBVIOUS
<1> DEFINE b == IF patch.use = "layer" THEN patch.builder
                ELSE Replayed("custom", ShapeOf(metadata.merge, layers), patch.writes)
           l == Canonicalized(b.layer)
<1>1. UNCHANGED <<metadata, patch, args, env, merged, next>> /\ phase = "files"
  BY DEF FilesEnd
<1>2. \/ phase' \in {"env", "refused"} /\ UNCHANGED layers
      \/ ~ Refused(b) /\ phase' = "env" /\ layers' = Append(layers, l)
  BY DEF FilesEnd
<1>3. SourcesInv
  BY DEF StackInv
<1>4. CASE phase' \in {"env", "refused"} /\ UNCHANGED layers
  <2>1. SourcesInv'
    BY <1>1, <1>3, <1>4 DEF SourcesInv
  <2> QED
    BY <1>1, <1>4, <2>1, SourcesStep DEF Unmerged
<1>5. CASE ~ Refused(b) /\ phase' = "env" /\ layers' = Append(layers, l)
  <2>1. IsLayer(l) /\ l.source = "custom"
    <3>1. CASE patch.use = "layer"
      <4>1. b = patch.builder
        BY <3>1
      <4> DEFINE k == patch.builder.layer
      <4>2. IsPatchLayer(k) /\ k.source = "custom"
        BY <1>3 DEF SourcesInv
      <4> HIDE DEF k
      <4>3. IsLayer(Canonicalized(k))
        BY <4>2, PatchRecorded, RecordedLayer
      <4>4. Canonicalized(k).source = k.source
        BY <4>2, CanonicalizedFacts DEF IsPatchLayer, IsBuilt
      <4> QED
        BY <4>1, <4>2, <4>3, <4>4 DEF k
    <3>2. CASE patch.use # "layer"
      <4>1. b = Replayed("custom", ShapeOf(metadata.merge, layers), patch.writes)
        BY <3>2
      <4>2. patch.writes \in Seq(PatchWrites)
        BY <1>3 DEF SourcesInv
      <4>3. ~ Refused(b)
        BY <1>5
      <4> HIDE DEF b
      <4> QED
        BY <4>1, <4>2, <4>3, ReplayedStack
    <3> QED
      BY <3>1, <3>2
  <2> HIDE DEF l
  <2>2. IsStack(layers') /\ layers'[1] = layers[1]
    BY <1>3, <1>5, <2>1, StackMore DEF SourcesInv
  <2>3. SourcesInv'
    BY <1>1, <1>3, <2>2 DEF SourcesInv
  <2> QED
    BY <1>1, <1>5, <2>2, <2>3, SourcesStep DEF Unmerged
<1> QED
  BY <1>2, <1>4, <1>5

LEMMA InsertEnvKeeps ==
  ASSUME StackInv, phase \in {"env", "fallbacks"}, NEW o, IsPath(o.path), o.path # <<>>, IsValue(o.value),
         InsertEnv(EnvPath(o.path), o.value), UNCHANGED <<metadata, patch, args, layers, merged, next>>
  PROVE  StackInv'
<1> DEFINE p == EnvPath(o.path)
           x == o.value
<1>1. SourcesInv
  BY DEF StackInv
<1>2. IsPath(p) /\ p # <<>>
  BY <1>1, EnvPathPath DEF SourcesInv
<1>3. \/ WithOverride(env, p, x).value # Conflict /\ env' = WithOverride(env, p, x) /\ UNCHANGED phase
      \/ phase' = "refused" /\ UNCHANGED env
  BY DEF InsertEnv
<1> HIDE DEF p
<1>4. IsOverrides(env') /\ env'.source = "env"
  <2>1. IsOverrides(env) /\ env.source = "env"
    BY <1>1 DEF SourcesInv
  <2> QED
    BY <1>2, <1>3, <2>1, OverrideMore
<1>5. SourcesInv'
  BY <1>1, <1>4 DEF SourcesInv
<1>6. phase' \in Unmerged \cup {"refused"} /\ phase \in Unmerged
  BY <1>3 DEF Unmerged
<1> QED
  BY <1>5, <1>6, SourcesStep

LEMMA SetEnvKeeps == StackInv /\ SetEnv => StackInv'
<1> SUFFICES ASSUME StackInv, SetEnv PROVE StackInv'
  OBVIOUS
<1>1. PICK o \in EnvOverrides : InsertEnv(EnvPath(o.path), o.value)
  BY DEF SetEnv
<1> QED
  BY <1>1, GivenWrites, InsertEnvKeeps DEF SetEnv

LEMMA FallbackKeeps == StackInv /\ Fallback => StackInv'
<1> SUFFICES ASSUME StackInv, Fallback PROVE StackInv'
  OBVIOUS
<1>1. PICK o \in Fallbacks : InsertEnv(EnvPath(o.path), o.value)
  BY DEF Fallback
<1> QED
  BY <1>1, GivenWrites, InsertEnvKeeps DEF Fallback

LEMMA PhaseEndsKeeps == StackInv /\ (ParseArgsEnds \/ VariablesEnd) => StackInv'
<1> SUFFICES ASSUME StackInv, ParseArgsEnds \/ VariablesEnd PROVE StackInv'
  OBVIOUS
<1>1. UNCHANGED <<metadata, patch, args, env, layers, merged, next>> /\ phase \in {"args", "env"}
      /\ phase' \in {"files", "fallbacks"}
  BY DEF ParseArgsEnds, VariablesEnd
<1>2. SourcesInv'
  BY <1>1 DEF StackInv, SourcesInv
<1> QED
  BY <1>1, <1>2, SourcesStep DEF Unmerged

\* The layers that go on top are those of the environment and of the command line.
IsTop(u) ==
    u = [i \in 1..Cardinality({l \in {args, env} : l.entries # {}}) |->
           Canonicalized(IF i = 1 /\ env.entries # {} THEN env ELSE args)]

LEMMA TopFacts ==
  ASSUME SourcesInv, NEW u, IsTop(u)
  PROVE  \E V : u \in Seq(V) /\ \A i \in 1..Len(u) : IsLayer(u[i]) /\ u[i].source \in {"env", "args"}
<1> DEFINE n == Cardinality({l \in {args, env} : l.entries # {}})
           Top(i) == Canonicalized(IF i = 1 /\ env.entries # {} THEN env ELSE args)
           V == {Canonicalized(env), Canonicalized(args)}
<1>1. n \in Nat
  <2>1. IsFiniteSet({args}) /\ {args, env} = {args} \cup {env}
    BY FS_Singleton
  <2>2. IsFiniteSet({args, env})
    BY <2>1, FS_AddElement
  <2>3. {l \in {args, env} : l.entries # {}} \in SUBSET {args, env}
    OBVIOUS
  <2>4. IsFiniteSet({l \in {args, env} : l.entries # {}})
    BY <2>2, <2>3, FS_Subset
  <2> QED
    BY <2>4, FS_CardinalityType
<1>2. /\ IsLayer(Canonicalized(env)) /\ Canonicalized(env).source = "env"
      /\ IsLayer(Canonicalized(args)) /\ Canonicalized(args).source = "args"
  BY OverridesStack DEF SourcesInv
<1>3. \A i \in 1..n : Top(i) \in V
  OBVIOUS
<1>4. \A v \in V : IsLayer(v) /\ v.source \in {"env", "args"}
  BY <1>2
<1>5. u = [i \in 1..n |-> Top(i)]
  BY DEF IsTop
<1> HIDE DEF Top, V, n
<1>6. u \in [1..n -> V]
  BY <1>3, <1>5
<1>7. u \in Seq(V)
  BY <1>1, <1>6, SeqDef
<1>8. \A i \in 1..Len(u) : IsLayer(u[i]) /\ u[i].source \in {"env", "args"}
  BY <1>4, <1>7, ElementOfSeq
<1> QED
  BY <1>7, <1>8

LEMMA TopLayers ==
  ASSUME SourcesInv, NEW u, IsTop(u)
  PROVE  IsStack(layers \o u) /\ (layers \o u)[1] = layers[1]
<1>1. PICK V : u \in Seq(V) /\ \A i \in 1..Len(u) : IsLayer(u[i]) /\ u[i].source \in {"env", "args"}
  BY TopFacts
<1>2. \A i \in 1..Len(u) : IsLayer(u[i]) /\ u[i].source # "defaults"
  BY <1>1
<1> QED
  BY <1>1, <1>2, StackJoin DEF SourcesInv

\* The merge begins.
LEMMA MergeBegins ==
  ASSUME SourcesInv', next' = 1, merged' = layers'[1].value, phase' = "merge"
  PROVE  StackInv'
<1>1. IsStack(layers')
  BY DEF SourcesInv
<1>2. Len(layers') \in Nat /\ Len(layers') >= 1
  BY <1>1, LenProperties DEF IsStack
<1>3. IsMerged(metadata'.merge, layers', merged', 1)
  BY <1>1, MergedFirst
<1>4. Count(next') = 1
  BY DEF Count
<1>5. phase' \notin Unmerged /\ phase' # "done"
  BY DEF Unmerged
<1>6. next' \in 1..(Len(layers') + 1) /\ next' <= Len(layers')
  BY <1>2
<1> QED
  BY <1>3, <1>4, <1>5, <1>6 DEF StackInv, MergeInv

LEMMA StackKeeps == StackInv /\ Stack => StackInv'
<1> SUFFICES ASSUME StackInv, Stack PROVE StackInv'
  OBVIOUS
<1> DEFINE u == [i \in 1..Cardinality({l \in {args, env} : l.entries # {}}) |->
                   Canonicalized(IF i = 1 /\ env.entries # {} THEN env ELSE args)]
           sources == layers \o u
           b == Replayed("typed", ShapeOf(metadata.merge, sources), patch.writes)
           l == Canonicalized(b.layer)
<1>1. UNCHANGED <<metadata, patch, args, env, merged, next>> /\ phase = "fallbacks"
  BY DEF Stack
<1>2. \/ phase' = "merge" /\ layers' = sources
      \/ phase' = "refused" /\ UNCHANGED layers
      \/ ~ Refused(b) /\ phase' = "merge" /\ layers' = Append(sources, l)
  BY DEF Stack
<1>3. SourcesInv /\ next = 1 /\ merged = layers[1].value
  BY <1>1 DEF StackInv, MergeInv, Unmerged
<1>4. IsTop(u)
  BY DEF IsTop
<1> HIDE DEF u
<1>8. IsStack(sources) /\ sources[1] = layers[1]
  BY <1>3, <1>4, TopLayers
<1> HIDE DEF sources
<1>5. CASE phase' = "merge" /\ layers' = sources
  <2>1. SourcesInv'
    BY <1>1, <1>3, <1>8, <1>5 DEF SourcesInv
  <2> QED
    BY <1>1, <1>3, <1>8, <1>5, <2>1, MergeBegins
<1>6. CASE phase' = "refused" /\ UNCHANGED layers
  <2>1. SourcesInv'
    BY <1>1, <1>3, <1>6 DEF SourcesInv
  <2> QED
    BY <1>1, <1>6, <2>1, SourcesStep DEF Unmerged
<1>7. CASE ~ Refused(b) /\ phase' = "merge" /\ layers' = Append(sources, l)
  <2>1. patch.writes \in Seq(PatchWrites) /\ ~ Refused(b)
    BY <1>3, <1>7 DEF SourcesInv
  <2>2. IsLayer(l) /\ l.source = "typed"
    BY <2>1, ReplayedStack
  <2> HIDE DEF l, b
  <2>3. IsStack(layers') /\ layers'[1] = layers[1]
    BY <1>8, <1>7, <2>2, StackMore
  <2>4. SourcesInv'
    BY <1>1, <1>3, <2>3 DEF SourcesInv
  <2> QED
    BY <1>1, <1>3, <1>7, <2>3, <2>4, MergeBegins
<1> QED
  BY <1>2, <1>5, <1>6, <1>7

LEMMA MergeLayerKeeps == StackInv /\ MergeLayer => StackInv'
<1> SUFFICES ASSUME StackInv, MergeLayer PROVE StackInv'
  OBVIOUS
<1> DEFINE l == layers[next]
<1>1. UNCHANGED <<metadata, patch, args, env, layers>> /\ phase = "merge" /\ next <= Len(layers)
  BY DEF MergeLayer
<1>2. \/ /\ merged' = IF l.source = "defaults" THEN merged ELSE Merged(metadata.merge, merged, l.value, l)
         /\ next' = next + 1
         /\ phase' = IF next = Len(layers) THEN "done" ELSE phase
      \/ phase' = "refused"
  BY DEF MergeLayer
<1>3. SourcesInv /\ next \in 1..(Len(layers) + 1) /\ IsMerged(metadata.merge, layers, merged, Count(next))
  BY <1>1 DEF StackInv, MergeInv
<1>4. IsStack(layers) /\ Len(layers) \in Nat
  BY <1>3, LenProperties DEF SourcesInv, IsStack
<1>5. SourcesInv'
  BY <1>1, <1>3 DEF SourcesInv
<1>6. CASE phase' = "refused"
  BY <1>5, <1>6 DEF StackInv, MergeInv, Unmerged
<1>7. CASE /\ merged' = IF l.source = "defaults" THEN merged ELSE Merged(metadata.merge, merged, l.value, l)
           /\ next' = next + 1
           /\ phase' = IF next = Len(layers) THEN "done" ELSE phase
  <2>1. next \in 1..Len(layers) /\ (l.source = "defaults" <=> next = 1)
    BY <1>1, <1>3, <1>4 DEF IsStack
  <2>2. Count(next') = next
    BY <1>7, <2>1 DEF Count
  <2>3. IsMerged(metadata.merge, layers, merged', next)
    <3>1. CASE next = 1
      BY <1>3, <1>7, <2>1, <3>1 DEF Count
    <3>2. CASE next # 1
      <4> DEFINE n == next - 1
      <4>1. n \in Nat \ {0} /\ n + 1 = next /\ n + 1 <= Len(layers)
        BY <1>4, <2>1, <3>2
      <4>2. IsMerged(metadata.merge, layers, merged, n)
        BY <1>3, <3>2 DEF Count
      <4> HIDE DEF n
      <4>3. merged' = Merged(metadata.merge, merged, layers[n + 1].value, layers[n + 1])
        BY <1>7, <2>1, <3>2, <4>1
      <4>4. IsMerged(metadata.merge, layers, merged', n + 1)
        BY <1>4, <4>1, <4>2, <4>3, MergedMore
      <4> QED
        BY <4>1, <4>4
    <3> QED
      BY <3>1, <3>2
  <2>4. next' \in 1..(Len(layers') + 1) /\ phase' \in {"merge", "done"}
        /\ (phase' = "merge" => next' <= Len(layers')) /\ (phase' = "done" => next' = Len(layers') + 1)
    BY <1>1, <1>4, <1>7, <2>1
  <2>5. IsMerged(metadata'.merge, layers', merged', Count(next'))
    BY <1>1, <2>2, <2>3
  <2>6. phase' \notin Unmerged
    BY <2>4 DEF Unmerged
  <2> QED
    BY <1>5, <2>4, <2>5, <2>6 DEF StackInv, MergeInv
<1> QED
  BY <1>2, <1>6, <1>7

LEMMA StackStep == StackInv /\ [Next]_vars => StackInv'
<1> SUFFICES ASSUME StackInv, [Next]_vars PROVE StackInv'
  OBVIOUS
<1>1. CASE UNCHANGED vars
  BY <1>1 DEF vars, StackInv, SourcesInv, MergeInv
<1>2. CASE Next
  BY <1>2, WritePatchKeeps, PatchEndsKeeps, ParseSetKeeps, LoadFileKeeps, FilesEndKeeps, SetEnvKeeps,
     FallbackKeeps, PhaseEndsKeeps, StackKeeps, MergeLayerKeeps DEF Next
<1> QED
  BY <1>1, <1>2

\* Whatever the sources, all layers can be merged, and what has been merged has what
\* the layers have (load, merge_values).
THEOREM StackIsMerged == Spec => []StackInv
BY StackInit, StackStep, PTL DEF Spec

-----------------------------------------------------------------------------
(***************************************************************************)
(* What the loaded value has, in the words of the specification.           *)
(***************************************************************************)
LEMMA TextsAre ==
  ASSUME NEW v, NEW p
  PROVE  p \in Texts(v) <=> IsText(v, p)
<1>1. \A u : u.kind = "string" => Segments(u) = {}
  <2> SUFFICES ASSUME NEW u, u.kind = "string" PROVE Segments(u) = {}
    OBVIOUS
  <2>1. u.kind # "object" /\ u.kind # "array"
    OBVIOUS
  <2> QED
    BY <2>1 DEF Segments
<1> QED
  BY <1>1 DEF Texts, Leaves, IsText

LEMMA DecidesWhen ==
  ASSUME IsStack(layers), NEW k \in 1..Len(layers), NEW S, NEW p \in Seq(S)
  PROVE  Decides(k, p) <=> Undisturbed(metadata.merge, layers, k, p, Len(layers))
<1>1. Len(layers) \in Nat
  BY LenProperties DEF IsStack
<1>2. ASSUME NEW j \in (k + 1)..Len(layers)
      PROVE  LeavesAlone(layers[j], layers[k].value, p)
             <=> LeftAlone(metadata.merge, layers[j], layers[j].value, layers[k].value, p)
  <2>1. j \in 1..Len(layers)
    BY <1>1
  <2>2. IsLayer(layers[j])
    BY <2>1 DEF IsStack
  <2> QED
    BY <2>2, AloneEither
<1> QED
  BY <1>2 DEF Decides, Undisturbed

LEMMA ShiftedWhen ==
  ASSUME IsStack(layers), NEW k \in 1..Len(layers), NEW S, NEW p \in Seq(S)
  PROVE  Shifted(k, p) <=> MayShift(metadata.merge, layers, k, p)
<1> DEFINE v == layers[k].value
           Moves(c) == /\ Strategy(metadata.merge, c) = "Append" /\ GetAt(v, c).kind = "array"
                       /\ ~ WritesElements(layers[k], c)
           MovesAt(i) == /\ Strategy(metadata.merge, Upto(p, i)) = "Append" /\ Walk(v, p)[i].kind = "array"
                         /\ ~ Patches(layers[k], Upto(p, i))
<1>1. Linked(layers[k])
  BY DEF IsStack, IsLayer
<1>2. Prefixes(p) = {Upto(p, i) : i \in 0..Len(p)}
  BY PrefixesUpto
<1>3. ASSUME NEW i \in 0..Len(p) PROVE Moves(Upto(p, i)) <=> MovesAt(i)
  <2> DEFINE c == Upto(p, i)
  <2>1. GetAt(v, c) = Walk(v, p)[i]
    BY WalkUpto
  <2>2. IsPath(c)
    BY UptoPoints DEF IsPath
  <2> HIDE DEF c
  <2>3. Strategy(metadata.merge, c) = "Append" => c # <<>>
    BY DEF Strategy
  <2>4. c # <<>> /\ GetAt(v, c).kind = "array" => (Patches(layers[k], c) <=> WritesElements(layers[k], c))
    BY <1>1, <2>2 DEF Linked
  <2> HIDE DEF v
  <2>5. Moves(c) <=> /\ Strategy(metadata.merge, c) = "Append" /\ Walk(v, p)[i].kind = "array"
                     /\ ~ Patches(layers[k], c)
    BY <2>1, <2>3, <2>4
  <2> QED
    BY <2>5 DEF c
<1>4. Shifted(k, p) <=> k > 1 /\ \E c \in Prefixes(p) : Moves(c)
  BY DEF Shifted
<1>5. MayShift(metadata.merge, layers, k, p) <=> k > 1 /\ \E i \in 0..Len(p) : MovesAt(i)
  BY DEF MayShift
<1> HIDE DEF Moves, MovesAt
<1> QED
  BY <1>2, <1>3, <1>4, <1>5

\* An array that is only appended to, in the words of the merge.
LEMMA AppendsWhen ==
  ASSUME SourcesInv, NEW c \in OnlyAppended
  PROVE  /\ Appends(metadata.merge, layers, c, Len(layers))
         /\ \E k \in 1..Len(layers) : Has(layers[k].value, c)
<1>1. IsStack(layers) /\ metadata \in Metadata
  BY DEF SourcesInv
<1>2. DOMAIN layers = 1..Len(layers)
  BY <1>1, LenProperties DEF IsStack
<1>3. /\ c \in DOMAIN metadata.merge /\ metadata.merge[c] = "Append"
      /\ \A d \in Prefixes(c) \ {c} :
            /\ Strategy(metadata.merge, d) # "Replace"
            /\ \A k \in DOMAIN layers : Has(layers[k].value, d) => GetAt(layers[k].value, d).kind = "object"
      /\ \A k \in DOMAIN layers : /\ Has(layers[k].value, c) => GetAt(layers[k].value, c).kind = "array"
                                  /\ ~ WritesElements(layers[k], c)
      /\ \E k \in DOMAIN layers : Has(layers[k].value, c)
  BY DEF OnlyAppended
<1>4. c \in Seq(STRING) /\ c # <<>> /\ Len(c) <= MaxDepth
  BY <1>1, <1>3, LayeringAssumption
<1>5. IsPath(c)
  BY <1>4 DEF IsPath
<1>6. Strategy(metadata.merge, c) = "Append"
  BY <1>3, <1>4 DEF Strategy
<1>7. Len(c) \in Nat /\ \A i \in 1..Len(c) : Upto(c, i - 1) \in Prefixes(c) \ {c}
  BY <1>4, PrefixesUpto, LenProperties
<1>8. \A i \in 1..Len(c) : Strategy(metadata.merge, Upto(c, i - 1)) # "Replace"
  BY <1>3, <1>7
<1>9. ASSUME NEW k \in 1..Len(layers)
      PROVE  /\ ObjectsOn(layers[k].value, c)
             /\ Has(layers[k].value, c) => GetAt(layers[k].value, c).kind = "array" /\ ~ Patches(layers[k], c)
  <2> DEFINE v == layers[k].value
  <2>1. ASSUME NEW i \in 1..Len(c) PROVE Walk(v, c)[i - 1] = Missing \/ Walk(v, c)[i - 1].kind = "object"
    <3>1. i - 1 \in 0..Len(c)
      BY <1>7
    <3>2. GetAt(v, Upto(c, i - 1)) = Walk(v, c)[i - 1]
      BY <1>4, <3>1, WalkUpto
    <3>3. Has(v, Upto(c, i - 1)) => GetAt(v, Upto(c, i - 1)).kind = "object"
      BY <1>2, <1>3, <1>7
    <3> QED
      BY <3>2, <3>3 DEF Has
  <2>2. ObjectsOn(v, c)
    BY <2>1 DEF ObjectsOn
  <2>3. Has(v, c) => GetAt(v, c).kind = "array"
    BY <1>2, <1>3
  <2>4. ~ WritesElements(layers[k], c) /\ Linked(layers[k])
    BY <1>1, <1>2, <1>3 DEF IsStack, IsLayer
  <2>5. GetAt(v, c).kind = "array" => (Patches(layers[k], c) <=> WritesElements(layers[k], c))
    BY <1>4, <1>5, <2>4 DEF Linked
  <2> QED
    BY <2>2, <2>3, <2>4, <2>5
<1>10. Appends(metadata.merge, layers, c, Len(layers))
  BY <1>4, <1>5, <1>6, <1>8, <1>9 DEF Appends
<1> QED
  BY <1>2, <1>3, <1>10

\* What FlattenSeq makes of the first n members of s, one after the other.
IsFlattening(s, n, f) == f = [i \in 1..n |-> IF i = 1 THEN s[i] ELSE f[i - 1] \o s[i]]

LEMMA FlatteningExists ==
  ASSUME NEW s, NEW n \in Nat
  PROVE  \E f : IsFlattening(s, n, f)
<1> DEFINE Bad == {k \in Nat : ~ \E f : IsFlattening(s, k, f)}
<1>1. ASSUME NEW k \in Nat, NEW f, IsFlattening(s, k, f) PROVE \E g : IsFlattening(s, k + 1, g)
  <2> DEFINE g == [i \in 1..(k + 1) |-> IF i # k + 1 THEN f[i] ELSE IF i = 1 THEN s[i] ELSE f[i - 1] \o s[i]]
             W(i) == IF i = 1 THEN s[i] ELSE g[i - 1] \o s[i]
  <2>1. ASSUME NEW i \in 1..(k + 1) PROVE g[i] = W(i)
    <3>1. i # 1 => i - 1 \in 1..(k + 1) /\ i - 1 # k + 1
      OBVIOUS
    <3>2. i # 1 => g[i - 1] = f[i - 1]
      BY <3>1
    <3>3. CASE i = k + 1
      BY <3>2, <3>3
    <3>4. CASE i # k + 1
      <4>1. i \in 1..k /\ g[i] = f[i]
        BY <3>4
      <4>2. f[i] = IF i = 1 THEN s[i] ELSE f[i - 1] \o s[i]
        BY <1>1, <4>1 DEF IsFlattening
      <4> HIDE DEF g
      <4> QED
        BY <3>2, <4>1, <4>2
    <3> QED
      BY <3>3, <3>4
  <2>2. g = [i \in 1..(k + 1) |-> W(i)]
    BY <2>1
  <2> QED
    BY <2>2 DEF IsFlattening
<1>2. \E f : IsFlattening(s, 0, f)
  <2> DEFINE f == [i \in 1..0 |-> s[i]]
             W(i) == IF i = 1 THEN s[i] ELSE f[i - 1] \o s[i]
  <2>1. f = [i \in 1..0 |-> W(i)]
    OBVIOUS
  <2> QED
    BY <2>1 DEF IsFlattening
<1>3. Bad = {}
  <2> SUFFICES ASSUME Bad # {} PROVE FALSE
    OBVIOUS
  <2>1. PICK m \in Bad : \A k \in Bad : m <= k
    BY LeastOne
  <2>2. m # 0
    BY <1>2
  <2>3. m - 1 \in Nat /\ m - 1 \notin Bad /\ (m - 1) + 1 = m
    BY <2>1, <2>2
  <2>4. \E f : IsFlattening(s, m - 1, f)
    BY <2>3
  <2> HIDE DEF Bad
  <2>5. \E g : IsFlattening(s, (m - 1) + 1, g)
    BY <1>1, <2>3, <2>4
  <2> QED
    BY <2>1, <2>3, <2>5 DEF Bad
<1> QED
  BY <1>3

LEMMA FlattenRuns ==
  ASSUME NEW s, Len(s) \in Nat \ {0}
  PROVE  \E f : IsFlattening(s, Len(s), f) /\ FlattenSeq(s) = f[Len(s)]
<1> DEFINE F(f) == [i \in 1..Len(s) |-> IF i = 1 THEN s[i] ELSE f[i - 1] \o s[i]]
           flatten == CHOOSE f : f = F(f)
<1>1. \A f : IsFlattening(s, Len(s), f) <=> f = F(f)
  BY DEF IsFlattening
<1>2. \E f : f = F(f)
  BY <1>1, FlatteningExists
<1>3. FlattenSeq(s) = flatten[Len(s)]
  BY DEF FlattenSeq
<1> HIDE DEF F
<1>4. flatten = F(flatten)
  BY <1>2
<1> HIDE DEF flatten
<1> QED
  BY <1>1, <1>3, <1>4

LEMMA TextsKept ==
  ASSUME IsStack(layers), Kept(metadata.merge, layers, merged, Len(layers))
  PROVE  TextsAreKept
<1>1. DOMAIN layers = 1..Len(layers)
  BY LenProperties DEF IsStack
<1> SUFFICES ASSUME NEW k \in 1..Len(layers), NEW p \in Texts(layers[k].value), Decides(k, p), ~ Shifted(k, p)
             PROVE  GetAt(merged, p) = GetAt(layers[k].value, p)
  BY <1>1 DEF TextsAreKept
<1>2. IsText(layers[k].value, p)
  BY TextsAre
<1>3. PICK S : p \in Seq(S)
  BY <1>2, NodeParts DEF IsText
<1>4. Undisturbed(metadata.merge, layers, k, p, Len(layers)) /\ ~ MayShift(metadata.merge, layers, k, p)
  BY <1>3, DecidesWhen, ShiftedWhen
<1>5. From(layers, merged, k, p)
  BY <1>2, <1>4 DEF Kept
<1> QED
  BY <1>5 DEF From

LEMMA TextsFound ==
  ASSUME IsStack(layers), Found(metadata.merge, layers, merged, Len(layers))
  PROVE  TextsAreFound
<1>1. DOMAIN layers = 1..Len(layers)
  BY LenProperties DEF IsStack
<1> SUFFICES ASSUME NEW p \in Texts(merged)
             PROVE  \E k \in 1..Len(layers) :
                       \/ Shifted(k, p)
                       \/ Decides(k, p) /\ GetAt(layers[k].value, p) = GetAt(merged, p)
  BY <1>1 DEF TextsAreFound
<1>2. IsText(merged, p)
  BY TextsAre
<1>3. PICK S : p \in Seq(S)
  BY <1>2, NodeParts DEF IsText
<1>4. PICK k \in 1..Len(layers) : \/ MayShift(metadata.merge, layers, k, p)
                                  \/ /\ Undisturbed(metadata.merge, layers, k, p, Len(layers))
                                     /\ From(layers, merged, k, p)
  BY <1>2 DEF Found
<1>5. Shifted(k, p) <=> MayShift(metadata.merge, layers, k, p)
  BY <1>3, ShiftedWhen
<1>6. Decides(k, p) <=> Undisturbed(metadata.merge, layers, k, p, Len(layers))
  BY <1>3, DecidesWhen
<1>7. From(layers, merged, k, p) => GetAt(layers[k].value, p) = GetAt(merged, p)
  BY DEF From
<1> QED
  BY <1>4, <1>5, <1>6, <1>7

LEMMA ElementsAppended ==
  ASSUME SourcesInv, IsMerged(metadata.merge, layers, merged, Len(layers))
  PROVE  ElementsAreAppended
<1> DEFINE n == Len(layers)
           s(c) == [k \in DOMAIN layers |-> Elements(layers[k].value, c)]
<1>1. IsStack(layers)
  BY DEF SourcesInv
<1>2. DOMAIN layers = 1..n /\ n \in Nat \ {0}
  BY <1>1, LenProperties DEF IsStack
<1> SUFFICES ASSUME NEW c \in OnlyAppended
             PROVE  GetAt(merged, c).kind = "array" /\ GetAt(merged, c).items = FlattenSeq(s(c))
  BY DEF ElementsAreAppended
<1> DEFINE e == s(c)
           E == {Elements(layers[k].value, c) : k \in 1..n}
<1>3. e = [k \in 1..n |-> Elements(layers[k].value, c)]
  BY <1>2
<1>4. Len(e) = n
  <2>1. e \in [1..n -> E]
    BY <1>3
  <2>2. e \in Seq(E)
    BY <1>2, <2>1, SeqDef
  <2> QED
    BY <1>2, <2>1, <2>2, LenProperties
<1> HIDE DEF e
<1>5. PICK f : IsFlattening(e, n, f) /\ FlattenSeq(e) = f[n]
  BY <1>2, <1>4, FlattenRuns
<1>6. f = [i \in 1..n |-> IF i = 1 THEN e[i] ELSE f[i - 1] \o e[i]]
  BY <1>5 DEF IsFlattening
<1> HIDE DEF n
<1>7. f[1] = Elements(layers[1].value, c)
  BY <1>2, <1>3, <1>6
<1>8. ASSUME NEW i \in 2..n PROVE f[i] = f[i - 1] \o Elements(layers[i].value, c)
  <2>1. i \in 1..n /\ i # 1
    BY <1>2
  <2>2. f[i] = f[i - 1] \o e[i]
    BY <1>6, <2>1
  <2> QED
    BY <1>3, <2>1, <2>2
<1>9. Together(layers, c, f, n)
  BY <1>7, <1>8 DEF Together
<1>10. Appends(metadata.merge, layers, c, n) /\ \E k \in 1..n : Has(layers[k].value, c)
  BY AppendsWhen DEF n
<1>11. HasAll(layers, c, f, merged, n)
  BY <1>9, <1>10 DEF IsMerged, n
<1>12. Has(merged, c)
  BY <1>10, <1>11 DEF HasAll
<1>13. GetAt(merged, c).kind = "array" /\ GetAt(merged, c).items = f[n]
  BY <1>11, <1>12 DEF HasAll
<1> QED
  BY <1>5, <1>13 DEF e

LEMMA MergedDecides == StackInv => HighestLayerDecides
<1> SUFFICES ASSUME StackInv, Loaded PROVE TextsAreKept /\ TextsAreFound /\ ElementsAreAppended
  BY DEF HighestLayerDecides
<1>1. SourcesInv /\ IsStack(layers)
  BY DEF StackInv, SourcesInv
<1>2. Len(layers) \in Nat /\ Len(layers) >= 1
  BY <1>1, LenProperties DEF IsStack
<1>3. next = Len(layers) + 1 /\ IsMerged(metadata.merge, layers, merged, Count(next))
  BY DEF StackInv, MergeInv, Loaded
<1>4. Count(next) = Len(layers)
  BY <1>2, <1>3 DEF Count
<1>5. IsMerged(metadata.merge, layers, merged, Len(layers))
  BY <1>3, <1>4
<1>6. Kept(metadata.merge, layers, merged, Len(layers)) /\ Found(metadata.merge, layers, merged, Len(layers))
  BY <1>5 DEF IsMerged
<1> QED
  BY <1>1, <1>5, <1>6, TextsKept, TextsFound, ElementsAppended

\* Whatever the sources, and whatever they have in common: a loaded value has at every path
\* what the highest layer that says something about it has there (load, merge_values).
THEOREM HighestLayerWins == Spec => []HighestLayerDecides
BY StackIsMerged, MergedDecides, PTL

-----------------------------------------------------------------------------
(***************************************************************************)
(* The sources denied to paths: what has been merged came from layers that *)
(* were looked at.                                                         *)
(***************************************************************************)
PolicyInv == phase \in {"merge", "done"} => \A k \in 1..(next - 1) : SourcesAllowed(layers[k])

LEMMA PolicyInit == Init => PolicyInv
BY DEF Init, PolicyInv

LEMMA PolicyStep == StackInv /\ PolicyInv /\ [Next]_vars => PolicyInv'
<1> SUFFICES ASSUME StackInv, PolicyInv, [Next]_vars, phase' \in {"merge", "done"}
             PROVE  \A k \in 1..(next' - 1) : SourcesAllowed(layers[k])'
  BY DEF PolicyInv
<1>1. CASE UNCHANGED vars
  BY <1>1 DEF vars, PolicyInv, SourcesAllowed
<1>2. CASE WritePatch \/ PatchEnds \/ ParseSet \/ ParseArgsEnds \/ LoadFile \/ FilesEnd \/ VariablesEnd
  BY <1>2 DEF WritePatch, PatchEnds, ParseSet, ParseArgsEnds, LoadFile, FilesEnd, VariablesEnd
<1>3. CASE SetEnv \/ Fallback
  <2>1. PICK p, x : InsertEnv(p, x) /\ phase \in {"env", "fallbacks"}
    BY <1>3 DEF SetEnv, Fallback
  <2>2. phase' = phase \/ phase' = "refused"
    BY <2>1 DEF InsertEnv
  <2> QED
    BY <2>1, <2>2
<1>4. CASE Stack
  <2>1. next' = next /\ phase = "fallbacks"
    BY <1>4 DEF Stack
  <2>2. next = 1
    BY <2>1 DEF StackInv, MergeInv, Unmerged
  <2> QED
    BY <2>1, <2>2
<1>5. CASE MergeLayer
  <2>1. UNCHANGED <<metadata, layers>> /\ phase = "merge"
    BY <1>5 DEF MergeLayer
  <2>2. SourcesAllowed(layers[next]) /\ next' = next + 1
    BY <1>5 DEF MergeLayer
  <2>3. next \in Int
    BY <2>1 DEF StackInv, MergeInv
  <2>4. ASSUME NEW k \in 1..(next' - 1) PROVE SourcesAllowed(layers[k])
    BY <2>1, <2>2, <2>3 DEF PolicyInv
  <2> QED
    BY <2>1, <2>4 DEF SourcesAllowed
<1> QED
  BY <1>1, <1>2, <1>3, <1>4, <1>5 DEF Next

LEMMA PolicyHolds == StackInv /\ PolicyInv => DeniedSourcesDoNotDecide
<1> SUFFICES ASSUME StackInv, PolicyInv, phase = "done", NEW p \in Texts(merged), p \in DOMAIN metadata.denied
             PROVE  \/ GivenInside(p)
                    \/ \E k \in DOMAIN layers :
                          /\ KindOf(layers[k].source) \notin metadata.denied[p]
                          /\ Decides(k, p) /\ GetAt(layers[k].value, p) = GetAt(merged, p)
  BY DEF DeniedSourcesDoNotDecide, Loaded
<1> DEFINE n == Len(layers)
<1>1. IsStack(layers)
  BY DEF StackInv, SourcesInv
<1>2. n \in Nat /\ n >= 1 /\ DOMAIN layers = 1..n
  BY <1>1, LenProperties DEF IsStack
<1>3. next = n + 1 /\ IsMerged(metadata.merge, layers, merged, Count(next))
  BY DEF StackInv, MergeInv
<1>4. Count(next) = n
  BY <1>2, <1>3 DEF Count
<1>5. Sound(merged) /\ Found(metadata.merge, layers, merged, n)
  BY <1>3, <1>4 DEF IsMerged
<1>6. IsText(merged, p)
  BY TextsAre
<1>7. PICK S : p \in Seq(S)
  BY <1>5, <1>6, TextOnTheWay
<1>8. PICK k \in 1..n : \/ MayShift(metadata.merge, layers, k, p)
                        \/ Undisturbed(metadata.merge, layers, k, p, n) /\ From(layers, merged, k, p)
  BY <1>5, <1>6 DEF Found
<1>9. CASE MayShift(metadata.merge, layers, k, p)
  BY <1>1, <1>2, <1>7, <1>9, ShiftedWhen DEF GivenInside
<1>10. CASE Undisturbed(metadata.merge, layers, k, p, n) /\ From(layers, merged, k, p)
  <2>1. Decides(k, p)
    BY <1>1, <1>7, <1>10, DecidesWhen
  <2>2. GetAt(layers[k].value, p) = GetAt(merged, p) /\ SameKinds(merged, layers[k].value, p)
    BY <1>10 DEF From
  <2>3. IsText(layers[k].value, p)
    BY <1>5, <1>6, <2>2, TextAlike
  <2>4. Told(layers[k])
    BY <1>1 DEF IsStack, IsLayer
  <2>5. CASE \E i \in DOMAIN layers[k].claimed : IsStrictPrefix(Place(layers[k], i), p)
    BY <1>2, <2>5 DEF GivenInside
  <2>6. CASE p \in layers[k].entries
    <3>1. SourcesAllowed(layers[k])
      BY <1>2, <1>3 DEF PolicyInv
    <3> QED
      BY <1>2, <2>1, <2>2, <2>6, <3>1 DEF SourcesAllowed
  <2> QED
    BY <2>3, <2>4, <2>5, <2>6 DEF Told
<1> QED
  BY <1>8, <1>9, <1>10

\* A path that kinds of sources are denied to does not come from one of them, whatever
\* the layers above and below it say (enforce_source_policies in load), unless it was
\* given inside something else.
THEOREM DeniedDoNotDecide == Spec => []DeniedSourcesDoNotDecide
<1>1. Init => StackInv /\ PolicyInv
  BY StackInit, PolicyInit
<1>2. (StackInv /\ PolicyInv) /\ [Next]_vars => (StackInv /\ PolicyInv)'
  BY StackStep, PolicyStep
<1>3. StackInv /\ PolicyInv => DeniedSourcesDoNotDecide
  BY PolicyHolds
<1> QED
  BY <1>1, <1>2, <1>3, PTL DEF Spec

-----------------------------------------------------------------------------
(***************************************************************************)
(* The shape a typed patch is replayed for, and the values it is merged    *)
(* into: they are alike but for the elements of the defaults, which the    *)
(* shape has twice where they are appended to.                             *)
(***************************************************************************)
\* How many elements of the defaults d the shape has twice, in the array at c.
Twice(how, d, c) == IF Strategy(how, c) = "Append" THEN Len(Elements(d, c)) ELSE 0

\* At s the container v is not shifted, if its first t elements are there twice; and s is
\* spelled as v has it.
Aligned(v, s, t) ==
    v.kind = "array" => IsIndex(s) /\ CanonicalIndex(s) = s /\ (t = 0 \/ Indices[s] < t)

SameLength(u, v, t) ==
    \/ Len(u.items) = Len(v.items)
    \/ t > 0 /\ Len(u.items) >= t /\ Len(v.items) >= t

Alike(u, v, t) ==
    /\ u.kind = v.kind
    /\ u = Missing <=> v = Missing
    /\ u = Null <=> v = Null
    /\ v.kind = "array" => SameLength(u, v, t)

LEMMA ElementsFacts ==
  ASSUME NEW v, Sound(v), NEW S, NEW c \in Seq(S)
  PROVE  Len(Elements(v, c)) \in Nat
<1>1. Whole(GetAt(v, c))
  <2>1. Len(c) \in 0..Len(c)
    BY LenProperties
  <2> QED
    BY <2>1, SoundWalk DEF GetAt
<1>2. CASE GetAt(v, c).kind = "array"
  BY <1>1, <1>2, WholeItems DEF Elements
<1>3. CASE GetAt(v, c).kind # "array"
  <2>1. Elements(v, c) = <<>>
    BY <1>3 DEF Elements
  <2> QED
    BY <2>1, EmptySeq
<1> QED
  BY <1>2, <1>3

\* The number of elements an array has when new ones are written into it.
LEMMA PatchedLength ==
  ASSUME NEW old, NEW new, NEW under, NEW older, NEW others, NEW a \in Nat, NEW b \in Nat, NEW z \in Nat,
         DOMAIN old = 1..a, Len(old) = a, DOMAIN older = 1..z, Len(older) = z, DOMAIN new = 1..b
  PROVE  /\ Len(Patched(old, new, under)) >= a
         /\ Len(Patched(older, new, others)) >= z
         /\ a = z => Len(Patched(old, new, under)) = Len(Patched(older, new, others))
<1> DEFINE P == Patched(old, new, under)
           Q == Patched(older, new, others)
<1>1. PICK w \in Nat : IsPatched(P, old, new, under, a, b, w)
  BY PatchedItems
<1>2. PICK y \in Nat : IsPatched(Q, older, new, others, z, b, y)
  BY PatchedItems
<1>3. DOMAIN P = 1..w /\ Len(P) = w /\ w >= a /\ DOMAIN Q = 1..y /\ Len(Q) = y /\ y >= z
  BY <1>1, <1>2 DEF IsPatched
<1>4. ASSUME a = z
      PROVE  DOMAIN P = DOMAIN Q
  <2> DEFINE written == {i \in DOMAIN new : new[i] # Null}
             k == IF written = {} THEN 0 ELSE Max(written)
             wide(o) == Resized(o, k, Null)
  <2>1. DOMAIN P = DOMAIN wide(old) /\ DOMAIN Q = DOMAIN wide(older)
    BY DEF Patched
  <2>2. \A o : DOMAIN wide(o) = 1..(IF k > Len(o) THEN k ELSE Len(o))
    BY DEF Resized
  <2>3. Len(old) = Len(older)
    BY <1>4
  <2> HIDE DEF wide, k
  <2> QED
    BY <2>1, <2>2, <2>3
<1>5. a = z => w = y
  <2> SUFFICES ASSUME 1..w = 1..y PROVE w = y
    BY <1>3, <1>4
  <2> QED
    OBVIOUS
<1> QED
  BY <1>3, <1>5

\* What becomes of alike containers.
LEMMA OpenAlike ==
  ASSUME NEW how, NEW l, NEW new, Sound(new), NEW S, Sound(S), NEW M, Sound(M),
         NEW f, IsMerge(how, S, new, l, f), NEW g, IsMerge(how, M, new, l, g),
         NEW c \in Both(S, new), c \in Both(M, new), NEW t \in Nat,
         Alike(GetAt(S, c), GetAt(M, c), t)
  PROVE  Alike(f[c], g[c], t)
<1> DEFINE u == GetAt(S, c)
           m == GetAt(M, c)
           n == GetAt(new, c)
           x == Under(f, S, new, c)
           y == Under(g, M, new, c)
<1>1. Whole(u) /\ Whole(m) /\ Whole(n)
  BY NodeThere DEF Both
<1>2. f[c] = MergedAt(how, l, c, u, n, x) /\ g[c] = MergedAt(how, l, c, m, n, y)
  BY DEF IsMerge, MergedFrom
<1> HIDE DEF u, m, n, x, y
<1>3. PICK r, q : r = f[c] /\ q = g[c]
  OBVIOUS
<1>4. /\ Patching(l, c, u, n) => r = Array(Patched(u.items, n.items, x))
      /\ Appending(how, l, c, u, n) => r = Array(Appended(u.items, n.items))
      /\ Patching(l, c, u, n) \/ Appending(how, l, c, u, n) \/ Joining(how, c, u, n) \/ r = n
      /\ r.kind = n.kind /\ (n # Missing => r # Missing) /\ (n.kind \notin {"array", "object"} => r = n)
  BY <1>2, <1>3, MergedIs
<1>5. /\ Patching(l, c, m, n) => q = Array(Patched(m.items, n.items, y))
      /\ Appending(how, l, c, m, n) => q = Array(Appended(m.items, n.items))
      /\ Patching(l, c, m, n) \/ Appending(how, l, c, m, n) \/ Joining(how, c, m, n) \/ q = n
      /\ q.kind = n.kind /\ (n # Missing => q # Missing) /\ (n.kind \notin {"array", "object"} => q = n)
  BY <1>2, <1>3, MergedIs
<1>6. u.kind = m.kind /\ (m.kind = "array" => SameLength(u, m, t))
  BY DEF Alike, u, m
<1>7. Missing.kind \notin {"array", "object"} /\ Null.kind \notin {"array", "object"}
  BY DEF Missing, Null
<1>8. r.kind = q.kind /\ (r = Missing <=> q = Missing) /\ (r = Null <=> q = Null)
  BY <1>4, <1>5, <1>7
<1>9. ASSUME q.kind = "array"
      PROVE  SameLength(r, q, t)
  <2>1. CASE Patching(l, c, m, n)
    <3>1. Patching(l, c, u, n) /\ u.kind = "array" /\ m.kind = "array" /\ n.kind = "array"
      BY <1>6, <2>1 DEF Patching
    <3>2. /\ Len(u.items) \in Nat /\ DOMAIN u.items = 1..Len(u.items)
          /\ Len(m.items) \in Nat /\ DOMAIN m.items = 1..Len(m.items)
          /\ Len(n.items) \in Nat /\ DOMAIN n.items = 1..Len(n.items)
      BY <1>1, <3>1, WholeItems
    <3>3. r.items = Patched(u.items, n.items, x) /\ q.items = Patched(m.items, n.items, y)
      BY <1>4, <1>5, <2>1, <3>1 DEF Array
    <3>4. /\ Len(r.items) >= Len(u.items) /\ Len(q.items) >= Len(m.items)
          /\ Len(u.items) = Len(m.items) => Len(r.items) = Len(q.items)
      BY <3>2, <3>3, PatchedLength
    <3>5. Len(r.items) \in Nat /\ Len(q.items) \in Nat
      <4>1. PICK T : Patched(u.items, n.items, x) \in Seq(T)
        BY <1>1, <3>1, PatchedSeq
      <4>2. PICK U : Patched(m.items, n.items, y) \in Seq(U)
        BY <1>1, <3>1, PatchedSeq
      <4> QED
        BY <3>3, <4>1, <4>2, LenProperties
    <3> QED
      BY <1>6, <3>1, <3>2, <3>4, <3>5 DEF SameLength
  <2>2. CASE Appending(how, l, c, m, n)
    <3>1. Appending(how, l, c, u, n) /\ u.kind = "array" /\ m.kind = "array" /\ n.kind = "array"
      BY <1>6, <2>2 DEF Appending
    <3>2. Len(u.items) \in Nat /\ Len(m.items) \in Nat /\ Len(n.items) \in Nat
      BY <1>1, <3>1, WholeItems
    <3>3. r.items = Appended(u.items, n.items) /\ q.items = Appended(m.items, n.items)
      BY <1>4, <1>5, <2>2, <3>1 DEF Array
    <3>4. Len(r.items) = Len(u.items) + Len(n.items) /\ Len(q.items) = Len(m.items) + Len(n.items)
      BY <1>1, <3>1, <3>3, AppendedItems
    <3>5. Len(u.items) = Len(m.items) \/ (t > 0 /\ Len(u.items) >= t /\ Len(m.items) >= t)
      BY <1>6, <3>1 DEF SameLength
    <3>6. PICK i \in Nat, j \in Nat, k \in Nat : i = Len(u.items) /\ j = Len(m.items) /\ k = Len(n.items)
      BY <3>2
    <3>7. Len(r.items) = i + k /\ Len(q.items) = j + k
      BY <3>4, <3>6
    <3>8. i = j \/ (t > 0 /\ i >= t /\ j >= t)
      BY <3>5, <3>6
    <3>9. i + k = j + k \/ (t > 0 /\ i + k >= t /\ j + k >= t)
      BY <3>8
    <3> QED
      BY <3>7, <3>9 DEF SameLength
  <2>3. CASE ~ Patching(l, c, m, n) /\ ~ Appending(how, l, c, m, n)
    <3>1. ~ Patching(l, c, u, n) /\ ~ Appending(how, l, c, u, n)
      BY <1>6, <2>3 DEF Patching, Appending
    <3>2. n.kind = "array"
      BY <1>5, <1>9
    <3>3. ~ Joining(how, c, u, n) /\ ~ Joining(how, c, m, n)
      BY <3>2 DEF Joining
    <3> QED
      BY <1>4, <1>5, <2>3, <3>1, <3>3 DEF SameLength
  <2> QED
    BY <2>1, <2>2, <2>3
<1> QED
  BY <1>3, <1>8, <1>9 DEF Alike

\* Which places of a whole array are taken.
LEMMA PlaceTaken ==
  ASSUME NEW v, Whole(v), v.kind = "array", NEW s, IsIndex(s)
  PROVE  Child(v, s) = Missing <=> Indices[s] >= Len(v.items)
<1>1. Indices[s] \in 0..7 /\ Len(v.items) \in Nat
  BY IndexFacts, WholeItems DEF IsIndex
<1>2. v.kind # "object"
  OBVIOUS
<1>3. Indices[s] < Len(v.items) => v.items[Indices[s] + 1] # Missing
  <2> DEFINE i == Indices[s] + 1
  <2>1. Indices[s] < Len(v.items) => i \in 1..Len(v.items) /\ i <= 8
    BY <1>1
  <2> HIDE DEF i
  <2>2. Indices[s] < Len(v.items) => v.items[i] # Missing
    BY <2>1 DEF Whole
  <2> QED
    BY <2>2 DEF i
<1> QED
  BY <1>1, <1>2, <1>3 DEF Child

\* An aligned place that one of two alike arrays does not have is beyond both, and they
\* have the same length.
LEMMA BeyondBoth ==
  ASSUME NEW u, NEW m, Whole(u), Whole(m), NEW t \in Nat, SameLength(u, m, t), u.kind = "array", m.kind = "array",
         NEW s, Aligned(m, s, t)
  PROVE  /\ Child(u, s) = Missing <=> Child(m, s) = Missing
         /\ Child(m, s) = Missing => Len(u.items) = Len(m.items)
<1>1. Indices[s] \in 0..7 /\ Len(u.items) \in Nat /\ Len(m.items) \in Nat /\ IsIndex(s)
  BY IndexFacts, WholeItems DEF IsIndex, Aligned
<1>2. PICK k \in Nat, i \in Nat, j \in Nat : k = Indices[s] /\ i = Len(u.items) /\ j = Len(m.items)
  BY <1>1
<1>3. t = 0 \/ k < t
  BY <1>2 DEF Aligned
<1>4. i = j \/ (t > 0 /\ i >= t /\ j >= t)
  BY <1>2 DEF SameLength
<1>5. (Child(u, s) = Missing <=> k >= i) /\ (Child(m, s) = Missing <=> k >= j)
  BY <1>1, <1>2, PlaceTaken
<1> QED
  BY <1>2, <1>3, <1>4, <1>5

\* What has become of a child of alike containers: both results have the same, or each
\* has what was there, or both children have been merged with that of the layer.
Alongside(u, m, n, r, q, mergedU, mergedM, s, t) ==
    \/ Child(r, s) = Child(q, s)
    \/ Aligned(m, s, t) /\ Child(r, s) = Child(u, s) /\ Child(q, s) = Child(m, s)
    \/ /\ Aligned(m, s, t)
       /\ Child(u, s) # Missing /\ Child(m, s) # Missing /\ Child(n, s) # Missing
       /\ Child(r, s) = mergedU /\ Child(q, s) = mergedM

LEMMA AppendedAlike ==
  ASSUME NEW u, NEW m, NEW n, Whole(u), Whole(m), Whole(n), u.kind = "array", m.kind = "array", n.kind = "array",
         NEW s, IsIndex(s), Len(u.items) = Len(m.items), Child(u, s) = Missing, Child(m, s) = Missing,
         NEW r, NEW q, r = Array(Appended(u.items, n.items)), q = Array(Appended(m.items, n.items))
  PROVE  Child(r, s) = Child(q, s)
<1>1. PICK k \in Nat, i \in Nat, j \in Nat : k = Indices[s] /\ i = Len(u.items) /\ j = Len(n.items)
  BY IndexFacts, WholeItems DEF IsIndex
<1>2. r.kind = "array" /\ q.kind = "array" /\ r.items = Appended(u.items, n.items) /\ q.items = Appended(m.items, n.items)
  BY DEF Array
<1> DEFINE A == Appended(u.items, n.items)
           B == Appended(m.items, n.items)
<1>3. Len(A) = i + j /\ DOMAIN A = 1..(i + j)
      /\ \A x \in 1..(i + j) : A[x] = IF x <= i THEN u.items[x] ELSE n.items[x - i]
  <2>1. Len(A) = Len(u.items) + Len(n.items) /\ DOMAIN A = 1..Len(A)
        /\ \A x \in 1..Len(A) : A[x] = IF x <= Len(u.items) THEN u.items[x] ELSE n.items[x - Len(u.items)]
    BY AppendedItems
  <2> QED
    BY <1>1, <2>1
<1>4. Len(B) = i + j /\ DOMAIN B = 1..(i + j)
      /\ \A x \in 1..(i + j) : B[x] = IF x <= i THEN m.items[x] ELSE n.items[x - i]
  <2>1. Len(B) = Len(m.items) + Len(n.items) /\ DOMAIN B = 1..Len(B)
        /\ \A x \in 1..Len(B) : B[x] = IF x <= Len(m.items) THEN m.items[x] ELSE n.items[x - Len(m.items)]
    BY AppendedItems
  <2> QED
    BY <1>1, <2>1
<1> HIDE DEF A, B
<1>5. k >= i
  BY <1>1, PlaceTaken
<1>6. ASSUME k < i + j PROVE A[k + 1] = B[k + 1]
  <2>1. k + 1 \in 1..(i + j) /\ ~ (k + 1 <= i)
    BY <1>5, <1>6
  <2> QED
    BY <1>3, <1>4, <2>1
<1>7. r.kind = "array" /\ q.kind = "array" /\ r.items = A /\ q.items = B
  BY <1>2 DEF A, B
<1> QED
  BY <1>1, <1>3, <1>4, <1>6, <1>7 DEF Child

LEMMA OpenAlongside ==
  ASSUME NEW how, NEW l, NEW new, Sound(new), NEW S, Sound(S), NEW M, Sound(M),
         NEW f, IsMerge(how, S, new, l, f), NEW g, IsMerge(how, M, new, l, g),
         NEW c \in Both(S, new), c \in Both(M, new), NEW t \in Nat, Alike(GetAt(S, c), GetAt(M, c), t),
         NEW s, Aligned(g[c], s, t), NEW t2,
         Aligned(GetAt(M, c), s, t) => Alike(Child(GetAt(S, c), s), Child(GetAt(M, c), s), t2)
  PROVE  Alongside(GetAt(S, c), GetAt(M, c), GetAt(new, c), f[c], g[c],
                   Goes(f, S, new, c, s), Goes(g, M, new, c, s), s, t)
<1> DEFINE u == GetAt(S, c)
           m == GetAt(M, c)
           n == GetAt(new, c)
           r == f[c]
           q == g[c]
<1>1. Whole(u) /\ Whole(m) /\ Whole(n)
  BY NodeThere DEF Both
<1>2. Whole(r) /\ Whole(q)
  <2>1. Sound(f[c]) /\ Sound(g[c])
    BY MergeSound
  <2> QED
    BY <2>1 DEF Sound
<1>3. MergeStep(how, S, new, l, f, c) /\ MergeStep(how, M, new, l, g, c)
  BY MergeSteps
<1>4. Alike(r, q, t)
  BY OpenAlike
<1>5. PICK T : c \in Seq(T)
  BY NodeParts DEF Both
<1>6. /\ Child(u, s) = Missing => Append(c, s) \notin Both(S, new)
      /\ Child(m, s) = Missing => Append(c, s) \notin Both(M, new)
  <2>1. GetAt(S, Append(c, s)) = Child(u, s) /\ GetAt(M, Append(c, s)) = Child(m, s)
    BY <1>5, WalkAppend
  <2>2. Append(c, s) # <<>>
    BY <1>5, LongerNode, EmptySeq DEF Both
  <2> QED
    BY <2>1, <2>2, NodeThere DEF Both
<1> SUFFICES Alongside(u, m, n, r, q, Goes(f, S, new, c, s), Goes(g, M, new, c, s), s, t)
  OBVIOUS
<1> HIDE DEF u, m, n, r, q
<1>7. u.kind = m.kind /\ (m.kind = "array" => SameLength(u, m, t))
  BY DEF Alike, u, m
<1>8. Aligned(m, s, t) => (Child(u, s) = Missing <=> Child(m, s) = Missing) /\ (Child(u, s) = Null <=> Child(m, s) = Null)
  BY DEF Alike, u, m
<1>9. Aligned(q, s, t)
  BY DEF q
<1>10. CASE Patching(l, c, m, n)
  <2>1. Patching(l, c, u, n) /\ m.kind = "array" /\ u.kind = "array" /\ n.kind = "array"
    BY <1>7, <1>10 DEF Patching
  <2>2. q.kind = "array" /\ r.kind = "array"
    BY <1>3, <2>1 DEF MergeStep, q, r, n
  <2>3. Aligned(m, s, t) /\ IsIndex(s) /\ CanonicalIndex(s) = s
    BY <1>9, <2>1, <2>2 DEF Aligned
  <2>4. IF Child(n, s) \notin {Missing, Null}
          THEN Child(r, s) = IF Child(u, s) \in {Missing, Null} THEN Child(n, s)
                             ELSE Goes(f, S, new, c, CanonicalIndex(s))
          ELSE \/ Child(u, s) # Missing /\ Child(r, s) = Child(u, s)
               \/ Child(u, s) = Missing /\ (Child(r, s) = Null \/ (Child(r, s) = Missing /\ ~ Holds(r, s)))
    BY <1>3, <2>1 DEF MergeStep, u, n, r
  <2>5. IF Child(n, s) \notin {Missing, Null}
          THEN Child(q, s) = IF Child(m, s) \in {Missing, Null} THEN Child(n, s)
                             ELSE Goes(g, M, new, c, CanonicalIndex(s))
          ELSE \/ Child(m, s) # Missing /\ Child(q, s) = Child(m, s)
               \/ Child(m, s) = Missing /\ (Child(q, s) = Null \/ (Child(q, s) = Missing /\ ~ Holds(q, s)))
    BY <1>3, <1>10 DEF MergeStep, m, n, q
  <2>6. Child(r, s) = Missing <=> Child(q, s) = Missing
    <3>1. SameLength(r, q, t)
      BY <1>4, <2>2 DEF Alike
    <3> QED
      BY <1>2, <1>9, <2>2, <3>1, BeyondBoth
  <2>7. Missing # Null
    BY DEF Missing, Null
  <2> QED
    BY <1>8, <2>3, <2>4, <2>5, <2>6, <2>7 DEF Alongside
<1>11. CASE Appending(how, l, c, m, n)
  <2>1. Appending(how, l, c, u, n) /\ m.kind = "array" /\ u.kind = "array" /\ n.kind = "array"
    BY <1>7, <1>11 DEF Appending
  <2>2. q.kind = "array"
    BY <1>3, <2>1 DEF MergeStep, q, n
  <2>3. Aligned(m, s, t) /\ IsIndex(s)
    BY <1>9, <2>1, <2>2 DEF Aligned
  <2>4. /\ r = Array(Appended(u.items, n.items))
        /\ Child(u, s) # Missing => Child(r, s) = Child(u, s)
    BY <1>3, <2>1 DEF MergeStep, u, n, r
  <2>5. /\ q = Array(Appended(m.items, n.items))
        /\ Child(m, s) # Missing => Child(q, s) = Child(m, s)
    BY <1>3, <1>11 DEF MergeStep, m, n, q
  <2>6. CASE Child(m, s) # Missing
    BY <1>8, <2>3, <2>4, <2>5, <2>6 DEF Alongside
  <2>7. CASE Child(m, s) = Missing
    <3>1. Child(u, s) = Missing /\ Len(u.items) = Len(m.items)
      BY <1>1, <1>7, <2>1, <2>3, <2>7, BeyondBoth
    <3>2. Child(r, s) = Child(q, s)
      BY <1>1, <2>1, <2>3, <2>4, <2>5, <2>7, <3>1, AppendedAlike
    <3> QED
      BY <3>2 DEF Alongside
  <2> QED
    BY <2>6, <2>7
<1>12. CASE Joining(how, c, m, n)
  <2>1. Joining(how, c, u, n) /\ m.kind = "object"
    BY <1>7, <1>12 DEF Joining
  <2>2. Aligned(m, s, t)
    BY <2>1 DEF Aligned
  <2>3. Child(r, s) = IF Child(n, s) # Missing THEN Goes(f, S, new, c, s) ELSE Child(u, s)
    BY <1>3, <2>1 DEF MergeStep, u, n, r
  <2>4. Child(q, s) = IF Child(n, s) # Missing THEN Goes(g, M, new, c, s) ELSE Child(m, s)
    BY <1>3, <1>12 DEF MergeStep, m, n, q
  <2>5. CASE Child(n, s) = Missing
    BY <2>2, <2>3, <2>4, <2>5 DEF Alongside
  <2>6. CASE Child(n, s) # Missing /\ Child(m, s) # Missing
    BY <1>8, <2>2, <2>3, <2>4, <2>6 DEF Alongside
  <2>7. CASE Child(n, s) # Missing /\ Child(m, s) = Missing
    <3>1. Goes(f, S, new, c, s) = Child(n, s) /\ Goes(g, M, new, c, s) = Child(n, s)
      BY <1>6, <1>8, <2>2, <2>7 DEF Goes, n
    <3> QED
      BY <2>3, <2>4, <2>7, <3>1 DEF Alongside
  <2> QED
    BY <2>5, <2>6, <2>7
<1>13. CASE ~ Patching(l, c, m, n) /\ ~ Appending(how, l, c, m, n) /\ ~ Joining(how, c, m, n)
  <2>1. ~ Patching(l, c, u, n) /\ ~ Appending(how, l, c, u, n) /\ ~ Joining(how, c, u, n)
    BY <1>7, <1>13 DEF Patching, Appending, Joining
  <2>2. r = n
    BY <1>3, <2>1 DEF MergeStep, u, n, r
  <2>3. q = n
    BY <1>3, <1>13 DEF MergeStep, m, n, q
  <2> QED
    BY <2>2, <2>3 DEF Alongside
<1> QED
  BY <1>10, <1>11, <1>12, <1>13

\* Along p, as far as u is not shifted, v and u are alike.
AgreeOn(how, d, v, u, p) ==
    \A i \in 0..Len(p) :
       (\A j \in 1..i : Aligned(Walk(u, p)[j - 1], p[j], Twice(how, d, Upto(p, j - 1))))
         => Alike(Walk(v, p)[i], Walk(u, p)[i], Twice(how, d, Upto(p, i)))

Agree(how, d, v, u) == \A p : IsPath(p) /\ Len(p) <= MaxDepth => AgreeOn(how, d, v, u, p)

LEMMA TwiceFacts ==
  ASSUME NEW how, NEW d, Sound(d), NEW S, NEW p \in Seq(S)
  PROVE  \A i \in 0..Len(p) : Twice(how, d, Upto(p, i)) \in Nat
BY UptoPoints, ElementsFacts DEF Twice

\* Two values that agree still do when a layer has been merged into both.
LEMMA AgreeMore ==
  ASSUME NEW how, NEW l, NEW new, Sound(new), NEW S, Sound(S), NEW M, Sound(M), NEW d, Sound(d),
         NEW f, IsMerge(how, S, new, l, f), NEW g, IsMerge(how, M, new, l, g),
         NEW T, NEW p \in Seq(T), Len(p) <= MaxDepth, AgreeOn(how, d, S, M, p)
  PROVE  AgreeOn(how, d, f[<<>>], g[<<>>], p)
<1> DEFINE R == f[<<>>]
           Q == g[<<>>]
           w == Walk(R, p)
           z == Walk(Q, p)
           y == Walk(S, p)
           x == Walk(M, p)
           v == Walk(new, p)
           t(i) == Twice(how, d, Upto(p, i))
           Ready(i) == \A j \in 1..i : Aligned(x[j - 1], p[j], t(j - 1))
           Behind(i) == \A j \in 1..i : Aligned(z[j - 1], p[j], t(j - 1))
           BothOpen(i) == Open(f, S, new, R, p, i) /\ Open(g, M, new, Q, p, i)
           Status(i) == \/ w[i] = z[i]
                        \/ Ready(i) /\ w[i] = y[i] /\ z[i] = x[i]
                        \/ Ready(i) /\ BothOpen(i)
           Bad == {i \in 0..Len(p) : Behind(i) /\ ~ Status(i)}
<1>1. Len(p) \in Nat /\ \A i \in 0..Len(p) : t(i) \in Nat
  BY TwiceFacts, LenProperties
<1>2. /\ w[0] = R /\ z[0] = Q
      /\ \A i \in 1..Len(p) : /\ w[i] = Child(w[i - 1], p[i]) /\ z[i] = Child(z[i - 1], p[i])
                              /\ y[i] = Child(y[i - 1], p[i]) /\ x[i] = Child(x[i - 1], p[i])
                              /\ v[i] = Child(v[i - 1], p[i])
  BY WalkSteps
<1>3. \A i \in 0..Len(p) : /\ GetAt(S, Upto(p, i)) = y[i] /\ GetAt(M, Upto(p, i)) = x[i]
                           /\ GetAt(new, Upto(p, i)) = v[i]
  BY WalkUpto
<1>4. \A i \in 0..Len(p) : Ready(i) => Alike(y[i], x[i], t(i))
  BY DEF AgreeOn
<1>5. \A i \in 0..Len(p) : BothOpen(i) => /\ Upto(p, i) \in Both(S, new) /\ w[i] = f[Upto(p, i)]
                                          /\ Upto(p, i) \in Both(M, new) /\ z[i] = g[Upto(p, i)]
                                          /\ z[i].kind = v[i].kind
  <2> SUFFICES ASSUME NEW i \in 0..Len(p), BothOpen(i) PROVE z[i].kind = v[i].kind
    BY DEF Open
  <2> QED
    BY OpenKind
<1>6. BothOpen(0)
  BY <1>2, UptoEnds, RootNode DEF Open, Both
<1> HIDE DEF w, z, y, x, v, t, BothOpen
<1>7. ASSUME NEW m \in 1..Len(p), Behind(m), Status(m - 1)
      PROVE  Status(m)
  <2>1. m - 1 \in 0..Len(p) /\ m \in 0..Len(p) /\ t(m - 1) \in Nat
    BY <1>1
  <2>2. Aligned(z[m - 1], p[m], t(m - 1))
    BY <1>7
  <2>3. Ready(m - 1) /\ Aligned(x[m - 1], p[m], t(m - 1)) => Ready(m)
    <3> SUFFICES ASSUME Ready(m - 1), Aligned(x[m - 1], p[m], t(m - 1)), NEW j \in 1..m
                 PROVE  Aligned(x[j - 1], p[j], t(j - 1))
      OBVIOUS
    <3>1. j \in 1..(m - 1) \/ j = m
      BY <2>1
    <3> QED
      BY <3>1
  <2>4. CASE w[m - 1] = z[m - 1]
    BY <1>2, <2>4
  <2>5. CASE Ready(m - 1) /\ w[m - 1] = y[m - 1] /\ z[m - 1] = x[m - 1]
    BY <1>2, <2>2, <2>3, <2>5
  <2>6. CASE Ready(m - 1) /\ BothOpen(m - 1)
    <3> DEFINE c == Upto(p, m - 1)
               s == p[m]
    <3>1. /\ c \in Both(S, new) /\ c \in Both(M, new) /\ w[m - 1] = f[c] /\ z[m - 1] = g[c]
          /\ z[m - 1].kind = v[m - 1].kind
      BY <1>5, <2>1, <2>6
    <3>2. GetAt(S, c) = y[m - 1] /\ GetAt(M, c) = x[m - 1] /\ GetAt(new, c) = v[m - 1]
      BY <1>3, <2>1
    <3>3. Append(c, s) = Upto(p, m)
      BY UptoNext
    <3>4. Alike(GetAt(S, c), GetAt(M, c), t(m - 1))
      BY <1>4, <2>1, <2>6, <3>2
    <3>5. Aligned(GetAt(M, c), s, t(m - 1)) => Alike(Child(GetAt(S, c), s), Child(GetAt(M, c), s), t(m))
      BY <1>2, <1>4, <2>1, <2>3, <2>6, <3>2
    <3>6. Aligned(g[c], s, t(m - 1))
      BY <2>2, <3>1
    <3> HIDE DEF c, s
    <3>7. Alongside(GetAt(S, c), GetAt(M, c), GetAt(new, c), f[c], g[c],
                    Goes(f, S, new, c, s), Goes(g, M, new, c, s), s, t(m - 1))
      BY <2>1, <3>1, <3>4, <3>5, <3>6, OpenAlongside
    <3>8. /\ w[m] = Child(f[c], s) /\ z[m] = Child(g[c], s)
          /\ y[m] = Child(GetAt(S, c), s) /\ x[m] = Child(GetAt(M, c), s) /\ v[m] = Child(GetAt(new, c), s)
      BY <1>2, <3>1, <3>2 DEF s
    <3>9. CASE Child(f[c], s) = Child(g[c], s)
      BY <3>8, <3>9
    <3>10. CASE /\ Aligned(GetAt(M, c), s, t(m - 1))
                /\ Child(f[c], s) = Child(GetAt(S, c), s) /\ Child(g[c], s) = Child(GetAt(M, c), s)
      <4>1. Ready(m)
        BY <2>3, <2>6, <3>2, <3>10 DEF s
      <4> QED
        BY <3>8, <3>10, <4>1
    <3>11. CASE /\ Aligned(GetAt(M, c), s, t(m - 1))
                /\ Child(GetAt(S, c), s) # Missing /\ Child(GetAt(M, c), s) # Missing /\ Child(GetAt(new, c), s) # Missing
                /\ Child(f[c], s) = Goes(f, S, new, c, s) /\ Child(g[c], s) = Goes(g, M, new, c, s)
      <4>1. Ready(m)
        BY <2>3, <2>6, <3>2, <3>11 DEF s
      <4>2. y[m] # Missing /\ x[m] # Missing /\ v[m] # Missing
        BY <3>8, <3>11
      <4>3. y[m - 1].kind = x[m - 1].kind
        BY <3>2, <3>4 DEF Alike
      <4>4. x[m - 1].kind = "array" \/ v[m - 1].kind = "array" => CanonicalIndex(p[m]) = p[m]
        BY <2>2, <3>1, <3>2, <3>11 DEF Aligned, s
      <4>5. Upto(p, m) \in Both(S, new)
        BY <3>1, <4>2, <4>3, <4>4, OpenFurther DEF y, v, c
      <4>6. Upto(p, m) \in Both(M, new)
        BY <3>1, <4>2, <4>4, OpenFurther DEF x, v, c
      <4>7. w[m] = f[Upto(p, m)] /\ z[m] = g[Upto(p, m)]
        BY <3>3, <3>8, <3>11, <4>5, <4>6 DEF Goes, c, s
      <4>8. BothOpen(m)
        BY <4>5, <4>6, <4>7 DEF BothOpen, Open, w, z
      <4> QED
        BY <4>1, <4>8
    <3> QED
      BY <3>7, <3>9, <3>10, <3>11 DEF Alongside
  <2> QED
    BY <1>7, <2>4, <2>5, <2>6
<1>8. Bad = {}
  <2> SUFFICES ASSUME Bad # {} PROVE FALSE
    OBVIOUS
  <2>1. Bad \in SUBSET Nat
    BY <1>1
  <2>2. PICK m \in Bad : \A k \in Bad : m <= k
    BY <2>1, LeastOne
  <2>3. m # 0
    <3>1. Status(0)
      BY <1>6
    <3> QED
      BY <2>2, <3>1
  <2>4. m \in 1..Len(p) /\ Behind(m) /\ ~ Status(m)
    BY <1>1, <2>2, <2>3
  <2>5. m - 1 \in 0..Len(p) /\ m - 1 \notin Bad /\ 1..(m - 1) \subseteq 1..m
    BY <1>1, <2>2, <2>4
  <2>6. Behind(m - 1)
    BY <2>4, <2>5
  <2>7. Status(m - 1)
    BY <2>5, <2>6
  <2> QED
    BY <1>7, <2>4, <2>7
<1>9. ASSUME NEW i \in 0..Len(p), Behind(i)
      PROVE  Alike(w[i], z[i], t(i))
  <2>1. Status(i)
    BY <1>8, <1>9
  <2>2. CASE w[i] = z[i]
    BY <2>2 DEF Alike, SameLength
  <2>3. CASE Ready(i) /\ w[i] = y[i] /\ z[i] = x[i]
    BY <1>4, <2>3
  <2>4. CASE Ready(i) /\ BothOpen(i)
    <3>1. Alike(GetAt(S, Upto(p, i)), GetAt(M, Upto(p, i)), t(i))
      BY <1>3, <1>4, <2>4
    <3>2. t(i) \in Nat
      BY <1>1
    <3>3. Alike(f[Upto(p, i)], g[Upto(p, i)], t(i))
      BY <1>5, <2>4, <3>1, <3>2, OpenAlike
    <3> QED
      BY <1>5, <2>4, <3>3
  <2> QED
    BY <2>1, <2>2, <2>3, <2>4
<1> QED
  BY <1>9 DEF AgreeOn, w, z, t

-----------------------------------------------------------------------------
(***************************************************************************)
(* What a typed patch does to the rest: the way along the path of a text   *)
(* of the shape, in the shape and in the value of the patch.               *)
(***************************************************************************)
LEMMA WithNullsWhole ==
  ASSUME NEW c, NEW s, Whole(c)
  PROVE  /\ Whole(WithNulls(c, s)) /\ WithNulls(c, s).kind = c.kind
         /\ Takes(c, s) => Holds(WithNulls(c, s), s)
         /\ \A t : Child(c, t) # Missing => Child(WithNulls(c, s), t) = Child(c, t)
<1>1. CASE ~ (c.kind = "array" /\ IsIndex(s))
  <2>1. WithNulls(c, s) = c
    BY <1>1 DEF WithNulls
  <2> QED
    BY <1>1, <2>1 DEF Takes, Holds
<1>2. CASE c.kind = "array" /\ IsIndex(s)
  <2> DEFINE n == Len(c.items)
             k == Indices[s] + 1
             m == IF k > n THEN k ELSE n
             list == [j \in 1..m |-> IF j <= n THEN c.items[j] ELSE Null]
             r == WithNulls(c, s)
  <2>1. r = Array(list)
    BY <1>2 DEF WithNulls, Resized
  <2>2. r.kind = "array" /\ r.items = list
    BY <2>1 DEF Array
  <2>3. n \in Nat /\ k \in Nat /\ k # 0 /\ Indices[s] < k
    BY <1>2, WholeItems, IndexFacts DEF IsIndex
  <2>4. \A j \in 1..n : j <= 8 => c.items[j] # Missing
    BY <1>2 DEF Whole
  <2>5. PICK U : c.items \in Seq(U)
    BY <1>2 DEF Whole
  <2>6. \A j \in 1..n : c.items[j] \in U
    BY <2>5, ElementOfSeq
  <2> HIDE DEF n, k, r
  <2>7. m \in Nat /\ m >= n /\ m >= k /\ list \in [1..m -> U \cup {Null}]
    BY <2>3, <2>6
  <2>8. list \in Seq(U \cup {Null})
    BY <2>7, SeqDef
  <2>9. Len(list) = m
    <3>1. DOMAIN list = 1..m /\ DOMAIN list = 1..Len(list) /\ Len(list) \in Nat
      BY <2>8, LenProperties
    <3> HIDE DEF list, m
    <3> QED
      BY <2>7, <3>1
  <2>10. Null # Missing
    BY DEF Null, Missing
  <2>11. Whole(r)
    <3>1. \A j \in 1..Len(list) : j <= 8 => list[j] # Missing
      BY <2>3, <2>4, <2>7, <2>9, <2>10
    <3> HIDE DEF list
    <3> QED
      BY <2>2, <2>8, <3>1 DEF Whole
  <2>12. Holds(r, s)
    BY <1>2, <2>2, <2>3, <2>7, <2>9, IndexFacts DEF Holds, IsIndex
  <2>13. ASSUME NEW t, Child(c, t) # Missing
         PROVE  Child(r, t) = Child(c, t)
    <3>1. IsIndex(t) /\ Indices[t] < n /\ Child(c, t) = c.items[Indices[t] + 1]
      BY <1>2, <2>13 DEF Child, n
    <3>2. Indices[t] \in Nat
      BY <3>1, IndexFacts DEF IsIndex
    <3>3. Indices[t] < m /\ list[Indices[t] + 1] = c.items[Indices[t] + 1]
      BY <2>3, <2>7, <3>1, <3>2
    <3> HIDE DEF list, m
    <3> QED
      BY <2>2, <2>9, <3>1, <3>3 DEF Child
  <2> QED
    BY <1>2, <2>2, <2>11, <2>12, <2>13 DEF r
<1> QED
  BY <1>1, <1>2

LEMMA ReplaceWhole ==
  ASSUME NEW c, NEW s, NEW x, Whole(c), x # Missing, Holds(c, s)
  PROVE  /\ Whole(Replace(c, s, x)) /\ Replace(c, s, x).kind = c.kind
         /\ \A t : Child(Replace(c, s, x), t) = IF Same(c, s, t) THEN x ELSE Child(c, t)
<1> DEFINE r == Replace(c, s, x)
<1>1. CASE c.kind = "object"
  <2> DEFINE f == [k \in DOMAIN c.fields \cup {s} |-> IF k = s THEN x ELSE c.fields[k]]
  <2>1. r.kind = "object" /\ r.fields = f
    BY <1>1 DEF Replace, Object
  <2>2. \A k \in DOMAIN f : f[k] # Missing
    BY <1>1 DEF Whole
  <2> HIDE DEF r
  <2>3. ASSUME NEW t PROVE Child(r, t) = IF s = t THEN x ELSE Child(c, t)
    <3>1. CASE t \in DOMAIN f
      BY <1>1, <2>1, <3>1 DEF Child
    <3>2. CASE t \notin DOMAIN f
      BY <1>1, <2>1, <3>2 DEF Child
    <3> QED
      BY <3>1, <3>2
  <2> HIDE DEF f
  <2> QED
    BY <1>1, <2>1, <2>2, <2>3 DEF Same, Whole, r
<1>2. CASE c.kind # "object"
  <2>1. c.kind = "array" /\ IsIndex(s) /\ Indices[s] < Len(c.items)
    BY <1>2 DEF Holds
  <2>2. PICK U : c.items \in Seq(U)
    BY <2>1 DEF Whole
  <2> DEFINE T == U \cup {x}
             n == Indices[s] + 1
             list == [c.items EXCEPT ![n] = x]
  <2>3. c.items \in Seq(T) /\ x \in T
    BY <2>2, SeqMonotonic
  <2>4. n \in 1..Len(c.items)
    BY <2>1, <2>2, IndexFacts, LenProperties DEF IsIndex
  <2>5. /\ list \in Seq(T) /\ Len(list) = Len(c.items)
        /\ \A j \in 1..Len(c.items) : list[j] = IF j = n THEN x ELSE c.items[j]
    <3> HIDE DEF T, n
    <3> QED
      BY <2>3, <2>4, ExceptSeq
  <2>6. r.kind = "array" /\ r.items = list
    BY <2>1 DEF Replace, Array
  <2>7. \A j \in 1..Len(c.items) : j <= 8 => c.items[j] # Missing
    BY <2>1 DEF Whole
  <2> HIDE DEF T, list, r
  <2>8. Whole(r)
    BY <2>5, <2>6, <2>7 DEF Whole
  <2>9. ASSUME NEW t PROVE Child(r, t) = IF Norm(s) = Norm(t) THEN x ELSE Child(c, t)
    <3>1. CASE Norm(s) = Norm(t)
      <4>1. IsIndex(t) /\ Indices[t] = Indices[s]
        BY <2>1, <3>1, NormEqual
      <4> QED
        BY <2>1, <2>4, <2>5, <2>6, <3>1, <4>1 DEF Child
    <3>2. CASE Norm(s) # Norm(t) /\ IsIndex(t) /\ Indices[t] < Len(c.items)
      <4>1. Indices[t] # Indices[s]
        BY <2>1, <3>2, IndexFacts DEF Norm, IsIndex
      <4>2. Indices[t] \in Nat /\ Indices[s] \in Nat /\ Len(c.items) \in Nat
        BY <2>1, <2>2, <3>2, IndexFacts, LenProperties DEF IsIndex
      <4>3. Indices[t] + 1 \in 1..Len(c.items) /\ Indices[t] + 1 # n
        BY <3>2, <4>1, <4>2
      <4>4. list[Indices[t] + 1] = c.items[Indices[t] + 1]
        BY <2>5, <4>3
      <4> QED
        BY <2>1, <2>5, <2>6, <3>2, <4>4 DEF Child
    <3>3. CASE Norm(s) # Norm(t) /\ ~ (IsIndex(t) /\ Indices[t] < Len(c.items))
      BY <2>1, <2>5, <2>6, <3>3 DEF Child
    <3> QED
      BY <3>1, <3>2, <3>3
  <2> QED
    BY <1>2, <2>1, <2>6, <2>8, <2>9 DEF Same, r
<1> QED
  BY <1>1, <1>2

\* From where they meet, two values are the same along p.
LEMMA AlikeBeyond ==
  ASSUME NEW v, NEW u, NEW S, NEW p \in Seq(S), NEW m \in 0..Len(p), Walk(v, p)[m] = Walk(u, p)[m]
  PROVE  \A i \in m..Len(p) : Walk(v, p)[i] = Walk(u, p)[i]
<1> SUFFICES ASSUME NEW i \in m..Len(p) PROVE Walk(v, p)[i] = Walk(u, p)[i]
  OBVIOUS
<1> DEFINE f == Upto(p, i)
<1>1. i \in 0..Len(p) /\ m \in 0..i
  BY LenProperties
<1>2. f \in Seq(S) /\ Len(f) = i
  BY <1>1, UptoPoints
<1>3. /\ GetAt(v, f) = Walk(v, p)[i] /\ Walk(v, f)[m] = Walk(v, p)[m]
      /\ GetAt(u, f) = Walk(u, p)[i] /\ Walk(u, f)[m] = Walk(u, p)[m]
  BY <1>1, WalkUpto
<1> HIDE DEF f
<1>4. GetAt(v, f) = GetAt(u, f)
  BY <1>1, <1>2, <1>3, WalksMeet
<1> QED
  BY <1>3, <1>4

\* v has a text at p, in containers that are whole.
OnText(v, p) ==
    /\ IsPath(p)
    /\ \A i \in 1..Len(p) :
          /\ Walk(v, p)[i - 1].kind \in {"object", "array"}
          /\ Walk(v, p)[i - 1].kind = "array" => IsIndex(p[i]) /\ CanonicalIndex(p[i]) = p[i]
    /\ Walk(v, p)[Len(p)].kind = "string"
    /\ \A i \in 0..Len(p) : Whole(Walk(v, p)[i])

\* As far as the path q of a write leads along p, it is looked up, and written, in the
\* containers the shape v has there.
LEMMA ShapeOnTheWay ==
  ASSUME NEW v, NEW p, OnText(v, p), NEW explicit, NEW S, NEW path \in Seq(S), path # <<>>, NEW q, NEW arrays,
         IsCanonical(v, explicit, path, q, arrays),
         NEW n \in 1..Len(path), n - 1 <= Len(p), \A i \in 1..(n - 1) : p[i] = q[i]
  PROVE  \A k \in 1..n : /\ ShapesAlong(v, path, explicit)[k] = Walk(v, p)[k - 1]
                         /\ ShapedContainers(v, v, q, arrays)[k].value = WithNulls(Walk(v, p)[k - 1], q[k])
<1> DEFINE on == ShapesAlong(v, path, explicit)
           way == ShapedContainers(v, v, q, arrays)
           w == Walk(v, p)
           Bad == {k \in 1..n : ~ (on[k] = w[k - 1] /\ way[k].value = WithNulls(w[k - 1], q[k]))}
<1>1. PICK R : p \in Seq(R)
  BY DEF OnText, IsPath
<1>2. PICK T : q \in Seq(T)
  BY DEF IsCanonical, IsPath
<1>3. Len(q) = Len(path) /\ \A i \in 1..Len(path) : Child(on[i], q[i]) = Child(on[i], path[i])
  BY DEF IsCanonical
<1>4. Len(path) \in Nat \ {0} /\ Len(p) \in Nat
  BY <1>1, EmptySeq, LenProperties
<1>5. q # <<>>
  BY <1>3, <1>4, EmptySeq
<1>6. on[1] = v /\ \A i \in 2..Len(path) : on[i] = PatchTurn("shape", path, explicit, on[i - 1], i)
  BY ShapesSteps
<1>7. way[1] = [value |-> WithNulls(v, q[1]), shape |-> v]
      /\ \A i \in 2..Len(q) : way[i] = PatchTurn("value", q, arrays, way[i - 1], i)
  BY <1>2, <1>5, ShapedSteps
<1>8. w[0] = v /\ \A i \in 1..Len(p) : w[i] = Child(w[i - 1], p[i])
  BY <1>1, WalkSteps
<1>9. \A i \in 0..Len(p) : Whole(w[i]) /\ w[i] \notin {Missing, Null}
  <2> SUFFICES ASSUME NEW i \in 0..Len(p) PROVE w[i].kind \in {"object", "array", "string"}
    BY KindsApart DEF OnText
  <2>1. i # Len(p) => i + 1 \in 1..Len(p) /\ (i + 1) - 1 = i
    BY <1>4
  <2> QED
    BY <2>1 DEF OnText
<1> HIDE DEF on, way, w
<1>10. ASSUME NEW k \in 2..n, on[k - 1] = w[k - 2], way[k - 1].value = WithNulls(w[k - 2], q[k - 1])
       PROVE  on[k] = w[k - 1] /\ way[k].value = WithNulls(w[k - 1], q[k])
  <2>1. k \in 2..Len(path) /\ k - 1 \in 1..Len(p) /\ k - 1 \in 1..Len(path) /\ (k - 1) - 1 = k - 2
        /\ k - 2 \in 0..Len(p) /\ k - 1 \in 0..Len(p) /\ k - 1 \in 1..(n - 1)
    BY <1>4
  <2>2. w[k - 1] = Child(w[k - 2], q[k - 1]) /\ w[k - 1] \notin {Missing, Null}
    BY <1>8, <1>9, <2>1
  <2>3. Child(on[k - 1], path[k - 1]) = w[k - 1]
    BY <1>3, <1>10, <2>1, <2>2
  <2>4. on[k] = w[k - 1]
    BY <1>6, <2>1, <2>2, <2>3 DEF PatchTurn
  <2>8. way[k] = PatchTurn("value", q, arrays, way[k - 1], k)
    BY <1>3, <1>7, <2>1
  <2>5. PICK empty : way[k].value = WithNulls(OrEmpty(Child(way[k - 1].value, q[k - 1]), way[k - 1].value.kind = "array", empty), q[k])
    BY <2>8, ValueTurn
  <2>6. Child(way[k - 1].value, q[k - 1]) = w[k - 1]
    BY <1>9, <1>10, <2>1, <2>2, WithNullsWhole
  <2>7. OrEmpty(w[k - 1], way[k - 1].value.kind = "array", empty) = w[k - 1]
    BY <2>2 DEF OrEmpty
  <2> QED
    BY <2>4, <2>5, <2>6, <2>7
<1>11. Bad = {}
  <2> SUFFICES ASSUME Bad # {} PROVE FALSE
    OBVIOUS
  <2>1. Bad \in SUBSET Nat
    OBVIOUS
  <2>2. PICK k \in Bad : \A i \in Bad : k <= i
    <3> HIDE DEF Bad
    <3> QED
      BY <2>1, LeastOne
  <2>3. way[1].value = WithNulls(v, q[1])
    BY <1>7
  <2>4. on[1] = w[1 - 1] /\ way[1].value = WithNulls(w[1 - 1], q[1])
    BY <1>6, <1>8, <2>3
  <2>5. k \in 2..n /\ k - 1 \in 1..n /\ (k - 1) - 1 = k - 2
    BY <2>4
  <2>6. k - 1 \notin Bad
    BY <2>2, <2>5
  <2>7. on[k - 1] = w[k - 2] /\ way[k - 1].value = WithNulls(w[k - 2], q[k - 1])
    BY <2>5, <2>6
  <2> QED
    BY <1>10, <2>5, <2>7
<1> QED
  BY <1>11 DEF on, way, w

\* p parts from q at its m-th segment.
PartedAt(p, q, m) == m \in 1..Len(p) /\ m <= Len(q) /\ p[m] # q[m] /\ \A i \in 1..(m - 1) : p[i] = q[i]

\* Writing into the shape leaves what is on the way to one of its texts, unless the text
\* is written; and the write takes it for what it is there.
LEMMA ShapeWritten ==
  ASSUME NEW v, v.kind = "object", NEW p, OnText(v, p), NEW explicit, NEW S, NEW path \in Seq(S), path # <<>>,
         NEW q, NEW arrays, IsCanonical(v, explicit, path, q, arrays), NEW x, x # Missing,
         InsertShaped(v, v, q, arrays, x) # Conflict, ~ IsPrefix(q, p)
  PROVE  LET r == InsertShaped(v, v, q, arrays, x)
         IN  /\ SameKinds(r, v, p) /\ OnText(r, p)
             /\ \E m : /\ PartedAt(p, q, m)
                       /\ \A k \in 1..m : k \in arrays <=> Walk(v, p)[k - 1].kind = "array"
<1> DEFINE r == InsertShaped(v, v, q, arrays, x)
           on == ShapesAlong(v, path, explicit)
           way == ShapedContainers(v, v, q, arrays)
           c == [i \in DOMAIN q |-> way[i].value]
           g == Filled(c, q, x)
           w == Walk(v, p)
           u == Walk(r, p)
<1>1. PICK R : p \in Seq(R)
  BY DEF OnText, IsPath
<1>2. PICK T : q \in Seq(T)
  BY DEF IsCanonical, IsPath
<1>3. Len(q) = Len(path) /\ Len(path) \in Nat \ {0} /\ Len(p) \in Nat /\ DOMAIN q = 1..Len(q)
  BY <1>1, <1>2, EmptySeq, LenProperties DEF IsCanonical
<1>4. q # <<>>
  BY <1>3, EmptySeq
<1>5. ~ \E i \in DOMAIN q : UnfitShaped(way[i], q, arrays, i)
  BY DEF InsertShaped, FilledShaped
<1>6. r = g[1]
  BY <1>5 DEF InsertShaped, FilledShaped
<1>7. \A i \in 1..Len(q) : Takes(way[i].value, q[i])
  BY <1>3, <1>5 DEF UnfitShaped
<1>8. g[Len(q)] = Replace(c[Len(q)], q[Len(q)], x) /\ \A i \in 1..(Len(q) - 1) : g[i] = Replace(c[i], q[i], g[i + 1])
  BY <1>2, <1>4, FilledSteps
<1>9. \A i \in 1..Len(q) : c[i] = way[i].value
  BY <1>3
<1>10. /\ w[0] = v /\ \A i \in 1..Len(p) : w[i] = Child(w[i - 1], p[i])
       /\ u[0] = r /\ \A i \in 1..Len(p) : u[i] = Child(u[i - 1], p[i])
  BY <1>1, WalkSteps
<1>11. /\ \A i \in 1..Len(p) : /\ w[i - 1].kind \in {"object", "array"}
                               /\ w[i - 1].kind = "array" => IsIndex(p[i]) /\ CanonicalIndex(p[i]) = p[i]
       /\ w[Len(p)].kind = "string"
       /\ \A i \in 0..Len(p) : Whole(w[i])
  BY DEF OnText
<1>12. \A i \in 1..Len(path) : /\ IsIndex(q[i]) <=> IsIndex(path[i])
                               /\ i \in arrays <=> on[i].kind = "array" /\ IsIndex(path[i])
                               /\ i \in arrays => IsIndex(q[i]) /\ CanonicalIndex(q[i]) = q[i]
  BY DEF IsCanonical
<1>13. \A n \in 1..Len(path) : n - 1 <= Len(p) /\ (\A i \in 1..(n - 1) : p[i] = q[i]) =>
          \A k \in 1..n : on[k] = w[k - 1] /\ way[k].value = WithNulls(w[k - 1], q[k])
  BY ShapeOnTheWay
<1> HIDE DEF r, on, way, c, g, w, u
<1>14. ~ IsPrefix(p, q)
  <2> SUFFICES ASSUME IsPrefix(p, q) PROVE FALSE
    OBVIOUS
  <2>1. p \in Seq(R \cup T) /\ q \in Seq(R \cup T)
    BY <1>1, <1>2, SeqMonotonic
  <2>2. Len(p) <= Len(q) /\ \A i \in 1..Len(p) : p[i] = q[i]
    BY <2>1, PrefixPoints
  <2>3. Len(p) # Len(q)
    <3> SUFFICES ASSUME Len(p) = Len(q) PROVE FALSE
      OBVIOUS
    <3>1. Len(q) <= Len(p) /\ \A i \in 1..Len(q) : q[i] = p[i]
      BY <2>2
    <3> QED
      BY <2>1, <3>1, PrefixPoints
  <2> DEFINE n == Len(p) + 1
  <2>4. n \in 1..Len(path) /\ n - 1 = Len(p) /\ n \in 1..n
    BY <1>3, <2>2, <2>3
  <2>5. way[n].value = WithNulls(w[Len(p)], q[n])
    BY <1>13, <2>2, <2>4
  <2>6. way[n].value.kind = "string"
    BY <1>3, <1>11, <2>5, WithNullsWhole
  <2> QED
    BY <1>3, <1>7, <2>4, <2>6 DEF Takes
<1>15. PICK m \in 1..Len(p) : m <= Len(q) /\ q[m] # p[m] /\ \A i \in 1..(m - 1) : q[i] = p[i]
  <2>1. IsPath(p) /\ IsPath(q)
    BY <1>1, <1>2 DEF IsPath
  <2> QED
    BY <1>14, <2>1, PathsPart
<1>16. PartedAt(p, q, m)
  BY <1>15 DEF PartedAt
<1>17. \A k \in 1..m : k \in 1..Len(q) /\ k \in 1..Len(p) /\ k - 1 \in 0..Len(p) /\ k \in 1..Len(path)
  BY <1>3, <1>15
<1>18. \A k \in 1..m : on[k] = w[k - 1] /\ way[k].value = WithNulls(w[k - 1], q[k])
  <2>1. m \in 1..Len(path) /\ m - 1 <= Len(p) /\ \A i \in 1..(m - 1) : p[i] = q[i]
    BY <1>3, <1>15
  <2> QED
    BY <1>13, <2>1
<1>19. ASSUME NEW k \in 1..m
       PROVE  /\ Whole(w[k - 1]) /\ c[k] = WithNulls(w[k - 1], q[k]) /\ Whole(c[k]) /\ c[k].kind = w[k - 1].kind
              /\ Holds(c[k], q[k]) /\ \A t : Child(w[k - 1], t) # Missing => Child(c[k], t) = Child(w[k - 1], t)
  <2>1. Whole(w[k - 1]) /\ c[k] = WithNulls(w[k - 1], q[k]) /\ Takes(c[k], q[k])
    BY <1>7, <1>9, <1>11, <1>17, <1>18
  <2>2. c[k].kind = w[k - 1].kind
    BY <2>1, WithNullsWhole
  <2>3. Takes(w[k - 1], q[k])
    BY <2>1, <2>2 DEF Takes
  <2> QED
    BY <2>1, <2>3, WithNullsWhole
<1>20. \A k \in 1..m : k \in arrays <=> w[k - 1].kind = "array"
  BY <1>7, <1>9, <1>12, <1>17, <1>18, <1>19 DEF Takes
<1>21. ASSUME NEW k \in 1..m
       PROVE  \E y : /\ Whole(g[k]) /\ g[k].kind = w[k - 1].kind /\ (k < Len(q) => y = g[k + 1])
                     /\ \A t : Child(g[k], t) = IF Same(c[k], q[k], t) THEN y ELSE Child(c[k], t)
  <2> DEFINE y == IF k = Len(q) THEN x ELSE g[k + 1]
  <2>1. g[k] = Replace(c[k], q[k], y)
    <3>1. k \in 1..Len(q) /\ Len(q) \in Nat
      BY <1>3, <1>17
    <3>2. k # Len(q) => k \in 1..(Len(q) - 1)
      BY <3>1
    <3> QED
      BY <1>8, <3>2
  <2>2. y # Missing
    <3>1. CASE k = Len(q)
      BY <3>1
    <3>2. CASE k # Len(q)
      <4>1. \E a, b, d : g[k + 1] = Replace(a, b, d)
        <5>1. k \in 1..Len(q) /\ Len(q) \in Nat
          BY <1>3, <1>17
        <5>2. k + 1 = Len(q) \/ k + 1 \in 1..(Len(q) - 1)
          BY <3>2, <5>1
        <5> QED
          BY <1>8, <5>2
      <4>2. g[k + 1].kind \in {"object", "array"}
        BY <4>1 DEF Replace, Object, Array
      <4> QED
        BY <3>2, <4>2, KindsApart
    <3> QED
      BY <3>1, <3>2
  <2>3. k < Len(q) => y = g[k + 1]
    BY <1>17
  <2> HIDE DEF y
  <2>4. /\ Whole(Replace(c[k], q[k], y)) /\ Replace(c[k], q[k], y).kind = c[k].kind
        /\ \A t : Child(Replace(c[k], q[k], y), t) = IF Same(c[k], q[k], t) THEN y ELSE Child(c[k], t)
    BY <1>19, <2>2, ReplaceWhole
  <2> QED
    BY <1>19, <2>1, <2>3, <2>4
<1> DEFINE Bad == {k \in 1..m : u[k - 1] # g[k]}
<1>22. Bad = {}
  <2> SUFFICES ASSUME Bad # {} PROVE FALSE
    OBVIOUS
  <2>1. Bad \in SUBSET Nat
    OBVIOUS
  <2>2. PICK k \in Bad : \A i \in Bad : k <= i
    <3> HIDE DEF Bad
    <3> QED
      BY <2>1, LeastOne
  <2>3. u[1 - 1] = g[1]
    BY <1>6, <1>10
  <2>4. k \in 2..m /\ k - 1 \in 1..m /\ (k - 1) - 1 = k - 2 /\ k - 1 \in 1..(m - 1) /\ (k - 1) + 1 = k /\ k - 1 \in 1..Len(p)
        /\ k - 1 < Len(q)
    BY <1>15, <2>3
  <2>5. u[k - 2] = g[k - 1]
    <3>1. k - 1 \notin Bad
      BY <2>2, <2>4
    <3> QED
      BY <2>4, <3>1
  <2>6. Child(g[k - 1], q[k - 1]) = g[k]
    BY <1>21, <2>4 DEF Same
  <2>7. u[k - 1] = Child(u[k - 2], p[k - 1]) /\ p[k - 1] = q[k - 1]
    BY <1>10, <1>15, <2>4
  <2> QED
    BY <2>5, <2>6, <2>7
<1>23. u[m] = w[m]
  <2>1. m \in 1..m /\ m \in 1..Len(p) /\ m \in 1..Len(path)
    BY <1>17
  <2>2. u[m] = Child(g[m], p[m])
    BY <1>10, <1>22, <2>1
  <2>3. ~ Same(c[m], q[m], p[m])
    <3>1. CASE c[m].kind = "object"
      BY <1>15, <3>1 DEF Same
    <3>2. CASE c[m].kind = "array"
      <4>1. m \in arrays /\ w[m - 1].kind = "array"
        BY <1>19, <1>20, <2>1, <3>2
      <4>2. IsIndex(q[m]) /\ CanonicalIndex(q[m]) = q[m] /\ IsIndex(p[m]) /\ CanonicalIndex(p[m]) = p[m]
        BY <1>11, <1>12, <2>1, <4>1
      <4> QED
        BY <1>15, <3>2, <4>2 DEF Same, Norm
    <3> QED
      BY <1>11, <1>19, <2>1, <3>1, <3>2
  <2>4. u[m] = Child(c[m], p[m])
    BY <1>21, <2>1, <2>2, <2>3
  <2>5. w[m] = Child(w[m - 1], p[m])
    BY <1>10, <2>1
  <2>6. w[m] # Missing
    <3>1. m = Len(p) \/ (m + 1 \in 1..Len(p) /\ (m + 1) - 1 = m)
      BY <1>3, <1>15
    <3>2. w[m].kind \in {"object", "array", "string"}
      BY <1>11, <3>1
    <3> QED
      BY <3>2, KindsApart
  <2> QED
    BY <1>19, <2>1, <2>4, <2>5, <2>6
<1>24. \A i \in m..Len(p) : u[i] = w[i]
  <2>1. m \in 0..Len(p)
    BY <1>15
  <2> QED
    BY <1>1, <1>23, <2>1, AlikeBeyond DEF u, w
<1>25. \A i \in 0..Len(p) : u[i].kind = w[i].kind /\ Whole(u[i])
  <2> SUFFICES ASSUME NEW i \in 0..Len(p) PROVE u[i].kind = w[i].kind /\ Whole(u[i])
    OBVIOUS
  <2>1. CASE i < m
    <3>1. i + 1 \in 1..m /\ (i + 1) - 1 = i
      BY <1>15, <2>1
    <3> QED
      BY <1>21, <1>22, <3>1
  <2>2. CASE m <= i
    BY <1>11, <1>15, <1>24, <2>2
  <2> QED
    BY <1>15, <2>1, <2>2
<1>26. SameKinds(r, v, p)
  BY <1>25 DEF SameKinds, u, w
<1>27. OnText(r, p)
  <2>1. \A i \in 1..Len(p) : i - 1 \in 0..Len(p)
    OBVIOUS
  <2>2. Len(p) \in 0..Len(p)
    BY <1>3
  <2> QED
    BY <1>1, <1>11, <1>25, <2>1, <2>2 DEF OnText, IsPath, u
<1> QED
  BY <1>16, <1>20, <1>26, <1>27 DEF r, w

\* A container of a write has what was there, and nulls in front of an element.
IsPadded(c, o) ==
    /\ o \notin {Missing, Null} => c.kind = o.kind
    /\ \A t : \/ Child(c, t) = Child(o, t)
              \/ Child(o, t) = Missing /\ Child(c, t) = Null /\ c.kind = "array"

LEMMA WriteNulls ==
  ASSUME NEW v, IsTree(v), NEW T, NEW q \in Seq(T), q # <<>>, NEW arrays, NEW c, IsWrite(v, q, arrays, c),
         NEW S, NEW e \in Seq(S), NEW k \in 1..Len(q), k - 1 <= Len(e), \A i \in 1..(k - 1) : e[i] = q[i]
  PROVE  IsPadded(c[k], Walk(v, e)[k - 1])
<1> DEFINE w == Walk(v, e)
           o == w[k - 1]
<1>1. \A n \in 1..k : n - 1 <= Len(e) /\ (\A i \in 1..(n - 1) : Same(c[i], q[i], e[i])) /\ n \in 1..Len(q)
  <2>1. Len(q) \in Nat /\ Len(e) \in Nat
    BY LenProperties
  <2> QED
    BY <2>1 DEF Same
<1>2. \A n \in 1..k : IsGrown(c[n], w[n - 1])
  <2>1. IsPath(e)
    BY DEF IsPath
  <2>2. GrowsAlong(v, q, c)
    BY WriteGrows
  <2> QED
    BY <1>1, <2>1, <2>2 DEF GrowsAlong
<1>3. w[0] = v /\ \A i \in 1..Len(e) : w[i] = Child(w[i - 1], e[i])
  BY WalkSteps
<1>4. /\ c[1] = WithNulls(v, q[1])
      /\ \A i \in 2..Len(q) : \E empty \in {Array(<<>>), EmptyObject} :
            c[i] = WithNulls(OrEmpty(Child(c[i - 1], q[i - 1]), c[i - 1].kind = "array", empty), q[i])
      /\ \A i \in 1..Len(q) : IsTree(c[i])
  BY DEF IsWrite
<1> HIDE DEF w
<1>5. o \notin {Missing, Null} => c[k].kind = o.kind
  BY <1>2 DEF IsGrown
<1>6. \E made : IsTree(made) /\ c[k] = WithNulls(made, q[k]) /\ \A t : Child(made, t) = Child(o, t)
  <2>1. CASE k = 1
    BY <1>3, <1>4, <2>1
  <2>2. CASE k # 1
    <3> DEFINE old == Child(c[k - 1], q[k - 1])
    <3>1. k \in 2..Len(q) /\ k - 1 \in 1..k /\ k - 1 \in 1..(k - 1) /\ k - 1 \in 1..Len(e) /\ (k - 1) - 1 = k - 2
          /\ k - 1 \in 1..Len(q)
      <4>1. Len(q) \in Nat /\ Len(e) \in Nat
        BY LenProperties
      <4> QED
        BY <2>2, <4>1
    <3>2. PICK empty \in {Array(<<>>), EmptyObject} :
             c[k] = WithNulls(OrEmpty(old, c[k - 1].kind = "array", empty), q[k])
      BY <1>4, <3>1
    <3>3. e[k - 1] = q[k - 1] /\ o = Child(w[k - 2], q[k - 1])
      BY <1>3, <3>1
    <3>4. IsGrown(c[k - 1], w[k - 2])
      BY <1>2, <3>1
    <3>5. old = o \/ (o = Missing /\ old \in {Null, EmptyObject, Array(<<>>)})
      BY <3>3, <3>4 DEF IsGrown
    <3>6. IsTree(old)
      BY <1>4, <3>1, ChildTree
    <3> HIDE DEF old, o
    <3> DEFINE made == OrEmpty(old, c[k - 1].kind = "array", empty)
    <3>7. made = o \/ (o \in {Missing, Null} /\ made \in {Null, EmptyObject, Array(<<>>)})
      BY <3>5 DEF OrEmpty
    <3>8. made \in {old, empty} /\ IsTree(made)
      BY <3>6, EmptyTrees DEF OrEmpty
    <3>9. c[k] = WithNulls(made, q[k])
      BY <3>2
    <3> HIDE DEF made
    <3>10. \A t : Child(made, t) = Child(o, t)
      BY <3>7, ChildOfNothing, EmptyInside
    <3> QED
      BY <3>8, <3>9, <3>10
  <2> QED
    BY <2>1, <2>2
<1>7. PICK made : IsTree(made) /\ c[k] = WithNulls(made, q[k]) /\ \A t : Child(made, t) = Child(o, t)
  BY <1>6
<1>8. \A t : \/ Child(c[k], t) = Child(o, t)
             \/ Child(o, t) = Missing /\ Child(c[k], t) = Null /\ c[k].kind = "array"
  BY <1>7, WithNullsFacts
<1> QED
  BY <1>5, <1>8 DEF IsPadded, w

\* What v has at the i-th segment of p: nothing, a null in front of an element one of the
\* writes made, or a container on the way to something written, of the kind S has there.
Reached(v, claimed, S, p, i) ==
    LET x == Walk(v, p)[i]
    IN  \/ x = Missing
        \/ /\ x = Null /\ Walk(v, p)[i - 1].kind = "array"
           /\ \E e \in claimed : i <= Len(e) /\ IsIndex(e[i]) /\ \A j \in 1..(i - 1) : e[j] = p[j]
        \/ /\ i < Len(p) /\ x.kind = Walk(S, p)[i].kind
           /\ \E e \in claimed : i < Len(e) /\ \A j \in 1..i : e[j] = p[j]

Behaves(v, claimed, S, p) == \A i \in 1..Len(p) : Reached(v, claimed, S, p, i)

\* One more write, that parts from p somewhere.
LEMMA ValueWritten ==
  ASSUME NEW v, IsTree(v), v.kind = "object", NEW T, NEW q \in Seq(T), q # <<>>, NEW arrays, NEW c,
         IsWrite(v, q, arrays, c), NEW x, IsValue(x), NEW S, NEW p, OnText(S, p), NEW m, PartedAt(p, q, m),
         \A k \in 1..m : k \in arrays <=> Walk(S, p)[k - 1].kind = "array",
         \A i \in arrays : CanonicalIndex(q[i]) = q[i],
         NEW claimed, Behaves(v, claimed, S, p)
  PROVE  Behaves(Filled(c, q, x)[1], claimed \cup {q}, S, p)
<1> DEFINE r == Filled(c, q, x)[1]
           w == Walk(v, p)
           u == Walk(r, p)
           s == Walk(S, p)
<1>1. PICK R : p \in Seq(R)
  BY DEF OnText, IsPath
<1>2. Len(q) \in Nat /\ Len(p) \in Nat /\ m \in 1..Len(p) /\ m <= Len(q) /\ p[m] # q[m] /\ \A i \in 1..(m - 1) : p[i] = q[i]
  BY <1>1, LenProperties DEF PartedAt
<1>3. /\ w[0] = v /\ \A i \in 1..Len(p) : w[i] = Child(w[i - 1], p[i])
      /\ u[0] = r /\ \A i \in 1..Len(p) : u[i] = Child(u[i - 1], p[i])
  BY <1>1, WalkSteps
<1>4. \A i \in 1..Len(p) : /\ s[i - 1].kind \in {"object", "array"}
                           /\ s[i - 1].kind = "array" => IsIndex(p[i]) /\ CanonicalIndex(p[i]) = p[i]
  BY DEF OnText
<1>5. \A k \in 1..m : k \in 1..Len(q) /\ k \in 1..Len(p) /\ k - 1 <= Len(p) /\ \A i \in 1..(k - 1) : p[i] = q[i]
  BY <1>2
<1>6. \A k \in 1..m : IsMade(c[k], q[k], u[k - 1])
  BY <1>1, <1>5, WriteWay
<1>7. \A k \in 1..m : IsPadded(c[k], w[k - 1])
  BY <1>1, <1>5, WriteNulls
<1>8. \A k \in 1..Len(q) : c[k].kind \in {"object", "array"} /\ Holds(c[k], q[k])
  BY DEF IsWrite
<1>9. \A k \in 2..m : c[k].kind = "array" <=> s[k - 1].kind = "array"
  BY <1>2 DEF IsWrite
<1>10. c[1].kind = "object"
  BY WithNullsFacts DEF IsWrite
<1>11. \A i \in 1..Len(p) : Reached(v, claimed, S, p, i)
  BY DEF Behaves
<1>12. \A i \in m..Len(p) : w[m] = u[m] => u[i] = w[i]
  <2>1. m \in 0..Len(p)
    BY <1>2
  <2> QED
    BY <1>1, <2>1, AlikeBeyond
<1>13. m < Len(p) => \A i \in (m + 1)..Len(p) : w[m + 1] = u[m + 1] => u[i] = w[i]
  <2> SUFFICES ASSUME m < Len(p) PROVE \A i \in (m + 1)..Len(p) : w[m + 1] = u[m + 1] => u[i] = w[i]
    OBVIOUS
  <2>1. m + 1 \in 0..Len(p)
    BY <1>2
  <2> QED
    BY <1>1, <2>1, AlikeBeyond
<1> HIDE DEF w, u, r, s
<1>14. ~ Same(c[m], q[m], p[m])
  <2>1. m \in 1..m /\ m \in 1..Len(q) /\ m \in 1..Len(p)
    BY <1>2
  <2>2. CASE c[m].kind = "object"
    BY <1>2, <2>2 DEF Same
  <2>3. CASE c[m].kind = "array"
    <3>1. m \in 2..m
      BY <1>2, <1>10, <2>3
    <3>2. s[m - 1].kind = "array" /\ m \in arrays
      BY <1>9, <2>1, <2>3, <3>1 DEF s
    <3>3. IsIndex(q[m]) /\ CanonicalIndex(q[m]) = q[m]
      BY <1>8, <2>1, <2>3, <3>2 DEF Holds
    <3>4. IsIndex(p[m]) /\ CanonicalIndex(p[m]) = p[m]
      BY <1>4, <2>1, <3>2
    <3> QED
      BY <1>2, <2>3, <3>3, <3>4 DEF Same, Norm
  <2> QED
    BY <1>8, <2>1, <2>2, <2>3
<1>15. u[m] = w[m] \/ (w[m] = Missing /\ u[m] = Null /\ c[m].kind = "array")
  <2>1. m \in 1..m /\ m \in 1..Len(p)
    BY <1>2
  <2>2. u[m] = Child(c[m], p[m])
    BY <1>3, <1>6, <1>14, <2>1 DEF IsMade
  <2>3. w[m] = Child(w[m - 1], p[m])
    BY <1>3, <2>1
  <2> QED
    BY <1>7, <2>1, <2>2, <2>3 DEF IsPadded
<1>16. \A k \in 1..m : u[k - 1].kind = c[k].kind
  BY <1>6 DEF IsMade
<1>17. \A i \in (m + 1)..Len(p) : u[i] = w[i] /\ (w[i] # Missing => u[i - 1] = w[i - 1])
  <2> SUFFICES ASSUME NEW i \in (m + 1)..Len(p) PROVE u[i] = w[i] /\ (w[i] # Missing => u[i - 1] = w[i - 1])
    OBVIOUS
  <2>1. CASE u[m] = w[m]
    <3>1. i \in m..Len(p) /\ i - 1 \in m..Len(p)
      BY <1>2
    <3> QED
      BY <1>12, <2>1, <3>1
  <2>2. CASE w[m] = Missing /\ u[m] = Null
    <3>1. m < Len(p) /\ m + 1 \in 1..Len(p) /\ (m + 1) - 1 = m
      BY <1>2
    <3>2. w[m + 1] = Missing /\ u[m + 1] = Missing
      BY <1>3, <2>2, <3>1, ChildOfNothing
    <3>3. \A j \in (m + 1)..Len(p) : u[j] = w[j]
      BY <1>13, <3>1, <3>2
    <3>4. i = m + 1 \/ (i - 1 \in (m + 1)..Len(p))
      BY <1>2
    <3> QED
      BY <3>2, <3>3, <3>4
  <2> QED
    BY <1>15, <2>1, <2>2
<1> SUFFICES ASSUME NEW i \in 1..Len(p) PROVE Reached(r, claimed \cup {q}, S, p, i)
  BY DEF Behaves, r
<1>18. CASE i < m
  <2>1. i + 1 \in 1..m /\ i + 1 \in 2..m /\ (i + 1) - 1 = i /\ i + 1 \in 1..Len(p) /\ i + 1 \in 1..Len(q) /\ i < Len(p) /\ i < Len(q)
    BY <1>2, <1>18
  <2>2. u[i].kind = s[i].kind
    BY <1>4, <1>8, <1>9, <1>16, <2>1
  <2>3. \A j \in 1..i : q[j] = p[j]
    BY <1>2, <1>18
  <2> QED
    BY <2>1, <2>2, <2>3 DEF Reached, u, s
<1>19. CASE u[i] = w[i] /\ (w[i] # Missing => u[i - 1].kind = w[i - 1].kind \/ w[i - 1] \in {Missing, Null})
  <2>1. Reached(v, claimed, S, p, i)
    BY <1>11
  <2>2. Null.kind # "array" /\ Missing.kind # "array"
    BY DEF Null, Missing
  <2> QED
    BY <1>19, <2>1, <2>2 DEF Reached, u, w
<1>20. CASE i = m
  <2>1. m \in 1..m /\ m \in 1..Len(p) /\ m \in 1..Len(q)
    BY <1>2
  <2>2. CASE u[m] = w[m]
    <3>1. w[m - 1] \notin {Missing, Null} => u[m - 1].kind = w[m - 1].kind
      BY <1>7, <1>16, <2>1 DEF IsPadded
    <3> QED
      BY <1>19, <1>20, <2>2, <3>1
  <2>3. CASE u[m] = Null /\ c[m].kind = "array"
    <3>1. u[m - 1].kind = "array" /\ IsIndex(q[m])
      BY <1>8, <1>16, <2>1, <2>3 DEF Holds
    <3> QED
      BY <1>2, <1>20, <2>3, <3>1 DEF Reached, u
  <2> QED
    BY <1>15, <2>2, <2>3
<1>21. CASE m < i
  <2>1. i \in (m + 1)..Len(p)
    BY <1>2, <1>21
  <2> QED
    BY <1>17, <1>19, <2>1
<1> QED
  BY <1>2, <1>18, <1>20, <1>21

\* The builder b has written p or something it is in, or it has left what the shape S has
\* on the way to p, and written nothing but what takes it for what it is.
Follows(b, S, p) ==
    \/ \E e \in ClaimedPaths(b.layer) : IsPrefix(e, p)
    \/ /\ SameKinds(b.shape, S, p) /\ OnText(b.shape, p)
       /\ Behaves(b.layer.value, ClaimedPaths(b.layer), b.shape, p)

LEMMA BehavesAlike ==
  ASSUME NEW v, NEW claimed, NEW S, NEW R, NEW p, Len(p) \in Nat, SameKinds(R, S, p), Behaves(v, claimed, S, p)
  PROVE  Behaves(v, claimed, R, p)
<1>1. \A i \in 1..Len(p) : i \in 0..Len(p)
  OBVIOUS
<1> QED
  BY <1>1 DEF Behaves, Reached, SameKinds

LEMMA FollowsMore ==
  ASSUME NEW b, IsPatchLayer(b.layer), NEW w, IsPatchWrite(w), ~ Refused(WithWrite(b, w)),
         NEW S, S.kind = "object", NEW p, Follows(b, S, p)
  PROVE  Follows(WithWrite(b, w), S, p)
<1> DEFINE l == b.layer
           v == l.value
           canonical == PatchPath(b.shape, w.path, w.explicit)
           q == canonical.path
           arrays == canonical.arrays
           x == w.value
           Inserted(u) == IF PatchClaimable(l, q) THEN InsertShaped(u, b.shape, q, arrays, x) ELSE Conflict
           value == IF Inserted(b.shape) = Conflict THEN Conflict ELSE Inserted(v)
           cs == ContainersWritten(w, canonical)
           new == Noted(l, q, cs, x, value)
           last == [path |-> q, value |-> x]
           r == InsertShaped(v, b.shape, q, arrays, x)
           shape == InsertShaped(b.shape, b.shape, q, arrays, x)
           claimed == ClaimedPaths(l)
<1>1. WithWrite(b, w).layer = new /\ WithWrite(b, w).shape = Inserted(b.shape)
  BY DEF WithWrite, WriteAt
<1>2. PICK R : w.path \in Seq(R)
  BY DEF IsPatchWrite, IsPath
<1>3. IsCanonical(b.shape, w.explicit, w.path, q, arrays) /\ arrays \subseteq 1..Len(w.path)
  BY <1>2, PatchPathFacts
<1>4. IsBuilt(l) /\ DOMAIN l = LayerFields /\ IsTree(v) /\ v.kind = "object"
  BY DEF IsPatchLayer, IsBuilt
<1>5. IsValue(x) /\ x # Missing /\ w.path # <<>>
  BY DEF IsPatchWrite, IsValue
<1>6. new.value # Conflict
  BY <1>1 DEF Refused
<1> HIDE DEF canonical, cs, new, v
<1>7. IsNoted(new, l, q, cs, x, value)
  BY <1>4, NotedFacts DEF new
<1>8. new.value = value /\ new.claimed = Append(l.claimed, last)
  <2> HIDE DEF q, x, value, l
  <2> QED
    BY <1>7 DEF IsNoted
<1>9. PatchClaimable(l, q) /\ value = r /\ r # Conflict /\ shape # Conflict /\ WithWrite(b, w).shape = shape
  <2> HIDE DEF l, q, x, arrays, r, shape
  <2>1. value # Conflict
    BY <1>6, <1>8
  <2> QED
    BY <1>1, <2>1 DEF r, shape, v
<1>10. IsPath(q) /\ q # <<>>
  <2>1. IsPath(q) /\ Len(q) = Len(w.path) /\ Len(q) \in Nat \ {0}
    BY <1>2, <1>3, <1>5, EmptySeq, LenProperties DEF IsCanonical
  <2> QED
    BY <2>1, EmptySeq DEF IsPath
<1>11. PICK T : q \in Seq(T)
  BY <1>10 DEF IsPath
<1>12. PICK c : IsWrite(v, q, arrays, c) /\ r = Filled(c, q, x)[1]
  BY <1>2, <1>3, <1>4, <1>5, <1>9, WriteMade
<1>13. \A i \in arrays : CanonicalIndex(q[i]) = q[i]
  BY <1>3 DEF IsCanonical
<1>14. Follows(b, S, p) /\ v = b.layer.value
  BY DEF v
<1>15. (\E e \in claimed : IsPrefix(e, p))
       \/ (SameKinds(b.shape, S, p) /\ OnText(b.shape, p) /\ Behaves(v, claimed, b.shape, p))
  BY <1>14 DEF Follows
<1>16. last.path = q
  BY DEF last
<1>17. PICK U : l.claimed \in Seq(U)
  BY <1>4 DEF IsBuilt
<1> HIDE DEF q, x, arrays, value, r, shape, l, last
<1>18. IsOneMore(new.claimed, l.claimed, last)
  BY <1>8, <1>17, OneMore
<1>19. ClaimedPaths(new) = claimed \cup {q}
  BY <1>16, <1>18 DEF IsOneMore, ClaimedPaths
<1> HIDE DEF claimed
<1>20. CASE \E e \in claimed \cup {q} : IsPrefix(e, p)
  BY <1>1, <1>19, <1>20 DEF Follows
<1>21. CASE ~ \E e \in claimed \cup {q} : IsPrefix(e, p)
  <2>1. SameKinds(b.shape, S, p) /\ OnText(b.shape, p) /\ Behaves(v, claimed, b.shape, p) /\ ~ IsPrefix(q, p)
    BY <1>15, <1>21
  <2>2. PICK Q : p \in Seq(Q)
    BY <2>1 DEF OnText, IsPath
  <2>3. b.shape.kind = "object"
    <3>1. Walk(b.shape, p)[0] = b.shape /\ Walk(S, p)[0] = S /\ 0 \in 0..Len(p)
      BY <2>2, WalkSteps, LenProperties
    <3> QED
      BY <2>1, <3>1 DEF SameKinds
  <2>4. /\ SameKinds(shape, b.shape, p) /\ OnText(shape, p)
        /\ \E m : /\ PartedAt(p, q, m)
                  /\ \A k \in 1..m : k \in arrays <=> Walk(b.shape, p)[k - 1].kind = "array"
    BY <1>2, <1>3, <1>5, <1>9, <2>1, <2>3, ShapeWritten DEF shape
  <2>5. Behaves(r, claimed \cup {q}, b.shape, p)
    BY <1>4, <1>5, <1>10, <1>11, <1>12, <1>13, <2>1, <2>4, ValueWritten
  <2>6. Behaves(r, claimed \cup {q}, shape, p)
    BY <2>2, <2>4, <2>5, BehavesAlike, LenProperties
  <2>7. SameKinds(shape, S, p)
    BY <2>1, <2>4 DEF SameKinds
  <2> QED
    BY <1>1, <1>8, <1>9, <1>19, <2>4, <2>6, <2>7 DEF Follows
<1> QED
  BY <1>20, <1>21

LEMMA ReplayedFollows ==
  ASSUME NEW source, NEW S, S.kind = "object", NEW n \in Nat, NEW writes, DOMAIN writes = 1..n,
         \A i \in 1..n : IsPatchWrite(writes[i]), ~ Refused(Replayed(source, S, writes)),
         NEW p, OnText(S, p)
  PROVE  Follows(Replayed(source, S, writes), S, p)
<1>1. PICK g : IsRun(<<"replay">>, g, NewBuilder(source, S), writes, n) /\ Replayed(source, S, writes) = g[1..n]
  BY ReplayedRuns
<1> DEFINE Good(b) == ~ Refused(b) => IsPatchLayer(b.layer) /\ Follows(b, S, p)
           Bad == {k \in 0..n : ~ Good(g[1..k])}
<1>2. Good(g[1..0])
  <2> DEFINE b == NewBuilder(source, S)
  <2>1. 1..0 = {}
    OBVIOUS
  <2>2. g[1..0] = b
    BY <1>1, <2>1 DEF IsRun
  <2>3. b.shape = S /\ b.layer = NewLayer(source)
    BY DEF NewBuilder
  <2>4. b.layer.value = EmptyObject
    BY <2>3, NewFacts DEF NewLayer
  <2>5. IsPatchLayer(b.layer)
    BY NewPatch
  <2> HIDE DEF b
  <2>6. PICK R : p \in Seq(R)
    BY DEF OnText, IsPath
  <2>7. \A i \in 1..Len(p) : Walk(EmptyObject, p)[i] = Missing
    <3>1. Len(p) \in Nat /\ Walk(EmptyObject, p)[0] = EmptyObject
          /\ \A i \in 1..Len(p) : Walk(EmptyObject, p)[i] = Child(Walk(EmptyObject, p)[i - 1], p[i])
      BY <2>6, WalkSteps, LenProperties
    <3>2. \A t : Child(EmptyObject, t) = Missing /\ Child(Missing, t) = Missing
      BY EmptyInside, ChildOfNothing
    <3> DEFINE z == Walk(EmptyObject, p)
               Off == {i \in 1..Len(p) : z[i] # Missing}
    <3> HIDE DEF z
    <3>3. SUFFICES ASSUME Off # {} PROVE FALSE
      BY DEF z
    <3>4. Off \in SUBSET Nat
      OBVIOUS
    <3>5. PICK k \in Off : \A i \in Off : k <= i
      <4> HIDE DEF Off
      <4> QED
        BY <3>3, <3>4, LeastOne
    <3>6. z[k] = Child(z[k - 1], p[k]) /\ z[0] = EmptyObject
      BY <3>1 DEF z
    <3>7. k # 1
      BY <3>2, <3>6
    <3>8. k - 1 \in 1..Len(p) /\ k - 1 \notin Off
      BY <3>1, <3>5, <3>7
    <3> QED
      BY <3>2, <3>6, <3>8
  <2>8. Behaves(b.layer.value, ClaimedPaths(b.layer), b.shape, p)
    BY <2>4, <2>7 DEF Behaves, Reached
  <2>9. Follows(b, S, p)
    BY <2>3, <2>8 DEF Follows, SameKinds
  <2> QED
    BY <2>2, <2>5, <2>9
<1>3. ASSUME NEW k \in 1..n, Good(g[1..(k - 1)]) PROVE Good(g[1..k])
  <2> DEFINE a == g[1..(k - 1)]
  <2>1. g[1..k] = IF Refused(a) THEN a ELSE WithWrite(a, writes[k])
    BY <1>1 DEF IsRun, Step
  <2>2. IsPatchWrite(writes[k]) /\ Good(a)
    BY <1>3
  <2> HIDE DEF a
  <2> QED
    BY <2>1, <2>2, PatchMore, FollowsMore DEF IsPatchWrite
<1> HIDE DEF Good
<1>4. Bad = {}
  <2> SUFFICES ASSUME Bad # {} PROVE FALSE
    OBVIOUS
  <2>1. Bad \in SUBSET Nat
    OBVIOUS
  <2>2. PICK k \in Bad : \A i \in Bad : k <= i
    <3> HIDE DEF Bad
    <3> QED
      BY <2>1, LeastOne
  <2>3. k \in 1..n /\ k - 1 \in 0..n
    BY <1>2
  <2>4. k - 1 \notin Bad
    BY <2>2, <2>3
  <2>5. Good(g[1..(k - 1)])
    BY <2>3, <2>4
  <2> QED
    BY <1>3, <2>3, <2>5
<1>5. Good(g[1..n])
  BY <1>4
<1> QED
  BY <1>1, <1>5 DEF Good

LEMMA UptoSame ==
  ASSUME NEW S, NEW p \in Seq(S), NEW T, NEW e \in Seq(T), NEW i \in Nat, i <= Len(p), i <= Len(e),
         \A j \in 1..i : e[j] = p[j]
  PROVE  Upto(e, i) = Upto(p, i)
<1>1. i \in 0..Len(p) /\ i \in 0..Len(e)
  BY LenProperties
<1>2. /\ Upto(p, i) \in Seq(S) /\ Len(Upto(p, i)) = i /\ \A j \in 1..i : Upto(p, i)[j] = p[j]
      /\ Upto(e, i) \in Seq(T) /\ Len(Upto(e, i)) = i /\ \A j \in 1..i : Upto(e, i)[j] = e[j]
  BY <1>1, UptoPoints
<1>3. Upto(p, i) \in Seq(S \cup T) /\ Upto(e, i) \in Seq(S \cup T)
  BY <1>2, SeqMonotonic
<1>4. \A j \in 1..i : Upto(e, i)[j] = Upto(p, i)[j]
  BY <1>2
<1> QED
  BY <1>2, <1>3, <1>4, SeqEqual

\* The writes of a typed patch are where they were written.
LEMMA PlaceWritten ==
  ASSUME NEW l, IsPatchLayer(l), NEW i \in DOMAIN l.claimed
  PROVE  CanonicalPath(l.value, l.claimed[i].path) = l.claimed[i].path
<1> DEFINE e == l.claimed[i].path
           v == l.value
<1>1. Sturdy(v, l.indexed, e) /\ IsPath(e) /\ v.kind = "object"
  BY DEF IsPatchLayer, IsBuilt
<1> HIDE DEF e, v
<1>2. PICK R : e \in Seq(R)
  BY <1>1 DEF IsPath
<1>3. Walk(v, e)[0] = v /\ DOMAIN e = 1..Len(e) /\ Len(e) \in Nat
  BY <1>2, WalkSteps, LenProperties
<1>4. \A j \in 1..Len(e) : Walk(v, e)[j - 1].kind = "array" => CanonicalIndex(e[j]) = e[j]
  <2> SUFFICES ASSUME NEW j \in 1..Len(e), Walk(v, e)[j - 1].kind = "array" PROVE CanonicalIndex(e[j]) = e[j]
    OBVIOUS
  <2>1. j # 1
    BY <1>1, <1>3
  <2>2. j \in 2..Len(e)
    BY <1>3, <2>1
  <2> QED
    BY <1>1, <2>2 DEF Sturdy
<1>5. CanonicalPath(v, e) = [j \in 1..Len(e) |-> e[j]]
  BY <1>3, <1>4 DEF CanonicalPath
<1> QED
  BY <1>2, <1>5 DEF e, v

\* l writes neither p nor anything on the way to it, and nothing in what is replaced there.
Untouched(how, l, p) ==
    \A i \in DOMAIN l.claimed :
       /\ ~ IsPrefix(Place(l, i), p)
       /\ \A c \in Prefixes(Place(l, i)) : IsPrefix(c, p) => Strategy(how, c) # "Replace"

LEMMA PatchLeftAlone ==
  ASSUME NEW how, NEW b, IsPatchLayer(b.layer), NEW l, l.value = b.layer.value, l.claimed = b.layer.claimed,
         Linked(l), NEW S, NEW M, NEW p, IsText(M, p), Sound(M), SameKinds(S, M, p), Follows(b, S, p),
         Untouched(how, l, p)
  PROVE  LeftAlone(how, l, l.value, M, p)
<1> DEFINE claimed == ClaimedPaths(b.layer)
           v == l.value
           w == Walk(v, p)
<1>1. PICK R : p \in Seq(R)
  BY TextOnTheWay
<1>2. /\ \A i \in 1..Len(p) :
            Walk(M, p)[i - 1].kind \in {"object", "array"} /\ Walk(M, p)[i].kind \in {"object", "array", "string"}
      /\ Len(p) \in Nat
  BY <1>1, TextOnTheWay, LenProperties
<1>3. \A e \in claimed : /\ \E i \in DOMAIN l.claimed : Place(l, i) = e
                         /\ Sturdy(v, b.layer.indexed, e)
                         /\ IsPath(e)
  <2> SUFFICES ASSUME NEW i \in DOMAIN l.claimed
               PROVE  LET e == b.layer.claimed[i].path
                      IN  Place(l, i) = e /\ Sturdy(v, b.layer.indexed, e) /\ IsPath(e)
    BY DEF ClaimedPaths
  <2> QED
    BY PlaceWritten DEF IsPatchLayer, IsBuilt, Place
<1>4. \A e \in claimed : ~ IsPrefix(e, p)
  BY <1>3 DEF Untouched
<1>5. /\ Behaves(v, claimed, b.shape, p)
      /\ \A i \in 0..Len(p) : Walk(b.shape, p)[i].kind = Walk(M, p)[i].kind
  BY <1>4 DEF Follows, SameKinds
<1>6. \A i \in DOMAIN l.claimed : ~ IsPrefix(Place(l, i), p)
                                 /\ \A c \in Prefixes(Place(l, i)) : IsPrefix(c, p) => Strategy(how, c) # "Replace"
  BY DEF Untouched
<1> HIDE DEF claimed, v, w
<1>7. \A i \in 0..Len(p) : IsPath(Upto(p, i)) /\ IsPrefix(Upto(p, i), p) /\ GetAt(v, Upto(p, i)) = w[i]
                          /\ (Upto(p, i) = <<>> <=> i = 0)
  <2> SUFFICES ASSUME NEW i \in 0..Len(p)
               PROVE  IsPath(Upto(p, i)) /\ IsPrefix(Upto(p, i), p) /\ GetAt(v, Upto(p, i)) = w[i]
                      /\ (Upto(p, i) = <<>> <=> i = 0)
    OBVIOUS
  <2>1. Upto(p, i) \in Seq(R) /\ Len(Upto(p, i)) = i
    BY <1>1, UptoPoints
  <2>2. IsPath(Upto(p, i))
    BY <2>1 DEF IsPath
  <2>3. Upto(p, i) = <<>> <=> i = 0
    BY <2>1, EmptySeq
  <2> QED
    BY <1>1, <2>2, <2>3, PrefixUpto, WalkUpto DEF w
<1>8. v.kind = "object" /\ w[0] = v
  BY <1>1, WalkSteps DEF IsPatchLayer, IsBuilt, v, w
\* An array on the way whose elements are written is one the merge writes elements of.
<1>9. ASSUME NEW i \in 1..Len(p), w[i].kind = "array", NEW e \in claimed, i < Len(e), IsIndex(e[i + 1]),
             \A j \in 1..i : e[j] = p[j]
      PROVE  Patches(l, Upto(p, i))
  <2> DEFINE c == Upto(p, i)
  <2>1. PICK T : e \in Seq(T)
    BY <1>3 DEF IsPath
  <2>2. i \in 0..Len(p) /\ i \in 0..Len(e) /\ i + 1 \in 1..Len(e) /\ (i + 1) - 1 = i
    BY <1>2, <1>9, <2>1, LenProperties
  <2>3. Upto(e, i) = c
    BY <1>1, <1>9, <2>1, <2>2, UptoSame
  <2>4. IsPath(c) /\ IsPrefix(c, p) /\ GetAt(v, c) = w[i] /\ c # <<>>
    BY <1>7, <2>2
  <2> HIDE DEF c
  <2>5. ElementOf(c, e)
    BY <1>9, <2>1, <2>2, <2>3, <2>4, PrefixUpto
  <2>6. \E j \in DOMAIN l.claimed : ElementOf(c, Place(l, j))
    BY <1>3, <2>5
  <2>7. ~ \E j \in DOMAIN l.claimed : Place(l, j) = c /\ l.claimed[j].value.kind = "array"
    BY <1>6, <2>4
  <2>8. WritesElements(l, c)
    BY <2>6, <2>7 DEF WritesElements
  <2> QED
    BY <1>9, <2>4, <2>8 DEF Linked, v, c
<1> SUFFICES ASSUME NEW i \in 1..Len(p)
             PROVE  LET c == Upto(p, i)
                        n == w[i]
                        m == Walk(M, p)[i]
                    IN  \/ n = Missing
                        \/ n = Null /\ w[i - 1].kind = "array" /\ Patches(l, Upto(p, i - 1))
                        \/ c # p /\ n.kind = "object" /\ m.kind = "object" /\ Strategy(how, c) # "Replace"
                        \/ c # p /\ n.kind = "array" /\ m.kind = "array" /\ (Patches(l, c) \/ Strategy(how, c) = "Append")
  BY DEF LeftAlone, v, w
<1>10. Reached(v, claimed, b.shape, p, i)
  BY <1>5 DEF Behaves
<1>11. CASE /\ w[i] = Null /\ w[i - 1].kind = "array"
            /\ \E e \in claimed : i <= Len(e) /\ IsIndex(e[i]) /\ \A j \in 1..(i - 1) : e[j] = p[j]
  <2>1. PICK e \in claimed : i <= Len(e) /\ IsIndex(e[i]) /\ \A j \in 1..(i - 1) : e[j] = p[j]
    BY <1>11
  <2>2. i # 1
    BY <1>8, <1>11
  <2>3. i - 1 \in 1..Len(p) /\ (i - 1) + 1 = i
    BY <1>2, <2>2
  <2>4. Len(e) \in Nat
    BY <1>3, LenProperties DEF IsPath
  <2>5. i - 1 < Len(e)
    BY <2>1, <2>4
  <2>6. Patches(l, Upto(p, i - 1))
    BY <1>9, <1>11, <2>1, <2>3, <2>5
  <2> QED
    BY <1>11, <2>6
<1>12. CASE /\ i < Len(p) /\ w[i].kind = Walk(b.shape, p)[i].kind
            /\ \E e \in claimed : i < Len(e) /\ \A j \in 1..i : e[j] = p[j]
  <2>1. PICK e \in claimed : i < Len(e) /\ \A j \in 1..i : e[j] = p[j]
    BY <1>12
  <2>2. i \in 0..Len(p) /\ i + 1 \in 1..Len(p) /\ (i + 1) - 1 = i
    BY <1>2, <1>12
  <2>3. w[i].kind = Walk(M, p)[i].kind /\ Walk(M, p)[i].kind \in {"object", "array"}
    BY <1>2, <1>5, <1>12, <2>2
  <2>4. Upto(p, i) # p
    BY <1>1, <1>12, <2>2, UptoWhole
  <2>5. PICK T : e \in Seq(T)
    BY <1>3 DEF IsPath
  <2>6. CASE w[i].kind = "object"
    <3>1. i \in 0..Len(e)
      BY <2>1, <2>5, LenProperties
    <3>2. Upto(e, i) = Upto(p, i)
      BY <1>1, <2>1, <2>2, <2>5, <3>1, UptoSame
    <3>3. Upto(p, i) \in Prefixes(e)
      BY <2>5, <3>1, <3>2, PrefixesUpto
    <3>4. IsPrefix(Upto(p, i), p)
      BY <1>7, <2>2
    <3>5. Strategy(how, Upto(p, i)) # "Replace"
      BY <1>3, <1>6, <3>3, <3>4
    <3> QED
      BY <2>3, <2>4, <2>6, <3>5
  <2>7. CASE w[i].kind = "array"
    <3>1. Walk(v, e)[i] = w[i]
      <4>1. i \in Nat /\ i <= Len(p) /\ i <= Len(e) /\ i \in 0..i
        BY <1>2, <2>1, <2>5, LenProperties
      <4> QED
        BY <1>1, <2>1, <2>5, <4>1, SameStart DEF w
    <3>2. i + 1 \in 2..Len(e) /\ (i + 1) - 1 = i
      BY <2>1, <2>5, LenProperties
    <3>3. IsIndex(e[i + 1])
      BY <1>3, <2>7, <3>1, <3>2 DEF Sturdy
    <3> QED
      BY <1>9, <2>1, <2>3, <2>4, <2>7, <3>3
  <2> QED
    BY <2>3, <2>6, <2>7
<1> QED
  BY <1>10, <1>11, <1>12 DEF Reached, w

\* The shape begins with the defaults merged into the defaults, which are alike.
LEMMA AgreeStart ==
  ASSUME NEW how, NEW l, l.indexed = {}, NEW d, Sound(d), NEW f, IsMerge(how, d, d, l, f),
         NEW S, NEW p \in Seq(S), Len(p) <= MaxDepth
  PROVE  AgreeOn(how, d, f[<<>>], d, p)
<1> DEFINE R == f[<<>>]
           w == Walk(R, p)
           z == Walk(d, p)
           t(i) == Twice(how, d, Upto(p, i))
           Behind(i) == \A j \in 1..i : Aligned(z[j - 1], p[j], t(j - 1))
           Inside(i) == Upto(p, i) \in Both(d, d) /\ w[i] = f[Upto(p, i)]
           Status(i) == w[i] = z[i] \/ Inside(i)
           Bad == {i \in 0..Len(p) : Behind(i) /\ ~ Status(i)}
<1>1. Len(p) \in Nat /\ \A i \in 0..Len(p) : t(i) \in Nat
  BY TwiceFacts, LenProperties
<1>2. /\ w[0] = R /\ z[0] = d
      /\ \A i \in 1..Len(p) : w[i] = Child(w[i - 1], p[i]) /\ z[i] = Child(z[i - 1], p[i])
  BY WalkSteps
<1>3. \A i \in 0..Len(p) : GetAt(d, Upto(p, i)) = z[i]
  BY WalkUpto
<1>4. \A c : ~ Patches(l, c)
  BY DEF Patches
<1>5. Inside(0)
  BY <1>2, UptoEnds, RootNode DEF Both
\* The elements that are there twice.
<1>6. \A i \in 0..Len(p) : z[i].kind = "array" /\ Strategy(how, Upto(p, i)) = "Append" => t(i) = Len(z[i].items)
  BY <1>3 DEF Twice, Elements
<1>7. \A i \in 0..Len(p) : Whole(z[i])
  BY SoundWalk
<1> HIDE DEF w, z, t
<1>8. ASSUME NEW m \in 1..Len(p), Behind(m), Inside(m - 1)
      PROVE  Status(m)
  <2> DEFINE c == Upto(p, m - 1)
             s == p[m]
             o == GetAt(d, c)
             r == f[c]
  <2>1. m - 1 \in 0..Len(p) /\ m \in 0..Len(p) /\ m \in 1..m
    BY <1>1
  <2>2. c \in Both(d, d) /\ w[m - 1] = r /\ o = z[m - 1] /\ Whole(o)
    BY <1>3, <1>7, <1>8, <2>1
  <2>3. MergeStep(how, d, d, l, f, c)
    BY <2>2, MergeSteps
  <2>4. w[m] = Child(r, s) /\ z[m] = Child(o, s)
    BY <1>2, <2>2
  <2>5. Append(c, s) = Upto(p, m)
    BY UptoNext
  <2>6. Aligned(o, s, t(m - 1)) /\ (o.kind = "array" /\ Strategy(how, c) = "Append" => t(m - 1) = Len(o.items))
    BY <1>6, <1>8, <2>1, <2>2
  <2>7. t(m - 1) \in Nat
    BY <1>1, <2>1
  <2> HIDE DEF c, s, o, r
  <2>8. CASE Appending(how, l, c, o, o)
    <3>1. IsIndex(s) /\ o.kind = "array" /\ t(m - 1) = Len(o.items) /\ (t(m - 1) = 0 \/ Indices[s] < t(m - 1))
      BY <2>6, <2>8 DEF Appending, Aligned
    <3>2. IF Child(o, s) # Missing THEN Child(r, s) = Child(o, s)
          ELSE Child(r, s) = Missing \/ \E e : Child(r, s) = Child(o, e) /\ Child(o, e) # Missing
      BY <2>3, <2>8 DEF MergeStep, o, r
    <3>3. CASE Child(o, s) # Missing
      BY <2>4, <3>2, <3>3
    <3>4. CASE Child(o, s) = Missing
      <4>1. Len(o.items) = 0
        <5>1. Indices[s] \in Nat /\ Indices[s] >= Len(o.items)
          BY <2>2, <3>1, <3>4, PlaceTaken, IndexFacts DEF IsIndex
        <5> QED
          BY <2>7, <3>1, <5>1
      <4>2. \A e : Child(o, e) = Missing
        <5> SUFFICES ASSUME NEW e, Child(o, e) # Missing PROVE FALSE
          OBVIOUS
        <5>1. IsIndex(e) /\ Indices[e] < Len(o.items)
          BY <3>1 DEF Child
        <5> QED
          BY <4>1, <5>1, IndexFacts DEF IsIndex
      <4> QED
        BY <2>4, <3>2, <3>4, <4>2
    <3> QED
      BY <3>3, <3>4
  <2>9. CASE Joining(how, c, o, o)
    <3>1. Child(r, s) = IF Child(o, s) # Missing THEN Goes(f, d, d, c, s) ELSE Missing
      BY <2>3, <2>9 DEF MergeStep, o, r
    <3>2. Goes(f, d, d, c, s) = IF Upto(p, m) \in Both(d, d) THEN f[Upto(p, m)] ELSE Child(o, s)
      BY <2>5 DEF Goes, o
    <3> QED
      BY <2>4, <3>1, <3>2
  <2>10. CASE ~ Appending(how, l, c, o, o) /\ ~ Joining(how, c, o, o)
    <3>1. r = o
      BY <1>4, <2>3, <2>10 DEF MergeStep, Patching, o, r
    <3> QED
      BY <2>4, <3>1
  <2> QED
    BY <2>8, <2>9, <2>10
<1>9. ASSUME NEW m \in 1..Len(p), Behind(m), Status(m - 1)
      PROVE  Status(m)
  <2>1. CASE w[m - 1] = z[m - 1]
    BY <1>2, <2>1
  <2>2. CASE Inside(m - 1)
    BY <1>8, <1>9, <2>2
  <2> QED
    BY <1>9, <2>1, <2>2
<1>10. Bad = {}
  <2> SUFFICES ASSUME Bad # {} PROVE FALSE
    OBVIOUS
  <2>1. Bad \in SUBSET Nat
    BY <1>1
  <2>2. PICK m \in Bad : \A k \in Bad : m <= k
    BY <2>1, LeastOne
  <2>3. m # 0
    BY <1>5, <2>2
  <2>4. m \in 1..Len(p) /\ Behind(m) /\ ~ Status(m)
    BY <1>1, <2>2, <2>3
  <2>5. m - 1 \in 0..Len(p) /\ m - 1 \notin Bad /\ 1..(m - 1) \subseteq 1..m
    BY <1>1, <2>2, <2>4
  <2>6. Status(m - 1)
    BY <2>4, <2>5
  <2> QED
    BY <1>9, <2>4, <2>6
<1>11. ASSUME NEW i \in 0..Len(p), Behind(i)
       PROVE  Alike(w[i], z[i], t(i))
  <2>1. Status(i)
    BY <1>10, <1>11
  <2>2. CASE w[i] = z[i]
    BY <2>2 DEF Alike, SameLength
  <2>3. CASE Inside(i)
    <3> DEFINE c == Upto(p, i)
               o == z[i]
               r == w[i]
    <3>1. MergeStep(how, d, d, l, f, c) /\ GetAt(d, c) = o /\ f[c] = r /\ Whole(o)
      BY <1>3, <1>7, <2>3, MergeSteps
    <3>2. t(i) \in Nat /\ (o.kind = "array" /\ Strategy(how, c) = "Append" => t(i) = Len(o.items))
      BY <1>1, <1>6
    <3> HIDE DEF c, o, r
    <3>3. /\ r.kind = o.kind /\ (o # Missing => r # Missing) /\ (o.kind \notin {"array", "object"} => r = o)
          /\ Appending(how, l, c, o, o) \/ Joining(how, c, o, o) \/ r = o
          /\ Appending(how, l, c, o, o) => r = Array(Appended(o.items, o.items))
      BY <1>4, <3>1 DEF MergeStep, Patching
    <3>4. Missing.kind \notin {"array", "object"} /\ Null.kind \notin {"array", "object"}
      BY DEF Missing, Null
    <3>5. ASSUME o.kind = "array" PROVE SameLength(r, o, t(i))
      <4>1. CASE Appending(how, l, c, o, o)
        <5>1. r.items = Appended(o.items, o.items) /\ t(i) = Len(o.items)
          BY <3>2, <3>3, <3>5, <4>1 DEF Array, Appending
        <5>2. Len(Appended(o.items, o.items)) = Len(o.items) + Len(o.items)
          BY <3>1, <3>5, AppendedItems
        <5>3. PICK k \in Nat : k = Len(o.items)
          BY <3>1, <3>5, WholeItems
        <5>4. Len(r.items) = k + k /\ t(i) = k
          BY <5>1, <5>2, <5>3
        <5> QED
          BY <5>3, <5>4 DEF SameLength
      <4>2. CASE ~ Appending(how, l, c, o, o)
        <5>1. r = o
          BY <3>3, <3>5, <4>2 DEF Joining
        <5> QED
          BY <5>1 DEF SameLength
      <4> QED
        BY <4>1, <4>2
    <3>6. Alike(r, o, t(i))
      BY <3>3, <3>4, <3>5 DEF Alike
    <3> QED
      BY <3>6 DEF o, r
  <2> QED
    BY <2>1, <2>2, <2>3
<1> QED
  BY <1>11 DEF AgreeOn, w, z, t

-----------------------------------------------------------------------------
(***************************************************************************)
(* The shape a typed patch is replayed for: the merge of the layers        *)
(* beneath it over the defaults, one turn after the other.                 *)
(***************************************************************************)
\* S is what the first n layers of the stack s make together, over its first one.
IsShape(how, s, n, S) == \E g : IsRun(<<"merge", how>>, g, s[1].value, s, n) /\ S = g[1..n]

LEMMA ShapeRuns ==
  ASSUME NEW how, NEW s, NEW n \in Nat, DOMAIN s = 1..n
  PROVE  IsShape(how, s, n, ShapeOf(how, s))
<1> DEFINE base == s[1].value
           F(g) == [t \in SUBSET (1..n) |->
                      IF t = {} THEN base
                      ELSE Merged(how, g[t \ {Max(t)}], s[Max(t)].value, s[Max(t)])]
           iter == CHOOSE g : g = F(g)
<1>1. \E g : g = F(g)
  <2>1. PICK g : IsFold(<<"merge", how>>, g, base, s, n)
    BY FoldExists
  <2>2. g = F(g)
    BY <2>1 DEF IsFold, Step
  <2> QED
    BY <2>2
<1>2. iter = F(iter)
  BY <1>1
<1>3. ShapeOf(how, s) = iter[1..n]
  BY DEF ShapeOf, FoldLeft, MapThenFoldSet
<1> HIDE DEF iter
<1>4. IsFold(<<"merge", how>>, iter, base, s, n)
  BY <1>2 DEF IsFold, Step
<1>5. IsRun(<<"merge", how>>, iter, base, s, n)
  BY <1>4, FoldRuns
<1> QED
  BY <1>3, <1>5 DEF IsShape

\* A loop that begins alike, and has the same before it, goes alike.
LEMMA RunsAlike ==
  ASSUME NEW loop, NEW base, NEW n \in Nat, NEW s, NEW t, \A k \in 1..n : s[k] = t[k],
         NEW g, IsRun(loop, g, base, s, n), NEW h, IsRun(loop, h, base, t, n)
  PROVE  \A k \in 0..n : g[1..k] = h[1..k]
<1> DEFINE Bad == {k \in 0..n : g[1..k] # h[1..k]}
<1>1. Bad = {}
  <2> SUFFICES ASSUME Bad # {} PROVE FALSE
    OBVIOUS
  <2>1. Bad \in SUBSET Nat
    OBVIOUS
  <2>2. PICK k \in Bad : \A i \in Bad : k <= i
    <3> HIDE DEF Bad
    <3> QED
      BY <2>1, LeastOne
  <2>3. k # 0
    <3>1. 1..0 = {}
      OBVIOUS
    <3> QED
      BY <3>1 DEF IsRun
  <2>4. k \in 1..n /\ k - 1 \in 0..n
    BY <2>3
  <2>5. k - 1 \notin Bad
    BY <2>2, <2>4
  <2>6. g[1..(k - 1)] = h[1..(k - 1)]
    BY <2>4, <2>5
  <2>7. g[1..k] = Step(loop, g[1..(k - 1)], s[k]) /\ h[1..k] = Step(loop, h[1..(k - 1)], t[k])
    BY <2>4 DEF IsRun
  <2>8. g[1..k] = h[1..k]
    BY <2>4, <2>6, <2>7
  <2> QED
    BY <2>8
<1> QED
  BY <1>1

LEMMA ShapeUnique ==
  ASSUME NEW how, NEW s, NEW n \in Nat, NEW S, IsShape(how, s, n, S), NEW R, IsShape(how, s, n, R)
  PROVE  S = R
<1>1. PICK g : IsRun(<<"merge", how>>, g, s[1].value, s, n) /\ S = g[1..n]
  BY DEF IsShape
<1>2. PICK h : IsRun(<<"merge", how>>, h, s[1].value, s, n) /\ R = h[1..n]
  BY DEF IsShape
<1>3. n \in 0..n /\ \A k \in 1..n : s[k] = s[k]
  OBVIOUS
<1>4. g[1..n] = h[1..n]
  BY <1>1, <1>2, <1>3, RunsAlike
<1> QED
  BY <1>1, <1>2, <1>4

LEMMA ShapeSame ==
  ASSUME NEW how, NEW s, NEW t, NEW n \in Nat, s[1] = t[1], \A k \in 1..n : s[k] = t[k],
         NEW S, IsShape(how, s, n, S)
  PROVE  IsShape(how, t, n, S)
<1>1. PICK g : IsRun(<<"merge", how>>, g, s[1].value, s, n) /\ S = g[1..n]
  BY DEF IsShape
<1>2. IsRun(<<"merge", how>>, g, t[1].value, t, n)
  BY <1>1 DEF IsRun
<1> QED
  BY <1>1, <1>2 DEF IsShape

\* One more turn of the merge.
LEMMA ShapeNext ==
  ASSUME NEW how, NEW s, NEW n \in Nat, NEW S, IsShape(how, s, n, S)
  PROVE  IsShape(how, s, n + 1, Merged(how, S, s[n + 1].value, s[n + 1]))
<1> DEFINE loop == <<"merge", how>>
           base == s[1].value
<1>1. PICK g : IsRun(loop, g, base, s, n) /\ S = g[1..n]
  BY DEF IsShape
<1>2. PICK h : IsFold(loop, h, base, s, n + 1)
  BY FoldExists
<1>3. IsRun(loop, h, base, s, n + 1)
  BY <1>2, FoldRuns
<1>4. IsRun(loop, h, base, s, n)
  BY <1>3 DEF IsRun
<1>5. h[1..n] = S
  BY <1>1, <1>4, RunsAlike
<1>6. h[1..(n + 1)] = Step(loop, h[1..n], s[n + 1])
  <2>1. n + 1 \in 1..(n + 1) /\ (n + 1) - 1 = n
    OBVIOUS
  <2> HIDE DEF loop
  <2>2. h[1..(n + 1)] = Step(loop, h[1..((n + 1) - 1)], s[n + 1])
    BY <1>3, <2>1 DEF IsRun
  <2> QED
    BY <2>1, <2>2
<1>7. Step(loop, S, s[n + 1]) = Merged(how, S, s[n + 1].value, s[n + 1])
  BY DEF Step
<1> QED
  BY <1>3, <1>5, <1>6, <1>7 DEF IsShape

LEMMA ShapeFirst ==
  ASSUME NEW how, NEW s
  PROVE  IsShape(how, s, 1, Merged(how, s[1].value, s[1].value, s[1]))
<1> DEFINE base == s[1].value
<1>1. PICK g : IsFold(<<"merge", how>>, g, base, s, 0)
  BY FoldExists
<1>2. IsRun(<<"merge", how>>, g, base, s, 0)
  BY <1>1, FoldRuns
<1>3. 1..0 = {} /\ 0 + 1 = 1
  OBVIOUS
<1>4. g[1..0] = base
  BY <1>2, <1>3 DEF IsRun
<1>5. IsShape(how, s, 0, base)
  BY <1>2, <1>4 DEF IsShape
<1>6. IsShape(how, s, 0 + 1, Merged(how, base, s[0 + 1].value, s[0 + 1]))
  BY <1>5, ShapeNext
<1> QED
  BY <1>3, <1>6

-----------------------------------------------------------------------------
(***************************************************************************)
(* The patches on the stack, and what they leave as it is.                 *)
(***************************************************************************)
\* The layer l is the typed patch, replayed for S.
IsReplayed(l, S) ==
    LET b == Replayed(l.source, S, patch.writes)
    IN  ~ Refused(b) /\ l = Canonicalized(b.layer)

ReplayedFor(k) == \E S : IsShape(metadata.merge, layers, k - 1, S) /\ IsReplayed(layers[k], S)

IsPatch(l) == l.source \in {"custom", "typed"}

\* The patches on the stack have been replayed for what is beneath them.
PatchInv ==
    /\ layers[1].indexed = {}
    /\ phase = "patch" => Len(layers) = 1
    /\ patch.use # "layer" => \A k \in 1..Len(layers) : IsPatch(layers[k]) => ReplayedFor(k)

LEMMA PatchInit == Init => PatchInv
<1> SUFFICES ASSUME Init PROVE PatchInv
  OBVIOUS
<1>1. PICK v \in Defaults : layers = <<FromValue("defaults", v)>>
  BY DEF Init
<1> DEFINE d == FromValue("defaults", v)
<1>2. d.indexed = {} /\ d.source = "defaults"
  BY NewFacts
<1> HIDE DEF d
<1>3. Len(layers) = 1 /\ layers[1] = d
  BY <1>1 DEF d
<1>4. \A k \in 1..Len(layers) : ~ IsPatch(layers[k])
  BY <1>2, <1>3 DEF IsPatch
<1> QED
  BY <1>2, <1>3, <1>4 DEF PatchInv

\* The stack t has the layers of s, and others above them.
Above(s, t) == /\ Len(s) \in Nat /\ Len(t) \in Nat /\ Len(s) >= 1 /\ Len(t) >= Len(s)
               /\ \A k \in 1..Len(s) : t[k] = s[k]

\* The patches beneath stay what they are.
LEMMA PatchGrows ==
  ASSUME PatchInv, UNCHANGED <<metadata, patch>>, phase' # "patch", Above(layers, layers'),
         patch.use # "layer" =>
           \A k \in (Len(layers) + 1)..Len(layers') : IsPatch(layers'[k]) => ReplayedFor(k)'
  PROVE  PatchInv'
<1>1. /\ Len(layers) \in Nat /\ Len(layers') \in Nat /\ Len(layers) >= 1 /\ Len(layers') >= Len(layers)
      /\ \A k \in 1..Len(layers) : layers'[k] = layers[k]
  BY DEF Above
<1>2. layers'[1] = layers[1] /\ layers'[1].indexed = {}
  BY <1>1 DEF PatchInv
<1>3. ASSUME patch.use # "layer", NEW k \in 1..Len(layers'), IsPatch(layers'[k]) PROVE ReplayedFor(k)'
  <2>1. CASE k \in 1..Len(layers)
    <3>1. layers'[k] = layers[k]
      BY <1>1, <2>1
    <3>2. ReplayedFor(k)
      BY <1>3, <2>1, <3>1 DEF PatchInv
    <3>3. PICK S : IsShape(metadata.merge, layers, k - 1, S) /\ IsReplayed(layers[k], S)
      BY <3>2 DEF ReplayedFor
    <3>4. k - 1 \in Nat /\ \A j \in 1..(k - 1) : layers[j] = layers'[j]
      BY <1>1, <2>1
    <3>5. IsShape(metadata.merge, layers', k - 1, S)
      BY <1>2, <3>3, <3>4, ShapeSame
    <3>6. IsReplayed(layers[k], S)'
      BY <3>1, <3>3 DEF IsReplayed
    <3> QED
      BY <3>5, <3>6 DEF ReplayedFor
  <2>2. CASE k \in (Len(layers) + 1)..Len(layers')
    BY <1>3, <2>2
  <2> QED
    BY <1>1, <2>1, <2>2
<1>4. patch'.use # "layer" => \A k \in 1..Len(layers') : IsPatch(layers'[k]) => ReplayedFor(k)'
  BY <1>3
<1> QED
  BY <1>2, <1>4 DEF PatchInv, IsPatch

LEMMA AboveMore ==
  ASSUME NEW s, IsStack(s), NEW l
  PROVE  Above(s, Append(s, l)) /\ Len(Append(s, l)) = Len(s) + 1 /\ Append(s, l)[Len(s) + 1] = l
<1>1. PICK U : s \in Seq(U)
  BY DEF IsStack
<1>2. IsOneMore(Append(s, l), s, l)
  BY <1>1, OneMore
<1>3. Len(s) \in Nat /\ Len(s) >= 1 /\ DOMAIN s = 1..Len(s)
  BY <1>1, LenProperties DEF IsStack
<1> DEFINE t == Append(s, l)
<1> HIDE DEF t
<1>4. PICK T : t \in Seq(T)
  BY <1>2 DEF IsOneMore, t
<1>5. DOMAIN t = (1..Len(s)) \cup {Len(s) + 1} /\ (\A i \in 1..Len(s) : t[i] = s[i]) /\ t[Len(s) + 1] = l
  BY <1>2, <1>3 DEF IsOneMore, t
<1>6. DOMAIN t = 1..Len(t) /\ Len(t) \in Nat
  BY <1>4, LenProperties
<1>7. Len(t) = Len(s) + 1
  <2>1. PICK a \in Nat : a = Len(s)
    BY <1>3
  <2>2. PICK b \in Nat : b = Len(t)
    BY <1>6
  <2>3. 1..b = (1..a) \cup {a + 1}
    BY <1>5, <1>6, <2>1, <2>2
  <2>4. a + 1 \in 1..b /\ b >= 1
    BY <2>3
  <2>5. b \in (1..a) \cup {a + 1}
    BY <2>3, <2>4
  <2> QED
    BY <2>1, <2>2, <2>4, <2>5
<1>8. Above(s, t)
  BY <1>3, <1>5, <1>6, <1>7 DEF Above
<1> QED
  BY <1>5, <1>7, <1>8 DEF t

LEMMA AboveSame ==
  ASSUME NEW s, IsStack(s)
  PROVE  Above(s, s)
<1>1. Len(s) \in Nat /\ Len(s) >= 1
  BY LenProperties DEF IsStack
<1> QED
  BY <1>1 DEF Above

\* A patch that is replayed for the layers s, and put on top of them.
LEMMA PatchOnTop ==
  ASSUME NEW s, IsStack(s), NEW source, patch.writes \in Seq(PatchWrites), UNCHANGED <<metadata, patch>>,
         ~ Refused(Replayed(source, ShapeOf(metadata.merge, s), patch.writes)),
         layers' = Append(s, Canonicalized(Replayed(source, ShapeOf(metadata.merge, s), patch.writes).layer))
  PROVE  ReplayedFor(Len(s) + 1)'
<1>1. PICK S : S = ShapeOf(metadata.merge, s)
  OBVIOUS
<1>2. PICK l : l = Canonicalized(Replayed(source, S, patch.writes).layer)
  OBVIOUS
<1>3. PICK n : n = Len(s)
  OBVIOUS
<1>4. PICK U : s \in Seq(U)
  BY DEF IsStack
<1>5. n \in Nat /\ n >= 1 /\ DOMAIN s = 1..n
  BY <1>3, <1>4, LenProperties DEF IsStack
<1>6. l.source = source
  BY <1>1, <1>2, ReplayedStack
<1>7. IsReplayed(l, S)'
  BY <1>1, <1>2, <1>6 DEF IsReplayed
<1>8. layers' = Append(s, l)
  BY <1>1, <1>2
<1>9. Above(s, layers') /\ layers'[n + 1] = l
  BY <1>3, <1>8, AboveMore
<1>10. s[1] = layers'[1] /\ \A k \in 1..n : s[k] = layers'[k]
  BY <1>3, <1>5, <1>9 DEF Above
<1>11. IsShape(metadata.merge, s, n, S)
  BY <1>1, <1>5, ShapeRuns
<1>12. IsShape(metadata.merge, layers', n, S)
  BY <1>5, <1>10, <1>11, ShapeSame
<1>13. (n + 1) - 1 = n
  BY <1>5
<1>14. IsReplayed(layers[n + 1], S)'
  BY <1>7, <1>9 DEF IsReplayed
<1>15. IsShape(metadata'.merge, layers', (n + 1) - 1, S)
  BY <1>12, <1>13
<1>16. ReplayedFor(n + 1)'
  BY <1>14, <1>15 DEF ReplayedFor
<1> QED
  BY <1>3, <1>16

LEMMA TopAbove ==
  ASSUME SourcesInv, NEW u, IsTop(u)
  PROVE  /\ Above(layers, layers \o u)
         /\ \A k \in (Len(layers) + 1)..Len(layers \o u) : ~ IsPatch((layers \o u)[k])
<1>1. PICK V : u \in Seq(V) /\ \A i \in 1..Len(u) : IsLayer(u[i]) /\ u[i].source \in {"env", "args"}
  BY TopFacts
<1>2. PICK U : layers \in Seq(U)
  BY DEF SourcesInv, IsStack
<1> DEFINE T == U \cup V
<1>3. U \subseteq T /\ V \subseteq T
  OBVIOUS
<1> HIDE DEF T
<1>4. u \in Seq(T) /\ layers \in Seq(T)
  BY <1>1, <1>2, <1>3, SeqMonotonic
<1>5. PICK t : t = layers \o u
  OBVIOUS
<1>6. PICK n : n = Len(layers)
  OBVIOUS
<1>7. n \in Nat /\ n >= 1 /\ Len(u) \in Nat
  BY <1>4, <1>6, LenProperties DEF SourcesInv, IsStack
<1>8. /\ Len(t) = n + Len(u)
      /\ \A i \in 1..(n + Len(u)) : t[i] = IF i <= n THEN layers[i] ELSE u[i - n]
  BY <1>4, <1>5, <1>6, ConcatProperties
<1>9. Above(layers, t)
  BY <1>6, <1>7, <1>8 DEF Above
<1>10. ASSUME NEW k \in (n + 1)..Len(t) PROVE ~ IsPatch(t[k])
  <2>1. k - n \in 1..Len(u) /\ t[k] = u[k - n]
    BY <1>7, <1>8
  <2>2. u[k - n].source \in {"env", "args"}
    BY <1>1, <2>1
  <2> QED
    BY <2>1, <2>2 DEF IsPatch
<1> QED
  BY <1>5, <1>6, <1>9, <1>10

\* Before the files there is only the layer of the defaults.
LEMMA PatchAlone ==
  ASSUME StackInv, PatchInv, phase = "patch", UNCHANGED layers
  PROVE  PatchInv'
<1>1. Len(layers) = 1 /\ IsStack(layers)
  BY DEF PatchInv, StackInv, SourcesInv
<1>2. layers[1].source = "defaults"
  BY <1>1 DEF IsStack
<1>3. \A k \in 1..Len(layers) : ~ IsPatch(layers[k])
  BY <1>1, <1>2 DEF IsPatch
<1>4. layers' = layers /\ layers[1].indexed = {}
  BY DEF PatchInv
<1>5. \A k \in 1..Len(layers') : ~ IsPatch(layers'[k])
  BY <1>3, <1>4
<1> QED
  BY <1>1, <1>4, <1>5 DEF PatchInv, IsPatch

\* Nothing new on the stack.
LEMMA PatchStays ==
  ASSUME StackInv, PatchInv, UNCHANGED <<metadata, patch, layers>>, phase' # "patch"
  PROVE  PatchInv'
<1>1. Above(layers, layers')
  BY AboveSame DEF StackInv, SourcesInv
<1>2. Len(layers) \in Nat
  BY <1>1 DEF Above
<1>3. \A k \in (Len(layers) + 1)..Len(layers') : FALSE
  BY <1>2
<1> QED
  BY <1>1, <1>3, PatchGrows

LEMMA LoadFileReplayed == StackInv /\ PatchInv /\ LoadFile => PatchInv'
<1> SUFFICES ASSUME StackInv, PatchInv, LoadFile PROVE PatchInv'
  OBVIOUS
<1>1. UNCHANGED <<metadata, patch, phase>> /\ phase = "files"
  BY DEF LoadFile
<1>2. PICK v \in FileValues : layers' = Append(layers, Canonicalized(FromValue("file", v)))
  BY DEF LoadFile
<1>3. PICK l : l = Canonicalized(FromValue("file", v))
  OBVIOUS
<1>4. l.source = "file"
  BY <1>3, GivenWrites, ValueLayer
<1>5. IsStack(layers) /\ layers' = Append(layers, l)
  BY <1>2, <1>3 DEF StackInv, SourcesInv
<1>6. Above(layers, layers') /\ Len(layers') = Len(layers) + 1 /\ layers'[Len(layers) + 1] = l
  BY <1>5, AboveMore
<1>7. \A k \in (Len(layers) + 1)..Len(layers') : k = Len(layers) + 1
  BY <1>6 DEF Above
<1>8. \A k \in (Len(layers) + 1)..Len(layers') : ~ IsPatch(layers'[k])
  BY <1>4, <1>6, <1>7 DEF IsPatch
<1> QED
  BY <1>1, <1>6, <1>8, PatchGrows

LEMMA FilesEndReplayed == StackInv /\ PatchInv /\ FilesEnd => PatchInv'
<1> SUFFICES ASSUME StackInv, PatchInv, FilesEnd PROVE PatchInv'
  OBVIOUS
<1>1. PICK b : b = IF patch.use = "layer" THEN patch.builder
                   ELSE Replayed("custom", ShapeOf(metadata.merge, layers), patch.writes)
  OBVIOUS
<1>2. UNCHANGED <<metadata, patch>> /\ phase' # "patch"
  BY DEF FilesEnd
<1>3. UNCHANGED layers \/ (~ Refused(b) /\ layers' = Append(layers, Canonicalized(b.layer)))
  BY <1>1 DEF FilesEnd
<1>4. CASE UNCHANGED layers
  BY <1>2, <1>4, PatchStays
<1>5. CASE ~ Refused(b) /\ layers' = Append(layers, Canonicalized(b.layer))
  <2>1. PICK s : s = layers
    OBVIOUS
  <2>2. IsStack(s) /\ patch.writes \in Seq(PatchWrites)
    BY <2>1 DEF StackInv, SourcesInv
  <2>3. Above(layers, layers') /\ Len(layers') = Len(s) + 1
    BY <1>5, <2>1, <2>2, AboveMore
  <2>4. \A k \in (Len(layers) + 1)..Len(layers') : k = Len(s) + 1
    BY <2>1, <2>3 DEF Above
  <2>5. patch.use # "layer" => ReplayedFor(Len(s) + 1)'
    BY <1>1, <1>2, <1>5, <2>1, <2>2, PatchOnTop
  <2> QED
    BY <1>2, <2>3, <2>4, <2>5, PatchGrows
<1> QED
  BY <1>3, <1>4, <1>5

LEMMA StackReplayed == StackInv /\ PatchInv /\ Stack => PatchInv'
<1> SUFFICES ASSUME StackInv, PatchInv, Stack PROVE PatchInv'
  OBVIOUS
<1>1. PICK u : u = [i \in 1..Cardinality({l \in {args, env} : l.entries # {}}) |->
                      Canonicalized(IF i = 1 /\ env.entries # {} THEN env ELSE args)]
  OBVIOUS
<1>2. PICK s : s = layers \o u
  OBVIOUS
<1>3. PICK b : b = Replayed("typed", ShapeOf(metadata.merge, s), patch.writes)
  OBVIOUS
<1>4. UNCHANGED <<metadata, patch>> /\ phase' # "patch"
  BY DEF Stack
<1>5. \/ UNCHANGED layers
      \/ layers' = s
      \/ ~ Refused(b) /\ layers' = Append(s, Canonicalized(b.layer))
  BY <1>1, <1>2, <1>3 DEF Stack
<1>6. SourcesInv /\ patch.writes \in Seq(PatchWrites)
  BY DEF StackInv, SourcesInv
<1>7. IsTop(u)
  BY <1>1 DEF IsTop
<1>8. IsStack(s) /\ Above(layers, s) /\ \A k \in (Len(layers) + 1)..Len(s) : ~ IsPatch(s[k])
  BY <1>2, <1>6, <1>7, TopLayers, TopAbove
<1>9. CASE UNCHANGED layers
  BY <1>4, <1>9, PatchStays
<1>10. CASE layers' = s
  BY <1>4, <1>8, <1>10, PatchGrows
<1>11. CASE ~ Refused(b) /\ layers' = Append(s, Canonicalized(b.layer))
  <2>1. Above(s, layers') /\ Len(layers') = Len(s) + 1
    BY <1>8, <1>11, AboveMore
  <2>2. Above(layers, layers')
    BY <1>8, <2>1 DEF Above
  <2>3. ReplayedFor(Len(s) + 1)'
    BY <1>3, <1>4, <1>6, <1>8, <1>11, PatchOnTop
  <2>4. ASSUME NEW k \in (Len(layers) + 1)..Len(layers'), IsPatch(layers'[k]) PROVE ReplayedFor(k)'
    <3>1. Len(layers) \in Nat /\ Len(s) \in Nat
      BY <1>8 DEF Above
    <3>2. k = Len(s) + 1 \/ k \in 1..Len(s)
      BY <2>1, <3>1
    <3>3. k \in 1..Len(s) => k \in (Len(layers) + 1)..Len(s) /\ layers'[k] = s[k]
      BY <2>1, <3>1 DEF Above
    <3>4. k = Len(s) + 1
      BY <1>8, <2>4, <3>2, <3>3
    <3> QED
      BY <2>3, <3>4
  <2> QED
    BY <1>4, <2>2, <2>4, PatchGrows
<1> QED
  BY <1>5, <1>9, <1>10, <1>11

LEMMA PatchStep == StackInv /\ PatchInv /\ [Next]_vars => PatchInv'
<1> SUFFICES ASSUME StackInv, PatchInv, [Next]_vars PROVE PatchInv'
  OBVIOUS
<1>1. CASE UNCHANGED vars
  <2>1. UNCHANGED <<metadata, patch, layers, phase>>
    BY <1>1 DEF vars
  <2>2. CASE phase = "patch"
    BY <2>1, <2>2, PatchAlone
  <2>3. CASE phase # "patch"
    BY <2>1, <2>3, PatchStays
  <2> QED
    BY <2>2, <2>3
<1>2. CASE WritePatch \/ PatchEnds
  <2>1. phase = "patch" /\ UNCHANGED layers
    BY <1>2 DEF WritePatch, PatchEnds
  <2> QED
    BY <2>1, PatchAlone
<1>3. CASE ParseSet \/ ParseArgsEnds \/ VariablesEnd \/ MergeLayer
  <2>1. UNCHANGED <<metadata, patch, layers>> /\ phase' # "patch"
    BY <1>3 DEF ParseSet, ParseArgsEnds, VariablesEnd, MergeLayer
  <2> QED
    BY <2>1, PatchStays
<1>4. CASE SetEnv \/ Fallback
  <2>1. PICK p, x : InsertEnv(p, x) /\ phase \in {"env", "fallbacks"} /\ UNCHANGED <<metadata, patch, layers>>
    BY <1>4 DEF SetEnv, Fallback
  <2>2. phase' # "patch"
    BY <2>1 DEF InsertEnv
  <2> QED
    BY <2>1, <2>2, PatchStays
<1> QED
  BY <1>1, <1>2, <1>3, <1>4, LoadFileReplayed, FilesEndReplayed, StackReplayed DEF Next

\* S is the shape of the first n layers of s, and m agrees with it.
AgreesAfter(how, s, n, m) ==
    \E S : /\ IsShape(how, s, n, S)
           /\ Sound(S) /\ S.kind = "object"
           /\ Agree(how, s[1].value, S, m)

\* The merge begins with the defaults.
LEMMA AgreesFirst ==
  ASSUME NEW how, NEW s, IsStack(s), s[1].indexed = {}
  PROVE  AgreesAfter(how, s, 1, s[1].value)
<1>1. PICK l : l = s[1]
  OBVIOUS
<1>2. PICK d : d = l.value
  OBVIOUS
<1>3. IsLayer(l)
  BY <1>1, LenProperties DEF IsStack
<1>4. Sound(d) /\ d.kind = "object"
  BY <1>2, <1>3, TreeSound DEF IsLayer
<1>5. PICK f : IsMerge(how, d, d, l, f) /\ Merged(how, d, d, l) = f[<<>>]
  BY MergeExists
<1>6. PICK S : S = f[<<>>]
  OBVIOUS
<1>7. IsShape(how, s, 1, S)
  BY <1>1, <1>2, <1>5, <1>6, ShapeFirst
<1>8. Sound(S) /\ S.kind = "object"
  BY <1>4, <1>5, <1>6, MergedObject
<1>9. Agree(how, d, S, d)
  <2> SUFFICES ASSUME NEW p, IsPath(p), Len(p) <= MaxDepth PROVE AgreeOn(how, d, S, d, p)
    BY DEF Agree
  <2>1. PICK T : p \in Seq(T)
    BY DEF IsPath
  <2>2. l.indexed = {}
    BY <1>1
  <2> QED
    BY <1>4, <1>5, <1>6, <2>1, <2>2, AgreeStart
<1> QED
  BY <1>1, <1>2, <1>7, <1>8, <1>9 DEF AgreesAfter

\* One layer more, merged into both.
LEMMA AgreesMore ==
  ASSUME NEW how, NEW s, IsStack(s), NEW n \in Nat \ {0}, n + 1 <= Len(s), NEW m, Sound(m), AgreesAfter(how, s, n, m)
  PROVE  AgreesAfter(how, s, n + 1, Merged(how, m, s[n + 1].value, s[n + 1]))
<1>1. PICK S : /\ IsShape(how, s, n, S)
               /\ Sound(S) /\ S.kind = "object"
               /\ Agree(how, s[1].value, S, m)
  BY DEF AgreesAfter
<1>2. PICK l : l = s[n + 1]
  OBVIOUS
<1>3. PICK new : new = l.value
  OBVIOUS
<1>4. PICK d : d = s[1].value
  OBVIOUS
<1>5. IsLayer(l) /\ IsLayer(s[1])
  BY <1>2, LenProperties DEF IsStack
<1>6. Sound(new) /\ new.kind = "object" /\ Sound(d)
  BY <1>3, <1>4, <1>5, TreeSound DEF IsLayer
<1>7. PICK f : IsMerge(how, S, new, l, f) /\ Merged(how, S, new, l) = f[<<>>]
  BY MergeExists
<1>8. PICK g : IsMerge(how, m, new, l, g) /\ Merged(how, m, new, l) = g[<<>>]
  BY MergeExists
<1>9. PICK R : R = f[<<>>]
  OBVIOUS
<1>10. IsShape(how, s, n + 1, R)
  BY <1>1, <1>2, <1>3, <1>7, <1>9, ShapeNext
<1>11. Sound(R) /\ R.kind = "object"
  BY <1>1, <1>6, <1>7, <1>9, MergedObject
<1>12. Agree(how, d, R, g[<<>>])
  <2> SUFFICES ASSUME NEW p, IsPath(p), Len(p) <= MaxDepth PROVE AgreeOn(how, d, f[<<>>], g[<<>>], p)
    BY <1>9 DEF Agree
  <2>1. PICK T : p \in Seq(T)
    BY DEF IsPath
  <2>2. AgreeOn(how, d, S, m, p)
    BY <1>1, <1>4 DEF Agree
  <2> QED
    BY <1>1, <1>6, <1>7, <1>8, <2>1, <2>2, AgreeMore
<1>13. Merged(how, m, s[n + 1].value, s[n + 1]) = g[<<>>]
  BY <1>2, <1>3, <1>8
<1>14. AgreesAfter(how, s, n + 1, g[<<>>])
  BY <1>4, <1>10, <1>11, <1>12 DEF AgreesAfter
<1> QED
  BY <1>13, <1>14

\* What has been merged, and the shape of the same layers.
AgreeInv == phase \in {"merge", "done"} => AgreesAfter(metadata.merge, layers, Count(next), merged)

LEMMA AgreeInit == Init => AgreeInv
BY DEF Init, AgreeInv

LEMMA StackAgrees == StackInv /\ PatchInv /\ Stack => AgreeInv'
<1> SUFFICES ASSUME StackInv, PatchInv, Stack, phase' = "merge" PROVE AgreeInv'
  BY DEF AgreeInv, Stack
<1>1. StackInv' /\ PatchInv'
  BY StackKeeps, StackReplayed
<1>2. IsStack(layers') /\ layers'[1].indexed = {}
  BY <1>1 DEF StackInv, SourcesInv, PatchInv
<1>3. UNCHANGED <<metadata, merged, next>> /\ phase = "fallbacks"
  BY DEF Stack
<1>4. next' = 1
  BY <1>3 DEF StackInv, MergeInv, Unmerged
<1>5. merged' = layers'[1].value
  <2>1. merged = layers[1].value
    BY <1>3 DEF StackInv, MergeInv, Unmerged
  <2>2. PICK u : u = [i \in 1..Cardinality({l \in {args, env} : l.entries # {}}) |->
                        Canonicalized(IF i = 1 /\ env.entries # {} THEN env ELSE args)]
    OBVIOUS
  <2>3. PICK s : s = layers \o u
    OBVIOUS
  <2>4. UNCHANGED layers \/ layers' = s \/ \E l : layers' = Append(s, l)
    BY <2>2, <2>3 DEF Stack
  <2>5. IsTop(u) /\ SourcesInv
    BY <2>2 DEF IsTop, StackInv
  <2>6. IsStack(s) /\ s[1] = layers[1]
    BY <2>3, <2>5, TopLayers
  <2>7. \A l : Append(s, l)[1] = s[1]
    <3> SUFFICES ASSUME NEW l PROVE Append(s, l)[1] = s[1]
      OBVIOUS
    <3>1. Above(s, Append(s, l))
      BY <2>6, AboveMore
    <3> QED
      BY <3>1 DEF Above
  <2> QED
    BY <1>3, <2>1, <2>4, <2>6, <2>7
<1>6. AgreesAfter(metadata'.merge, layers', 1, merged')
  BY <1>2, <1>5, AgreesFirst
<1> QED
  BY <1>4, <1>6 DEF AgreeInv, Count

LEMMA MergeLayerAgrees == StackInv /\ AgreeInv /\ MergeLayer => AgreeInv'
<1> SUFFICES ASSUME StackInv, AgreeInv, MergeLayer, phase' \in {"merge", "done"} PROVE AgreeInv'
  BY DEF AgreeInv
<1>1. PICK l : l = layers[next]
  OBVIOUS
<1>2. UNCHANGED <<metadata, layers>> /\ phase = "merge" /\ next <= Len(layers)
  BY DEF MergeLayer
<1>3. /\ merged' = IF l.source = "defaults" THEN merged ELSE Merged(metadata.merge, merged, l.value, l)
      /\ next' = next + 1
  BY <1>1 DEF MergeLayer
<1>4. IsStack(layers) /\ next \in 1..(Len(layers) + 1) /\ IsMerged(metadata.merge, layers, merged, Count(next))
  BY <1>2 DEF StackInv, SourcesInv, MergeInv
<1>5. Len(layers) \in Nat
  BY <1>4, LenProperties DEF IsStack
<1>6. next \in 1..Len(layers) /\ (l.source = "defaults" <=> next = 1)
  BY <1>1, <1>2, <1>4, <1>5 DEF IsStack
<1>7. Count(next') = next
  BY <1>3, <1>6 DEF Count
<1>8. AgreesAfter(metadata.merge, layers, Count(next), merged)
  BY <1>2 DEF AgreeInv
<1>9. AgreesAfter(metadata.merge, layers, next, merged')
  <2>1. CASE next = 1
    BY <1>3, <1>6, <1>8, <2>1 DEF Count
  <2>2. CASE next # 1
    <3>1. PICK n : n = next - 1
      OBVIOUS
    <3>2. n \in Nat \ {0} /\ n + 1 = next /\ n + 1 <= Len(layers)
      BY <1>5, <1>6, <2>2, <3>1
    <3>3. AgreesAfter(metadata.merge, layers, n, merged) /\ Sound(merged)
      BY <1>4, <1>8, <2>2, <3>1 DEF Count, IsMerged
    <3>4. merged' = Merged(metadata.merge, merged, layers[n + 1].value, layers[n + 1])
      BY <1>1, <1>3, <1>6, <2>2, <3>2
    <3>5. AgreesAfter(metadata.merge, layers, n + 1, merged')
      BY <1>4, <3>2, <3>3, <3>4, AgreesMore
    <3> QED
      BY <3>2, <3>5
  <2> QED
    BY <2>1, <2>2
<1> QED
  BY <1>2, <1>7, <1>9 DEF AgreeInv

LEMMA AgreeStep == StackInv /\ PatchInv /\ AgreeInv /\ [Next]_vars => AgreeInv'
<1> SUFFICES ASSUME StackInv, PatchInv, AgreeInv, [Next]_vars PROVE AgreeInv'
  OBVIOUS
<1>1. CASE UNCHANGED vars
  BY <1>1 DEF vars, AgreeInv, Count
<1>2. CASE WritePatch \/ PatchEnds \/ ParseSet \/ ParseArgsEnds \/ LoadFile \/ FilesEnd \/ VariablesEnd
  BY <1>2 DEF AgreeInv, WritePatch, PatchEnds, ParseSet, ParseArgsEnds, LoadFile, FilesEnd, VariablesEnd
<1>3. CASE SetEnv \/ Fallback
  <2>1. PICK p, x : InsertEnv(p, x) /\ phase \in {"env", "fallbacks"}
    BY <1>3 DEF SetEnv, Fallback
  <2>2. phase' = phase \/ phase' = "refused"
    BY <2>1 DEF InsertEnv
  <2> QED
    BY <2>1, <2>2 DEF AgreeInv
<1> QED
  BY <1>1, <1>2, <1>3, StackAgrees, MergeLayerAgrees DEF Next

\* What is not misplaced is not shifted anywhere on the way.
LEMMA InPlace ==
  ASSUME Sound(merged), Sound(layers[1].value), NEW p, IsText(merged, p), ~ Misplaced(p)
  PROVE  \A j \in 1..Len(p) :
            Aligned(Walk(merged, p)[j - 1], p[j], Twice(metadata.merge, layers[1].value, Upto(p, j - 1)))
<1>1. PICK d : d = layers[1].value
  OBVIOUS
<1>2. PICK S : p \in Seq(S)
  BY TextOnTheWay
<1>3. Len(p) \in Nat
  BY <1>2, LenProperties
<1> SUFFICES ASSUME NEW j \in 1..Len(p), Walk(merged, p)[j - 1].kind = "array"
             PROVE  /\ IsIndex(p[j]) /\ CanonicalIndex(p[j]) = p[j]
                    /\ \/ Twice(metadata.merge, d, Upto(p, j - 1)) = 0
                       \/ Indices[p[j]] < Twice(metadata.merge, d, Upto(p, j - 1))
  BY <1>1 DEF Aligned
<1>4. PICK c : c = Upto(p, j - 1)
  OBVIOUS
<1>5. j - 1 \in 0..Len(p)
  BY <1>3
<1>6. IsIndex(p[j]) /\ CanonicalIndex(p[j]) = p[j]
  BY TextOnTheWay
<1>7. c \in Prefixes(p) \ {p} /\ c \in Seq(S) /\ Len(c) = j - 1
  BY <1>2, <1>4, <1>5, PrefixesUpto, UptoPoints
<1>8. GetAt(merged, c).kind = "array"
  BY <1>2, <1>4, <1>5, WalkUpto
<1>9. ChildIndex(c, p) = Indices[p[j]]
  <2>1. Len(c) + 1 = j
    BY <1>7
  <2> QED
    BY <2>1 DEF ChildIndex
<1>10. CASE Strategy(metadata.merge, c) = "Append"
  <2>1. Twice(metadata.merge, d, c) = Len(Elements(d, c)) /\ Len(Elements(d, c)) \in Nat
    BY <1>1, <1>7, <1>10, ElementsFacts DEF Twice
  <2>2. Indices[p[j]] \in Nat
    BY <1>6, IndexFacts DEF IsIndex
  <2>3. Elements(d, c) = <<>> \/ ~ (Indices[p[j]] >= Len(Elements(d, c)))
    BY <1>1, <1>7, <1>8, <1>9, <1>10 DEF Misplaced
  <2>4. Len(<<>>) = 0
    OBVIOUS
  <2>5. Len(Elements(d, c)) = 0 \/ Indices[p[j]] < Len(Elements(d, c))
    BY <2>1, <2>2, <2>3, <2>4
  <2> QED
    BY <1>4, <1>6, <2>1, <2>5
<1>11. CASE Strategy(metadata.merge, c) # "Append"
  BY <1>4, <1>6, <1>11 DEF Twice
<1> QED
  BY <1>10, <1>11

\* In place, the shape has what the merged value has.
LEMMA ShapeAgrees ==
  ASSUME Sound(merged), Sound(layers[1].value), NEW p, IsText(merged, p), ~ Misplaced(p),
         NEW S, Sound(S), Agree(metadata.merge, layers[1].value, S, merged)
  PROVE  SameKinds(S, merged, p) /\ OnText(S, p)
<1>1. PICK T : p \in Seq(T)
  BY TextOnTheWay
<1>2. IsPath(p) /\ Len(p) \in Nat /\ Len(p) <= MaxDepth
  <2>1. Len(p) \in 0..MaxDepth
    BY TextOnTheWay
  <2> QED
    BY <1>1, <2>1, DepthAssumption DEF IsPath
<1>3. AgreeOn(metadata.merge, layers[1].value, S, merged, p)
  BY <1>2 DEF Agree
<1>4. ASSUME NEW i \in 0..Len(p) PROVE Walk(S, p)[i].kind = Walk(merged, p)[i].kind
  <2>1. 1..i \subseteq 1..Len(p)
    BY <1>2
  <2>2. \A j \in 1..i :
           Aligned(Walk(merged, p)[j - 1], p[j], Twice(metadata.merge, layers[1].value, Upto(p, j - 1)))
    BY <2>1, InPlace
  <2>3. Alike(Walk(S, p)[i], Walk(merged, p)[i], Twice(metadata.merge, layers[1].value, Upto(p, i)))
    BY <1>3, <2>2 DEF AgreeOn
  <2> QED
    BY <2>3 DEF Alike
<1>5. SameKinds(S, merged, p)
  BY <1>4 DEF SameKinds
<1>6. \A i \in 0..Len(p) : Whole(Walk(S, p)[i])
  BY <1>1, SoundWalk
<1>7. ASSUME NEW i \in 1..Len(p)
      PROVE  /\ Walk(S, p)[i - 1].kind \in {"object", "array"}
             /\ Walk(S, p)[i - 1].kind = "array" => IsIndex(p[i]) /\ CanonicalIndex(p[i]) = p[i]
  <2>1. i - 1 \in 0..Len(p)
    BY <1>2
  <2>2. Walk(S, p)[i - 1].kind = Walk(merged, p)[i - 1].kind
    BY <1>4, <2>1
  <2> QED
    BY <2>2, TextOnTheWay
<1>8. Walk(S, p)[Len(p)].kind = "string"
  <2>1. Len(p) \in 0..Len(p)
    BY <1>2
  <2>2. Walk(merged, p)[Len(p)].kind = "string"
    BY DEF IsText, GetAt
  <2> QED
    BY <1>4, <2>1, <2>2
<1> QED
  BY <1>2, <1>5, <1>6, <1>7, <1>8 DEF OnText

\* The patch that is merged next has been replayed for a shape the merged value agrees with.
LEMMA PatchKnows ==
  ASSUME StackInv, PatchInv, AgreeInv, phase = "merge", IsPatch(layers[next]), patch.use # "layer"
  PROVE  /\ IsLayer(layers[next]) /\ Sound(merged) /\ merged.kind = "object" /\ Sound(layers[1].value)
         /\ \E S : /\ Sound(S) /\ S.kind = "object" /\ Agree(metadata.merge, layers[1].value, S, merged)
                   /\ IsReplayed(layers[next], S)
<1>1. IsStack(layers) /\ next \in 1..(Len(layers) + 1) /\ next <= Len(layers)
      /\ IsMerged(metadata.merge, layers, merged, Count(next))
  BY DEF StackInv, SourcesInv, MergeInv
<1>2. Len(layers) \in Nat /\ Len(layers) >= 1
  BY <1>1, LenProperties DEF IsStack
<1>3. next \in 1..Len(layers) /\ 1 \in 1..Len(layers)
  BY <1>1, <1>2
<1>4. next # 1
  BY <1>1, <1>3 DEF IsStack, IsPatch
<1>5. Count(next) = next - 1 /\ next - 1 \in Nat
  BY <1>3, <1>4 DEF Count
<1>6. IsLayer(layers[next]) /\ Sound(merged) /\ merged.kind = "object"
  BY <1>1, <1>3 DEF IsStack, IsMerged
<1>7. Sound(layers[1].value)
  BY <1>1, <1>3, TreeSound DEF IsStack, IsLayer
<1>8. PICK S : /\ IsShape(metadata.merge, layers, next - 1, S)
               /\ Sound(S) /\ S.kind = "object" /\ Agree(metadata.merge, layers[1].value, S, merged)
  BY <1>5 DEF AgreeInv, AgreesAfter
<1>9. PICK R : IsShape(metadata.merge, layers, next - 1, R) /\ IsReplayed(layers[next], R)
  BY <1>3 DEF PatchInv, ReplayedFor
<1>10. R = S
  BY <1>5, <1>8, <1>9, ShapeUnique
<1> QED
  BY <1>6, <1>7, <1>8, <1>9, <1>10

LEMMA RestHolds == StackInv /\ PatchInv /\ AgreeInv => PatchLeavesTheRest
<1> SUFFICES ASSUME StackInv, PatchInv, AgreeInv, phase = "merge", IsPatch(layers[next]), patch.use # "layer",
                    NEW p \in Texts(merged), Untouched(metadata.merge, layers[next], p), ~ Misplaced(p)
             PROVE  GetAt(Merged(metadata.merge, merged, layers[next].value, layers[next]), p) = GetAt(merged, p)
  BY DEF PatchLeavesTheRest, IsPatch, Untouched
<1>1. PICK how : how = metadata.merge
  OBVIOUS
<1>2. PICK l : l = layers[next]
  OBVIOUS
<1>3. IsLayer(l) /\ Sound(merged) /\ merged.kind = "object" /\ Sound(layers[1].value)
  BY <1>2, PatchKnows
<1>4. PICK S : Sound(S) /\ S.kind = "object" /\ Agree(how, layers[1].value, S, merged) /\ IsReplayed(l, S)
  BY <1>1, <1>2, PatchKnows
<1>5. IsText(merged, p)
  BY TextsAre
<1>6. SameKinds(S, merged, p) /\ OnText(S, p)
  BY <1>1, <1>3, <1>4, <1>5, ShapeAgrees
<1>7. PICK b : b = Replayed(l.source, S, patch.writes) /\ ~ Refused(b) /\ l = Canonicalized(b.layer)
  BY <1>4 DEF IsReplayed
<1>8. PICK n \in Nat : DOMAIN patch.writes = 1..n /\ \A i \in 1..n : IsPatchWrite(patch.writes[i])
  BY GivenPatches DEF StackInv, SourcesInv
<1>9. IsPatchLayer(b.layer)
  BY <1>7, <1>8, ReplayedLayer
<1>10. l.value = b.layer.value /\ l.claimed = b.layer.claimed
  BY <1>7, <1>9, CanonicalizedFacts DEF IsPatchLayer, IsBuilt
<1>11. Follows(b, S, p)
  BY <1>4, <1>6, <1>7, <1>8, ReplayedFollows
<1>12. Linked(l) /\ Sound(l.value) /\ l.value.kind = "object"
  BY <1>3, TreeSound DEF IsLayer
<1>13. LeftAlone(how, l, l.value, merged, p)
  BY <1>1, <1>2, <1>3, <1>5, <1>6, <1>9, <1>10, <1>11, <1>12, PatchLeftAlone
<1>14. PICK f : IsMerge(how, merged, l.value, l, f) /\ Merged(how, merged, l.value, l) = f[<<>>]
  BY MergeExists
<1>15. SameKinds(merged, merged, p)
  BY DEF SameKinds
<1>16. GetAt(f[<<>>], p) = GetAt(merged, p)
  BY <1>3, <1>5, <1>12, <1>13, <1>14, <1>15, LeftStays
<1> QED
  BY <1>1, <1>2, <1>14, <1>16

\* A typed patch that is replayed for what is beneath it changes what it writes and nothing
\* else, where its shape has the values in the place they are in: whatever the layers
\* beneath it are, and however its paths were spelled (DeferredPatchLayer::into_layer_with_shape,
\* merged_shape_from_layers).
THEOREM PatchLeaves == Spec => []PatchLeavesTheRest
<1>1. Init => StackInv /\ PatchInv /\ AgreeInv
  BY StackInit, PatchInit, AgreeInit
<1>2. (StackInv /\ PatchInv /\ AgreeInv) /\ [Next]_vars => (StackInv /\ PatchInv /\ AgreeInv)'
  BY StackStep, PatchStep, AgreeStep
<1>3. StackInv /\ PatchInv /\ AgreeInv => PatchLeavesTheRest
  BY RestHolds
<1> QED
  BY <1>1, <1>2, <1>3, PTL DEF Spec
=============================================================================
