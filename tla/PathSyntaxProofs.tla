-------------------------- MODULE PathSyntaxProofs --------------------------
(***************************************************************************)
(* What is proved of written paths, for any alphabet, any usize and paths  *)
(* of any length: the canonical form is read back as what it was written   *)
(* from, and the parser accepts the grammar.                               *)
(*                                                                         *)
(* The loops are folds, which are unrolled here into their turns.  Between *)
(* says which reader there is after a turn; ReaderInv, that it is the one  *)
(* the text so far leads to; Grammar, that it can still end well if and    *)
(* only if nothing can be held against the text so far, place by place;    *)
(* Keeps, that it has all of the text in its segments and its name.  Of a  *)
(* written path it is also proved that the variable documented for it is   *)
(* read as the variable of this path.                                      *)
(***************************************************************************)
EXTENDS EnvNames, SequenceTheorems, WellFoundedInduction, TLAPS

-----------------------------------------------------------------------------
(***************************************************************************)
(* The loops over the characters of a text and the segments of a path.     *)
(* FoldLeft is the value, at the whole domain of the list, of a function of*)
(* the sets of indices it is defined by; that there is such a function is  *)
(* shown for longer and longer lists.                                      *)
(***************************************************************************)
Join(acc, s) == IF acc = <<>> THEN s ELSE acc \o <<".">> \o s

JoinBy(acc, s, separator) == IF acc = <<>> THEN s ELSE acc \o separator \o s

Loop(name, separator) == [name |-> name, separator |-> separator]

Turn(loop, acc, x) ==
    CASE loop.name = "read" -> Read(acc, x)
      [] loop.name = "join" -> Join(acc, x)
      [] loop.name = "keep" -> Keep(acc, x)
      [] loop.name = "split" -> Split(acc, x, loop.separator)
      [] loop.name = "joinBy" -> JoinBy(acc, x, loop.separator)

IsFold(loop, g, base, s, k) ==
    g = [t \in SUBSET (1..k) |->
           IF t = {} THEN base ELSE Turn(loop, g[t \ {Max(t)}], s[Max(t)])]

\* Every set of numbers has a least one.
LEMMA LeastOne ==
  ASSUME NEW T \in SUBSET Nat, T # {}
  PROVE  \E m \in T : \A k \in T : m <= k
<1> DEFINE Less == {p \in Nat \X Nat : p[1] < p[2]}
<1>1. IsWellFoundedOn(Less, Nat)
  BY NatLessThanWellFounded DEF OpToRel
<1> HIDE DEF Less
<1>2. PICK m \in T : \A k \in T : ~ (<<k, m>> \in Less)
  BY <1>1, WFMin
<1>3. \A k \in T : ~ (k < m)
  BY <1>2 DEF Less
<1> QED
  BY <1>3

LEMMA MaxOfSet ==
  ASSUME NEW k \in Nat, NEW t \in SUBSET (1..k), k \in t
  PROVE  Max(t) = k
<1>1. k \in t /\ \A y \in t : k >= y
  OBVIOUS
<1>2. \A x \in t : (\A y \in t : x >= y) => x = k
  BY <1>1
<1>3. Max(t) \in t /\ \A y \in t : Max(t) >= y
  BY <1>1 DEF Max
<1> QED
  BY <1>2, <1>3

LEMMA FoldExists ==
  ASSUME NEW loop, NEW base, NEW s, NEW k \in Nat
  PROVE  \E g : IsFold(loop, g, base, s, k)
<1> DEFINE Bad == {n \in Nat : ~ \E g : IsFold(loop, g, base, s, n)}
<1>1. ASSUME NEW n \in Nat, NEW g, IsFold(loop, g, base, s, n)
      PROVE  \E h : IsFold(loop, h, base, s, n + 1)
  <2> DEFINE h == [t \in SUBSET (1..(n + 1)) |->
                     IF n + 1 \in t THEN Turn(loop, g[t \ {n + 1}], s[n + 1]) ELSE g[t]]
             W(t) == IF t = {} THEN base ELSE Turn(loop, h[t \ {Max(t)}], s[Max(t)])
  <2>1. ASSUME NEW t \in SUBSET (1..(n + 1)) PROVE h[t] = W(t)
    <3>1. CASE n + 1 \in t
      <4>1. Max(t) = n + 1
        BY <3>1, MaxOfSet
      <4>2. t \ {n + 1} \in SUBSET (1..(n + 1)) /\ n + 1 \notin t \ {n + 1}
        OBVIOUS
      <4>3. h[t \ {n + 1}] = g[t \ {n + 1}]
        BY <4>2
      <4> QED
        BY <3>1, <4>1, <4>3
    <3>2. CASE n + 1 \notin t
      <4>1. t \in SUBSET (1..n)
        BY <3>2
      <4>2. h[t] = g[t]
        BY <3>2
      <4>3. g[t] = IF t = {} THEN base ELSE Turn(loop, g[t \ {Max(t)}], s[Max(t)])
        BY <1>1, <4>1 DEF IsFold
      <4>4. t \ {Max(t)} \in SUBSET (1..(n + 1)) /\ n + 1 \notin t \ {Max(t)}
        BY <3>2
      <4>5. h[t \ {Max(t)}] = g[t \ {Max(t)}]
        BY <4>4
      <4> QED
        BY <4>2, <4>3, <4>5
    <3> QED
      BY <3>1, <3>2
  <2>2. h = [t \in SUBSET (1..(n + 1)) |-> W(t)]
    BY <2>1
  <2> QED
    BY <2>2 DEF IsFold
<1>2. \E g : IsFold(loop, g, base, s, 0)
  <2> DEFINE g == [t \in SUBSET (1..0) |-> base]
  <2>1. \A t \in SUBSET (1..0) : t = {}
    OBVIOUS
  <2>2. IsFold(loop, g, base, s, 0)
    BY <2>1 DEF IsFold
  <2> QED
    BY <2>2
<1>3. Bad = {}
  <2> SUFFICES ASSUME Bad # {} PROVE FALSE
    OBVIOUS
  <2>1. PICK m \in Bad : \A n \in Bad : m <= n
    BY LeastOne
  <2>2. m # 0 /\ m \in Nat
    BY <1>2
  <2>3. m - 1 \in Nat /\ m - 1 \notin Bad
    BY <2>1, <2>2
  <2>4. \E g : IsFold(loop, g, base, s, m - 1)
    BY <2>3
  <2>5. \E h : IsFold(loop, h, base, s, (m - 1) + 1)
    BY <1>1, <2>3, <2>4
  <2> QED
    BY <2>2, <2>5
<1> QED
  BY <1>3

\* The states of a loop before and after each of its turns.
IsRun(loop, g, base, s, n) ==
    /\ g[{}] = base
    /\ \A k \in 1..n : g[1..k] = Turn(loop, g[1..(k - 1)], s[k])

LEMMA FoldRuns ==
  ASSUME NEW loop, NEW base, NEW s, NEW n \in Nat, NEW iter,
         IsFold(loop, iter, base, s, n)
  PROVE  IsRun(loop, iter, base, s, n)
<1>1. iter[{}] = base
  BY DEF IsFold
<1>2. ASSUME NEW k \in 1..n PROVE iter[1..k] = Turn(loop, iter[1..(k - 1)], s[k])
  <2>1. 1..k \in SUBSET (1..n) /\ k \in Nat /\ k \in 1..k
    BY SMT
  <2>2. Max(1..k) = k
    BY <2>1, MaxOfSet
  <2>3. (1..k) \ {k} = 1..(k - 1)
    OBVIOUS
  <2>4. 1..k # {}
    BY <2>1
  <2> QED
    BY <2>1, <2>2, <2>3, <2>4 DEF IsFold
<1> QED
  BY <1>1, <1>2 DEF IsRun

\* One element more is one turn more.
LEMMA RunsMeet ==
  ASSUME NEW loop, NEW base, NEW S, NEW s \in Seq(S), NEW c \in S, NEW g, NEW h,
         IsRun(loop, g, base, s, Len(s)), IsRun(loop, h, base, Append(s, c), Len(s) + 1)
  PROVE  h[1..(Len(s) + 1)] = Turn(loop, g[1..Len(s)], c)
<1> DEFINE n == Len(s)
           more == Append(s, c)
           Bad == {k \in 0..n : g[1..k] # h[1..k]}
<1>1. n \in Nat /\ more[n + 1] = c /\ \A k \in 1..n : more[k] = s[k]
  BY LenProperties, AppendProperties
<1>2. g[{}] = base /\ \A k \in 1..n : g[1..k] = Turn(loop, g[1..(k - 1)], s[k])
  BY DEF IsRun
<1>3. h[{}] = base /\ \A k \in 1..(n + 1) : h[1..k] = Turn(loop, h[1..(k - 1)], more[k])
  BY DEF IsRun
<1> HIDE DEF more, n
<1>4. Bad = {}
  <2> SUFFICES ASSUME Bad # {} PROVE FALSE
    OBVIOUS
  <2>0. Bad \in SUBSET Nat
    BY <1>1
  <2>1. PICK k \in Bad : \A j \in Bad : k <= j
    BY <2>0, LeastOne
  <2>2. k # 0
    <3>1. 1..0 = {}
      OBVIOUS
    <3> QED
      BY <1>2, <1>3, <2>1, <3>1
  <2>3. k - 1 \in 0..n /\ k \in 1..n /\ k \in 1..(n + 1) /\ k - 1 \notin Bad
    BY <1>1, <2>1, <2>2
  <2>4. g[1..(k - 1)] = h[1..(k - 1)]
    BY <2>3
  <2>5. g[1..k] = h[1..k]
    BY <1>1, <1>2, <1>3, <2>3, <2>4
  <2> QED
    BY <2>1, <2>5
<1>5. g[1..n] = h[1..n]
  BY <1>1, <1>4
<1>6. n + 1 \in 1..(n + 1) /\ (n + 1) - 1 = n
  BY <1>1
<1>7. h[1..(n + 1)] = Turn(loop, h[1..n], more[n + 1])
  BY <1>3, <1>6
<1> QED
  BY <1>1, <1>5, <1>7 DEF n

\* What the loop of the parsers makes of a text.
Parsed(t) == FoldLeft(Read, Start, t)

\* The parsers' loop unrolled.
LEMMA ParsedRuns ==
  ASSUME NEW s, NEW n \in Nat, DOMAIN s = 1..n
  PROVE  \E g : IsRun(Loop("read", <<>>), g, Start, s, n) /\ Parsed(s) = g[1..n]
<1> DEFINE F(g) == [t \in SUBSET (1..n) |->
                      IF t = {} THEN Start ELSE Read(g[t \ {Max(t)}], s[Max(t)])]
           iter == CHOOSE g : g = F(g)
<1>1. \E g : g = F(g)
  <2>1. PICK g : IsFold(Loop("read", <<>>), g, Start, s, n)
    BY FoldExists
  <2>2. g = F(g)
    BY <2>1 DEF IsFold, Turn, Loop
  <2> QED
    BY <2>2
<1>2. iter = F(iter)
  BY <1>1
<1>3. Parsed(s) = iter[1..n]
  BY DEF Parsed, FoldLeft, MapThenFoldSet
<1> HIDE DEF iter
<1>4. IsFold(Loop("read", <<>>), iter, Start, s, n)
  BY <1>2 DEF IsFold, Turn, Loop
<1>5. IsRun(Loop("read", <<>>), iter, Start, s, n)
  BY <1>4, FoldRuns
<1> QED
  BY <1>3, <1>5

LEMMA ParsedAppend ==
  ASSUME NEW S, NEW s \in Seq(S), NEW c \in S
  PROVE  Parsed(Append(s, c)) = Read(Parsed(s), c)
<1>1. /\ Len(s) \in Nat /\ Len(s) + 1 \in Nat /\ DOMAIN s = 1..Len(s)
      /\ Append(s, c) \in Seq(S) /\ Len(Append(s, c)) = Len(s) + 1
      /\ DOMAIN Append(s, c) = 1..(Len(s) + 1)
  BY LenProperties, AppendProperties
<1>2. PICK g : IsRun(Loop("read", <<>>), g, Start, s, Len(s)) /\ Parsed(s) = g[1..Len(s)]
  BY <1>1, ParsedRuns
<1>3. PICK h : /\ IsRun(Loop("read", <<>>), h, Start, Append(s, c), Len(s) + 1)
               /\ Parsed(Append(s, c)) = h[1..(Len(s) + 1)]
  BY <1>1, ParsedRuns
<1>4. h[1..(Len(s) + 1)] = Turn(Loop("read", <<>>), g[1..Len(s)], c)
  BY <1>2, <1>3, RunsMeet
<1> QED
  BY <1>2, <1>3, <1>4 DEF Turn, Loop

LEMMA ParsedNothing == Parsed(<<>>) = Start
<1>1. PICK g : IsRun(Loop("read", <<>>), g, Start, <<>>, 0) /\ Parsed(<<>>) = g[1..0]
  BY ParsedRuns
<1>2. 1..0 = {}
  OBVIOUS
<1> QED
  BY <1>1, <1>2 DEF IsRun

\* And the loop that writes a path.
LEMMA JoinedRuns ==
  ASSUME NEW s, NEW n \in Nat, DOMAIN s = 1..n
  PROVE  \E g : IsRun(Loop("join", <<>>), g, <<>>, s, n) /\ Joined(s) = g[1..n]
<1> DEFINE F(g) == [t \in SUBSET (1..n) |->
                      IF t = {} THEN <<>> ELSE Join(g[t \ {Max(t)}], s[Max(t)])]
           iter == CHOOSE g : g = F(g)
<1>1. \E g : g = F(g)
  <2>1. PICK g : IsFold(Loop("join", <<>>), g, <<>>, s, n)
    BY FoldExists
  <2>2. g = F(g)
    BY <2>1 DEF IsFold, Turn, Loop
  <2> QED
    BY <2>2
<1>2. iter = F(iter)
  BY <1>1
<1>3. Joined(s) = iter[1..n]
  BY DEF Joined, FoldLeft, MapThenFoldSet, Join
<1> HIDE DEF iter
<1>4. IsFold(Loop("join", <<>>), iter, <<>>, s, n)
  BY <1>2 DEF IsFold, Turn, Loop
<1>5. IsRun(Loop("join", <<>>), iter, <<>>, s, n)
  BY <1>4, FoldRuns
<1> QED
  BY <1>3, <1>5

LEMMA JoinedAppend ==
  ASSUME NEW S, NEW s \in Seq(S), NEW c \in S
  PROVE  Joined(Append(s, c)) = Join(Joined(s), c)
<1>1. /\ Len(s) \in Nat /\ Len(s) + 1 \in Nat /\ DOMAIN s = 1..Len(s)
      /\ Append(s, c) \in Seq(S) /\ Len(Append(s, c)) = Len(s) + 1
      /\ DOMAIN Append(s, c) = 1..(Len(s) + 1)
  BY LenProperties, AppendProperties
<1>2. PICK g : IsRun(Loop("join", <<>>), g, <<>>, s, Len(s)) /\ Joined(s) = g[1..Len(s)]
  BY <1>1, JoinedRuns
<1>3. PICK h : /\ IsRun(Loop("join", <<>>), h, <<>>, Append(s, c), Len(s) + 1)
               /\ Joined(Append(s, c)) = h[1..(Len(s) + 1)]
  BY <1>1, JoinedRuns
<1>4. h[1..(Len(s) + 1)] = Turn(Loop("join", <<>>), g[1..Len(s)], c)
  BY <1>2, <1>3, RunsMeet
<1> QED
  BY <1>2, <1>3, <1>4 DEF Turn, Loop

LEMMA JoinedNothing == Joined(<<>>) = <<>>
<1>1. PICK g : IsRun(Loop("join", <<>>), g, <<>>, <<>>, 0) /\ Joined(<<>>) = g[1..0]
  BY JoinedRuns
<1>2. 1..0 = {}
  OBVIOUS
<1> QED
  BY <1>1, <1>2 DEF IsRun

\* And the one that leaves the brackets, dots and zeros out.
LEMMA KeptRuns ==
  ASSUME NEW s, NEW n \in Nat, DOMAIN s = 1..n
  PROVE  \E g : IsRun(Loop("keep", <<>>), g, <<>>, s, n) /\ Kept(s) = g[1..n]
<1> DEFINE F(g) == [t \in SUBSET (1..n) |->
                      IF t = {} THEN <<>> ELSE Keep(g[t \ {Max(t)}], s[Max(t)])]
           iter == CHOOSE g : g = F(g)
<1>1. \E g : g = F(g)
  <2>1. PICK g : IsFold(Loop("keep", <<>>), g, <<>>, s, n)
    BY FoldExists
  <2>2. g = F(g)
    BY <2>1 DEF IsFold, Turn, Loop
  <2> QED
    BY <2>2
<1>2. iter = F(iter)
  BY <1>1
<1>3. Kept(s) = iter[1..n]
  BY DEF Kept, FoldLeft, MapThenFoldSet
<1> HIDE DEF iter
<1>4. IsFold(Loop("keep", <<>>), iter, <<>>, s, n)
  BY <1>2 DEF IsFold, Turn, Loop
<1>5. IsRun(Loop("keep", <<>>), iter, <<>>, s, n)
  BY <1>4, FoldRuns
<1> QED
  BY <1>3, <1>5

LEMMA KeptAppend ==
  ASSUME NEW S, NEW s \in Seq(S), NEW c \in S
  PROVE  Kept(Append(s, c)) = Keep(Kept(s), c)
<1>1. /\ Len(s) \in Nat /\ Len(s) + 1 \in Nat /\ DOMAIN s = 1..Len(s)
      /\ Append(s, c) \in Seq(S) /\ Len(Append(s, c)) = Len(s) + 1
      /\ DOMAIN Append(s, c) = 1..(Len(s) + 1)
  BY LenProperties, AppendProperties
<1>2. PICK g : IsRun(Loop("keep", <<>>), g, <<>>, s, Len(s)) /\ Kept(s) = g[1..Len(s)]
  BY <1>1, KeptRuns
<1>3. PICK h : /\ IsRun(Loop("keep", <<>>), h, <<>>, Append(s, c), Len(s) + 1)
               /\ Kept(Append(s, c)) = h[1..(Len(s) + 1)]
  BY <1>1, KeptRuns
<1>4. h[1..(Len(s) + 1)] = Turn(Loop("keep", <<>>), g[1..Len(s)], c)
  BY <1>2, <1>3, RunsMeet
<1> QED
  BY <1>2, <1>3, <1>4 DEF Turn, Loop

LEMMA KeptNothing == Kept(<<>>) = <<>>
<1>1. PICK g : IsRun(Loop("keep", <<>>), g, <<>>, <<>>, 0) /\ Kept(<<>>) = g[1..0]
  BY KeptRuns
<1>2. 1..0 = {}
  OBVIOUS
<1> QED
  BY <1>1, <1>2 DEF IsRun

-----------------------------------------------------------------------------
(***************************************************************************)
(* Where the loop is.  Segments are names without any of the characters    *)
(* that separate them.                                                     *)
(***************************************************************************)
NameCharacters == Characters \ {".", "[", "]"}
Written == Seq(NameCharacters) \ {<<>>}

ReaderType ==
    [mode : {"name", "bracket", "index", "error"}, segments : Seq(Written),
     current : Seq(Characters), indices : SUBSET Nat, expecting : BOOLEAN, big : BOOLEAN]

\* Between two characters.
Between(r) ==
    /\ r \in ReaderType
    /\ r.mode = "name" => /\ r.current \in Seq(NameCharacters)
                          /\ r.expecting => r.current = <<>>
                          /\ ~ r.expecting => r.current # <<>>
    /\ r.mode = "index" => r.current = <<>> /\ ~ r.expecting /\ r.segments # <<>>

LEMMA EmptySequence ==
  ASSUME NEW S, NEW s \in Seq(S)
  PROVE  /\ Len(s) \in Nat /\ DOMAIN s = 1..Len(s)
         /\ s = <<>> <=> Len(s) = 0
  BY EmptySeq, LenProperties

LEMMA Appended ==
  ASSUME NEW S, NEW s \in Seq(S), NEW x \in S
  PROVE  /\ Append(s, x) \in Seq(S) /\ Append(s, x) # <<>> /\ Len(Append(s, x)) = Len(s) + 1
         /\ \A i \in 1..Len(s) : Append(s, x)[i] = s[i]
         /\ Append(s, x)[Len(s) + 1] = x
  BY AppendProperties

LEMMA StartIsBetween == Between(Start)
<1>1. <<>> \in Seq(Written) /\ <<>> \in Seq(Characters) /\ <<>> \in Seq(NameCharacters)
  OBVIOUS
<1> QED
  BY <1>1 DEF Start, Between, ReaderType

\* An index, without its leading zeros, is a name.
LEMMA RewrittenIsWritten ==
  ASSUME NEW d \in Seq(Characters), d # <<>>, Range(d) \subseteq Digits
  PROVE  Rewritten(d) \in Written
<1> DEFINE ones == {i \in DOMAIN d : d[i] # "0"}
           Least(i) == \A j \in ones : i <= j
<1>1. Len(d) \in Nat /\ DOMAIN d = 1..Len(d) /\ Len(d) # 0
  BY EmptySequence
<1>2. \A i \in DOMAIN d : d[i] \in NameCharacters
  <2>1. \A i \in DOMAIN d : d[i] \in Digits
    BY DEF Range
  <2> QED
    BY <2>1 DEF Digits, NameCharacters, Characters
<1>3. CASE ones = {}
  <2>1. "0" \in NameCharacters
    BY DEF NameCharacters, Characters, Digits
  <2>2. <<"0">> \in Seq(NameCharacters) /\ <<"0">> # <<>>
    BY <2>1
  <2>3. Rewritten(d) = <<"0">>
    BY <1>3 DEF Rewritten
  <2> QED
    BY <2>2, <2>3 DEF Written
<1>4. CASE ones # {}
  <2>1. ones \in SUBSET Nat
    BY <1>1
  <2>2. \E i \in ones : Least(i)
    BY <1>4, <2>1, LeastOne
  <2> DEFINE m == CHOOSE i \in ones : Least(i)
  <2>3. m \in ones
    BY <2>2
  <2>4. m \in 1..Len(d)
    BY <1>1, <2>3
  <2>5. Rewritten(d) = SubSeq(d, m, Len(d))
    BY <1>4 DEF Rewritten
  <2> HIDE DEF m, ones
  <2>6. d \in Seq(NameCharacters)
    BY <1>1, <1>2
  <2>7. SubSeq(d, m, Len(d)) \in Seq(NameCharacters) /\ Len(SubSeq(d, m, Len(d))) = Len(d) - m + 1
    BY <1>1, <2>4, <2>6, SubSeqProperties
  <2>8. SubSeq(d, m, Len(d)) # <<>>
    <3>1. Len(SubSeq(d, m, Len(d))) # 0
      BY <1>1, <2>4, <2>7
    <3> QED
      BY <3>1, EmptySeq
  <2> QED
    BY <2>5, <2>7, <2>8 DEF Written
<1> QED
  BY <1>3, <1>4

LEMMA ReadKeeps ==
  ASSUME NEW r, Between(r), NEW c \in Characters
  PROVE  Between(Read(r, c))
<1>1. r \in ReaderType
  BY DEF Between
<1>2. NameCharacters \subseteq Characters
  BY DEF NameCharacters
<1>3. CASE r.mode = "error"
  BY <1>3 DEF Read
<1>4. Between(Refused(r))
  BY <1>1 DEF Refused, Between, ReaderType
<1>5. CASE r.mode = "bracket" /\ c = "]"
  <2>1. CASE r.current = <<>> \/ ~ Range(r.current) \subseteq Digits
    BY <1>4, <1>5, <2>1 DEF Read, CloseIndex
  <2>2. CASE r.current # <<>> /\ Range(r.current) \subseteq Digits
    <3>1. r.current \in Seq(Characters) /\ r.segments \in Seq(Written)
      BY <1>1 DEF ReaderType
    <3>2. Rewritten(r.current) \in Written
      BY <2>2, <3>1, RewrittenIsWritten
    <3>3. /\ Append(r.segments, Rewritten(r.current)) \in Seq(Written)
          /\ Append(r.segments, Rewritten(r.current)) # <<>>
      BY <3>1, <3>2, Appended
    <3>4. <<>> \in Seq(Characters) /\ Len(r.segments) + 1 \in Nat
      BY <3>1, EmptySequence
    <3> DEFINE new == Append(r.segments, Rewritten(r.current))
               at == r.indices \cup {Len(r.segments) + 1}
               fits == r.big \/ ValueOf(r.current) > MaxIndex
    <3>5. Read(r, c) = [r EXCEPT !.mode = "index", !.segments = new, !.current = <<>>,
                                 !.expecting = FALSE, !.indices = at, !.big = fits]
      BY <1>5, <2>2 DEF Read, CloseIndex
    <3>6. new \in Seq(Written) /\ new # <<>> /\ at \in SUBSET Nat /\ fits \in BOOLEAN
      BY <1>1, <3>3, <3>4 DEF ReaderType
    <3> HIDE DEF new, at, fits
    <3> QED
      BY <1>1, <3>4, <3>5, <3>6 DEF Between, ReaderType
  <2> QED
    BY <2>1, <2>2
<1>6. CASE r.mode = "bracket" /\ c # "]"
  <2>1. Append(r.current, c) \in Seq(Characters)
    BY <1>1 DEF ReaderType
  <2>2. Read(r, c) = [r EXCEPT !.current = Append(r.current, c)]
    BY <1>6 DEF Read
  <2> QED
    BY <1>1, <1>6, <2>1, <2>2 DEF Between, ReaderType
<1>7. CASE r.mode = "index"
  <2>1. CASE c = "."
    <3>1. Read(r, c) = [r EXCEPT !.mode = "name", !.expecting = TRUE]
      BY <1>7, <2>1 DEF Read
    <3>2. r.current = <<>> /\ <<>> \in Seq(NameCharacters)
      BY <1>7 DEF Between
    <3>3. Read(r, c) \in ReaderType
      BY <1>1, <3>1 DEF ReaderType
    <3>4. /\ Read(r, c).mode = "name" /\ Read(r, c).expecting
          /\ Read(r, c).current = <<>>
      BY <1>1, <3>1, <3>2 DEF ReaderType
    <3> QED
      BY <3>2, <3>3, <3>4 DEF Between
  <2>2. CASE c = "["
    <3>1. Read(r, c) = [r EXCEPT !.mode = "bracket"]
      BY <1>7, <2>2 DEF Read
    <3> QED
      BY <1>1, <3>1 DEF Between, ReaderType
  <2>3. CASE c \notin {".", "["}
    BY <1>4, <1>7, <2>3 DEF Read
  <2> QED
    BY <2>1, <2>2, <2>3
<1>8. CASE r.mode = "name"
  <2>1. r.current \in Seq(NameCharacters) /\ r.segments \in Seq(Written)
    BY <1>1, <1>8 DEF Between, ReaderType
  <2>2. ASSUME r.current # <<>>
        PROVE  Append(r.segments, r.current) \in Seq(Written)
    BY <2>1, <2>2, Appended DEF Written
  <2>3. CASE c = "." /\ r.current # <<>>
    <3>1. Read(r, c) = [PushName(r) EXCEPT !.expecting = TRUE]
      BY <1>8, <2>3 DEF Read
    <3>2. <<>> \in Seq(NameCharacters) /\ <<>> \in Seq(Characters)
      OBVIOUS
    <3> QED
      BY <1>1, <1>8, <2>2, <2>3, <3>1, <3>2 DEF PushName, Between, ReaderType
  <2>4. CASE c = "[" /\ r.current # <<>>
    <3>1. Read(r, c) = [PushName(r) EXCEPT !.mode = "bracket"]
      BY <1>8, <2>4 DEF Read
    <3>2. <<>> \in Seq(Characters)
      OBVIOUS
    <3> QED
      BY <1>1, <1>8, <2>2, <2>4, <3>1, <3>2 DEF PushName, Between, ReaderType
  <2>5. CASE c \in {".", "[", "]"} /\ ~ (c = "." /\ r.current # <<>>) /\ ~ (c = "[" /\ r.current # <<>>)
    BY <1>4, <1>8, <2>5 DEF Read
  <2>6. CASE c \notin {".", "[", "]"}
    <3>1. Read(r, c) = [r EXCEPT !.current = Append(r.current, c), !.expecting = FALSE]
      BY <1>8, <2>6 DEF Read
    <3>2. c \in NameCharacters
      BY <2>6 DEF NameCharacters
    <3>3. /\ Append(r.current, c) \in Seq(NameCharacters) /\ Append(r.current, c) # <<>>
          /\ Append(r.current, c) \in Seq(Characters)
      BY <1>1, <2>1, <3>2, Appended DEF ReaderType
    <3> QED
      BY <1>1, <1>8, <3>1, <3>3 DEF Between, ReaderType
  <2> QED
    BY <2>3, <2>4, <2>5, <2>6
<1> QED
  BY <1>1, <1>3, <1>5, <1>6, <1>7, <1>8 DEF ReaderType

-----------------------------------------------------------------------------
(***************************************************************************)
(* A path that is written out is read as itself.                           *)
(***************************************************************************)
\* A name is read to its end.
LEMMA NameRead ==
  ASSUME NEW u \in Seq(Characters), Parsed(u) \in ReaderType,
         Parsed(u).mode = "name", Parsed(u).current = <<>>, NEW w \in Written
  PROVE  Parsed(u \o w) = [Parsed(u) EXCEPT !.current = w, !.expecting = FALSE]
<1> DEFINE r == Parsed(u)
           n == Len(w)
           Begun(i) == SubSeq(w, 1, i)
           At(i) == [r EXCEPT !.current = Begun(i), !.expecting = FALSE]
           Bad == {i \in 1..n : Parsed(u \o Begun(i)) # At(i)}
<1>1. /\ w \in Seq(NameCharacters) /\ n \in Nat \ {0} /\ Begun(n) = w
      /\ \A i \in 1..n : w[i] \in NameCharacters
  BY EmptySequence, SubSeqFull DEF Written
<1>2. NameCharacters \subseteq Characters /\ ~ ("." \in NameCharacters)
      /\ ~ ("[" \in NameCharacters) /\ ~ ("]" \in NameCharacters)
  BY DEF NameCharacters
<1>3. w \in Seq(Characters)
  BY <1>1, <1>2
<1>4. ASSUME NEW i \in 0..(n - 1)
      PROVE  /\ Begun(i) \in Seq(Characters) /\ w[i + 1] \in Characters
             /\ Begun(i + 1) = Append(Begun(i), w[i + 1])
             /\ u \o Begun(i + 1) = Append(u \o Begun(i), w[i + 1])
             /\ u \o Begun(i) \in Seq(Characters)
  <2>1. i + 1 \in 1..n /\ i \in 0..n /\ 1 \in 1..(n + 1) /\ i \in 0..n
    BY <1>1
  <2>2. /\ Begun(i) \in Seq(Characters) /\ Len(Begun(i)) = i
        /\ \A j \in 1..i : Begun(i)[j] = w[j]
        /\ Begun(i + 1) \in Seq(Characters) /\ Len(Begun(i + 1)) = i + 1
        /\ \A j \in 1..(i + 1) : Begun(i + 1)[j] = w[j]
    BY <1>1, <1>3, <2>1, SubSeqProperties
  <2>3. w[i + 1] \in Characters
    BY <1>1, <1>2, <2>1
  <2> HIDE DEF Begun
  <2>4. /\ Append(Begun(i), w[i + 1]) \in Seq(Characters)
        /\ Len(Append(Begun(i), w[i + 1])) = i + 1
        /\ \A j \in 1..i : Append(Begun(i), w[i + 1])[j] = w[j]
        /\ Append(Begun(i), w[i + 1])[i + 1] = w[i + 1]
    BY <2>2, <2>3, AppendProperties
  <2>5. Begun(i + 1) = Append(Begun(i), w[i + 1])
    <3>1. \A j \in 1..(i + 1) : Begun(i + 1)[j] = Append(Begun(i), w[i + 1])[j]
      BY <2>1, <2>2, <2>4
    <3> QED
      BY <2>2, <2>4, <3>1, SeqEqual
  <2>6. u \o Append(Begun(i), w[i + 1]) = Append(u \o Begun(i), w[i + 1])
    BY <2>2, <2>3
  <2>7. u \o Begun(i) \in Seq(Characters)
    BY <2>2
  <2> QED
    BY <2>2, <2>3, <2>5, <2>6, <2>7
<1>5. Begun(0) = <<>> /\ u \o <<>> = u
  OBVIOUS
<1> HIDE DEF Begun, n
<1>6. ASSUME NEW i \in 0..(n - 1), NEW got,
             Parsed(u \o Begun(i)) = got, got.mode = "name",
             got.current = Begun(i)
      PROVE  Parsed(u \o Begun(i + 1)) = [got EXCEPT !.current = Begun(i + 1), !.expecting = FALSE]
  <2>1. Parsed(u \o Begun(i + 1)) = Read(got, w[i + 1])
    BY <1>4, <1>6, ParsedAppend
  <2>2. w[i + 1] \notin {".", "[", "]"}
    <3>1. i + 1 \in 1..n
      BY <1>1
    <3> QED
      BY <1>1, <1>2, <3>1
  <2>3. Read(got, w[i + 1]) = [got EXCEPT !.current = Append(got.current, w[i + 1]), !.expecting = FALSE]
    BY <1>6, <2>2 DEF Read
  <2> QED
    BY <1>4, <1>6, <2>1, <2>3
<1> HIDE DEF At
<1>7. Bad = {}
  <2> SUFFICES ASSUME Bad # {} PROVE FALSE
    OBVIOUS
  <2>0. Bad \in SUBSET Nat
    BY <1>1
  <2>1. PICK i \in Bad : \A j \in Bad : i <= j
    BY <2>0, LeastOne
  <2>2. i \in 1..n /\ i - 1 \in 0..(n - 1) /\ (i - 1) + 1 = i /\ i - 1 \notin Bad
    BY <1>1, <2>1
  <2>3. CASE i = 1
    <3>1. Parsed(u \o Begun(0)) = r /\ r.mode = "name" /\ r.current = Begun(0)
      BY <1>5
    <3>2. 0 \in 0..(n - 1) /\ 0 + 1 = 1
      BY <1>1
    <3>3. Parsed(u \o Begun(0 + 1)) = [r EXCEPT !.current = Begun(0 + 1), !.expecting = FALSE]
      BY <1>6, <3>1, <3>2
    <3>4. Parsed(u \o Begun(1)) = At(1)
      BY <3>2, <3>3 DEF At
    <3> QED
      BY <2>1, <2>3, <3>4
  <2>4. CASE i # 1
    <3>1. i - 1 \in 1..n
      BY <1>1, <2>2, <2>4
    <3>2. Parsed(u \o Begun(i - 1)) = At(i - 1)
      BY <2>2, <3>1
    <3>3. At(i - 1).mode = "name" /\ At(i - 1).current = Begun(i - 1)
      BY DEF ReaderType, At
    <3>4. Parsed(u \o Begun((i - 1) + 1))
             = [At(i - 1) EXCEPT !.current = Begun((i - 1) + 1), !.expecting = FALSE]
      BY <1>6, <2>2, <3>2, <3>3
    <3>5. [At(i - 1) EXCEPT !.current = Begun(i), !.expecting = FALSE] = At(i)
      BY DEF ReaderType, At
    <3> QED
      BY <2>1, <2>2, <3>4, <3>5
  <2> QED
    BY <2>3, <2>4
<1>8. Parsed(u \o Begun(n)) = At(n)
  BY <1>1, <1>7
<1> QED
  BY <1>1, <1>8 DEF At

\* The reader at the end of the canonical form of s.
ReadTo(s) == [Start EXCEPT !.segments = Front(s), !.current = Last(s), !.expecting = FALSE]

Reads(s) ==
    /\ Joined(s) \in Seq(Characters) /\ Joined(s) # <<>> /\ Joined(s)[1] # "."
    /\ Parsed(Joined(s)) = ReadTo(s)

LEMMA WrittenNames ==
  ASSUME NEW w \in Written
  PROVE  /\ w \in Seq(NameCharacters) /\ w \in Seq(Characters) /\ w # <<>>
         /\ Len(w) \in Nat \ {0} /\ w[1] \in NameCharacters
<1>1. w \in Seq(NameCharacters) /\ w # <<>>
  BY DEF Written
<1>2. Len(w) \in Nat /\ Len(w) # 0
  BY <1>1, EmptySequence
<1>3. NameCharacters \subseteq Characters
  BY DEF NameCharacters
<1> QED
  BY <1>1, <1>2, <1>3

\* A path is its front and its last segment.
LEMMA FrontAndLast ==
  ASSUME NEW t \in Seq(Written), t # <<>>
  PROVE  Front(t) \in Seq(Written) /\ Last(t) \in Written /\ Append(Front(t), Last(t)) = t
<1> DEFINE f == Front(t)
           w == Last(t)
           again == Append(f, w)
<1>1. Len(t) \in Nat /\ Len(t) # 0 /\ DOMAIN t = 1..Len(t)
  BY EmptySequence
<1>2. Len(t) - 1 \in 0..Len(t) /\ 1 \in 1..(Len(t) + 1)
  BY <1>1
<1>3. f \in Seq(Written) /\ Len(f) = Len(t) - 1 /\ \A i \in 1..(Len(t) - 1) : f[i] = t[i]
  BY <1>1, <1>2, SubSeqProperties DEF Front
<1>4. w \in Written /\ w = t[Len(t)]
  BY <1>1 DEF Last
<1> HIDE DEF f, w
<1>5. /\ again \in Seq(Written) /\ Len(again) = Len(f) + 1
      /\ \A i \in 1..Len(f) : again[i] = f[i]
      /\ again[Len(f) + 1] = w
  BY <1>3, <1>4, AppendProperties
<1> HIDE DEF again
<1>6. Len(f) + 1 = Len(t)
  BY <1>1, <1>3
<1>7. \A i \in 1..Len(t) : again[i] = t[i]
  BY <1>1, <1>3, <1>4, <1>5, <1>6
<1>8. again = t
  BY <1>5, <1>6, <1>7, SeqEqual
<1> QED
  BY <1>3, <1>4, <1>8 DEF again, f, w

LEMMA ReadsOne ==
  ASSUME NEW w \in Written
  PROVE  Reads(Append(<<>>, w))
<1> DEFINE s == Append(<<>>, w)
<1>1. <<>> \in Seq(Written) /\ s = <<w>>
  OBVIOUS
<1>2. Joined(s) = w
  BY <1>1, JoinedAppend, JoinedNothing DEF Join
<1>3. w \in Seq(Characters) /\ w # <<>> /\ w[1] \in NameCharacters
  BY WrittenNames
<1>4. Front(s) = <<>> /\ Last(s) = w
  BY <1>1 DEF Front, Last
<1>5. <<>> \in Seq(Characters) /\ <<>> \o w = w
  BY <1>3
<1>6. Start \in ReaderType /\ Start.mode = "name" /\ Start.current = <<>> /\ Start.segments = <<>>
  BY StartIsBetween DEF Between, Start
<1>7. Parsed(w) = [Start EXCEPT !.current = w, !.expecting = FALSE]
  BY <1>5, <1>6, NameRead, ParsedNothing
<1> HIDE DEF s
<1>8. ReadTo(s) = [Start EXCEPT !.current = w, !.expecting = FALSE]
  <2>1. Front(s) = Start.segments /\ Last(s) = w
    BY <1>4, <1>6
  <2>2. [Start EXCEPT !.segments = Start.segments, !.current = w, !.expecting = FALSE]
           = [Start EXCEPT !.current = w, !.expecting = FALSE]
    BY <1>6 DEF ReaderType
  <2> QED
    BY <2>1, <2>2 DEF ReadTo
<1>9. w[1] # "."
  BY <1>3 DEF NameCharacters
<1> QED
  BY <1>2, <1>3, <1>7, <1>8, <1>9 DEF Reads, s

LEMMA ReadsMore ==
  ASSUME NEW t \in Seq(Written), t # <<>>, Reads(t), NEW w \in Written
  PROVE  Reads(Append(t, w))
<1> DEFINE s == Append(t, w)
           u == Append(Joined(t), ".")
           r == [ReadTo(t) EXCEPT !.segments = t, !.current = <<>>, !.expecting = TRUE]
<1>1. "." \in Characters
  BY DEF Characters
<1>2. /\ Joined(t) \in Seq(Characters) /\ Joined(t) # <<>> /\ Joined(t)[1] # "."
      /\ Parsed(Joined(t)) = ReadTo(t)
  BY DEF Reads
<1>3. /\ u \in Seq(Characters) /\ u # <<>> /\ u[1] = Joined(t)[1] /\ Len(u) \in Nat /\ Len(u) > 0
  <2>1. Len(Joined(t)) \in Nat /\ Len(Joined(t)) # 0 /\ 1 \in 1..Len(Joined(t))
    BY <1>2, EmptySequence
  <2> QED
    BY <1>1, <1>2, <2>1, Appended
<1>4. /\ w \in Seq(Characters) /\ w # <<>> /\ Len(w) \in Nat \ {0}
  BY WrittenNames
<1>5. Joined(s) = u \o w
  <2>1. Joined(s) = Joined(t) \o <<".">> \o w
    BY <1>2, JoinedAppend DEF Join
  <2>2. u = Joined(t) \o <<".">>
    BY <1>1, <1>2, AppendIsConcat
  <2> QED
    BY <2>1, <2>2
<1>6. Len(t) \in Nat /\ Len(t) # 0 /\ DOMAIN t = 1..Len(t)
  BY EmptySequence
<1>7. /\ Front(t) \in Seq(Written) /\ Last(t) \in Written /\ Append(Front(t), Last(t)) = t
      /\ Front(s) = t /\ Last(s) = w
  <2>1. /\ s \in Seq(Written) /\ Len(s) = Len(t) + 1 /\ s[Len(t) + 1] = w
        /\ \A i \in 1..Len(t) : s[i] = t[i]
    BY AppendProperties
  <2>2. Front(s) = t
    <3>1. /\ SubSeq(s, 1, Len(t)) \in Seq(Written) /\ Len(SubSeq(s, 1, Len(t))) = Len(t)
          /\ \A i \in 1..Len(t) : SubSeq(s, 1, Len(t))[i] = s[i]
      BY <1>6, <2>1, SubSeqProperties
    <3>2. SubSeq(s, 1, Len(t)) = t
      BY <2>1, <3>1, SeqEqual
    <3>3. Len(s) - 1 = Len(t)
      BY <1>6, <2>1
    <3> QED
      BY <3>2, <3>3 DEF Front
  <2>3. Last(s) = w
    BY <2>1 DEF Last
  <2> QED
    BY <2>2, <2>3, FrontAndLast
<1>8. Last(t) # <<>>
  BY <1>7 DEF Written
<1> HIDE DEF u
<1>9. Parsed(u) = r
  <2>1. Parsed(u) = Read(ReadTo(t), ".")
    BY <1>1, <1>2, ParsedAppend DEF u
  <2>2. ReadTo(t).mode = "name" /\ ReadTo(t).current = Last(t) /\ ReadTo(t).segments = Front(t)
    BY DEF ReadTo, Start
  <2>3. Read(ReadTo(t), ".") = [PushName(ReadTo(t)) EXCEPT !.expecting = TRUE]
    BY <1>8, <2>2 DEF Read
  <2>4. [PushName(ReadTo(t)) EXCEPT !.expecting = TRUE] = r
    BY <1>7 DEF PushName, ReadTo, Start
  <2> QED
    BY <2>1, <2>3, <2>4
<1>10. r \in ReaderType /\ r.mode = "name" /\ r.current = <<>>
  <2>1. <<>> \in Seq(Characters)
    OBVIOUS
  <2> QED
    BY <2>1, StartIsBetween DEF ReadTo, Start, Between, ReaderType
<1> HIDE DEF r
<1>11. Parsed(u \o w) = [r EXCEPT !.current = w, !.expecting = FALSE]
  BY <1>3, <1>9, <1>10, NameRead
<1>12. [r EXCEPT !.current = w, !.expecting = FALSE] = ReadTo(s)
  BY <1>7 DEF r, ReadTo, Start
<1>13. /\ u \o w \in Seq(Characters) /\ u \o w # <<>> /\ (u \o w)[1] # "."
  <2>1. u \o w \in Seq(Characters) /\ Len(u \o w) = Len(u) + Len(w) /\ (u \o w)[1] = u[1]
    BY <1>3, <1>4, ConcatProperties
  <2> QED
    BY <1>2, <1>3, <1>4, <2>1, EmptySequence
<1> QED
  BY <1>5, <1>11, <1>12, <1>13 DEF Reads

LEMMA ReadsAll ==
  ASSUME NEW s \in Seq(Written), s # <<>>
  PROVE  Reads(s)
<1> DEFINE Bad == {n \in Nat : \E t \in Seq(Written) : Len(t) = n + 1 /\ ~ Reads(t)}
<1>1. Bad = {}
  <2> SUFFICES ASSUME Bad # {} PROVE FALSE
    OBVIOUS
  <2>1. PICK n \in Bad : \A j \in Bad : n <= j
    BY LeastOne
  <2>2. PICK t \in Seq(Written) : Len(t) = n + 1 /\ ~ Reads(t)
    OBVIOUS
  <2>3. n \in Nat
    OBVIOUS
  <2> HIDE DEF Bad
  <2> DEFINE f == SubSeq(t, 1, n)
             w == t[n + 1]
  <2>4. /\ f \in Seq(Written) /\ Len(f) = n /\ w \in Written
        /\ \A i \in 1..n : f[i] = t[i]
    <3>1. n \in 0..Len(t) /\ n + 1 \in 1..Len(t) /\ 1 \in 1..(n + 1)
      BY <2>2, <2>3
    <3> QED
      BY <2>2, <3>1, SubSeqProperties, ElementOfSeq
  <2> HIDE DEF f
  <2>5. Append(f, w) = t
    <3>1. /\ Append(f, w) \in Seq(Written) /\ Len(Append(f, w)) = n + 1
          /\ \A i \in 1..n : Append(f, w)[i] = t[i]
          /\ Append(f, w)[n + 1] = t[n + 1]
      BY <2>4, AppendProperties
    <3>2. \A i \in 1..(n + 1) : Append(f, w)[i] = t[i]
      BY <2>3, <3>1
    <3> QED
      BY <2>2, <3>1, <3>2, SeqEqual
  <2>6. CASE n = 0
    <3>1. f = <<>>
      BY <2>4, <2>6, EmptySequence
    <3> QED
      BY <2>2, <2>4, <2>5, <3>1, ReadsOne
  <2>7. CASE n # 0
    <3>1. f # <<>>
      BY <2>4, <2>7, EmptySequence
    <3>2. n - 1 \in Nat /\ n - 1 \notin Bad /\ (n - 1) + 1 = n
      BY <2>1, <2>3, <2>7
    <3>3. Reads(f)
      BY <2>4, <3>2 DEF Bad
    <3> QED
      BY <2>2, <2>4, <2>5, <3>1, <3>3, ReadsMore
  <2> QED
    BY <2>6, <2>7
<1>2. Len(s) \in Nat /\ Len(s) # 0
  BY EmptySequence
<1>3. ~ (Len(s) - 1 \in Bad)
  BY <1>1
<1>4. Len(s) - 1 \in Nat /\ (Len(s) - 1) + 1 = Len(s)
  BY <1>2
<1> QED
  BY <1>3, <1>4

-----------------------------------------------------------------------------
(***************************************************************************)
(* The reader has read what is written.                                    *)
(***************************************************************************)
ReaderInv == text \in Seq(Characters) /\ reader = Parsed(text) /\ Between(reader)

LEMMA InitReader == Init => ReaderInv
  BY StartIsBetween, ParsedNothing DEF Init, ReaderInv

LEMMA ReaderStep == ReaderInv /\ [Next]_vars => ReaderInv'
<1> SUFFICES ASSUME ReaderInv, [Next]_vars PROVE ReaderInv'
  OBVIOUS
<1>1. ASSUME NEW c \in Characters, Write(c) PROVE ReaderInv'
  <2>1. text' = Append(text, c) /\ reader' = Read(reader, c)
    BY <1>1 DEF Write
  <2>2. text' \in Seq(Characters)
    BY <2>1 DEF ReaderInv
  <2>3. Parsed(text') = Read(Parsed(text), c)
    BY <2>1, ParsedAppend DEF ReaderInv
  <2>4. Between(reader')
    BY <2>1, ReadKeeps DEF ReaderInv
  <2> QED
    BY <2>1, <2>2, <2>3, <2>4 DEF ReaderInv
<1>2. CASE UNCHANGED vars
  BY <1>2 DEF vars, ReaderInv
<1> QED
  BY <1>1, <1>2 DEF Next

\* What a parser makes of the text at hand is made of names.
LEMMA AcceptedSegments ==
  ASSUME Between(reader), ~ Unclosed(reader)
  PROVE  Segments(reader) \in Seq(Written)
<1>1. reader \in ReaderType /\ reader.mode \in {"name", "index"}
  BY DEF Between, ReaderType, Unclosed
<1>2. reader.segments \in Seq(Written)
  BY <1>1 DEF ReaderType
<1>3. CASE reader.current = <<>>
  BY <1>2, <1>3 DEF Segments
<1>4. CASE reader.current # <<>>
  <2>1. reader.current \in Written
    BY <1>1, <1>4 DEF Between, Written
  <2> QED
    BY <1>2, <1>4, <2>1, Appended DEF Segments
<1> QED
  BY <1>3, <1>4

LEMMA CanonicalReads ==
  ASSUME NEW s \in Seq(Written)
  PROVE  /\ ~ Unclosed(Parsed(Joined(s))) /\ ~ Parsed(Joined(s)).big
         /\ Segments(Parsed(Joined(s))) = s
         /\ Joined(s) # <<".">>
<1>1. CASE s = <<>>
  BY <1>1, ParsedNothing, JoinedNothing DEF Start, Unclosed, Segments
<1>2. CASE s # <<>>
  <2>1. Reads(s)
    BY <1>2, ReadsAll
  <2>2. Len(s) \in Nat /\ Len(s) # 0 /\ DOMAIN s = 1..Len(s)
    BY <1>2, EmptySequence
  <2>3. Last(s) \in Written /\ Append(Front(s), Last(s)) = s
    BY <1>2, FrontAndLast
  <2>4. Parsed(Joined(s)) = ReadTo(s) /\ Joined(s)[1] # "."
    BY <2>1 DEF Reads
  <2>5. /\ ReadTo(s).mode = "name" /\ ReadTo(s).current = Last(s)
        /\ ReadTo(s).segments = Front(s) /\ ReadTo(s).expecting = FALSE /\ ReadTo(s).big = FALSE
    BY DEF ReadTo, Start
  <2>6. Last(s) # <<>>
    BY <2>3 DEF Written
  <2>7. ~ Unclosed(ReadTo(s)) /\ Segments(ReadTo(s)) = s
    BY <2>3, <2>5, <2>6 DEF Unclosed, Segments
  <2>8. Joined(s) # <<".">>
    BY <2>4
  <2> QED
    BY <2>4, <2>5, <2>7, <2>8
<1> QED
  BY <1>1, <1>2

LEMMA ReaderInvStable == ReaderInv => CanonicalFormIsStable
<1> SUFFICES ASSUME ReaderInv, NEW result \in Results, result.outcome = "path"
             PROVE  LET again == Parsed(Joined(result.segments))
                    IN  /\ ExternalPath(Joined(result.segments), again).segments = result.segments
                        /\ result = MetadataPath(text, reader) =>
                             MetadataPath(Joined(result.segments), again).segments = result.segments
  BY DEF CanonicalFormIsStable, Parsed
<1> DEFINE s == result.segments
           again == Parsed(Joined(s))
<1>1. result \in {ExternalPath(text, reader), LookupPath(text, reader),
                  PatchPath(text, reader), MetadataPath(text, reader)}
  BY DEF Results
<1>2. s = <<>> \/ (s = Segments(reader) /\ ~ Unclosed(reader))
  BY <1>1 DEF ExternalPath, LookupPath, PatchPath, MetadataPath, Path, Error, Panic
<1>3. s \in Seq(Written)
  <2>1. <<>> \in Seq(Written)
    OBVIOUS
  <2>2. ~ Unclosed(reader) => Segments(reader) \in Seq(Written)
    BY AcceptedSegments DEF ReaderInv
  <2> HIDE DEF s
  <2> QED
    BY <1>2, <2>1, <2>2
<1>4. ~ Unclosed(again) /\ ~ again.big /\ Segments(again) = s /\ Joined(s) # <<".">>
  BY <1>3, CanonicalReads
<1>5. ASSUME result = MetadataPath(text, reader) PROVE Names(s) \in {{}, {<<"*">>}}
  <2>1. CASE text = <<".">>
    <3>1. s = <<>>
      BY <1>5, <2>1 DEF MetadataPath, Path
    <3> QED
      BY <3>1 DEF Names, Range
  <2>2. CASE text # <<".">>
    BY <1>5, <2>2 DEF MetadataPath, Path, Error, Panic
  <2> QED
    BY <2>1, <2>2
<1> HIDE DEF s, again
<1>6. ExternalPath(Joined(s), again) = Path(s, {})
  BY <1>4 DEF ExternalPath
<1>7. Names(s) \in {{}, {<<"*">>}} => MetadataPath(Joined(s), again) = Path(s, {})
  BY <1>4 DEF MetadataPath
<1> QED
  BY <1>5, <1>6, <1>7 DEF s, again, Path

\* The canonical form of every path any of the parsers accepts, of any length and
\* over any alphabet, is accepted again and means the same segments.
THEOREM CanonicalForm == Spec => []CanonicalFormIsStable
  BY InitReader, ReaderStep, ReaderInvStable, PTL DEF Spec

-----------------------------------------------------------------------------
(***************************************************************************)
(* The grammar, one place of the text after the other.  BadAt is what can  *)
(* be held against the m-th character by one who has read no further; a    *)
(* text is written if that is nothing (Sound) and it does not end in the   *)
(* middle of something (Pending).  The readers that can still end well     *)
(* (Alive) are those whose text is Sound, and Shape says how such a reader *)
(* and the end of its text belong together.                                *)
(***************************************************************************)
DigitsIn(t, i, j) == \A k \in (i + 1)..(j - 1) : t[k] \in Digits

\* The bracket at o has not been closed.
Open(t, o) == t[o] = "[" /\ DigitsIn(t, o, Len(t) + 1)

BadAt(t, m) ==
    \/ t[m] \in {".", "["} /\ (m = 1 \/ t[m - 1] = ".")
    \/ t[m] = "]" /\ ~ \E o \in 1..(m - 2) : t[o] = "[" /\ DigitsIn(t, o, m)
    \/ t[m] \notin Digits \cup {"]"} /\ \E o \in 1..(m - 1) : t[o] = "[" /\ DigitsIn(t, o, m)
    \/ m > 1 /\ t[m - 1] = "]" /\ t[m] \notin {"[", "."}

Sound(t) == \A m \in 1..Len(t) : ~ BadAt(t, m)

Pending(t) == t[Len(t)] = "." \/ \E o \in 1..Len(t) : Open(t, o)

Alive(r) ==
    \/ r.mode \in {"name", "index"}
    \/ r.mode = "bracket" /\ Range(r.current) \subseteq Digits

Shape(t, r) ==
    /\ r.mode = "name" /\ r.expecting => t = <<>> \/ (t[Len(t)] = "." /\ r.segments # <<>>)
    /\ r.mode = "name" /\ ~ r.expecting =>
          /\ t # <<>> /\ t[Len(t)] \notin {".", "[", "]"}
          /\ \A o \in 1..Len(t) : ~ Open(t, o)
    /\ r.mode = "index" => t # <<>> /\ t[Len(t)] = "]"
    /\ r.mode = "bracket" => \E o \in 1..Len(t) : Open(t, o) /\ Len(t) = o + Len(r.current)

Grammar(t, r) == (Alive(r) <=> Sound(t)) /\ (Sound(t) => Shape(t, r))

LEMMA DistinctCharacters ==
  /\ "[" \notin Digits /\ "]" \notin Digits /\ "." \notin Digits
  /\ "[" # "]" /\ "[" # "." /\ "]" # "."
  BY DEF Digits

\* What can be held against c behind t.
BadNext(t, c) ==
    \/ c \in {".", "["} /\ (t = <<>> \/ t[Len(t)] = ".")
    \/ c = "]" /\ ~ \E o \in 1..(Len(t) - 1) : Open(t, o)
    \/ c \notin Digits \cup {"]"} /\ \E o \in 1..Len(t) : Open(t, o)
    \/ t # <<>> /\ t[Len(t)] = "]" /\ c \notin {"[", "."}

LEMMA SoundNext ==
  ASSUME NEW t \in Seq(Characters), NEW c \in Characters
  PROVE  Sound(Append(t, c)) <=> Sound(t) /\ ~ BadNext(t, c)
<1> DEFINE n == Len(t)
           v == Append(t, c)
<1>1. n \in Nat /\ Len(v) = n + 1 /\ (t = <<>> <=> n = 0)
  BY EmptySequence, Appended
<1>2. (\A k \in 1..n : v[k] = t[k]) /\ v[n + 1] = c
  BY Appended
<1> HIDE DEF v
<1>3. \A j \in 1..n, m \in 1..(n + 1) : DigitsIn(v, j, m) <=> DigitsIn(t, j, m)
  <2> SUFFICES ASSUME NEW j \in 1..n, NEW m \in 1..(n + 1)
               PROVE  DigitsIn(v, j, m) <=> DigitsIn(t, j, m)
    OBVIOUS
  <2>1. \A l \in (j + 1)..(m - 1) : v[l] = t[l]
    BY <1>1, <1>2
  <2> QED
    BY <2>1 DEF DigitsIn
<1>4. ASSUME NEW m \in 1..n PROVE BadAt(v, m) <=> BadAt(t, m)
  <2>1. v[m] = t[m] /\ (m > 1 => v[m - 1] = t[m - 1])
    BY <1>1, <1>2
  <2>2. \A o \in 1..(m - 1) : v[o] = t[o] /\ (DigitsIn(v, o, m) <=> DigitsIn(t, o, m))
    BY <1>1, <1>2, <1>3
  <2>3. \A o \in 1..(m - 2) : o \in 1..(m - 1)
    BY <1>1
  <2>4. m = 1 \/ m > 1
    BY <1>1
  <2> HIDE DEF n
  <2> QED
    BY <2>1, <2>2, <2>3, <2>4 DEF BadAt
<1>5. BadAt(v, n + 1) <=> BadNext(t, c)
  <2>1. n + 1 = 1 <=> t = <<>>
    BY <1>1
  <2>2. n + 1 > 1 <=> t # <<>>
    BY <1>1
  <2>3. t # <<>> => v[(n + 1) - 1] = t[n]
    BY <1>1, <1>2
  <2>4. \A o \in 1..((n + 1) - 1) : (v[o] = "[" /\ DigitsIn(v, o, n + 1)) <=> Open(t, o)
    BY <1>1, <1>2, <1>3 DEF Open
  <2>5. (n + 1) - 1 = n /\ (n + 1) - 2 = n - 1 /\ (\A o \in 1..(n - 1) : o \in 1..n)
    BY <1>1
  <2> DEFINE some == \E o \in 1..n : Open(t, o)
             behind == \E o \in 1..(n - 1) : Open(t, o)
  <2>6. (\E o \in 1..((n + 1) - 1) : v[o] = "[" /\ DigitsIn(v, o, n + 1)) <=> some
    BY <2>4, <2>5
  <2>7. (\E o \in 1..((n + 1) - 2) : v[o] = "[" /\ DigitsIn(v, o, n + 1)) <=> behind
    BY <2>4, <2>5
  <2>8. BadNext(t, c) <=>
          \/ c \in {".", "["} /\ (t = <<>> \/ t[n] = ".")
          \/ c = "]" /\ ~ behind
          \/ c \notin Digits \cup {"]"} /\ some
          \/ t # <<>> /\ t[n] = "]" /\ c \notin {"[", "."}
    BY DEF BadNext
  <2> HIDE DEF n, some, behind
  <2> QED
    BY <1>2, <2>1, <2>2, <2>3, <2>6, <2>7, <2>8 DEF BadAt
<1>6. Sound(v) <=> (\A m \in 1..n : ~ BadAt(v, m)) /\ ~ BadAt(v, n + 1)
  <2>1. \A m \in 1..(n + 1) : m \in 1..n \/ m = n + 1
    BY <1>1
  <2>2. n + 1 \in 1..(n + 1) /\ \A m \in 1..n : m \in 1..(n + 1)
    BY <1>1
  <2> QED
    BY <1>1, <2>1, <2>2 DEF Sound
<1>7. Sound(v) <=> Sound(t) /\ ~ BadNext(t, c)
  BY <1>4, <1>5, <1>6 DEF Sound
<1> QED
  BY <1>7 DEF v

\* The brackets that are open behind the next character.
LEMMA OpenNext ==
  ASSUME NEW t \in Seq(Characters), NEW c \in Characters, NEW o \in 1..(Len(t) + 1)
  PROVE  /\ o = Len(t) + 1 => (Open(Append(t, c), o) <=> c = "[")
         /\ o # Len(t) + 1 => (Open(Append(t, c), o) <=> Open(t, o) /\ c \in Digits)
<1> DEFINE n == Len(t)
           v == Append(t, c)
<1>1. n \in Nat /\ Len(v) = n + 1
  BY EmptySequence, Appended
<1>2. (\A k \in 1..n : v[k] = t[k]) /\ v[n + 1] = c
  BY Appended
<1> HIDE DEF v
<1>3. CASE o = n + 1
  <2>1. \A k \in (o + 1)..((n + 2) - 1) : FALSE
    BY <1>1, <1>3
  <2>2. DigitsIn(v, o, n + 2)
    BY <2>1 DEF DigitsIn
  <2>3. Open(v, o) <=> c = "["
    BY <1>1, <1>2, <1>3, <2>2 DEF Open
  <2> QED
    BY <1>3, <2>3 DEF v
<1>4. CASE o # n + 1
  <2>1. o \in 1..n
    BY <1>1, <1>4
  <2>2. \A k \in (o + 1)..(n + 1) : (k \in (o + 1)..n /\ v[k] = t[k]) \/ (k = n + 1 /\ v[k] = c)
    BY <1>1, <1>2, <2>1
  <2>3. n + 1 \in (o + 1)..(n + 1) /\ \A k \in (o + 1)..n : k \in (o + 1)..(n + 1) /\ v[k] = t[k]
    BY <1>1, <1>2, <2>1
  <2>4. (\A k \in (o + 1)..(n + 1) : v[k] \in Digits) <=>
          (\A k \in (o + 1)..n : t[k] \in Digits) /\ c \in Digits
    BY <1>2, <2>2, <2>3
  <2>5. (n + 1) + 1 - 1 = n + 1 /\ (n + 1) - 1 = n
    BY <1>1
  <2>6. Open(v, o) <=> Open(t, o) /\ c \in Digits
    BY <1>1, <1>2, <2>1, <2>4, <2>5 DEF Open, DigitsIn
  <2> QED
    BY <1>4, <2>6 DEF v
<1> QED
  BY <1>3, <1>4

\* Behind the last character, only "[" and digits can be in an open bracket.
LEMMA OpenEnds ==
  ASSUME NEW t \in Seq(Characters), NEW o \in 1..Len(t), Open(t, o)
  PROVE  /\ o = Len(t) => t[Len(t)] = "["
         /\ o # Len(t) => t[Len(t)] \in Digits
<1>1. Len(t) \in Nat
  BY EmptySequence
<1>2. t[o] = "[" /\ \A k \in (o + 1)..((Len(t) + 1) - 1) : t[k] \in Digits
  BY DEF Open, DigitsIn
<1>3. o # Len(t) => Len(t) \in (o + 1)..((Len(t) + 1) - 1)
  BY <1>1
<1> QED
  BY <1>2, <1>3

LEMMA StartIsGrammar == Grammar(<<>>, Start)
<1>1. Len(<<>>) = 0 /\ 1..0 = {}
  OBVIOUS
<1>2. Sound(<<>>)
  BY <1>1 DEF Sound
<1> QED
  BY <1>2 DEF Grammar, Alive, Shape, Start

\* A reader that has gone astray stays astray.
LEMMA LostStaysLost ==
  ASSUME NEW r, Between(r), ~ Alive(r), NEW c \in Characters
  PROVE  ~ Alive(Read(r, c))
<1>1. r.mode = "error" \/ (r.mode = "bracket" /\ ~ Range(r.current) \subseteq Digits)
  BY DEF Between, ReaderType, Alive
<1>2. r \in ReaderType /\ r.current \in Seq(Characters)
  BY DEF Between, ReaderType
<1>3. CASE r.mode = "error"
  BY <1>3 DEF Read, Alive
<1>4. CASE r.mode = "bracket" /\ ~ Range(r.current) \subseteq Digits
  <2>1. CASE c = "]"
    <3>1. Read(r, c) = Refused(r)
      BY <1>4, <2>1 DEF Read, CloseIndex
    <3>2. Refused(r).mode = "error"
      BY <1>2 DEF Refused, ReaderType
    <3> QED
      BY <3>1, <3>2 DEF Alive
  <2>2. CASE c # "]"
    <3>1. Read(r, c) = [r EXCEPT !.current = Append(@, c)]
      BY <1>4, <2>2 DEF Read
    <3>2. Read(r, c).mode = "bracket" /\ Read(r, c).current = Append(r.current, c)
      BY <1>2, <1>4, <3>1 DEF ReaderType
    <3>3. PICK i \in DOMAIN r.current : r.current[i] \notin Digits
      BY <1>4 DEF Range
    <3>4. i \in DOMAIN Append(r.current, c) /\ Append(r.current, c)[i] = r.current[i]
      BY <1>2, <3>3, Appended, EmptySequence
    <3>5. ~ Range(Append(r.current, c)) \subseteq Digits
      BY <3>3, <3>4 DEF Range
    <3> QED
      BY <3>2, <3>5 DEF Alive
  <2> QED
    BY <2>1, <2>2
<1> QED
  BY <1>1, <1>3, <1>4

LEMMA LastAppended ==
  ASSUME NEW t \in Seq(Characters), NEW c \in Characters
  PROVE  Append(t, c) # <<>> /\ Append(t, c)[Len(Append(t, c))] = c
  BY Appended, EmptySequence

\* Each turn of the loop, in a name and between pieces,
LEMMA GrammarInName ==
  ASSUME NEW t \in Seq(Characters), NEW r, Between(r), r.mode = "name",
         Grammar(t, r), NEW c \in Characters
  PROVE  Grammar(Append(t, c), Read(r, c))
<1> DEFINE n == Len(t)
           v == Append(t, c)
           s == Read(r, c)
<1>1. /\ n \in Nat /\ (t = <<>> <=> n = 0) /\ Len(v) = n + 1
      /\ v # <<>> /\ v[Len(v)] = c
  BY EmptySequence, Appended, LastAppended
<1>2. /\ r \in ReaderType /\ (r.expecting <=> r.current = <<>>) /\ r.expecting \in BOOLEAN
      /\ r.segments \in Seq(Written) /\ (r.current # <<>> => r.current \in Written)
  BY DEF Between, ReaderType, Written
<1>3. Sound(t) /\ Shape(t, r)
  BY DEF Grammar, Alive
<1>4. \A o \in 1..n : ~ Open(t, o)
  <2>1. CASE r.expecting
    BY <1>1, <1>3, <2>1, OpenEnds, DistinctCharacters DEF Shape
  <2>2. CASE ~ r.expecting
    BY <1>3, <2>2 DEF Shape
  <2> QED
    BY <1>2, <2>1, <2>2
<1>5. /\ r.expecting => t = <<>> \/ t[n] = "."
      /\ ~ r.expecting => t # <<>> /\ t[n] \notin {".", "[", "]"}
  BY <1>3 DEF Shape
<1>6. Sound(v) <=> ~ BadNext(t, c)
  BY <1>3, SoundNext
<1>7. BadNext(t, c) <=> c = "]" \/ (c \in {".", "["} /\ r.expecting)
  <2>1. ~ \E o \in 1..(n - 1) : Open(t, o)
    BY <1>1, <1>4
  <2>2. t # <<>> => t[n] # "]"
    BY <1>2, <1>5, DistinctCharacters
  <2>3. (t = <<>> \/ t[n] = ".") <=> r.expecting
    BY <1>2, <1>5
  <2> QED
    BY <1>4, <2>1, <2>2, <2>3 DEF BadNext
<1> HIDE DEF v, n
<1>8. CASE c = "]" \/ (c \in {".", "["} /\ r.expecting)
  <2>1. s = Refused(r)
    BY <1>2, <1>8 DEF Read
  <2>2. s.mode = "error"
    BY <1>2, <2>1 DEF Refused, ReaderType
  <2> QED
    BY <1>6, <1>7, <1>8, <2>2 DEF Grammar, Alive, v
<1>9. CASE c = "." /\ ~ r.expecting
  <2>1. s = [PushName(r) EXCEPT !.expecting = TRUE]
    BY <1>2, <1>9 DEF Read
  <2>2. s.mode = "name" /\ s.expecting /\ s.segments = Append(r.segments, r.current)
    BY <1>2, <2>1 DEF PushName, ReaderType
  <2>3. s.segments # <<>>
    BY <1>2, <1>9, <2>2, Appended
  <2> QED
    BY <1>1, <1>6, <1>7, <1>9, <2>2, <2>3, DistinctCharacters DEF Grammar, Alive, Shape, v
<1>10. CASE c = "[" /\ ~ r.expecting
  <2>1. s = [PushName(r) EXCEPT !.mode = "bracket"]
    BY <1>2, <1>10 DEF Read
  <2>2. s.mode = "bracket" /\ s.current = <<>>
    BY <1>2, <2>1 DEF PushName, ReaderType
  <2>3. Alive(s)
    BY <2>2 DEF Alive, Range
  <2>4. n + 1 \in 1..(n + 1) /\ Len(s.current) = 0
    BY <1>1, <2>2
  <2>5. Open(v, n + 1)
    BY <1>10, <2>4, OpenNext DEF v, n
  <2>6. n + 1 = n + 1 + Len(s.current)
    BY <1>1, <2>4
  <2>7. Shape(v, s)
    BY <1>1, <2>2, <2>4, <2>5, <2>6 DEF Shape
  <2> QED
    BY <1>6, <1>7, <1>10, <2>3, <2>7, DistinctCharacters DEF Grammar, v
<1>11. CASE c \notin {".", "[", "]"}
  <2>1. s = [r EXCEPT !.current = Append(@, c), !.expecting = FALSE]
    BY <1>11 DEF Read
  <2>2. s.mode = "name" /\ ~ s.expecting
    BY <1>2, <2>1 DEF ReaderType
  <2>3. \A o \in 1..(n + 1) : ~ Open(v, o)
    <3>1. \A o \in 1..(n + 1) : o = n + 1 \/ o \in 1..n
      BY <1>1
    <3> QED
      BY <1>4, <1>11, <3>1, OpenNext DEF v, n
  <2>4. Shape(v, s)
    BY <1>1, <1>11, <2>2, <2>3 DEF Shape
  <2> QED
    BY <1>6, <1>7, <1>11, <2>2, <2>4 DEF Grammar, Alive, v
<1> QED
  BY <1>2, <1>8, <1>9, <1>10, <1>11

\* behind an index,
LEMMA GrammarBehindIndex ==
  ASSUME NEW t \in Seq(Characters), NEW r, Between(r), r.mode = "index",
         Grammar(t, r), NEW c \in Characters
  PROVE  Grammar(Append(t, c), Read(r, c))
<1> DEFINE n == Len(t)
           v == Append(t, c)
           s == Read(r, c)
<1>1. /\ n \in Nat /\ (t = <<>> <=> n = 0) /\ Len(v) = n + 1
      /\ v # <<>> /\ v[Len(v)] = c
  BY EmptySequence, Appended, LastAppended
<1>2. r \in ReaderType /\ r.current = <<>> /\ r.segments # <<>>
  BY DEF Between
<1>3. Sound(t) /\ t # <<>> /\ t[n] = "]"
  BY DEF Grammar, Alive, Shape
<1>4. \A o \in 1..n : ~ Open(t, o)
  BY <1>1, <1>3, OpenEnds, DistinctCharacters
<1>5. Sound(v) <=> ~ BadNext(t, c)
  BY <1>3, SoundNext
<1>6. BadNext(t, c) <=> c \notin {".", "["}
  <2>1. ~ \E o \in 1..(n - 1) : Open(t, o)
    BY <1>1, <1>4
  <2> QED
    BY <1>3, <1>4, <2>1, DistinctCharacters DEF BadNext
<1> HIDE DEF v, n
<1>7. CASE c = "."
  <2>1. s = [r EXCEPT !.mode = "name", !.expecting = TRUE]
    BY <1>7 DEF Read
  <2>2. s.mode = "name" /\ s.expecting /\ s.segments # <<>>
    BY <1>2, <2>1 DEF ReaderType
  <2> QED
    BY <1>1, <1>5, <1>6, <1>7, <2>2 DEF Grammar, Alive, Shape, v
<1>8. CASE c = "["
  <2>1. s = [r EXCEPT !.mode = "bracket"]
    BY <1>8, DistinctCharacters DEF Read
  <2>2. s.mode = "bracket" /\ s.current = <<>>
    BY <1>2, <2>1 DEF ReaderType
  <2>3. Alive(s)
    BY <2>2 DEF Alive, Range
  <2>4. n + 1 \in 1..(n + 1) /\ Len(s.current) = 0
    BY <1>1, <2>2
  <2>5. Open(v, n + 1)
    BY <1>8, <2>4, OpenNext DEF v, n
  <2>6. n + 1 = n + 1 + Len(s.current)
    BY <1>1, <2>4
  <2>7. Shape(v, s)
    BY <1>1, <2>2, <2>4, <2>5, <2>6 DEF Shape
  <2> QED
    BY <1>5, <1>6, <1>8, <2>3, <2>7 DEF Grammar, v
<1>9. CASE c \notin {".", "["}
  <2>1. s = Refused(r)
    BY <1>9 DEF Read
  <2>2. s.mode = "error"
    BY <1>2, <2>1 DEF Refused, ReaderType
  <2> QED
    BY <1>5, <1>6, <1>9, <2>2 DEF Grammar, Alive, v
<1> QED
  BY <1>7, <1>8, <1>9

\* and between "[" and "]".
LEMMA GrammarInBracket ==
  ASSUME NEW t \in Seq(Characters), NEW r, Between(r), r.mode = "bracket", Alive(r),
         Grammar(t, r), NEW c \in Characters
  PROVE  Grammar(Append(t, c), Read(r, c))
<1> DEFINE n == Len(t)
           v == Append(t, c)
           s == Read(r, c)
<1>1. /\ n \in Nat /\ (t = <<>> <=> n = 0) /\ Len(v) = n + 1
      /\ v # <<>> /\ v[Len(v)] = c
  BY EmptySequence, Appended, LastAppended
<1>2. /\ r \in ReaderType /\ r.current \in Seq(Characters) /\ Range(r.current) \subseteq Digits
      /\ r.segments \in Seq(Written)
  BY DEF Between, ReaderType, Alive
<1>3. Sound(t) /\ Shape(t, r)
  BY DEF Grammar
<1>4. PICK o \in 1..n : Open(t, o) /\ n = o + Len(r.current)
  BY <1>3 DEF Shape
<1>5. Len(r.current) \in Nat /\ (r.current = <<>> <=> Len(r.current) = 0)
  BY <1>2, EmptySequence
<1>6. t # <<>> /\ t[n] \in {"["} \cup Digits /\ (r.current = <<>> => t[n] = "[")
  <2>1. t # <<>>
    BY <1>1, <1>4
  <2>2. r.current = <<>> => o = n
    BY <1>1, <1>4, <1>5
  <2> QED
    BY <1>4, <2>1, <2>2, OpenEnds
<1>7. Sound(v) <=> ~ BadNext(t, c)
  BY <1>3, SoundNext
<1>8. (\E k \in 1..(n - 1) : Open(t, k)) <=> r.current # <<>>
  <2>1. CASE r.current = <<>>
    <3>1. t[n] = "["
      BY <1>6, <2>1
    <3>2. \A k \in 1..(n - 1) : k \in 1..n /\ k # n
      BY <1>1
    <3> QED
      BY <2>1, <3>1, <3>2, OpenEnds, DistinctCharacters
  <2>2. CASE r.current # <<>>
    <3>1. o \in 1..(n - 1)
      BY <1>1, <1>4, <1>5, <2>2
    <3> QED
      BY <1>4, <2>2, <3>1
  <2> QED
    BY <2>1, <2>2
<1>9. BadNext(t, c) <=> (c \notin Digits \cup {"]"} \/ (c = "]" /\ r.current = <<>>))
  <2>1. t[n] # "." /\ t[n] # "]"
    BY <1>6, DistinctCharacters
  <2>2. c \in {".", "["} => c \notin Digits \cup {"]"}
    BY DistinctCharacters
  <2> QED
    BY <1>4, <1>6, <1>8, <2>1, <2>2 DEF BadNext
<1> HIDE DEF v, n
<1>10. CASE c = "]" /\ r.current = <<>>
  <2>1. s = Refused(r)
    BY <1>10 DEF Read, CloseIndex
  <2>2. s.mode = "error"
    BY <1>2, <2>1 DEF Refused, ReaderType
  <2> QED
    BY <1>7, <1>9, <1>10, <2>2 DEF Grammar, Alive, v
<1>11. CASE c = "]" /\ r.current # <<>>
  <2>1. s = CloseIndex(r)
    BY <1>11 DEF Read
  <2>2. s.mode = "index"
    BY <1>2, <1>11, <2>1 DEF CloseIndex, ReaderType
  <2> QED
    BY <1>1, <1>7, <1>9, <1>11, <2>2 DEF Grammar, Alive, Shape, v
<1>12. CASE c # "]"
  <2>1. s = [r EXCEPT !.current = Append(@, c)]
    BY <1>12 DEF Read
  <2>2. s.mode = "bracket" /\ s.current = Append(r.current, c)
    BY <1>2, <2>1 DEF ReaderType
  <2>3. Range(s.current) = Range(r.current) \cup {c}
    <3>1. /\ DOMAIN r.current = 1..Len(r.current)
          /\ DOMAIN s.current = 1..(Len(r.current) + 1)
      BY <1>2, <2>2, EmptySequence, Appended
    <3>2. /\ \A i \in 1..Len(r.current) : s.current[i] = r.current[i]
          /\ s.current[Len(r.current) + 1] = c
      BY <1>2, <2>2, Appended
    <3>3. \A i \in 1..(Len(r.current) + 1) : i \in 1..Len(r.current) \/ i = Len(r.current) + 1
      BY <1>5
    <3>4. /\ \A i \in 1..Len(r.current) : i \in 1..(Len(r.current) + 1)
          /\ Len(r.current) + 1 \in 1..(Len(r.current) + 1)
      BY <1>5
    <3> QED
      BY <3>1, <3>2, <3>3, <3>4 DEF Range
  <2>4. Alive(s) <=> c \in Digits
    BY <1>2, <2>2, <2>3 DEF Alive
  <2>5. ASSUME c \in Digits PROVE Shape(v, s)
    <3>1. o \in 1..(n + 1) /\ o # n + 1
      BY <1>1, <1>4
    <3>2. Open(v, o)
      BY <1>4, <2>5, <3>1, OpenNext DEF v, n
    <3>3. Len(s.current) = Len(r.current) + 1
      BY <1>2, <2>2, Appended
    <3>4. n + 1 = o + Len(s.current)
      BY <1>1, <1>4, <1>5, <3>3
    <3> QED
      BY <1>1, <2>2, <3>1, <3>2, <3>4 DEF Shape
  <2> QED
    BY <1>7, <1>9, <1>12, <2>4, <2>5, DistinctCharacters DEF Grammar, v
<1> QED
  BY <1>10, <1>11, <1>12

LEMMA GrammarStep ==
  ASSUME NEW t \in Seq(Characters), NEW r, Between(r), Grammar(t, r), NEW c \in Characters
  PROVE  Grammar(Append(t, c), Read(r, c))
<1>1. CASE ~ Alive(r)
  BY <1>1, LostStaysLost, SoundNext DEF Grammar
<1>2. CASE Alive(r)
  BY <1>2, GrammarInName, GrammarBehindIndex, GrammarInBracket DEF Alive
<1> QED
  BY <1>1, <1>2

-----------------------------------------------------------------------------
(***************************************************************************)
(* The pieces between the dots, and what the places of the text say of     *)
(* them.                                                                   *)
(***************************************************************************)
\* Between a and b, the ends of the text or dots, there is no dot.
PieceAt(t, a, b) ==
    /\ a \in 0..Len(t) /\ b \in 1..(Len(t) + 1) /\ a < b
    /\ a = 0 \/ t[a] = "."
    /\ b = Len(t) + 1 \/ t[b] = "."
    /\ \A k \in (a + 1)..(b - 1) : t[k] # "."

\* IsPiece, of what is between a and b.
GoodBetween(t, a, b) ==
    /\ a + 1 < b /\ t[a + 1] \notin {"[", "]"}
    /\ \A i \in (a + 1)..(b - 1) : t[i] = "[" =>
         \E j \in (i + 2)..(b - 1) : /\ t[j] = "]" /\ DigitsIn(t, i, j)
                                     /\ j = b - 1 \/ t[j + 1] = "["
    /\ \A j \in (a + 1)..(b - 1) : t[j] = "]" =>
         \E i \in (a + 1)..(j - 1) : t[i] = "[" /\ DigitsIn(t, i, j)

LEMMA PieceIs ==
  ASSUME NEW t \in Seq(Characters), NEW a, NEW b, PieceAt(t, a, b)
  PROVE  IsPiece(SubSeq(t, a + 1, b - 1)) <=> GoodBetween(t, a, b)
<1> DEFINE w == SubSeq(t, a + 1, b - 1)
           n == b - a - 1
<1>1. Len(t) \in Nat /\ a \in Nat /\ b \in Nat /\ n \in Nat /\ a + n + 1 = b /\ b <= Len(t) + 1
  BY EmptySequence DEF PieceAt
<1>2. \A k \in (a + 1)..(b - 1) : t[k] \in Characters
  BY <1>1, ElementOfSeq
<1>3. w \in Seq(Characters) /\ Len(w) = n /\ \A i \in 1..n : w[i] = t[a + i]
  <2>1. /\ w \in Seq(Characters)
        /\ Len(w) = IF a + 1 <= b - 1 THEN (b - 1) - (a + 1) + 1 ELSE 0
        /\ \A i \in 1..((b - 1) - (a + 1) + 1) : w[i] = t[(a + 1) + i - 1]
    BY <1>1, <1>2, SubSeqProperties
  <2>2. (b - 1) - (a + 1) + 1 = n /\ \A i \in 1..n : (a + 1) + i - 1 = a + i
    BY <1>1
  <2>3. Len(w) = n
    BY <1>1, <2>1
  <2> HIDE DEF w, n
  <2> QED
    BY <2>1, <2>2, <2>3
<1>4. DOMAIN w = 1..n /\ (w = <<>> <=> n = 0)
  BY <1>3, EmptySequence
<1> HIDE DEF w, n
<1>5. \A i, j \in 1..n :
        (\A k \in (i + 1)..(j - 1) : w[k] \in Digits) <=> DigitsIn(t, a + i, a + j)
  <2> SUFFICES ASSUME NEW i \in 1..n, NEW j \in 1..n
               PROVE  (\A k \in (i + 1)..(j - 1) : w[k] \in Digits) <=> DigitsIn(t, a + i, a + j)
    OBVIOUS
  <2>1. \A k \in (i + 1)..(j - 1) :
           a + k \in (a + i + 1)..(a + j - 1) /\ w[k] = t[a + k]
    BY <1>1, <1>3
  <2>2. \A l \in (a + i + 1)..(a + j - 1) :
           l - a \in (i + 1)..(j - 1) /\ w[l - a] = t[l]
    <3> SUFFICES ASSUME NEW l \in (a + i + 1)..(a + j - 1)
                 PROVE  l - a \in (i + 1)..(j - 1) /\ w[l - a] = t[l]
      OBVIOUS
    <3>1. l - a \in (i + 1)..(j - 1) /\ l - a \in 1..n /\ a + (l - a) = l
      BY <1>1
    <3> QED
      BY <1>3, <3>1
  <2>3. ASSUME \A k \in (i + 1)..(j - 1) : w[k] \in Digits
        PROVE  \A l \in (a + i + 1)..(a + j - 1) : t[l] \in Digits
    BY <2>2, <2>3
  <2>4. ASSUME \A l \in (a + i + 1)..(a + j - 1) : t[l] \in Digits
        PROVE  \A k \in (i + 1)..(j - 1) : w[k] \in Digits
    BY <2>1, <2>4
  <2> QED
    BY <1>1, <2>3, <2>4 DEF DigitsIn
<1>6. (\A i \in {i \in 1..n : w[i] = "["} : \E j \in {j \in 1..n : w[j] = "]"} :
           /\ j > i + 1 /\ (\A k \in (i + 1)..(j - 1) : w[k] \in Digits)
           /\ j = Len(w) \/ j + 1 \in {i2 \in 1..n : w[i2] = "["})
       <=> \A i \in (a + 1)..(b - 1) : t[i] = "[" =>
             \E j \in (i + 2)..(b - 1) : /\ t[j] = "]" /\ DigitsIn(t, i, j)
                                         /\ j = b - 1 \/ t[j + 1] = "["
  <2>1. ASSUME NEW i \in 1..n, NEW j \in 1..n, j > i + 1
        PROVE  /\ a + j \in (a + i + 2)..(b - 1)
               /\ w[j] = t[a + j]
               /\ (\A k \in (i + 1)..(j - 1) : w[k] \in Digits) <=> DigitsIn(t, a + i, a + j)
               /\ (j = Len(w) \/ j + 1 \in {i2 \in 1..n : w[i2] = "["})
                    <=> (a + j = b - 1 \/ t[a + j + 1] = "[")
    <3>1. a + j \in (a + i + 2)..(b - 1) /\ (j = n <=> a + j = b - 1)
      BY <1>1, <2>1
    <3>2. j # n => j + 1 \in 1..n /\ a + (j + 1) = a + j + 1
      BY <1>1
    <3>3. j + 1 \in 1..n => w[j + 1] = t[a + j + 1] /\ j # n
      BY <1>1, <1>3
    <3>4. w[j] = t[a + j] /\ Len(w) = n
      BY <1>3
    <3>5. (j + 1 \in {i2 \in 1..n : w[i2] = "["}) <=> (j + 1 \in 1..n /\ w[j + 1] = "[")
      OBVIOUS
    <3>6. (\A k \in (i + 1)..(j - 1) : w[k] \in Digits) <=> DigitsIn(t, a + i, a + j)
      BY <1>5
    <3>7. (j = Len(w) \/ j + 1 \in {i2 \in 1..n : w[i2] = "["})
            <=> (a + j = b - 1 \/ t[a + j + 1] = "[")
      BY <3>1, <3>2, <3>3, <3>4, <3>5
    <3> QED
      BY <3>1, <3>4, <3>6, <3>7
  <2> DEFINE Closed(i) == \E j \in {j \in 1..n : w[j] = "]"} :
           /\ j > i + 1 /\ (\A k \in (i + 1)..(j - 1) : w[k] \in Digits)
           /\ j = Len(w) \/ j + 1 \in {i2 \in 1..n : w[i2] = "["}
             ClosedIn(i) == \E j \in (i + 2)..(b - 1) : /\ t[j] = "]" /\ DigitsIn(t, i, j)
                                                        /\ j = b - 1 \/ t[j + 1] = "["
  <2>2. ASSUME NEW i \in 1..n PROVE Closed(i) <=> ClosedIn(a + i)
    <3>1. ASSUME NEW j \in (a + i + 2)..(b - 1) PROVE j - a \in 1..n /\ j - a > i + 1 /\ a + (j - a) = j
      BY <1>1
    <3>2. ASSUME Closed(i) PROVE ClosedIn(a + i)
      <4>1. PICK j \in 1..n : /\ w[j] = "]" /\ j > i + 1
                              /\ \A k \in (i + 1)..(j - 1) : w[k] \in Digits
                              /\ j = Len(w) \/ j + 1 \in {i2 \in 1..n : w[i2] = "["}
        BY <3>2
      <4> QED
        BY <2>1, <4>1
    <3>3. ASSUME ClosedIn(a + i) PROVE Closed(i)
      <4>1. PICK j \in (a + i + 2)..(b - 1) : /\ t[j] = "]" /\ DigitsIn(t, a + i, j)
                                              /\ j = b - 1 \/ t[j + 1] = "["
        BY <3>3
      <4> DEFINE h == j - a
      <4>2. h \in 1..n /\ h > i + 1 /\ a + h = j
        BY <3>1
      <4> HIDE DEF h
      <4>3. /\ w[h] = "]" /\ \A k \in (i + 1)..(h - 1) : w[k] \in Digits
            /\ h = Len(w) \/ h + 1 \in {i2 \in 1..n : w[i2] = "["}
        BY <2>1, <4>1, <4>2
      <4> QED
        BY <4>2, <4>3
    <3> QED
      BY <3>2, <3>3
  <2>3. \A i \in 1..n : a + i \in (a + 1)..(b - 1) /\ w[i] = t[a + i]
    BY <1>1, <1>3
  <2>4. \A i \in (a + 1)..(b - 1) : i - a \in 1..n /\ a + (i - a) = i
    BY <1>1
  <2> HIDE DEF Closed, ClosedIn
  <2>5. (\A i \in 1..n : w[i] = "[" => Closed(i)) <=>
          \A i \in (a + 1)..(b - 1) : t[i] = "[" => ClosedIn(i)
    <3>1. ASSUME \A i \in 1..n : w[i] = "[" => Closed(i), NEW i \in (a + 1)..(b - 1), t[i] = "["
          PROVE  ClosedIn(i)
      <4>1. i - a \in 1..n /\ a + (i - a) = i
        BY <2>4
      <4> QED
        BY <2>2, <2>3, <3>1, <4>1
    <3> QED
      BY <2>2, <2>3, <3>1
  <2> QED
    BY <2>5 DEF Closed, ClosedIn
<1>7. (\A j \in {j \in 1..n : w[j] = "]"} : \E i \in {i \in 1..n : w[i] = "["} :
           i < j /\ \A k \in (i + 1)..(j - 1) : w[k] \in Digits)
       <=> \A j \in (a + 1)..(b - 1) : t[j] = "]" =>
             \E i \in (a + 1)..(j - 1) : t[i] = "[" /\ DigitsIn(t, i, j)
  <2> DEFINE Opened(j) == \E i \in {i \in 1..n : w[i] = "["} :
                             i < j /\ \A k \in (i + 1)..(j - 1) : w[k] \in Digits
             OpenedIn(j) == \E i \in (a + 1)..(j - 1) : t[i] = "[" /\ DigitsIn(t, i, j)
  <2>1. ASSUME NEW j \in 1..n PROVE Opened(j) <=> OpenedIn(a + j)
    <3>1. ASSUME NEW i \in (a + 1)..(a + j - 1) PROVE i - a \in 1..n /\ i - a < j /\ a + (i - a) = i
      BY <1>1
    <3>2. ASSUME Opened(j) PROVE OpenedIn(a + j)
      <4>1. PICK i \in 1..n : w[i] = "[" /\ i < j /\ \A k \in (i + 1)..(j - 1) : w[k] \in Digits
        BY <3>2
      <4>2. a + i \in (a + 1)..(a + j - 1)
        BY <1>1, <4>1
      <4>3. t[a + i] = "[" /\ DigitsIn(t, a + i, a + j)
        BY <1>3, <1>5, <4>1
      <4> QED
        BY <1>1, <4>2, <4>3
    <3>3. ASSUME OpenedIn(a + j) PROVE Opened(j)
      <4>1. PICK i \in (a + 1)..((a + j) - 1) : t[i] = "[" /\ DigitsIn(t, i, a + j)
        BY <3>3, Zenon
      <4> DEFINE h == i - a
      <4>2. h \in 1..n /\ h < j /\ a + h = i
        BY <1>1, <3>1
      <4> HIDE DEF h
      <4>3. w[h] = "[" /\ \A k \in (h + 1)..(j - 1) : w[k] \in Digits
        BY <1>3, <1>5, <4>1, <4>2
      <4> QED
        BY <4>2, <4>3
    <3> QED
      BY <3>2, <3>3
  <2>2. \A i \in 1..n : a + i \in (a + 1)..(b - 1) /\ w[i] = t[a + i]
    BY <1>1, <1>3
  <2>3. \A i \in (a + 1)..(b - 1) : i - a \in 1..n /\ a + (i - a) = i
    BY <1>1
  <2> HIDE DEF Opened, OpenedIn
  <2>4. (\A j \in 1..n : w[j] = "]" => Opened(j)) <=>
          \A j \in (a + 1)..(b - 1) : t[j] = "]" => OpenedIn(j)
    <3>1. ASSUME \A j \in 1..n : w[j] = "]" => Opened(j), NEW j \in (a + 1)..(b - 1), t[j] = "]"
          PROVE  OpenedIn(j)
      <4>1. j - a \in 1..n /\ a + (j - a) = j
        BY <2>3
      <4> QED
        BY <2>1, <2>2, <3>1, <4>1
    <3> QED
      BY <2>1, <2>2, <3>1
  <2> QED
    BY <2>4 DEF Opened, OpenedIn
<1>8. w # <<>> <=> a + 1 < b
  BY <1>1, <1>4
<1>9. w # <<>> => w[1] = t[a + 1]
  BY <1>1, <1>3, <1>4
<1>10. IsPiece(w) <=> GoodBetween(t, a, b)
  BY <1>4, <1>6, <1>7, <1>8, <1>9 DEF IsPiece, GoodBetween
<1> QED
  BY <1>10 DEF w

LEMMA PiecesAre ==
  ASSUME NEW t \in Seq(Characters)
  PROVE  (\A w \in Pieces(t) : IsPiece(w))
           <=> \A a, b \in Nat : PieceAt(t, a, b) => GoodBetween(t, a, b)
<1> DEFINE n == Len(t)
           ends == {0, n + 1} \cup {i \in DOMAIN t : t[i] = "."}
           Next2(a, b) == a < b /\ ~ \E k \in ends : a < k /\ k < b
<1>1. n \in Nat /\ DOMAIN t = 1..n
  BY EmptySequence
<1>2. Pieces(t) = {SubSeq(t, e[1] + 1, e[2] - 1) : e \in {e \in ends \X ends : Next2(e[1], e[2])}}
  BY DEF Pieces
<1>3. \A a, b \in ends : Next2(a, b) <=> PieceAt(t, a, b)
  <2> SUFFICES ASSUME NEW a \in ends, NEW b \in ends PROVE Next2(a, b) <=> PieceAt(t, a, b)
    OBVIOUS
  <2>1. /\ a \in 0..(n + 1) /\ b \in 0..(n + 1)
        /\ a = 0 \/ a = n + 1 \/ t[a] = "."
        /\ b = 0 \/ b = n + 1 \/ t[b] = "."
    BY <1>1
  <2>2. (~ \E k \in ends : a < k /\ k < b) <=> \A k \in (a + 1)..(b - 1) : t[k] # "."
    <3>1. \A k \in ends : a < k /\ k < b => k \in (a + 1)..(b - 1) /\ t[k] = "."
      BY <1>1, <2>1
    <3>2. \A k \in (a + 1)..(b - 1) : k \in DOMAIN t /\ a < k /\ k < b
      BY <1>1, <2>1
    <3> QED
      BY <3>1, <3>2
  <2> HIDE DEF n, ends
  <2>3. a < b => a \in 0..n /\ b \in 1..(n + 1) /\ a # n + 1 /\ b # 0
    BY <1>1, <2>1
  <2> QED
    BY <2>1, <2>2, <2>3 DEF PieceAt, n
<1>4. \A a, b \in Nat : PieceAt(t, a, b) => a \in ends /\ b \in ends
  BY <1>1 DEF PieceAt
<1>5. ends \subseteq Nat
  BY <1>1
<1> HIDE DEF n, ends, Next2
<1>6. ASSUME \A w \in Pieces(t) : IsPiece(w), NEW a \in Nat, NEW b \in Nat, PieceAt(t, a, b)
      PROVE  GoodBetween(t, a, b)
  <2>1. <<a, b>> \in ends \X ends /\ Next2(a, b)
    BY <1>3, <1>4, <1>6
  <2>2. SubSeq(t, a + 1, b - 1) \in Pieces(t)
    <3> DEFINE e == <<a, b>>
    <3>1. e[1] = a /\ e[2] = b /\ e \in ends \X ends
      BY <2>1
    <3> HIDE DEF e
    <3>2. SubSeq(t, e[1] + 1, e[2] - 1) \in Pieces(t)
      BY <1>2, <2>1, <3>1
    <3> QED
      BY <3>1, <3>2
  <2> QED
    BY <1>6, <2>2, PieceIs
<1>7. ASSUME \A a, b \in Nat : PieceAt(t, a, b) => GoodBetween(t, a, b), NEW w \in Pieces(t)
      PROVE  IsPiece(w)
  <2>1. PICK e \in ends \X ends : Next2(e[1], e[2]) /\ w = SubSeq(t, e[1] + 1, e[2] - 1)
    BY <1>2
  <2>2. e[1] \in ends /\ e[2] \in ends /\ e[1] \in Nat /\ e[2] \in Nat
    BY <1>5
  <2>3. PieceAt(t, e[1], e[2])
    BY <1>3, <2>1, <2>2
  <2> QED
    BY <1>7, <2>1, <2>2, <2>3, PieceIs
<1> QED
  BY <1>6, <1>7

\* Every character but the dots is in a piece.
LEMMA Around ==
  ASSUME NEW t \in Seq(Characters), NEW k \in 1..Len(t), t[k] # "."
  PROVE  \E a, b \in Nat : PieceAt(t, a, b) /\ a < k /\ k < b
<1> DEFINE n == Len(t)
           Behind == {i \in Nat : k < i /\ (i = n + 1 \/ (i \in 1..n /\ t[i] = "."))}
<1>1. n \in Nat /\ k \in Nat /\ k > 0 /\ k <= n
  BY EmptySequence
<1> HIDE DEF n
<1>2. PICK b \in Nat : /\ k < b /\ b <= n + 1 /\ (b = n + 1 \/ t[b] = ".")
                       /\ \A i \in (k + 1)..(b - 1) : t[i] # "."
  <2>1. n + 1 \in Behind
    BY <1>1
  <2>2. PICK b \in Behind : \A i \in Behind : b <= i
    BY <2>1, LeastOne
  <2>3. b \in Nat /\ k < b /\ b <= n + 1 /\ (b = n + 1 \/ t[b] = ".")
    BY <1>1, <2>2
  <2>4. ASSUME NEW i \in (k + 1)..(b - 1), t[i] = "." PROVE FALSE
    <3>1. i \in Behind /\ ~ (b <= i)
      BY <1>1, <2>3, <2>4
    <3> QED
      BY <2>2, <3>1
  <2> QED
    BY <2>3, <2>4
<1>3. PICK a \in Nat : /\ a < k /\ (a = 0 \/ t[a] = ".")
                       /\ \A i \in (a + 1)..(k - 1) : t[i] # "."
  <2> DEFINE Back == {d \in Nat : d > 0 /\ d <= k /\ (d = k \/ t[k - d] = ".")}
  <2>1. k \in Back
    BY <1>1
  <2>2. PICK d \in Back : \A i \in Back : d <= i
    BY <2>1, LeastOne
  <2>3. d \in Nat /\ d > 0 /\ d <= k /\ (d = k \/ t[k - d] = ".")
    BY <2>2
  <2>4. ASSUME NEW i \in (k - d + 1)..(k - 1), t[i] = "." PROVE FALSE
    <3>1. k - i \in Nat /\ k - i > 0 /\ k - i <= k /\ k - (k - i) = i /\ ~ (d <= k - i)
      BY <1>1, <2>3
    <3>2. k - i \in Back
      BY <2>4, <3>1
    <3> QED
      BY <2>2, <3>1, <3>2
  <2>5. k - d \in Nat /\ k - d < k /\ (k - d = 0 \/ t[k - d] = ".")
    BY <1>1, <2>3
  <2> HIDE DEF Back
  <2> QED
    BY <2>4, <2>5
<1>4. \A i \in (a + 1)..(b - 1) : i \in (a + 1)..(k - 1) \/ i = k \/ i \in (k + 1)..(b - 1)
  BY <1>1, <1>2, <1>3
<1>5. a \in 0..n /\ b \in 1..(n + 1) /\ a < b
  BY <1>1, <1>2, <1>3
<1>6. PieceAt(t, a, b)
  BY <1>2, <1>3, <1>4, <1>5 DEF PieceAt, n
<1> QED
  BY <1>2, <1>3, <1>6

\* A piece of a text nothing can be held against is one.
LEMMA SoundPieces ==
  ASSUME NEW t \in Seq(Characters), t # <<>>, Sound(t), ~ Pending(t),
         NEW a \in Nat, NEW b \in Nat, PieceAt(t, a, b)
  PROVE  GoodBetween(t, a, b)
<1> DEFINE n == Len(t)
<1>1. n \in Nat /\ n > 0
  BY EmptySequence
<1>2. /\ a <= n /\ b <= n + 1 /\ a < b
      /\ a = 0 \/ t[a] = "."
      /\ b = n + 1 \/ t[b] = "."
      /\ \A k \in (a + 1)..(b - 1) : t[k] # "."
  BY <1>1 DEF PieceAt
<1>3. t[n] # "." /\ \A o \in 1..n : t[o] = "[" => ~ DigitsIn(t, o, n + 1)
  BY DEF Pending, Open
<1> HIDE DEF n
<1>4. \A m \in 1..n : ~ BadAt(t, m)
  BY DEF Sound, n
<1>5. \A m \in 1..n : t[m] \in {".", "["} => m # 1 /\ t[m - 1] # "."
  BY <1>4 DEF BadAt
<1>6. \A m \in 1..n : t[m] = "]" => \E o \in 1..(m - 2) : t[o] = "[" /\ DigitsIn(t, o, m)
  BY <1>4 DEF BadAt
<1>7. \A m \in 1..n : t[m] \notin Digits \cup {"]"} =>
         ~ \E o \in 1..(m - 1) : t[o] = "[" /\ DigitsIn(t, o, m)
  BY <1>4 DEF BadAt
<1>8. \A m \in 1..n : m > 1 /\ t[m - 1] = "]" => t[m] \in {"[", "."}
  BY <1>4 DEF BadAt
<1>9. a + 1 < b
  <2>1. CASE b = a + 1 /\ b \in 1..n
    <3>1. t[b] = "." /\ b - 1 = a
      BY <1>1, <1>2, <2>1
    <3> QED
      BY <1>1, <1>2, <1>5, <2>1, <3>1
  <2>2. CASE b = a + 1 /\ b = n + 1
    <3>1. a = n /\ a # 0
      BY <1>1, <2>2
    <3> QED
      BY <1>2, <1>3, <3>1
  <2> QED
    BY <1>1, <1>2, <2>1, <2>2
<1>10. ASSUME NEW j \in (a + 1)..(b - 1), t[j] = "]"
       PROVE  \E i \in (a + 1)..(j - 1) : t[i] = "[" /\ DigitsIn(t, i, j)
  <2>1. PICK o \in 1..(j - 2) : t[o] = "[" /\ DigitsIn(t, o, j)
    <3>1. j \in 1..n
      BY <1>1, <1>2
    <3> QED
      BY <1>6, <1>10, <3>1
  <2>2. CASE o > a
    <3>1. o \in (a + 1)..(j - 1)
      BY <1>1, <1>2, <2>2
    <3> QED
      BY <2>1, <3>1
  <2>3. CASE o = a
    BY <1>1, <1>2, <2>1, <2>3, DistinctCharacters
  <2>4. CASE o < a
    <3>1. a \in (o + 1)..(j - 1) /\ a # 0
      BY <1>1, <1>2, <2>4
    <3> QED
      BY <1>2, <2>1, <3>1, DistinctCharacters DEF DigitsIn
  <2> QED
    BY <1>1, <1>2, <2>2, <2>3, <2>4
<1>11. t[a + 1] \notin {"[", "]"}
  <2>1. a + 1 \in 1..n /\ a + 1 \in (a + 1)..(b - 1) /\ (a + 1) - 1 = a /\ (a + 1 = 1 <=> a = 0)
    BY <1>1, <1>2, <1>9
  <2>2. t[a + 1] # "["
    BY <1>2, <1>5, <2>1
  <2>3. (a + 1)..((a + 1) - 1) = {}
    BY <1>1
  <2>4. t[a + 1] # "]"
    BY <1>10, <2>1, <2>3
  <2> QED
    BY <2>2, <2>4
<1>12. ASSUME NEW i \in (a + 1)..(b - 1), t[i] = "["
       PROVE  \E j \in (i + 2)..(b - 1) : /\ t[j] = "]" /\ DigitsIn(t, i, j)
                                          /\ j = b - 1 \/ t[j + 1] = "["
  <2> DEFINE Others == {m \in Nat : m \in (i + 1)..n /\ t[m] \notin Digits}
  <2>1. i \in 1..n /\ i \in Nat
    BY <1>1, <1>2
  <2>2. PICK m \in Others : \A l \in Others : m <= l
    <3>1. PICK l \in (i + 1)..((n + 1) - 1) : t[l] \notin Digits
      BY <1>3, <1>12, <2>1 DEF DigitsIn
    <3>2. l \in Others
      BY <1>1, <2>1, <3>1
    <3> QED
      BY <3>2, LeastOne
  <2>3. m \in Nat /\ m \in (i + 1)..n /\ t[m] \notin Digits
    BY <2>2
  <2>4. DigitsIn(t, i, m)
    <3> SUFFICES ASSUME NEW l \in (i + 1)..(m - 1), t[l] \notin Digits PROVE FALSE
      BY DEF DigitsIn
    <3>1. l \in Others /\ ~ (m <= l)
      BY <1>1, <2>1, <2>3
    <3> QED
      BY <2>2, <3>1
  <2> HIDE DEF Others
  <2>5. m \in 1..n /\ i \in 1..(m - 1)
    BY <1>1, <2>1, <2>3
  <2>6. t[m] = "]"
    BY <1>7, <1>12, <2>3, <2>4, <2>5
  <2>7. m # i + 1
    <3> SUFFICES ASSUME m = i + 1 PROVE FALSE
      OBVIOUS
    <3>1. PICK o \in 1..(m - 2) : t[o] = "[" /\ DigitsIn(t, o, m)
      BY <1>6, <2>5, <2>6
    <3>2. i \in (o + 1)..(m - 1)
      BY <1>1, <2>1, <2>3
    <3> QED
      BY <1>12, <3>1, <3>2, DistinctCharacters DEF DigitsIn
  <2>8. m < b
    <3> SUFFICES ASSUME m >= b PROVE FALSE
      BY <1>1, <1>2, <2>3
    <3>1. b # n + 1 /\ t[b] = "." /\ b \in (i + 1)..m
      BY <1>1, <1>2, <2>1, <2>3
    <3>2. b # m
      BY <2>6, <3>1, DistinctCharacters
    <3>3. b \in (i + 1)..(m - 1)
      BY <1>1, <2>1, <2>3, <3>1, <3>2
    <3> QED
      BY <2>4, <3>1, <3>3, DistinctCharacters DEF DigitsIn
  <2>9. m \in (i + 2)..(b - 1)
    BY <1>1, <2>1, <2>3, <2>7, <2>8
  <2>10. m = b - 1 \/ t[m + 1] = "["
    <3> SUFFICES ASSUME m # b - 1 PROVE t[m + 1] = "["
      OBVIOUS
    <3>1. m + 1 \in 1..n /\ m + 1 > 1 /\ (m + 1) - 1 = m /\ m + 1 \in (a + 1)..(b - 1)
      BY <1>1, <1>2, <2>1, <2>3, <2>8
    <3> QED
      BY <1>2, <1>8, <2>6, <3>1
  <2> QED
    BY <2>4, <2>6, <2>9, <2>10
<1> QED
  BY <1>9, <1>10, <1>11, <1>12 DEF GoodBetween

\* The bracket at o is closed in its piece.
LEMMA ClosedInPiece ==
  ASSUME NEW t \in Seq(Characters), NEW o \in 1..Len(t), t[o] = "[",
         \A a, b \in Nat : PieceAt(t, a, b) => GoodBetween(t, a, b)
  PROVE  \E j \in (o + 2)..Len(t) :
            /\ t[j] = "]" /\ DigitsIn(t, o, j)
            /\ j = Len(t) \/ t[j + 1] \in {"[", "."}
<1>1. Len(t) \in Nat
  BY EmptySequence
<1>2. PICK a, b \in Nat : PieceAt(t, a, b) /\ a < o /\ o < b
  BY Around, DistinctCharacters
<1>3. GoodBetween(t, a, b)
  BY <1>2
<1>4. o \in (a + 1)..(b - 1)
  BY <1>2
<1>5. PICK j \in (o + 2)..(b - 1) : /\ t[j] = "]" /\ DigitsIn(t, o, j)
                                    /\ j = b - 1 \/ t[j + 1] = "["
  BY <1>3, <1>4 DEF GoodBetween
<1>6. b <= Len(t) + 1 /\ (b = Len(t) + 1 \/ t[b] = ".")
  BY <1>1, <1>2 DEF PieceAt
<1>7. j \in (o + 2)..Len(t) /\ (j = b - 1 => j + 1 = b /\ (j = Len(t) <=> b = Len(t) + 1))
  BY <1>1, <1>2, <1>5, <1>6
<1> QED
  BY <1>5, <1>6, <1>7

\* Nothing can be held against a text made of pieces.
LEMMA PiecesSound ==
  ASSUME NEW t \in Seq(Characters), t # <<>>,
         \A a, b \in Nat : PieceAt(t, a, b) => GoodBetween(t, a, b)
  PROVE  Sound(t) /\ ~ Pending(t)
<1> DEFINE n == Len(t)
<1>1. n \in Nat /\ n > 0
  BY EmptySequence
<1>2. ASSUME NEW m \in 1..n, t[m] \in {".", "["}, m = 1 \/ t[m - 1] = "." PROVE FALSE
  <2>1. CASE t[m] = "."
    <3>1. (m - 1 + 1)..(m - 1) = {} /\ m - 1 \in Nat /\ m \in Nat /\ m - 1 < m
          /\ ~ ((m - 1) + 1 < m)
      BY <1>1
    <3>2. PieceAt(t, m - 1, m)
      BY <1>1, <1>2, <2>1, <3>1 DEF PieceAt
    <3> QED
      BY <3>1, <3>2 DEF GoodBetween
  <2>2. CASE t[m] = "["
    <3>1. PICK a, b \in Nat : PieceAt(t, a, b) /\ a < m /\ m < b
      BY <2>2, Around, DistinctCharacters
    <3>2. \A k \in (a + 1)..(b - 1) : t[k] # "."
      BY <3>1 DEF PieceAt
    <3>3. a + 1 # m => m # 1 /\ m - 1 \in (a + 1)..(b - 1)
      BY <1>1, <3>1
    <3>4. a + 1 = m
      BY <1>2, <3>2, <3>3
    <3> QED
      BY <2>2, <3>1, <3>4 DEF GoodBetween
  <2> QED
    BY <1>2, <2>1, <2>2
<1>3. ASSUME NEW m \in 1..n, t[m] = "]"
      PROVE  \E o \in 1..(m - 2) : t[o] = "[" /\ DigitsIn(t, o, m)
  <2>1. PICK a, b \in Nat : PieceAt(t, a, b) /\ a < m /\ m < b
    BY <1>3, Around, DistinctCharacters
  <2>2. m \in (a + 1)..(b - 1)
    BY <2>1
  <2>3. PICK o \in (a + 1)..(m - 1) : t[o] = "[" /\ DigitsIn(t, o, m)
    BY <1>3, <2>1, <2>2 DEF GoodBetween
  <2>4. o \in 1..n /\ o \in Nat /\ m \in Nat
    BY <1>1, <2>1
  <2>5. PICK j \in (o + 2)..n : t[j] = "]" /\ DigitsIn(t, o, j)
    BY <2>3, <2>4, ClosedInPiece
  <2>6. o # m - 1
    <3> SUFFICES ASSUME o = m - 1 PROVE FALSE
      OBVIOUS
    <3>1. m \in (o + 1)..(j - 1)
      BY <1>1, <2>4, <2>5
    <3> QED
      BY <1>3, <2>5, <3>1, DistinctCharacters DEF DigitsIn
  <2>7. o \in 1..(m - 2)
    BY <1>1, <2>1, <2>3, <2>6
  <2> QED
    BY <2>3, <2>7
<1>4. ASSUME NEW m \in 1..n, t[m] \notin Digits \cup {"]"}, NEW o \in 1..(m - 1),
             t[o] = "[", DigitsIn(t, o, m)
      PROVE  FALSE
  <2>1. o \in 1..n /\ o \in Nat /\ m \in Nat
    BY <1>1
  <2>2. PICK j \in (o + 2)..n : t[j] = "]" /\ DigitsIn(t, o, j)
    BY <1>4, <2>1, ClosedInPiece
  <2>3. CASE m < j
    <3>1. m \in (o + 1)..(j - 1)
      BY <1>1, <2>1, <2>2, <2>3
    <3> QED
      BY <1>4, <2>2, <3>1 DEF DigitsIn
  <2>4. CASE j < m
    <3>1. j \in (o + 1)..(m - 1)
      BY <1>1, <2>1, <2>2, <2>4
    <3> QED
      BY <1>4, <2>2, <3>1, DistinctCharacters DEF DigitsIn
  <2>5. CASE j = m
    BY <1>4, <2>2, <2>5
  <2> QED
    BY <1>1, <2>1, <2>2, <2>3, <2>4, <2>5
<1>5. ASSUME NEW m \in 1..n, m > 1, t[m - 1] = "]" PROVE t[m] \in {"[", "."}
  <2> DEFINE l == m - 1
  <2>1. l \in 1..n /\ l + 1 = m /\ l # n
    BY <1>1, <1>5
  <2> HIDE DEF l
  <2>2. PICK o \in 1..(l - 2) : t[o] = "[" /\ DigitsIn(t, o, l)
    BY <1>3, <1>5, <2>1 DEF l
  <2>3. o \in 1..n /\ o \in Nat
    BY <1>1, <2>1
  <2>4. PICK j \in (o + 2)..n : /\ t[j] = "]" /\ DigitsIn(t, o, j)
                                /\ j = n \/ t[j + 1] \in {"[", "."}
    BY <2>2, <2>3, ClosedInPiece
  <2>5. CASE j < l
    <3>1. j \in (o + 1)..(l - 1)
      BY <1>1, <2>1, <2>3, <2>4, <2>5
    <3> QED
      BY <2>2, <2>4, <3>1, DistinctCharacters DEF DigitsIn
  <2>6. CASE l < j
    <3>1. l \in (o + 1)..(j - 1) /\ t[l] = "]"
      BY <1>1, <1>5, <2>1, <2>2, <2>3, <2>4, <2>6 DEF l
    <3> QED
      BY <2>4, <3>1, DistinctCharacters DEF DigitsIn
  <2>7. CASE j = l
    BY <2>1, <2>4, <2>7
  <2> QED
    BY <1>1, <2>1, <2>3, <2>4, <2>5, <2>6, <2>7
<1>6. Sound(t)
  BY <1>2, <1>3, <1>4, <1>5 DEF Sound, BadAt
<1>7. t[n] # "."
  <2> SUFFICES ASSUME t[n] = "." PROVE FALSE
    OBVIOUS
  <2>1. /\ n + 1 \in Nat /\ n < n + 1 /\ ~ (n + 1 < n + 1) /\ n \in 0..n
        /\ n + 1 \in 1..(n + 1) /\ (n + 1)..((n + 1) - 1) = {}
    BY <1>1
  <2>2. PieceAt(t, n, n + 1)
    BY <2>1 DEF PieceAt
  <2> QED
    BY <1>1, <2>1, <2>2 DEF GoodBetween
<1>8. ASSUME NEW o \in 1..n, Open(t, o) PROVE FALSE
  <2>1. t[o] = "[" /\ DigitsIn(t, o, n + 1)
    BY <1>8 DEF Open
  <2>2. PICK j \in (o + 2)..n : t[j] = "]" /\ DigitsIn(t, o, j)
    BY <2>1, ClosedInPiece
  <2>3. j \in (o + 1)..((n + 1) - 1)
    BY <1>1, <2>2
  <2> QED
    BY <2>1, <2>2, <2>3, DistinctCharacters DEF DigitsIn
<1> QED
  BY <1>6, <1>7, <1>8 DEF Pending

LEMMA WrittenIs ==
  ASSUME NEW t \in Seq(Characters)
  PROVE  IsWritten(t) <=> t \in {<<>>, <<".">>} \/ (Sound(t) /\ ~ Pending(t))
<1>1. ASSUME t # <<>>
      PROVE  (\A w \in Pieces(t) : IsPiece(w)) <=> Sound(t) /\ ~ Pending(t)
  BY <1>1, PiecesAre, SoundPieces, PiecesSound
<1> QED
  BY <1>1 DEF IsWritten

-----------------------------------------------------------------------------
(***************************************************************************)
(* What is kept of a text.                                                 *)
(***************************************************************************)
LEMMA ShorterList ==
  ASSUME NEW S, NEW w \in Seq(S), Len(w) # 0
  PROVE  \E v \in Seq(S), c \in S : w = Append(v, c) /\ Len(v) + 1 = Len(w)
<1>1. w # <<>>
  BY EmptySequence
<1>2. PICK v \in Seq(S), c \in S : w = Append(v, c)
  BY <1>1, SequenceEmptyOrAppend
<1> QED
  BY <1>2, Appended

LEMMA ConcatOne ==
  ASSUME NEW S, NEW u \in Seq(S), NEW x \in Seq(S), NEW c \in S
  PROVE  u \o Append(x, c) = Append(u \o x, c)
<1>1. <<c>> \in Seq(S) /\ u \o x \in Seq(S)
  BY ConcatProperties
<1>2. Append(x, c) = x \o <<c>> /\ Append(u \o x, c) = (u \o x) \o <<c>>
  BY <1>1, AppendIsConcat
<1> QED
  BY <1>1, <1>2, ConcatAssociative

\* The same of texts.
LEMMA ShorterText ==
  ASSUME NEW w \in Seq(Characters), Len(w) # 0
  PROVE  \E v \in Seq(Characters), c \in Characters : w = Append(v, c) /\ Len(v) + 1 = Len(w)
  BY ShorterList

LEMMA ConcatAppend ==
  ASSUME NEW u \in Seq(Characters), NEW x \in Seq(Characters), NEW c \in Characters
  PROVE  u \o Append(x, c) = Append(u \o x, c)
  BY ConcatOne

LEMMA KeptTyped ==
  ASSUME NEW w \in Seq(Characters)
  PROVE  Kept(w) \in Seq(Characters)
<1> DEFINE Bad == {n \in Nat : \E v \in Seq(Characters) : Len(v) = n /\ Kept(v) \notin Seq(Characters)}
<1>1. Bad = {}
  <2> SUFFICES ASSUME Bad # {} PROVE FALSE
    OBVIOUS
  <2>1. PICK n \in Bad : \A k \in Bad : n <= k
    BY LeastOne
  <2>2. PICK v \in Seq(Characters) : Len(v) = n /\ Kept(v) \notin Seq(Characters)
    BY <2>1
  <2>3. n \in Nat /\ (n = 0 <=> v = <<>>)
    BY <2>2, EmptySequence
  <2>4. n # 0
    BY <2>2, <2>3, KeptNothing
  <2>5. PICK u \in Seq(Characters), c \in Characters : v = Append(u, c) /\ Len(u) + 1 = n
    BY <2>2, <2>4, ShorterText
  <2>6. Len(u) \in Nat /\ ~ (n <= Len(u))
    BY <2>3, <2>5, EmptySequence
  <2>7. Kept(u) \in Seq(Characters)
    BY <2>1, <2>6
  <2>8. Kept(v) = Keep(Kept(u), c)
    BY <2>5, KeptAppend
  <2> QED
    BY <2>2, <2>7, <2>8 DEF Keep
<1>2. Len(w) \in Nat
  BY EmptySequence
<1> QED
  BY <1>1, <1>2

LEMMA KeptConcat ==
  ASSUME NEW u \in Seq(Characters), NEW w \in Seq(Characters)
  PROVE  Kept(u \o w) = Kept(u) \o Kept(w)
<1> DEFINE Bad == {n \in Nat : \E v \in Seq(Characters) :
                                  Len(v) = n /\ Kept(u \o v) # Kept(u) \o Kept(v)}
<1>1. Bad = {}
  <2> SUFFICES ASSUME Bad # {} PROVE FALSE
    OBVIOUS
  <2>1. PICK n \in Bad : \A k \in Bad : n <= k
    BY LeastOne
  <2>2. PICK v \in Seq(Characters) : Len(v) = n /\ Kept(u \o v) # Kept(u) \o Kept(v)
    BY <2>1
  <2>3. n \in Nat /\ (n = 0 <=> v = <<>>)
    BY <2>2, EmptySequence
  <2>4. n # 0
    <3> SUFFICES ASSUME v = <<>> PROVE FALSE
      BY <2>3
    <3>1. u \o v = u /\ Kept(u) \o <<>> = Kept(u)
      BY KeptTyped, ConcatEmptySeq
    <3> QED
      BY <2>2, <3>1, KeptNothing
  <2>5. PICK x \in Seq(Characters), c \in Characters : v = Append(x, c) /\ Len(x) + 1 = n
    BY <2>2, <2>4, ShorterText
  <2>6. Len(x) \in Nat /\ ~ (n <= Len(x))
    BY <2>3, <2>5, EmptySequence
  <2>7. Kept(u \o x) = Kept(u) \o Kept(x)
    BY <2>1, <2>6
  <2>8. u \o v = Append(u \o x, c) /\ u \o x \in Seq(Characters)
    BY <2>5, ConcatProperties, ConcatAppend
  <2>9. Kept(u \o v) = Keep(Kept(u) \o Kept(x), c) /\ Kept(v) = Keep(Kept(x), c)
    BY <2>5, <2>7, <2>8, KeptAppend
  <2>10. Kept(u) \o Append(Kept(x), c) = Append(Kept(u) \o Kept(x), c)
    <3>1. Kept(u) \in Seq(Characters) /\ Kept(x) \in Seq(Characters)
      BY KeptTyped
    <3> QED
      BY <3>1, ConcatAppend
  <2> QED
    BY <2>2, <2>9, <2>10 DEF Keep
<1>2. Len(w) \in Nat
  BY EmptySequence
<1> QED
  BY <1>1, <1>2

\* A reader has all that was kept of the text in its segments and its name.
Keeps(t, r) == r.mode # "error" => Kept(t) = Kept(Joined(r.segments)) \o Kept(r.current)

LEMMA ZerosAreLost ==
  ASSUME NEW w \in Seq(Characters), \A i \in 1..Len(w) : w[i] = "0"
  PROVE  Kept(w) = <<>>
<1> DEFINE Zeros(v) == \A i \in 1..Len(v) : v[i] = "0"
           Bad == {n \in Nat : \E v \in Seq(Characters) : Len(v) = n /\ Zeros(v) /\ Kept(v) # <<>>}
<1>1. Bad = {}
  <2> SUFFICES ASSUME Bad # {} PROVE FALSE
    OBVIOUS
  <2>1. PICK n \in Bad : \A k \in Bad : n <= k
    BY LeastOne
  <2>2. PICK v \in Seq(Characters) : Len(v) = n /\ Zeros(v) /\ Kept(v) # <<>>
    BY <2>1
  <2>3. n \in Nat /\ (n = 0 <=> v = <<>>)
    BY <2>2, EmptySequence
  <2>4. n # 0
    BY <2>2, <2>3, KeptNothing
  <2>5. PICK x \in Seq(Characters), c \in Characters : v = Append(x, c) /\ Len(x) + 1 = n
    BY <2>2, <2>4, ShorterText
  <2>6. Len(x) \in Nat /\ ~ (n <= Len(x))
    BY <2>3, <2>5, EmptySequence
  <2>7. (\A i \in 1..Len(x) : v[i] = x[i] /\ i \in 1..n) /\ v[n] = c /\ n \in 1..n
    BY <2>3, <2>4, <2>5, <2>6, Appended
  <2>8. Zeros(x) /\ c = "0"
    BY <2>2, <2>7
  <2>9. Kept(x) = <<>>
    BY <2>1, <2>6, <2>8
  <2>10. Kept(v) = Keep(Kept(x), c)
    BY <2>5, KeptAppend
  <2> QED
    BY <2>2, <2>8, <2>9, <2>10 DEF Keep
<1>2. Len(w) \in Nat
  BY EmptySequence
<1> QED
  BY <1>1, <1>2

LEMMA RewrittenKeeps ==
  ASSUME NEW d \in Seq(Characters), d # <<>>, Range(d) \subseteq Digits
  PROVE  Kept(Rewritten(d)) = Kept(d)
<1> DEFINE ones == {i \in DOMAIN d : d[i] # "0"}
           Least(i) == \A j \in ones : i <= j
<1>1. Len(d) \in Nat /\ DOMAIN d = 1..Len(d) /\ Len(d) # 0
  BY EmptySequence
<1>2. CASE ones = {}
  <2>1. Rewritten(d) = Append(<<>>, "0")
    BY <1>2 DEF Rewritten
  <2>2. Kept(Append(<<>>, "0")) = Keep(<<>>, "0")
    <3>1. "0" \in Characters /\ <<>> \in Seq(Characters)
      BY DEF Characters, Digits
    <3> QED
      BY <3>1, KeptAppend, KeptNothing
  <2>3. \A i \in 1..Len(d) : d[i] = "0"
    BY <1>1, <1>2
  <2>4. Kept(d) = <<>>
    BY <2>3, ZerosAreLost
  <2> QED
    BY <2>1, <2>2, <2>4 DEF Keep
<1>3. CASE ones # {}
  <2>1. ones \in SUBSET Nat
    BY <1>1
  <2>2. \E i \in ones : Least(i)
    BY <1>3, <2>1, LeastOne
  <2> DEFINE m == CHOOSE i \in ones : Least(i)
  <2>3. m \in ones /\ Least(m)
    BY <2>2
  <2>4. Rewritten(d) = SubSeq(d, m, Len(d))
    BY <1>3 DEF Rewritten
  <2> HIDE DEF m
  <2>5. m \in 1..Len(d) /\ m \in Nat /\ m - 1 \in 0..Len(d)
    BY <1>1, <2>3
  <2> DEFINE zeros == SubSeq(d, 1, m - 1)
             rest == SubSeq(d, m, Len(d))
  <2>6. \A i \in 1..Len(d) : d[i] \in Characters
    BY <1>1, ElementOfSeq
  <2>7. /\ zeros \in Seq(Characters) /\ Len(zeros) = m - 1
        /\ \A i \in 1..(m - 1) : zeros[i] = d[i]
    <3>1. \A i \in 1..(m - 1) : d[i] \in Characters
      BY <1>1, <2>5, <2>6
    <3> QED
      BY <2>5, <3>1, SubSeqProperties
  <2>8. rest \in Seq(Characters)
    <3>1. \A i \in m..Len(d) : d[i] \in Characters
      BY <1>1, <2>5, <2>6
    <3> QED
      BY <1>1, <2>5, <3>1, SubSeqProperties
  <2>9. zeros \o rest = d
    <3>1. (m - 1) + 1 = m
      BY <2>5
    <3>2. zeros \o SubSeq(d, (m - 1) + 1, Len(d)) = SubSeq(d, 1, Len(d))
      <4>1. /\ 1 \in 1..(Len(d) + 1) /\ m - 1 \in (1 - 1)..Len(d)
            /\ Len(d) \in (m - 1)..Len(d)
        BY <1>1, <2>5
      <4> QED
        BY <4>1, ConcatAdjacentSubSeq
    <3> QED
      BY <3>1, <3>2, SubSeqFull
  <2>10. \A i \in 1..Len(zeros) : zeros[i] = "0"
    <3>1. \A i \in 1..(m - 1) : i \in DOMAIN d /\ ~ (m <= i)
      BY <1>1, <2>5
    <3>2. \A i \in 1..(m - 1) : d[i] = "0"
      BY <2>3, <3>1
    <3> QED
      BY <2>7, <3>2
  <2>11. Kept(zeros) = <<>>
    BY <2>7, <2>10, ZerosAreLost
  <2>12. Kept(d) = <<>> \o Kept(rest)
    BY <2>7, <2>8, <2>9, <2>11, KeptConcat
  <2>13. <<>> \o Kept(rest) = Kept(rest)
    BY <2>8, KeptTyped, ConcatEmptySeq
  <2> QED
    BY <2>4, <2>12, <2>13
<1> QED
  BY <1>2, <1>3

LEMMA JoinedTyped ==
  ASSUME NEW s \in Seq(Written)
  PROVE  Joined(s) \in Seq(Characters)
<1>1. s = <<>> => Joined(s) = <<>>
  BY JoinedNothing
<1>2. s # <<>> => Joined(s) \in Seq(Characters)
  BY ReadsAll DEF Reads
<1> QED
  BY <1>1, <1>2

\* A segment more keeps what is kept of it.
LEMMA KeptSegment ==
  ASSUME NEW s \in Seq(Written), NEW w \in Written
  PROVE  Kept(Joined(Append(s, w))) = Kept(Joined(s)) \o Kept(w)
<1> DEFINE u == Joined(s)
<1>1. u \in Seq(Characters) /\ w \in Seq(Characters)
  BY JoinedTyped, WrittenNames
<1>2. Joined(Append(s, w)) = Join(u, w)
  BY JoinedAppend
<1> HIDE DEF u
<1>3. CASE u = <<>>
  <2>1. Join(u, w) = w
    BY <1>3 DEF Join
  <2>2. <<>> \o Kept(w) = Kept(w)
    BY <1>1, KeptTyped, ConcatEmptySeq
  <2> QED
    BY <1>2, <1>3, <2>1, <2>2, KeptNothing DEF u
<1>4. CASE u # <<>>
  <2>1. Join(u, w) = (u \o <<".">>) \o w \/ Join(u, w) = u \o (<<".">> \o w)
    BY <1>4 DEF Join
  <2>2. "." \in Characters /\ <<".">> \in Seq(Characters)
    BY DEF Characters
  <2>3. Join(u, w) = Append(u, ".") \o w
    <3>1. Append(u, ".") = u \o <<".">>
      BY <1>1, <2>2, AppendIsConcat
    <3>2. (u \o <<".">>) \o w = u \o (<<".">> \o w)
      BY <1>1, <2>2, ConcatAssociative
    <3> QED
      BY <2>1, <3>1, <3>2
  <2>4. Append(u, ".") \in Seq(Characters) /\ Kept(Append(u, ".")) = Kept(u)
    BY <1>1, <2>2, KeptAppend, Appended DEF Keep
  <2>5. Kept(Join(u, w)) = Kept(u) \o Kept(w)
    BY <1>1, <2>3, <2>4, KeptConcat
  <2> QED
    BY <1>2, <2>5 DEF u
<1> QED
  BY <1>3, <1>4

LEMMA StartKeeps == Keeps(<<>>, Start)
<1>1. Kept(Joined(<<>>)) \o Kept(<<>>) = <<>>
  BY KeptNothing, JoinedNothing
<1> QED
  BY <1>1, KeptNothing DEF Keeps, Start

LEMMA KeepsStep ==
  ASSUME NEW t \in Seq(Characters), NEW r, Between(r), Keeps(t, r), NEW c \in Characters
  PROVE  Keeps(Append(t, c), Read(r, c))
<1> DEFINE s == Read(r, c)
           v == Append(t, c)
           K(q) == Kept(Joined(q.segments)) \o Kept(q.current)
<1> SUFFICES ASSUME s.mode # "error" PROVE Kept(v) = K(s)
  BY DEF Keeps
<1>1. r \in ReaderType /\ r.segments \in Seq(Written) /\ r.current \in Seq(Characters)
  BY DEF Between, ReaderType
<1>2. /\ Kept(Joined(r.segments)) \in Seq(Characters) /\ Kept(r.current) \in Seq(Characters)
      /\ Kept(v) = Keep(Kept(t), c)
  BY <1>1, KeptTyped, KeptAppend, JoinedTyped
<1>3. r.mode # "error"
  BY DEF Read
<1>4. Kept(t) = K(r)
  BY <1>3 DEF Keeps
<1>5. ASSUME s.segments = r.segments, s.current = Append(r.current, c) PROVE Kept(v) = K(s)
  <2>1. Kept(s.current) = Keep(Kept(r.current), c)
    BY <1>1, <1>5, KeptAppend
  <2>2. Kept(Joined(r.segments)) \o Append(Kept(r.current), c)
          = Append(Kept(Joined(r.segments)) \o Kept(r.current), c)
    BY <1>2, ConcatAppend
  <2> QED
    BY <1>2, <1>4, <1>5, <2>1, <2>2 DEF Keep
<1>6. ASSUME c \in {".", "[", "]"}, s.segments = r.segments, s.current = r.current
      PROVE  Kept(v) = K(s)
  BY <1>2, <1>4, <1>6 DEF Keep
<1>7. ASSUME c \in {".", "[", "]"}, NEW w \in Written, Kept(w) = Kept(r.current),
             s.segments = Append(r.segments, w), s.current = <<>>
      PROVE  Kept(v) = K(s)
  <2>1. Kept(Joined(s.segments)) = Kept(Joined(r.segments)) \o Kept(r.current)
    BY <1>1, <1>7, KeptSegment
  <2>2. Kept(Joined(s.segments)) \o <<>> = Kept(Joined(s.segments))
    <3>1. Kept(Joined(s.segments)) \in Seq(Characters)
      BY <1>2, <2>1, ConcatProperties
    <3> QED
      BY <3>1, ConcatEmptySeq
  <2> QED
    BY <1>2, <1>4, <1>7, <2>1, <2>2, KeptNothing DEF Keep
<1> HIDE DEF K, v
<1>8. CASE r.mode = "bracket"
  <2>1. CASE c = "]"
    <3>1. s = CloseIndex(r)
      BY <1>8, <2>1 DEF Read
    <3>2. Refused(r).mode = "error"
      BY <1>1 DEF Refused, ReaderType
    <3>3. r.current # <<>> /\ Range(r.current) \subseteq Digits
      BY <3>1, <3>2 DEF CloseIndex
    <3>4. s.segments = Append(r.segments, Rewritten(r.current)) /\ s.current = <<>>
      BY <1>1, <3>1, <3>3 DEF CloseIndex, ReaderType
    <3>5. Rewritten(r.current) \in Written /\ Kept(Rewritten(r.current)) = Kept(r.current)
      BY <1>1, <3>3, RewrittenIsWritten, RewrittenKeeps
    <3> HIDE DEF s
    <3> QED
      BY <1>7, <2>1, <3>4, <3>5
  <2>2. CASE c # "]"
    <3>1. s = [r EXCEPT !.current = Append(@, c)]
      BY <1>8, <2>2 DEF Read
    <3>2. s.segments = r.segments /\ s.current = Append(r.current, c)
      BY <1>1, <3>1 DEF ReaderType
    <3> QED
      BY <1>5, <3>2
  <2> QED
    BY <2>1, <2>2
<1>9. CASE r.mode = "index"
  <2>1. Refused(r).mode = "error"
    BY <1>1 DEF Refused, ReaderType
  <2>2. c \in {".", "["}
    BY <1>9, <2>1 DEF Read
  <2>3. \/ s = [r EXCEPT !.mode = "name", !.expecting = TRUE]
        \/ s = [r EXCEPT !.mode = "bracket"]
    BY <1>9, <2>2 DEF Read
  <2>4. s.segments = r.segments /\ s.current = r.current
    BY <1>1, <2>3 DEF ReaderType
  <2> HIDE DEF s
  <2> QED
    BY <1>6, <2>2, <2>4
<1>10. CASE r.mode = "name"
  <2>1. Refused(r).mode = "error"
    BY <1>1 DEF Refused, ReaderType
  <2>2. CASE c \in {".", "["} /\ r.current # <<>>
    <3>1. \/ s = [PushName(r) EXCEPT !.expecting = TRUE]
          \/ s = [PushName(r) EXCEPT !.mode = "bracket"]
      BY <1>10, <2>2 DEF Read
    <3>2. s.segments = Append(r.segments, r.current) /\ s.current = <<>>
      BY <1>1, <3>1 DEF PushName, ReaderType
    <3>3. r.current \in Written
      BY <1>10, <2>2 DEF Between, Written
    <3> HIDE DEF s
    <3> QED
      BY <1>7, <2>2, <3>2, <3>3
  <2>3. CASE c = "]" \/ (c \in {".", "["} /\ r.current = <<>>)
    <3>1. s = Refused(r)
      BY <1>10, <2>3 DEF Read
    <3> QED
      BY <2>1, <3>1
  <2>4. CASE c \notin {".", "[", "]"}
    <3>1. s = [r EXCEPT !.current = Append(@, c), !.expecting = FALSE]
      BY <1>10, <2>4 DEF Read
    <3>2. s.segments = r.segments /\ s.current = Append(r.current, c)
      BY <1>1, <3>1 DEF ReaderType
    <3> QED
      BY <1>5, <3>2
  <2> QED
    BY <2>2, <2>3, <2>4
<1> QED
  BY <1>1, <1>3, <1>8, <1>9, <1>10 DEF ReaderType

-----------------------------------------------------------------------------
(***************************************************************************)
(* The three together.                                                     *)
(***************************************************************************)
GrammarInv == ReaderInv /\ Grammar(text, reader) /\ Keeps(text, reader)

LEMMA InitGrammar == Init => GrammarInv
  BY InitReader, StartIsGrammar, StartKeeps DEF Init, GrammarInv

LEMMA GrammarInvStep == GrammarInv /\ [Next]_vars => GrammarInv'
<1> SUFFICES ASSUME GrammarInv, [Next]_vars PROVE GrammarInv'
  OBVIOUS
<1>1. ReaderInv'
  BY ReaderStep DEF GrammarInv
<1>2. ASSUME NEW c \in Characters, Write(c) PROVE GrammarInv'
  <2>1. text' = Append(text, c) /\ reader' = Read(reader, c)
    BY <1>2 DEF Write
  <2>2. text \in Seq(Characters) /\ Between(reader) /\ Grammar(text, reader) /\ Keeps(text, reader)
    BY DEF GrammarInv, ReaderInv
  <2>3. Grammar(text', reader')
    BY <2>1, <2>2, GrammarStep
  <2>4. Keeps(text', reader')
    BY <2>1, <2>2, KeepsStep
  <2> QED
    BY <1>1, <2>3, <2>4 DEF GrammarInv
<1>3. CASE UNCHANGED vars
  BY <1>1, <1>3 DEF vars, GrammarInv, Grammar, Keeps
<1> QED
  BY <1>2, <1>3 DEF Next

\* A path is closed where its text is not pending.
LEMMA ClosedIsWritten ==
  ASSUME GrammarInv, text # <<>>
  PROVE  ~ Unclosed(reader) <=> Sound(text) /\ ~ Pending(text)
<1> DEFINE n == Len(text)
           r == reader
<1>1. /\ text \in Seq(Characters) /\ Between(r) /\ Grammar(text, r)
      /\ n \in Nat /\ n # 0 /\ n \in 1..n
  BY EmptySequence DEF GrammarInv, ReaderInv
<1>2. r \in ReaderType
  BY <1>1 DEF Between
<1>3. ASSUME ~ Unclosed(r) PROVE Sound(text) /\ ~ Pending(text)
  <2>1. r.mode \in {"name", "index"} /\ ~ (r.expecting /\ r.segments # <<>> /\ r.current = <<>>)
    BY <1>2, <1>3 DEF Unclosed, ReaderType
  <2>2. Sound(text) /\ Shape(text, r)
    BY <1>1, <2>1 DEF Grammar, Alive
  <2>3. CASE r.mode = "index"
    <3>1. text[n] = "]"
      BY <2>2, <2>3 DEF Shape
    <3>2. \A o \in 1..n : ~ Open(text, o)
      BY <1>1, <3>1, OpenEnds, DistinctCharacters
    <3> QED
      BY <2>2, <3>1, <3>2, DistinctCharacters DEF Pending
  <2>4. CASE r.mode = "name"
    <3>1. r.expecting => r.current = <<>>
      BY <1>1, <2>4 DEF Between
    <3>2. ~ r.expecting
      BY <2>1, <2>2, <2>4, <3>1 DEF Shape
    <3> QED
      BY <2>2, <2>4, <3>2 DEF Shape, Pending
  <2> QED
    BY <2>1, <2>3, <2>4
<1>4. ASSUME Unclosed(r), Sound(text) PROVE Pending(text)
  <2>1. Alive(r) /\ Shape(text, r)
    BY <1>1, <1>4 DEF Grammar
  <2>2. CASE r.mode = "bracket"
    BY <2>1, <2>2 DEF Shape, Pending
  <2>3. CASE r.mode = "name"
    <3>1. r.expecting
      BY <1>4, <2>3 DEF Unclosed
    <3> QED
      BY <2>1, <2>3, <3>1 DEF Shape, Pending
  <2>4. CASE r.mode = "index"
    BY <1>1, <1>4, <2>4 DEF Between, Unclosed
  <2> QED
    BY <2>1, <2>2, <2>3, <2>4 DEF Alive
<1> QED
  BY <1>3, <1>4

LEMMA GrammarAccepts == GrammarInv => AcceptsTheGrammar
<1> SUFFICES ASSUME GrammarInv PROVE AcceptsTheGrammar
  OBVIOUS
<1> DEFINE result == ExternalPath(text, reader)
<1>1. text \in Seq(Characters) /\ reader = Parsed(text) /\ Between(reader) /\ reader \in ReaderType
  BY DEF GrammarInv, ReaderInv, Between
<1>2. CASE text = <<".">>
  <2>1. Parsed(<<".">>) = Read(Start, ".")
    <3>1. "." \in Characters /\ <<>> \in Seq(Characters) /\ Append(<<>>, ".") = <<".">>
      BY DEF Characters
    <3> QED
      BY <3>1, ParsedAppend, ParsedNothing
  <2>2. ~ reader.big
    BY <1>1, <1>2, <2>1 DEF Read, Refused, Start
  <2>3. result.outcome = "path" /\ result.segments = <<>>
    BY <1>2 DEF ExternalPath, Path
  <2>4. IsWritten(text)
    BY <1>2 DEF IsWritten
  <2>5. Kept(text) = <<>>
    <3>1. "." \in Characters /\ <<>> \in Seq(Characters) /\ Append(<<>>, ".") = <<".">>
      BY DEF Characters
    <3>2. Kept(Append(<<>>, ".")) = Keep(<<>>, ".")
      BY <3>1, KeptAppend, KeptNothing
    <3> QED
      BY <1>2, <3>1, <3>2 DEF Keep
  <2>6. Kept(Joined(result.segments)) = <<>>
    BY <2>3, JoinedNothing, KeptNothing
  <2> QED
    BY <2>2, <2>3, <2>4, <2>5, <2>6 DEF AcceptsTheGrammar
<1>3. CASE text # <<".">>
  <2>1. /\ result.outcome = "path" <=> ~ reader.big /\ ~ Unclosed(reader)
        /\ ~ reader.big /\ ~ Unclosed(reader) => result.segments = Segments(reader)
    BY <1>3 DEF ExternalPath, Path, Error
  <2>2. ~ Unclosed(reader) <=> IsWritten(text)
    <3>1. CASE text = <<>>
      <4>1. reader = Start
        BY <1>1, <3>1, ParsedNothing
      <4> QED
        BY <3>1, <4>1 DEF Start, Unclosed, IsWritten
    <3>2. CASE text # <<>>
      BY <1>1, <1>3, <3>2, ClosedIsWritten, WrittenIs
    <3> QED
      BY <3>1, <3>2
  <2>3. ASSUME ~ Unclosed(reader) PROVE Kept(text) = Kept(Joined(Segments(reader)))
    <3>1. reader.mode \in {"name", "index"} /\ reader.segments \in Seq(Written)
      BY <1>1, <2>3 DEF Unclosed, ReaderType
    <3>2. Kept(text) = Kept(Joined(reader.segments)) \o Kept(reader.current)
      BY <3>1 DEF GrammarInv, Keeps
    <3>3. CASE reader.current = <<>>
      <4>1. Kept(Joined(reader.segments)) \o <<>> = Kept(Joined(reader.segments))
        BY <3>1, JoinedTyped, KeptTyped, ConcatEmptySeq
      <4> QED
        BY <3>2, <3>3, <4>1, KeptNothing DEF Segments
    <3>4. CASE reader.current # <<>>
      <4>1. reader.current \in Written
        BY <1>1, <3>1, <3>4 DEF Between, Written
      <4>2. Kept(Joined(Append(reader.segments, reader.current)))
              = Kept(Joined(reader.segments)) \o Kept(reader.current)
        BY <3>1, <4>1, KeptSegment
      <4> QED
        BY <3>2, <3>4, <4>2 DEF Segments
    <3> QED
      BY <3>3, <3>4
  <2> HIDE DEF result
  <2>4. result.outcome = "path" => Kept(text) = Kept(Joined(result.segments))
    BY <2>1, <2>3
  <2>5. (result.outcome = "path") <=> (IsWritten(text) /\ ~ reader.big)
    BY <2>1, <2>2
  <2> QED
    BY <2>4, <2>5 DEF AcceptsTheGrammar, result
<1> QED
  BY <1>2, <1>3

\* The parser of try_normalize_external_path (loader/path.rs), one character at a time
\* and without looking back, accepts exactly the paths of the grammar whose indices fit
\* usize, and loses or moves no character of a name or an index.
THEOREM GrammarAccepted == Spec => []AcceptsTheGrammar
<1>1. Spec => []GrammarInv
  BY InitGrammar, GrammarInvStep, PTL DEF Spec
<1> QED
  BY <1>1, GrammarAccepts, PTL

-----------------------------------------------------------------------------
(***************************************************************************)
(* The names of variables.  str::split and join are loops like the others. *)
(* A name is made of pieces that are joined, in upper case where the case  *)
(* of letters is folded; that it is taken apart into the same pieces rests *)
(* on two facts: pieces that are not empty and were split are joined to    *)
(* what they were split from, and both loops do the same in either case    *)
(* when the separator has no letters.                                      *)
(***************************************************************************)

\* The loop of str::split,
SplitStart == [pieces |-> <<>>, current |-> <<>>]
SplitRead(s, separator) ==
    FoldLeft(LAMBDA acc, c : Split(acc, c, separator), SplitStart, s)

LEMMA SplitRuns ==
  ASSUME NEW s, NEW n \in Nat, DOMAIN s = 1..n, NEW separator
  PROVE  \E g : IsRun(Loop("split", separator), g, SplitStart, s, n) /\ SplitRead(s, separator) = g[1..n]
<1> DEFINE F(g) == [t \in SUBSET (1..n) |->
                      IF t = {} THEN SplitStart ELSE Split(g[t \ {Max(t)}], s[Max(t)], separator)]
           iter == CHOOSE g : g = F(g)
<1>1. \E g : g = F(g)
  <2>1. PICK g : IsFold(Loop("split", separator), g, SplitStart, s, n)
    BY FoldExists
  <2>2. g = F(g)
    BY <2>1 DEF IsFold, Turn, Loop
  <2> QED
    BY <2>2
<1>2. iter = F(iter)
  BY <1>1
<1>3. SplitRead(s, separator) = iter[1..n]
  BY DEF SplitRead, FoldLeft, MapThenFoldSet
<1> HIDE DEF iter
<1>4. IsFold(Loop("split", separator), iter, SplitStart, s, n)
  BY <1>2 DEF IsFold, Turn, Loop
<1>5. IsRun(Loop("split", separator), iter, SplitStart, s, n)
  BY <1>4, FoldRuns
<1> QED
  BY <1>3, <1>5

LEMMA SplitAppend ==
  ASSUME NEW S, NEW s \in Seq(S), NEW c \in S, NEW separator
  PROVE  SplitRead(Append(s, c), separator) = Split(SplitRead(s, separator), c, separator)
<1>1. /\ Len(s) \in Nat /\ Len(s) + 1 \in Nat /\ DOMAIN s = 1..Len(s)
      /\ Append(s, c) \in Seq(S) /\ Len(Append(s, c)) = Len(s) + 1
      /\ DOMAIN Append(s, c) = 1..(Len(s) + 1)
  BY LenProperties, AppendProperties
<1>2. PICK g : /\ IsRun(Loop("split", separator), g, SplitStart, s, Len(s))
               /\ SplitRead(s, separator) = g[1..Len(s)]
  BY <1>1, SplitRuns
<1>3. PICK h : /\ IsRun(Loop("split", separator), h, SplitStart, Append(s, c), Len(s) + 1)
               /\ SplitRead(Append(s, c), separator) = h[1..(Len(s) + 1)]
  BY <1>1, SplitRuns, ZenonT(30)
<1>4. h[1..(Len(s) + 1)] = Turn(Loop("split", separator), g[1..Len(s)], c)
  BY <1>2, <1>3, RunsMeet
<1> QED
  BY <1>2, <1>3, <1>4 DEF Turn, Loop

LEMMA SplitNothing ==
  ASSUME NEW separator
  PROVE  SplitRead(<<>>, separator) = SplitStart
<1>1. PICK g : IsRun(Loop("split", separator), g, SplitStart, <<>>, 0) /\ SplitRead(<<>>, separator) = g[1..0]
  BY SplitRuns
<1>2. 1..0 = {}
  OBVIOUS
<1> QED
  BY <1>1, <1>2 DEF IsRun

\* and the one that writes the name of a variable.
LEMMA JoinedByRuns ==
  ASSUME NEW s, NEW n \in Nat, DOMAIN s = 1..n, NEW separator
  PROVE  \E g : IsRun(Loop("joinBy", separator), g, <<>>, s, n) /\ JoinedBy(s, separator) = g[1..n]
<1> DEFINE F(g) == [t \in SUBSET (1..n) |->
                      IF t = {} THEN <<>> ELSE JoinBy(g[t \ {Max(t)}], s[Max(t)], separator)]
           iter == CHOOSE g : g = F(g)
<1>1. \E g : g = F(g)
  <2>1. PICK g : IsFold(Loop("joinBy", separator), g, <<>>, s, n)
    BY FoldExists
  <2>2. g = F(g)
    BY <2>1 DEF IsFold, Turn, Loop
  <2> QED
    BY <2>2
<1>2. iter = F(iter)
  BY <1>1
<1>3. JoinedBy(s, separator) = iter[1..n]
  BY DEF JoinedBy, FoldLeft, MapThenFoldSet, JoinBy
<1> HIDE DEF iter
<1>4. IsFold(Loop("joinBy", separator), iter, <<>>, s, n)
  BY <1>2 DEF IsFold, Turn, Loop
<1>5. IsRun(Loop("joinBy", separator), iter, <<>>, s, n)
  BY <1>4, FoldRuns
<1> QED
  BY <1>3, <1>5

LEMMA JoinedByAppend ==
  ASSUME NEW S, NEW s \in Seq(S), NEW c \in S, NEW separator
  PROVE  JoinedBy(Append(s, c), separator) = JoinBy(JoinedBy(s, separator), c, separator)
<1>1. /\ Len(s) \in Nat /\ Len(s) + 1 \in Nat /\ DOMAIN s = 1..Len(s)
      /\ Append(s, c) \in Seq(S) /\ Len(Append(s, c)) = Len(s) + 1
      /\ DOMAIN Append(s, c) = 1..(Len(s) + 1)
  BY LenProperties, AppendProperties
<1>2. PICK g : /\ IsRun(Loop("joinBy", separator), g, <<>>, s, Len(s))
               /\ JoinedBy(s, separator) = g[1..Len(s)]
  BY <1>1, JoinedByRuns
<1>3. PICK h : /\ IsRun(Loop("joinBy", separator), h, <<>>, Append(s, c), Len(s) + 1)
               /\ JoinedBy(Append(s, c), separator) = h[1..(Len(s) + 1)]
  BY <1>1, JoinedByRuns, ZenonT(30)
<1>4. h[1..(Len(s) + 1)] = Turn(Loop("joinBy", separator), g[1..Len(s)], c)
  BY <1>2, <1>3, RunsMeet
<1> QED
  BY <1>2, <1>3, <1>4 DEF Turn, Loop

LEMMA JoinedByNothing ==
  ASSUME NEW separator
  PROVE  JoinedBy(<<>>, separator) = <<>>
<1>1. PICK g : IsRun(Loop("joinBy", separator), g, <<>>, <<>>, 0) /\ JoinedBy(<<>>, separator) = g[1..0]
  BY JoinedByRuns
<1>2. 1..0 = {}
  OBVIOUS
<1> QED
  BY <1>1, <1>2 DEF IsRun

\* What a turn of the loop looks for.
EndsWith(current, separator) ==
    /\ Len(separator) <= Len(current)
    /\ \A i \in 1..Len(separator) : current[Len(current) - Len(separator) + i] = separator[i]

\* The piece in front of a separator at the end.
PieceOf(current, separator) == SubSeq(current, 1, Len(current) - Len(separator))

LEMMA PieceEnds ==
  ASSUME NEW S, NEW current \in Seq(S), NEW separator \in Seq(S)
  PROVE  /\ PieceOf(current, separator) \in Seq(S)
         /\ current = PieceOf(current, separator) \o separator <=> EndsWith(current, separator)
<1> DEFINE piece == SubSeq(current, 1, Len(current) - Len(separator))
<1> DEFINE n == Len(current)
           l == Len(separator)
           m == Len(piece)
<1>1. n \in Nat /\ l \in Nat /\ n - l \in Int
  BY EmptySequence
<1>2. \A i \in 1..(n - l) : current[i] \in S
  BY <1>1, ElementOfSeq
<1>3. /\ piece \in Seq(S) /\ m = IF 1 <= n - l THEN n - l - 1 + 1 ELSE 0
      /\ \A i \in 1..(n - l - 1 + 1) : piece[i] = current[1 + i - 1]
  BY <1>1, <1>2, SubSeqProperties
<1>4. /\ piece \o separator \in Seq(S) /\ Len(piece \o separator) = m + l
      /\ \A i \in 1..(m + l) :
           (piece \o separator)[i] = IF i <= m THEN piece[i] ELSE separator[i - m]
  BY <1>3, ConcatProperties
<1>0. m \in Nat
  BY <1>3, EmptySequence
<1> HIDE DEF n, l, m
<1>5. ASSUME current = piece \o separator
      PROVE  l <= n /\ \A i \in 1..l : current[n - l + i] = separator[i]
  <2>1. n = m + l
    BY <1>4, <1>5 DEF n
  <2>2. m = n - l /\ l <= n
    BY <1>1, <1>3, <2>1
  <2>3. ASSUME NEW i \in 1..l PROVE current[n - l + i] = separator[i]
    <3>1. PICK j \in Int : j = n - l + i
      BY <1>1
    <3>2. j \in 1..(m + l) /\ ~ (j <= m) /\ j - m = i
      BY <1>0, <1>1, <2>2, <3>1
    <3>3. (piece \o separator)[j] = separator[j - m]
      BY <1>4, <3>2
    <3> QED
      BY <1>5, <3>1, <3>2, <3>3
  <2> QED
    BY <2>2, <2>3
<1>6. ASSUME l <= n, \A i \in 1..l : current[n - l + i] = separator[i]
      PROVE  current = piece \o separator
  <2>0. l <= n /\ m = (IF 1 <= n - l THEN n - l - 1 + 1 ELSE 0) /\ Len(piece \o separator) = m + l
    BY <1>3, <1>4, <1>6
  <2>1. m = n - l /\ Len(piece \o separator) = n
    BY <1>0, <1>1, <2>0
  <2>2. ASSUME NEW i \in 1..n PROVE current[i] = (piece \o separator)[i]
    <3>1. CASE i <= n - l
      <4>1. i \in 1..(n - l - 1 + 1) /\ i \in 1..(m + l) /\ 1 + i - 1 = i
        BY <1>1, <2>1, <3>1
      <4> QED
        BY <1>3, <1>4, <2>1, <3>1, <4>1
    <3>2. CASE ~ (i <= n - l)
      <4>1. i - (n - l) \in 1..l /\ i \in 1..(m + l) /\ n - l + (i - (n - l)) = i
        BY <1>1, <2>1, <3>2
      <4>2. (piece \o separator)[i] = separator[i - (n - l)]
        BY <1>4, <2>1, <3>2, <4>1
      <4>3. current[n - l + (i - (n - l))] = separator[i - (n - l)]
        BY <1>6, <4>1
      <4> QED
        BY <4>1, <4>2, <4>3
    <3> QED
      BY <3>1, <3>2
  <2> QED
    BY <1>4, <2>1, <2>2, SeqEqual DEF n
<1> HIDE DEF piece
<1>7. current = piece \o separator <=> EndsWith(current, separator)
  BY <1>5, <1>6 DEF EndsWith, n, l
<1> QED
  BY <1>3, <1>7 DEF PieceOf, piece

SplitType(S) == [pieces : Seq(Seq(S)), current : Seq(S)]

Longer(r, c) == Append(r.current, c)

LEMMA SplitTurn ==
  ASSUME NEW S, NEW separator \in Seq(S), NEW r \in SplitType(S), NEW c \in S
  PROVE  /\ Longer(r, c) \in Seq(S) /\ PieceOf(Longer(r, c), separator) \in Seq(S)
         /\ EndsWith(Longer(r, c), separator) =>
              /\ Longer(r, c) = PieceOf(Longer(r, c), separator) \o separator
              /\ Split(r, c, separator) =
                   [pieces |-> Append(r.pieces, PieceOf(Longer(r, c), separator)), current |-> <<>>]
         /\ ~ EndsWith(Longer(r, c), separator) =>
              Split(r, c, separator) = [pieces |-> r.pieces, current |-> Longer(r, c)]
         /\ Split(r, c, separator) \in SplitType(S)
<1> DEFINE current == Longer(r, c)
           piece == PieceOf(current, separator)
<1>1. r.current \in Seq(S) /\ r.pieces \in Seq(Seq(S)) /\ r = [pieces |-> r.pieces, current |-> r.current]
  BY DEF SplitType
<1>2. current \in Seq(S)
  BY <1>1, Appended DEF Longer
<1> HIDE DEF current
<1>3. piece \in Seq(S) /\ (current = piece \o separator <=> EndsWith(current, separator))
  BY <1>2, PieceEnds
<1>4. Split(r, c, separator) = IF current = piece \o separator
                               THEN [pieces |-> Append(r.pieces, piece), current |-> <<>>]
                               ELSE [r EXCEPT !.current = current]
  BY DEF Split, current, Longer, PieceOf
<1> HIDE DEF piece
<1>5. Append(r.pieces, piece) \in Seq(Seq(S)) /\ <<>> \in Seq(S)
  BY <1>1, <1>3, Appended
<1>6. [r EXCEPT !.current = current] = [pieces |-> r.pieces, current |-> current]
  BY <1>1
<1>7. Split(r, c, separator) \in SplitType(S)
  BY <1>1, <1>2, <1>3, <1>4, <1>5, <1>6 DEF SplitType
<1> QED
  BY <1>2, <1>3, <1>4, <1>6, <1>7 DEF current, piece

LEMMA SplitTyped ==
  ASSUME NEW S, NEW separator \in Seq(S), NEW s \in Seq(S)
  PROVE  SplitRead(s, separator) \in SplitType(S)
<1> DEFINE Bad == {n \in Nat : \E v \in Seq(S) : Len(v) = n /\ SplitRead(v, separator) \notin SplitType(S)}
<1>1. Bad = {}
  <2> SUFFICES ASSUME Bad # {} PROVE FALSE
    OBVIOUS
  <2>1. PICK n \in Bad : \A m \in Bad : n <= m
    BY LeastOne
  <2>2. PICK w \in Seq(S) : Len(w) = n /\ SplitRead(w, separator) \notin SplitType(S)
    BY <2>1
  <2>3. n # 0
    <3>1. SplitStart \in SplitType(S)
      BY DEF SplitStart, SplitType
    <3> QED
      BY <2>2, <3>1, SplitNothing, EmptySequence
  <2>4. PICK v \in Seq(S), c \in S : w = Append(v, c) /\ Len(v) + 1 = n
    <3>1. Len(w) # 0
      BY <2>2, <2>3
    <3>2. \E v \in Seq(S), c \in S : w = Append(v, c) /\ Len(v) + 1 = Len(w)
      BY <3>1, ShorterList
    <3> QED
      BY <2>2, <3>2
  <2>5. Len(v) \in Nat /\ Len(v) < n
    BY <2>4, EmptySequence
  <2>6. Len(v) \notin Bad
    BY <2>1, <2>5
  <2>7. SplitRead(v, separator) \in SplitType(S)
    BY <2>5, <2>6
  <2>8. SplitRead(w, separator) = Split(SplitRead(v, separator), c, separator)
    BY <2>4, SplitAppend
  <2> QED
    BY <2>2, <2>4, <2>7, <2>8, SplitTurn
<1>2. Len(s) \in Nat
  BY EmptySequence
<1> QED
  BY <1>1, <1>2

\* Nothing is lost between the separators, as long as no piece is empty: an empty
\* one in front has no separator behind it when it is joined.
NoneEmpty(pieces) == \A k \in 1..Len(pieces) : pieces[k] # <<>>

Rejoins(s, r, separator) ==
    NoneEmpty(r.pieces) =>
      IF r.pieces = <<>> THEN s = r.current
      ELSE /\ JoinedBy(r.pieces, separator) # <<>>
           /\ s = JoinedBy(r.pieces, separator) \o (separator \o r.current)

LEMMA JoinedByTyped ==
  ASSUME NEW S, NEW separator \in Seq(S), NEW t \in Seq(Seq(S))
  PROVE  JoinedBy(t, separator) \in Seq(S)
<1> DEFINE Bad == {n \in Nat : \E v \in Seq(Seq(S)) : Len(v) = n /\ JoinedBy(v, separator) \notin Seq(S)}
<1>1. Bad = {}
  <2> SUFFICES ASSUME Bad # {} PROVE FALSE
    OBVIOUS
  <2>1. PICK n \in Bad : \A m \in Bad : n <= m
    BY LeastOne
  <2>2. PICK w \in Seq(Seq(S)) : Len(w) = n /\ JoinedBy(w, separator) \notin Seq(S)
    BY <2>1
  <2>3. n # 0
    <3>1. <<>> \in Seq(S)
      OBVIOUS
    <3> QED
      BY <2>2, <3>1, JoinedByNothing, EmptySequence
  <2>4. PICK v \in Seq(Seq(S)), c \in Seq(S) : w = Append(v, c) /\ Len(v) + 1 = n
    <3>1. Len(w) # 0
      BY <2>2, <2>3
    <3>2. \E v \in Seq(Seq(S)), c \in Seq(S) : w = Append(v, c) /\ Len(v) + 1 = Len(w)
      BY <3>1, ShorterList
    <3> QED
      BY <2>2, <3>2
  <2>5. Len(v) \in Nat /\ Len(v) < n
    BY <2>4, EmptySequence
  <2>6. Len(v) \notin Bad
    BY <2>1, <2>5
  <2>7. JoinedBy(v, separator) \in Seq(S)
    BY <2>5, <2>6
  <2>8. JoinedBy(w, separator) = JoinBy(JoinedBy(v, separator), c, separator)
    BY <2>4, JoinedByAppend
  <2>9. JoinBy(JoinedBy(v, separator), c, separator) \in Seq(S)
    BY <2>7, ConcatProperties DEF JoinBy
  <2> QED
    BY <2>2, <2>8, <2>9
<1>2. Len(t) \in Nat
  BY EmptySequence
<1> QED
  BY <1>1, <1>2

LEMMA RejoinsNext ==
  ASSUME NEW S, NEW separator \in Seq(S), separator # <<>>, NEW s \in Seq(S), NEW c \in S,
         NEW r \in SplitType(S), Rejoins(s, r, separator)
  PROVE  Rejoins(Append(s, c), Split(r, c, separator), separator)
<1> DEFINE current == Longer(r, c)
           piece == PieceOf(current, separator)
           after == Split(r, c, separator)
           pieces == r.pieces
           J == JoinedBy(pieces, separator)
<1>1. r.current \in Seq(S) /\ pieces \in Seq(Seq(S))
  BY DEF SplitType
<1>2. /\ current \in Seq(S) /\ piece \in Seq(S)
      /\ EndsWith(current, separator) =>
           /\ current = piece \o separator
           /\ after = [pieces |-> Append(pieces, piece), current |-> <<>>]
      /\ ~ EndsWith(current, separator) =>
           after = [pieces |-> pieces, current |-> current]
  BY SplitTurn
<1>3. J \in Seq(S)
  BY <1>1, JoinedByTyped
<1> HIDE DEF current, piece, J, after
<1>4. ASSUME NoneEmpty(pieces)
      PROVE  IF pieces = <<>> THEN Append(s, c) = current
             ELSE J # <<>> /\ Append(s, c) = J \o (separator \o current)
  <2>1. CASE pieces = <<>>
    BY <1>4, <2>1 DEF Rejoins, current, Longer
  <2>2. CASE pieces # <<>>
    <3> DEFINE x == r.current
               y == separator \o x
    <3>1. J # <<>> /\ s = J \o y
      BY <1>4, <2>2 DEF Rejoins, J
    <3>2. x \in Seq(S) /\ y \in Seq(S)
      BY <1>1, ConcatProperties
    <3>3. \A u, z \in Seq(S) : u \o Append(z, c) = Append(u \o z, c)
      BY ConcatOne
    <3> HIDE DEF x
    <3>4. Append(y, c) = separator \o Append(x, c)
      BY <3>2, <3>3
    <3> HIDE DEF y
    <3>5. J \o Append(y, c) = Append(J \o y, c)
      BY <1>3, <3>2, <3>3
    <3> QED
      BY <2>2, <3>1, <3>4, <3>5 DEF current, Longer, x
  <2> QED
    BY <2>1, <2>2
<1>5. CASE ~ EndsWith(current, separator)
  <2>1. after.pieces = pieces /\ after.current = current
    BY <1>2, <1>5
  <2> QED
    BY <1>4, <2>1 DEF Rejoins, after, J
<1>6. CASE EndsWith(current, separator)
  <2>1. after.pieces = Append(pieces, piece) /\ after.current = <<>> /\ current = piece \o separator
    BY <1>2, <1>6
  <2> HIDE DEF pieces
  <2>2. /\ Len(pieces) \in Nat /\ Len(Append(pieces, piece)) = Len(pieces) + 1
        /\ \A k \in 1..Len(pieces) : Append(pieces, piece)[k] = pieces[k]
        /\ Append(pieces, piece)[Len(pieces) + 1] = piece
        /\ Append(pieces, piece) # <<>>
    BY <1>1, <1>2, Appended, EmptySequence
  <2>3. ASSUME NoneEmpty(after.pieces) PROVE NoneEmpty(pieces) /\ piece # <<>>
    <3>1. \A k \in 1..(Len(pieces) + 1) : Append(pieces, piece)[k] # <<>>
      BY <2>1, <2>2, <2>3 DEF NoneEmpty
    <3>2. Len(pieces) + 1 \in 1..(Len(pieces) + 1) /\ \A k \in 1..Len(pieces) : k \in 1..(Len(pieces) + 1)
      BY <2>2
    <3> QED
      BY <2>2, <3>1, <3>2 DEF NoneEmpty
  <2>4. JoinedBy(after.pieces, separator) = JoinBy(J, piece, separator)
    BY <1>1, <1>2, <2>1, JoinedByAppend DEF J
  <2>5. separator \o <<>> = separator
    BY ConcatEmptySeq
  <2>6. ASSUME NoneEmpty(after.pieces)
        PROVE  /\ JoinedBy(after.pieces, separator) # <<>>
               /\ Append(s, c) = JoinedBy(after.pieces, separator) \o (separator \o after.current)
    <3>1. CASE pieces = <<>>
      <4>1. J = <<>>
        BY <3>1, JoinedByNothing DEF J
      <4>2. JoinedBy(after.pieces, separator) = piece
        BY <2>4, <4>1 DEF JoinBy
      <4> QED
        BY <1>4, <2>1, <2>3, <2>5, <2>6, <3>1, <4>2
    <3>2. CASE pieces # <<>>
      <4>1. J # <<>> /\ Append(s, c) = J \o (separator \o (piece \o separator))
        BY <1>4, <2>1, <2>3, <2>6, <3>2
      <4>2. JoinedBy(after.pieces, separator) = J \o separator \o piece
        BY <2>4, <4>1 DEF JoinBy
      <4>3. separator \o piece \in Seq(S) /\ J \o separator \in Seq(S) /\ piece \o separator \in Seq(S)
        BY <1>2, <1>3, ConcatProperties
      <4>4. J \o separator \o piece = J \o (separator \o piece)
        BY <1>2, <1>3, ConcatAssociative, SMTT(30)
      <4>5. (J \o (separator \o piece)) \o separator = J \o ((separator \o piece) \o separator)
        BY <1>3, <4>3, ConcatAssociative, SMTT(30)
      <4>6. (separator \o piece) \o separator = separator \o (piece \o separator)
        BY <1>2, ConcatAssociative, SMTT(30)
      <4>7. Append(s, c) = JoinedBy(after.pieces, separator) \o (separator \o after.current)
        BY <2>1, <2>5, <4>1, <4>2, <4>4, <4>5, <4>6
      <4>8. J \o (separator \o piece) # <<>>
        BY <1>3, <4>1, <4>3, ConcatEqualIffEmpty
      <4> QED
        BY <4>2, <4>4, <4>7, <4>8
    <3> QED
      BY <3>1, <3>2
  <2>7. after.pieces # <<>>
    BY <2>1, <2>2
  <2> QED
    BY <2>6, <2>7 DEF Rejoins, after
<1> QED
  BY <1>5, <1>6

LEMMA AllRejoin ==
  ASSUME NEW S, NEW separator \in Seq(S), separator # <<>>, NEW s \in Seq(S)
  PROVE  Rejoins(s, SplitRead(s, separator), separator)
<1> DEFINE Bad == {n \in Nat : \E v \in Seq(S) : Len(v) = n /\ ~ Rejoins(v, SplitRead(v, separator), separator)}
<1>1. Bad = {}
  <2> SUFFICES ASSUME Bad # {} PROVE FALSE
    OBVIOUS
  <2>1. PICK n \in Bad : \A m \in Bad : n <= m
    BY LeastOne
  <2>2. PICK w \in Seq(S) : Len(w) = n /\ ~ Rejoins(w, SplitRead(w, separator), separator)
    BY <2>1
  <2>3. n # 0
    <3>1. Rejoins(<<>>, SplitStart, separator)
      BY DEF SplitStart, Rejoins
    <3> QED
      BY <2>2, <3>1, SplitNothing, EmptySequence
  <2>4. PICK v \in Seq(S), c \in S : w = Append(v, c) /\ Len(v) + 1 = n
    <3>1. Len(w) # 0
      BY <2>2, <2>3
    <3>2. \E v \in Seq(S), c \in S : w = Append(v, c) /\ Len(v) + 1 = Len(w)
      BY <3>1, ShorterList
    <3> QED
      BY <2>2, <3>2
  <2>5. Len(v) \in Nat /\ Len(v) < n
    BY <2>4, EmptySequence
  <2>6. Len(v) \notin Bad
    BY <2>1, <2>5
  <2>7. Rejoins(v, SplitRead(v, separator), separator) /\ SplitRead(v, separator) \in SplitType(S)
    BY <2>5, <2>6, SplitTyped
  <2>8. SplitRead(w, separator) = Split(SplitRead(v, separator), c, separator)
    BY <2>4, SplitAppend
  <2> QED
    BY <2>2, <2>4, <2>7, <2>8, RejoinsNext
<1>2. Len(s) \in Nat
  BY EmptySequence
<1> QED
  BY <1>1, <1>2

LEMMA SplitIs ==
  ASSUME NEW s, NEW separator
  PROVE  SplitAt(s, separator) = Append(SplitRead(s, separator).pieces, SplitRead(s, separator).current)
  BY DEF SplitAt, SplitRead, SplitStart

LEMMA SplitTypes ==
  ASSUME NEW S, NEW separator \in Seq(S), NEW s \in Seq(S)
  PROVE  SplitAt(s, separator) \in Seq(Seq(S)) /\ SplitAt(s, separator) # <<>>
<1>1. SplitRead(s, separator).pieces \in Seq(Seq(S)) /\ SplitRead(s, separator).current \in Seq(S)
  BY SplitTyped DEF SplitType
<1> QED
  BY <1>1, SplitIs, Appended

LEMMA SplitRejoins ==
  ASSUME NEW S, NEW separator \in Seq(S), separator # <<>>, NEW s \in Seq(S),
         NoneEmpty(SplitAt(s, separator))
  PROVE  JoinedBy(SplitAt(s, separator), separator) = s
<1> DEFINE pieces == SplitRead(s, separator).pieces
           current == SplitRead(s, separator).current
           J == JoinedBy(pieces, separator)
<1>1. pieces \in Seq(Seq(S)) /\ current \in Seq(S) /\ SplitAt(s, separator) = Append(pieces, current)
  BY SplitTyped, SplitIs DEF SplitType
<1>2. Rejoins(s, SplitRead(s, separator), separator)
  BY AllRejoin
<1> HIDE DEF pieces, current
<1>3. NoneEmpty(pieces)
  <2>1. /\ Len(pieces) \in Nat /\ Len(Append(pieces, current)) = Len(pieces) + 1
        /\ \A k \in 1..Len(pieces) : Append(pieces, current)[k] = pieces[k]
    BY <1>1, Appended, EmptySequence
  <2>2. \A k \in 1..Len(pieces) : k \in 1..(Len(pieces) + 1)
    BY <2>1
  <2> QED
    BY <1>1, <2>1, <2>2 DEF NoneEmpty
<1>4. IF pieces = <<>> THEN s = current ELSE J # <<>> /\ s = J \o (separator \o current)
  BY <1>2, <1>3 DEF Rejoins, pieces, current
<1>5. JoinedBy(SplitAt(s, separator), separator) = JoinBy(J, current, separator)
  BY <1>1, JoinedByAppend
<1>6. CASE pieces = <<>>
  BY <1>4, <1>5, <1>6, JoinedByNothing DEF JoinBy
<1>7. CASE pieces # <<>>
  <2>1. J \in Seq(S)
    BY <1>1, JoinedByTyped
  <2> HIDE DEF J
  <2>2. J \o separator \o current = J \o (separator \o current)
    BY <1>1, <2>1, ConcatAssociative, SMTT(30)
  <2> QED
    BY <1>4, <1>5, <1>7, <2>2 DEF JoinBy
<1> QED
  BY <1>6, <1>7

(***************************************************************************)
(* The case of letters: every character there is, and what the two cases   *)
(* make of it.                                                             *)
(***************************************************************************)
Sigma ==
    Characters \cup {"_"} \cup DOMAIN Upper \cup {Upper[c] : c \in DOMAIN Upper}
      \cup UNION {Range(s) : s \in PrefixSettings \cup Separators}

Up(c) == IF c \in DOMAIN Upper THEN Upper[c] ELSE c
Low(c) ==
    IF \E d \in DOMAIN Upper : Upper[d] = c THEN CHOOSE d \in DOMAIN Upper : Upper[d] = c ELSE c

LEMMA CaseOfOne ==
  ASSUME NEW c \in Sigma
  PROVE  /\ Up(c) \in Sigma /\ Low(c) \in Sigma
         /\ Up(Low(c)) = Up(c) /\ Low(Up(c)) = Low(c)
         /\ \A d \in {".", "[", "]", "*"} : Up(c) = d <=> c = d
<1>0. \A d \in DOMAIN Upper :
        /\ Upper[d] \notin DOMAIN Upper
        /\ \A e \in {".", "[", "]", "*"} : d # e /\ Upper[d] # e
        /\ \A e \in DOMAIN Upper : Upper[d] = Upper[e] => d = e
  BY NamesAssumption
<1>1. ASSUME NEW d \in DOMAIN Upper PROVE Low(Upper[d]) = d
  BY <1>0 DEF Low
<1>2. ASSUME NEW d \in DOMAIN Upper PROVE d \in Sigma /\ Upper[d] \in Sigma
  BY DEF Sigma
<1>3. CASE c \in DOMAIN Upper
  <2>1. Up(c) = Upper[c] /\ Low(c) = c
    BY <1>0, <1>3 DEF Up, Low
  <2> QED
    BY <1>0, <1>1, <1>2, <1>3, <2>1
<1>4. CASE c \notin DOMAIN Upper
  <2>1. Up(c) = c
    BY <1>4 DEF Up
  <2>2. CASE \E d \in DOMAIN Upper : Upper[d] = c
    <3>1. PICK d \in DOMAIN Upper : Upper[d] = c
      BY <2>2
    <3>2. Low(c) = d /\ Up(d) = c
      BY <1>1, <3>1 DEF Up
    <3> QED
      BY <1>2, <2>1, <3>2
  <2>3. CASE ~ \E d \in DOMAIN Upper : Upper[d] = c
    <3>1. Low(c) = c
      BY <2>3 DEF Low
    <3> QED
      BY <2>1, <3>1
  <2> QED
    BY <2>2, <2>3
<1> QED
  BY <1>3, <1>4

LEMMA CaseOfAll ==
  ASSUME NEW s \in Seq(Sigma)
  PROVE  /\ UpperCase(s) \in Seq(Sigma) /\ LowerCase(s) \in Seq(Sigma)
         /\ Len(UpperCase(s)) = Len(s) /\ Len(LowerCase(s)) = Len(s)
         /\ \A i \in 1..Len(s) : UpperCase(s)[i] = Up(s[i]) /\ LowerCase(s)[i] = Low(s[i])
<1> DEFINE n == Len(s)
<1>1. n \in Nat /\ DOMAIN s = 1..n /\ \A i \in 1..n : s[i] \in Sigma
  BY EmptySequence, ElementOfSeq
<1> HIDE DEF n
<1>2. UpperCase(s) = [i \in 1..n |-> Up(s[i])] /\ LowerCase(s) = [i \in 1..n |-> Low(s[i])]
  BY <1>1 DEF UpperCase, LowerCase, Up, Low
<1>3. \A i \in 1..n : Up(s[i]) \in Sigma /\ Low(s[i]) \in Sigma
  BY <1>1, CaseOfOne
<1>4. [i \in 1..n |-> Up(s[i])] \in Seq(Sigma) /\ Len([i \in 1..n |-> Up(s[i])]) = n
  BY <1>1, <1>3
<1>5. [i \in 1..n |-> Low(s[i])] \in Seq(Sigma) /\ Len([i \in 1..n |-> Low(s[i])]) = n
  BY <1>1, <1>3
<1> QED
  BY <1>2, <1>4, <1>5 DEF n

LEMMA CasesAgree ==
  ASSUME NEW s \in Seq(Sigma)
  PROVE  UpperCase(LowerCase(s)) = UpperCase(s) /\ LowerCase(UpperCase(s)) = LowerCase(s)
<1> DEFINE n == Len(s)
           u == UpperCase(s)
           v == LowerCase(s)
<1>1. /\ u \in Seq(Sigma) /\ v \in Seq(Sigma) /\ Len(u) = n /\ Len(v) = n
      /\ \A i \in 1..n : u[i] = Up(s[i]) /\ v[i] = Low(s[i]) /\ s[i] \in Sigma
  BY CaseOfAll, ElementOfSeq
<1> HIDE DEF n, u, v
<1>2. /\ UpperCase(v) \in Seq(Sigma) /\ Len(UpperCase(v)) = n
      /\ \A i \in 1..n : UpperCase(v)[i] = Up(v[i])
  BY <1>1, CaseOfAll
<1>3. /\ LowerCase(u) \in Seq(Sigma) /\ Len(LowerCase(u)) = n
      /\ \A i \in 1..n : LowerCase(u)[i] = Low(u[i])
  BY <1>1, CaseOfAll
<1>4. \A i \in 1..n : UpperCase(v)[i] = u[i] /\ LowerCase(u)[i] = v[i]
  BY <1>1, <1>2, <1>3, CaseOfOne
<1>5. UpperCase(v) = u
  BY <1>1, <1>2, <1>4, SeqEqual
<1>6. LowerCase(u) = v
  BY <1>1, <1>3, <1>4, SeqEqual
<1> QED
  BY <1>5, <1>6 DEF u, v

LEMMA ReservedInAnyCase ==
  ASSUME NEW s \in Seq(Sigma)
  PROVE  IsReserved(UpperCase(s)) <=> IsReserved(s)
<1> DEFINE u == UpperCase(s)
           n == Len(s)
<1>1. /\ u \in Seq(Sigma) /\ n \in Nat /\ DOMAIN s = 1..n /\ DOMAIN u = 1..n /\ Len(u) = n
      /\ \A i \in 1..n : u[i] = Up(s[i]) /\ s[i] \in Sigma
  BY CaseOfAll, ElementOfSeq, EmptySequence
<1> HIDE DEF u
<1>2. \A i \in 1..n : \A d \in {".", "[", "]", "*"} : u[i] = d <=> s[i] = d
  BY <1>1, CaseOfOne
<1>3. Range(s) \cap {".", "[", "]"} # {} <=> \E i \in 1..n : s[i] \in {".", "[", "]"}
  BY <1>1 DEF Range
<1>4. Range(u) \cap {".", "[", "]"} # {} <=> \E i \in 1..n : u[i] \in {".", "[", "]"}
  BY <1>1 DEF Range
<1>5. ASSUME NEW t \in Seq(Sigma) PROVE t = <<"*">> <=> Len(t) = 1 /\ t[1] = "*"
  <2>1. "*" \in Sigma
    BY DEF Sigma, Characters
  <2>2. <<"*">> \in Seq(Sigma) /\ Len(<<"*">>) = 1 /\ <<"*">>[1] = "*"
    BY <2>1
  <2> QED
    BY <2>2, SeqEqual
<1>6. u = <<"*">> <=> s = <<"*">>
  <2>1. n = 1 => 1 \in 1..n
    OBVIOUS
  <2> QED
    BY <1>1, <1>2, <1>5, <2>1
<1> QED
  BY <1>2, <1>3, <1>4, <1>6 DEF IsReserved, u

LEMMA UpAppended ==
  ASSUME NEW s \in Seq(Sigma), NEW c \in Sigma
  PROVE  UpperCase(Append(s, c)) = Append(UpperCase(s), Up(c))
<1> DEFINE n == Len(s)
           v == Append(s, c)
           u == UpperCase(s)
<1>1. n \in Nat /\ u \in Seq(Sigma) /\ Len(u) = n /\ \A i \in 1..n : u[i] = Up(s[i])
  BY CaseOfAll, EmptySequence
<1>2. v \in Seq(Sigma) /\ Len(v) = n + 1 /\ v[n + 1] = c /\ \A i \in 1..n : v[i] = s[i]
  BY Appended
<1>3. Up(c) \in Sigma
  BY CaseOfOne
<1> HIDE DEF n, v, u
<1>4. /\ UpperCase(v) \in Seq(Sigma) /\ Len(UpperCase(v)) = n + 1
      /\ \A i \in 1..(n + 1) : UpperCase(v)[i] = Up(v[i])
  BY <1>2, CaseOfAll
<1>5. /\ Append(u, Up(c)) \in Seq(Sigma) /\ Len(Append(u, Up(c))) = n + 1
      /\ Append(u, Up(c))[n + 1] = Up(c) /\ \A i \in 1..n : Append(u, Up(c))[i] = u[i]
  BY <1>1, <1>3, Appended
<1>6. ASSUME NEW i \in 1..(n + 1) PROVE UpperCase(v)[i] = Append(u, Up(c))[i]
  <2>1. i = n + 1 \/ i \in 1..n
    BY <1>1
  <2> QED
    BY <1>1, <1>2, <1>4, <1>5, <2>1
<1>7. UpperCase(v) = Append(u, Up(c))
  BY <1>4, <1>5, <1>6, SeqEqual
<1> QED
  BY <1>7 DEF v, u

LEMMA UpConcat ==
  ASSUME NEW s \in Seq(Sigma), NEW t \in Seq(Sigma)
  PROVE  UpperCase(s \o t) = UpperCase(s) \o UpperCase(t)
<1> DEFINE n == Len(s)
           m == Len(t)
           v == s \o t
           us == UpperCase(s)
           ut == UpperCase(t)
           w == us \o ut
<1>1. /\ n \in Nat /\ us \in Seq(Sigma) /\ Len(us) = n /\ \A i \in 1..n : us[i] = Up(s[i])
      /\ m \in Nat /\ ut \in Seq(Sigma) /\ Len(ut) = m /\ \A i \in 1..m : ut[i] = Up(t[i])
  BY CaseOfAll, EmptySequence
<1>2. /\ v \in Seq(Sigma) /\ Len(v) = n + m
      /\ \A i \in 1..(n + m) : v[i] = IF i <= n THEN s[i] ELSE t[i - n]
  BY ConcatProperties
<1> HIDE DEF n, m, v, us, ut
<1>3. /\ w \in Seq(Sigma) /\ Len(w) = n + m
      /\ \A i \in 1..(n + m) : w[i] = IF i <= n THEN us[i] ELSE ut[i - n]
  BY <1>1, ConcatProperties
<1>4. /\ UpperCase(v) \in Seq(Sigma) /\ Len(UpperCase(v)) = n + m
      /\ \A i \in 1..(n + m) : UpperCase(v)[i] = Up(v[i])
  BY <1>2, CaseOfAll
<1> HIDE DEF w
<1>5. ASSUME NEW i \in 1..(n + m) PROVE UpperCase(v)[i] = w[i]
  <2>1. CASE i <= n
    <3>1. i \in 1..n
      BY <1>1, <2>1
    <3> QED
      BY <1>1, <1>2, <1>3, <1>4, <2>1, <3>1
  <2>2. CASE ~ (i <= n)
    <3>1. i - n \in 1..m
      BY <1>1, <2>2
    <3> QED
      BY <1>1, <1>2, <1>3, <1>4, <2>2, <3>1
  <2> QED
    BY <2>1, <2>2
<1>6. UpperCase(v) = w
  BY <1>3, <1>4, <1>5, SeqEqual
<1> QED
  BY <1>6 DEF v, w, us, ut

LEMMA UpBegun ==
  ASSUME NEW s \in Seq(Sigma), NEW m \in Int, m <= Len(s)
  PROVE  UpperCase(SubSeq(s, 1, m)) = SubSeq(UpperCase(s), 1, m)
<1> DEFINE n == Len(s)
           u == UpperCase(s)
           v == SubSeq(s, 1, m)
           w == SubSeq(u, 1, m)
           l == IF 1 <= m THEN m ELSE 0
<1>1. n \in Nat /\ u \in Seq(Sigma) /\ Len(u) = n /\ \A i \in 1..n : u[i] = Up(s[i])
  BY CaseOfAll, EmptySequence
<1>2. m <= n /\ \A i \in 1..m : i \in 1..n
  BY <1>1
<1>3. \A i \in 1..m : s[i] \in Sigma
  BY <1>2, ElementOfSeq
<1> HIDE DEF n, u
<1>4. \A i \in 1..m : u[i] \in Sigma
  BY <1>1, <1>2, ElementOfSeq
<1>5. m - 1 + 1 = m /\ \A i \in 1..m : 1 + i - 1 = i
  OBVIOUS
<1>6. v \in Seq(Sigma) /\ Len(v) = l /\ \A i \in 1..m : v[i] = s[i]
  BY <1>3, <1>5, SubSeqProperties
<1>7. w \in Seq(Sigma) /\ Len(w) = l /\ \A i \in 1..m : w[i] = u[i]
  BY <1>4, <1>5, SubSeqProperties
<1>8. \A i \in 1..l : i \in 1..m
  OBVIOUS
<1> HIDE DEF v, w, l
<1>9. UpperCase(v) \in Seq(Sigma) /\ Len(UpperCase(v)) = l /\ \A i \in 1..l : UpperCase(v)[i] = Up(v[i])
  BY <1>6, CaseOfAll
<1>10. \A i \in 1..l : UpperCase(v)[i] = w[i]
  BY <1>1, <1>2, <1>6, <1>7, <1>8, <1>9
<1>11. UpperCase(v) = w
  BY <1>7, <1>9, <1>10, SeqEqual
<1> QED
  BY <1>11 DEF v, w, u

\* A list of words in upper case.
UpAll(t) == [k \in DOMAIN t |-> UpperCase(t[k])]

LEMMA UpAllTyped ==
  ASSUME NEW t \in Seq(Seq(Sigma))
  PROVE  /\ UpAll(t) \in Seq(Seq(Sigma)) /\ Len(UpAll(t)) = Len(t)
         /\ \A k \in 1..Len(t) : UpAll(t)[k] = UpperCase(t[k])
<1> DEFINE n == Len(t)
<1>1. n \in Nat /\ DOMAIN t = 1..n /\ \A k \in 1..n : t[k] \in Seq(Sigma)
  BY EmptySequence, ElementOfSeq
<1> HIDE DEF n
<1>2. UpAll(t) = [k \in 1..n |-> UpperCase(t[k])]
  BY <1>1 DEF UpAll
<1>3. \A k \in 1..n : UpperCase(t[k]) \in Seq(Sigma)
  BY <1>1, CaseOfAll
<1> QED
  BY <1>1, <1>2, <1>3 DEF n

LEMMA UpAllAppended ==
  ASSUME NEW t \in Seq(Seq(Sigma)), NEW s \in Seq(Sigma)
  PROVE  UpAll(Append(t, s)) = Append(UpAll(t), UpperCase(s))
<1> DEFINE n == Len(t)
           v == Append(t, s)
           u == UpAll(t)
           us == UpperCase(s)
<1>1. n \in Nat /\ u \in Seq(Seq(Sigma)) /\ Len(u) = n /\ \A k \in 1..n : u[k] = UpperCase(t[k])
  BY UpAllTyped, EmptySequence
<1>2. v \in Seq(Seq(Sigma)) /\ Len(v) = n + 1 /\ v[n + 1] = s /\ \A k \in 1..n : v[k] = t[k]
  BY Appended
<1>3. us \in Seq(Sigma)
  BY CaseOfAll
<1> HIDE DEF n, v, u
<1>4. /\ UpAll(v) \in Seq(Seq(Sigma)) /\ Len(UpAll(v)) = n + 1
      /\ \A k \in 1..(n + 1) : UpAll(v)[k] = UpperCase(v[k])
  BY <1>2, UpAllTyped
<1> HIDE DEF us
<1>5. /\ Append(u, us) \in Seq(Seq(Sigma)) /\ Len(Append(u, us)) = n + 1
      /\ Append(u, us)[n + 1] = us /\ \A k \in 1..n : Append(u, us)[k] = u[k]
  BY <1>1, <1>3, Appended
<1>6. ASSUME NEW k \in 1..(n + 1) PROVE UpAll(v)[k] = Append(u, us)[k]
  <2>1. k = n + 1 \/ k \in 1..n
    BY <1>1
  <2> QED
    BY <1>1, <1>2, <1>4, <1>5, <2>1 DEF us
<1>7. UpAll(v) = Append(u, us)
  BY <1>4, <1>5, <1>6, SeqEqual
<1> QED
  BY <1>7 DEF v, u, us

\* A separator without letters is found in either case.
Caseless(separator) ==
    /\ separator \in Seq(Sigma) /\ separator # <<>>
    /\ \A i \in 1..Len(separator) : \A c \in Sigma : Up(c) = separator[i] <=> c = separator[i]

LEMMA EndsInAnyCase ==
  ASSUME NEW separator, Caseless(separator), NEW s \in Seq(Sigma)
  PROVE  EndsWith(UpperCase(s), separator) <=> EndsWith(s, separator)
<1> DEFINE n == Len(s)
           l == Len(separator)
           u == UpperCase(s)
<1>1. /\ u \in Seq(Sigma) /\ Len(u) = n /\ n \in Nat /\ l \in Nat
      /\ \A i \in 1..n : u[i] = Up(s[i]) /\ s[i] \in Sigma
  BY CaseOfAll, ElementOfSeq, EmptySequence DEF Caseless
<1>2. \A i \in 1..l : \A c \in Sigma : Up(c) = separator[i] <=> c = separator[i]
  BY DEF Caseless
<1> HIDE DEF n, l, u
<1>3. ASSUME l <= n, NEW i \in 1..l PROVE u[n - l + i] = separator[i] <=> s[n - l + i] = separator[i]
  <2>1. n - l + i \in 1..n
    BY <1>1, <1>3
  <2> QED
    BY <1>1, <1>2, <2>1
<1> QED
  BY <1>1, <1>3 DEF EndsWith, n, l, u

LEMMA CaselessIsUpper ==
  ASSUME NEW separator, Caseless(separator)
  PROVE  UpperCase(separator) = separator
<1>1. separator \in Seq(Sigma) /\ \A i \in 1..Len(separator) : separator[i] \in Sigma /\ Up(separator[i]) = separator[i]
  BY ElementOfSeq DEF Caseless
<1> QED
  BY <1>1, CaseOfAll, SeqEqual

\* The loop of str::split does the same in either case.
UpRead(r) == [pieces |-> UpAll(r.pieces), current |-> UpperCase(r.current)]

LEMMA SplitUpTurn ==
  ASSUME NEW separator, Caseless(separator), NEW r \in SplitType(Sigma), NEW c \in Sigma
  PROVE  Split(UpRead(r), Up(c), separator) = UpRead(Split(r, c, separator))
<1> DEFINE l == Len(separator)
           current == Longer(r, c)
           piece == PieceOf(current, separator)
           ucurrent == Longer(UpRead(r), Up(c))
           upiece == PieceOf(ucurrent, separator)
           R == Split(r, c, separator)
           U == Split(UpRead(r), Up(c), separator)
<1>1. /\ separator \in Seq(Sigma) /\ l \in Nat /\ Up(c) \in Sigma
      /\ r.current \in Seq(Sigma) /\ r.pieces \in Seq(Seq(Sigma))
  BY CaseOfOne, EmptySequence DEF Caseless, SplitType
<1>2. UpRead(r) \in SplitType(Sigma) /\ UpRead(r).current = UpperCase(r.current)
      /\ UpRead(r).pieces = UpAll(r.pieces)
  BY <1>1, UpAllTyped, CaseOfAll DEF UpRead, SplitType
<1>3. /\ current \in Seq(Sigma) /\ piece \in Seq(Sigma)
      /\ EndsWith(current, separator) =>
           R = [pieces |-> Append(r.pieces, piece), current |-> <<>>]
      /\ ~ EndsWith(current, separator) =>
           R = [pieces |-> r.pieces, current |-> current]
  BY <1>1, SplitTurn
<1>4. /\ ucurrent \in Seq(Sigma) /\ upiece \in Seq(Sigma)
      /\ EndsWith(ucurrent, separator) =>
           U = [pieces |-> Append(UpRead(r).pieces, upiece), current |-> <<>>]
      /\ ~ EndsWith(ucurrent, separator) =>
           U = [pieces |-> UpRead(r).pieces, current |-> ucurrent]
  BY <1>1, <1>2, SplitTurn, ZenonT(30)
<1>5. ucurrent = UpperCase(current)
  BY <1>1, <1>2, UpAppended DEF Longer
<1> HIDE DEF current, ucurrent, R, U
<1>6. Len(ucurrent) = Len(current) /\ Len(current) \in Nat
  BY <1>3, <1>5, CaseOfAll, EmptySequence
<1>7. upiece = UpperCase(piece)
  <2>1. Len(current) - l \in Int /\ Len(current) - l <= Len(current)
    BY <1>1, <1>6
  <2>2. UpperCase(SubSeq(current, 1, Len(current) - l)) = SubSeq(UpperCase(current), 1, Len(current) - l)
    <3> HIDE DEF l
    <3> QED
      BY <1>3, <2>1, UpBegun
  <2> QED
    BY <1>5, <1>6, <2>2 DEF PieceOf
<1> HIDE DEF piece, upiece
<1>8. EndsWith(ucurrent, separator) <=> EndsWith(current, separator)
  BY <1>3, <1>5, EndsInAnyCase
<1>9. CASE EndsWith(current, separator)
  <2>1. U = [pieces |-> Append(UpAll(r.pieces), UpperCase(piece)), current |-> <<>>]
    BY <1>2, <1>4, <1>7, <1>8, <1>9
  <2>2. R.pieces = Append(r.pieces, piece) /\ R.current = <<>>
    BY <1>3, <1>9
  <2>3. UpAll(R.pieces) = Append(UpAll(r.pieces), UpperCase(piece))
    BY <1>1, <1>3, <2>2, UpAllAppended
  <2>4. UpperCase(<<>>) = <<>>
    BY DEF UpperCase
  <2> QED
    BY <2>1, <2>2, <2>3, <2>4 DEF UpRead, R, U
<1>10. CASE ~ EndsWith(current, separator)
  <2>1. U = [pieces |-> UpAll(r.pieces), current |-> UpperCase(current)]
    BY <1>2, <1>4, <1>5, <1>8, <1>10
  <2>2. R.pieces = r.pieces /\ R.current = current
    BY <1>3, <1>10
  <2> QED
    BY <2>1, <2>2 DEF UpRead, R, U
<1> QED
  BY <1>9, <1>10

LEMMA SplitUp ==
  ASSUME NEW separator, Caseless(separator), NEW s \in Seq(Sigma)
  PROVE  SplitRead(UpperCase(s), separator) = UpRead(SplitRead(s, separator))
<1> DEFINE Same(v) == SplitRead(UpperCase(v), separator) = UpRead(SplitRead(v, separator))
           Bad == {n \in Nat : \E v \in Seq(Sigma) : Len(v) = n /\ ~ Same(v)}
<1>0. separator \in Seq(Sigma)
  BY DEF Caseless
<1>1. Bad = {}
  <2> SUFFICES ASSUME Bad # {} PROVE FALSE
    OBVIOUS
  <2>1. PICK n \in Bad : \A m \in Bad : n <= m
    BY LeastOne
  <2>2. PICK w \in Seq(Sigma) : Len(w) = n /\ ~ Same(w)
    BY <2>1
  <2>3. n # 0
    <3>1. UpperCase(<<>>) = <<>> /\ UpRead(SplitStart) = SplitStart
      BY DEF UpperCase, UpRead, UpAll, SplitStart
    <3> QED
      BY <2>2, <3>1, SplitNothing, EmptySequence
  <2>4. PICK v \in Seq(Sigma), c \in Sigma : w = Append(v, c) /\ Len(v) + 1 = n
    <3>1. Len(w) # 0
      BY <2>2, <2>3
    <3>2. \E v \in Seq(Sigma), c \in Sigma : w = Append(v, c) /\ Len(v) + 1 = Len(w)
      BY <3>1, ShorterList
    <3> QED
      BY <2>2, <3>2
  <2>5. Len(v) \in Nat /\ Len(v) < n
    BY <2>4, EmptySequence
  <2>6. Len(v) \notin Bad
    BY <2>1, <2>5
  <2>7. SplitRead(UpperCase(v), separator) = UpRead(SplitRead(v, separator))
    BY <2>5, <2>6
  <2>8. SplitRead(w, separator) = Split(SplitRead(v, separator), c, separator)
    BY <2>4, SplitAppend
  <2>9. UpperCase(w) = Append(UpperCase(v), Up(c)) /\ UpperCase(v) \in Seq(Sigma) /\ Up(c) \in Sigma
    <3>1. UpperCase(Append(v, c)) = Append(UpperCase(v), Up(c))
      BY UpAppended
    <3>2. UpperCase(v) \in Seq(Sigma) /\ Up(c) \in Sigma
      BY CaseOfAll, CaseOfOne
    <3> QED
      BY <2>4, <3>1, <3>2
  <2>10. SplitRead(UpperCase(w), separator) = Split(SplitRead(UpperCase(v), separator), Up(c), separator)
    BY <2>9, SplitAppend
  <2>11. SplitRead(v, separator) \in SplitType(Sigma)
    BY <1>0, SplitTyped
  <2>12. Same(w)
    BY <2>7, <2>8, <2>10, <2>11, SplitUpTurn
  <2> QED
    BY <2>2, <2>12
<1>2. Len(s) \in Nat
  BY EmptySequence
<1>3. Same(s)
  BY <1>1, <1>2
<1> QED
  BY <1>3

LEMMA SplitInUpperCase ==
  ASSUME NEW separator, Caseless(separator), NEW s \in Seq(Sigma)
  PROVE  SplitAt(UpperCase(s), separator) = UpAll(SplitAt(s, separator))
<1> DEFINE r == SplitRead(s, separator)
<1>1. r \in SplitType(Sigma)
  BY SplitTyped DEF Caseless
<1>2. r.pieces \in Seq(Seq(Sigma)) /\ r.current \in Seq(Sigma)
  BY <1>1 DEF SplitType
<1>3. SplitAt(s, separator) = Append(r.pieces, r.current)
  BY SplitIs
<1>4. SplitAt(UpperCase(s), separator) = Append(UpAll(r.pieces), UpperCase(r.current))
  BY SplitIs, SplitUp DEF UpRead
<1> HIDE DEF r
<1> QED
  BY <1>2, <1>3, <1>4, UpAllAppended

LEMMA JoinedInUpperCase ==
  ASSUME NEW separator, Caseless(separator), NEW t \in Seq(Seq(Sigma))
  PROVE  JoinedBy(UpAll(t), separator) = UpperCase(JoinedBy(t, separator))
<1> DEFINE Same(v) == JoinedBy(UpAll(v), separator) = UpperCase(JoinedBy(v, separator))
           Bad == {n \in Nat : \E v \in Seq(Seq(Sigma)) : Len(v) = n /\ ~ Same(v)}
<1>0. separator \in Seq(Sigma) /\ UpperCase(separator) = separator
  BY CaselessIsUpper DEF Caseless
<1>1. Bad = {}
  <2> SUFFICES ASSUME Bad # {} PROVE FALSE
    OBVIOUS
  <2>1. PICK n \in Bad : \A m \in Bad : n <= m
    BY LeastOne
  <2>2. PICK w \in Seq(Seq(Sigma)) : Len(w) = n /\ ~ Same(w)
    BY <2>1
  <2>3. n # 0
    <3>1. UpperCase(<<>>) = <<>> /\ UpAll(<<>>) = <<>>
      BY DEF UpperCase, UpAll
    <3>2. w = <<>> => Same(w)
      BY <3>1, JoinedByNothing
    <3> QED
      BY <2>2, <3>2, EmptySequence
  <2>4. PICK v \in Seq(Seq(Sigma)), c \in Seq(Sigma) : w = Append(v, c) /\ Len(v) + 1 = n
    <3>1. Len(w) # 0
      BY <2>2, <2>3
    <3>2. \E v \in Seq(Seq(Sigma)), c \in Seq(Sigma) : w = Append(v, c) /\ Len(v) + 1 = Len(w)
      BY <3>1, ShorterList
    <3> QED
      BY <2>2, <3>2
  <2>5. Len(v) \in Nat /\ Len(v) < n
    BY <2>4, EmptySequence
  <2>6. Len(v) \notin Bad
    BY <2>1, <2>5
  <2> DEFINE J == JoinedBy(v, separator)
  <2>7. JoinedBy(UpAll(v), separator) = UpperCase(J) /\ J \in Seq(Sigma)
    BY <1>0, <2>5, <2>6, JoinedByTyped
  <2>8. JoinedBy(w, separator) = JoinBy(J, c, separator)
    BY <2>4, JoinedByAppend
  <2>9. /\ UpAll(w) = Append(UpAll(v), UpperCase(c)) /\ UpAll(v) \in Seq(Seq(Sigma))
        /\ UpperCase(c) \in Seq(Sigma)
    BY <2>4, UpAllAppended, UpAllTyped, CaseOfAll
  <2>10. JoinedBy(UpAll(w), separator) = JoinBy(UpperCase(J), UpperCase(c), separator)
    BY <2>7, <2>9, JoinedByAppend
  <2> HIDE DEF J
  <2>11. UpperCase(JoinBy(J, c, separator)) = JoinBy(UpperCase(J), UpperCase(c), separator)
    <3>1. CASE J = <<>>
      <4>1. UpperCase(<<>>) = <<>>
        BY DEF UpperCase
      <4> QED
        BY <3>1, <4>1 DEF JoinBy
    <3>2. CASE J # <<>>
      <4>1. UpperCase(J) # <<>>
        BY <2>7, <3>2, CaseOfAll, EmptySequence
      <4>2. J \o separator \in Seq(Sigma)
        BY <1>0, <2>7, ConcatProperties
      <4>3. UpperCase((J \o separator) \o c) = UpperCase(J \o separator) \o UpperCase(c)
        BY <4>2, UpConcat
      <4>4. UpperCase(J \o separator) = UpperCase(J) \o separator
        BY <1>0, <2>7, UpConcat
      <4> QED
        BY <3>2, <4>1, <4>3, <4>4 DEF JoinBy
    <3> QED
      BY <3>1, <3>2
  <2>12. Same(w)
    BY <2>8, <2>10, <2>11
  <2> QED
    BY <2>2, <2>12
<1>2. Len(t) \in Nat
  BY EmptySequence
<1>3. Same(t)
  BY <1>1, <1>2
<1> QED
  BY <1>3

LEMMA BeyondStart ==
  ASSUME NEW S, NEW u \in Seq(S), NEW v \in Seq(S)
  PROVE  IsPrefix(u, u \o v) /\ Beyond(u, u \o v) = v
<1> DEFINE n == Len(u)
           m == Len(v)
           w == u \o v
<1>1. n \in Nat /\ m \in Nat
  BY EmptySequence
<1>2. w \in Seq(S) /\ Len(w) = n + m /\ \A i \in 1..(n + m) : w[i] = IF i <= n THEN u[i] ELSE v[i - n]
  BY ConcatProperties
<1>3. \A i \in 1..n : u[i] \in S
  BY ElementOfSeq
<1> HIDE DEF n, m, w
<1>4. \A i \in 1..n : i \in 1..(n + m) /\ i <= n
  BY <1>1
<1>5. \A i \in (n + 1)..(n + m) : w[i] \in S
  BY <1>1, <1>2, ElementOfSeq
<1>6. SubSeq(u, 1, n) = SubSeq(w, 1, n)
  <2>1. \A i \in 1..n : w[i] = u[i] /\ w[i] \in S
    BY <1>2, <1>3, <1>4
  <2>2. n - 1 + 1 = n /\ \A i \in 1..n : 1 + i - 1 = i
    BY <1>1
  <2> DEFINE a == SubSeq(u, 1, n)
             b == SubSeq(w, 1, n)
             l == IF 1 <= n THEN n ELSE 0
  <2>3. a \in Seq(S) /\ Len(a) = l /\ \A i \in 1..n : a[i] = u[i]
    BY <1>1, <1>3, <2>2, SubSeqProperties
  <2>4. b \in Seq(S) /\ Len(b) = l /\ \A i \in 1..n : b[i] = w[i]
    BY <1>1, <2>1, <2>2, SubSeqProperties
  <2>5. \A i \in 1..l : i \in 1..n
    BY <1>1
  <2> HIDE DEF a, b, l
  <2>6. a = b
    BY <2>1, <2>3, <2>4, <2>5, SeqEqual
  <2> QED
    BY <2>6 DEF a, b
<1>7. IsPrefix(u, w)
  BY <1>1, <1>2, <1>6 DEF IsPrefix, n
<1>8. Beyond(u, w) = v
  <2> DEFINE b == SubSeq(w, n + 1, n + m)
  <2>1. b \in Seq(S) /\ Len(b) = (IF n + 1 <= n + m THEN (n + m) - (n + 1) + 1 ELSE 0)
        /\ \A i \in 1..((n + m) - (n + 1) + 1) : b[i] = w[(n + 1) + i - 1]
    BY <1>1, <1>5, SubSeqProperties
  <2> HIDE DEF b
  <2>2. Len(b) = m /\ (n + m) - (n + 1) + 1 = m
    BY <1>1, <2>1
  <2>3. \A i \in 1..m : (n + 1) + i - 1 \in 1..(n + m) /\ ~ ((n + 1) + i - 1 <= n) /\ ((n + 1) + i - 1) - n = i
    BY <1>1
  <2>4. \A i \in 1..m : b[i] = v[i]
    BY <1>2, <2>1, <2>2, <2>3
  <2>5. b = v
    BY <2>1, <2>2, <2>4, SeqEqual DEF m
  <2> QED
    BY <1>2, <2>5 DEF Beyond, n, b
<1> QED
  BY <1>7, <1>8 DEF w

LEMMA BeyondTyped ==
  ASSUME NEW S, NEW u \in Seq(S), NEW w \in Seq(S)
  PROVE  Beyond(u, w) \in Seq(S)
<1>1. Len(u) + 1 \in Nat /\ Len(u) + 1 >= 1 /\ Len(w) \in Nat
  BY EmptySequence
<1>2. \A i \in (Len(u) + 1)..Len(w) : w[i] \in S
  BY <1>1, ElementOfSeq
<1> QED
  BY <1>1, <1>2, SubSeqProperties DEF Beyond

\* What is cut from a prefix is cut from its end.
LEMMA TrimmedTyped ==
  ASSUME NEW S, NEW prefix \in Seq(S), NEW separator \in Seq(S), separator # <<>>
  PROVE  Trimmed(prefix, separator) \in Seq(S)
<1> DEFINE l == Len(separator)
           n == Len(prefix)
           Cut(i) == SubSeq(prefix, 1, n - i * l)
           IsCut(i) == /\ i * l <= n
                       /\ \A k \in 0..(i - 1) : IsSuffix(separator, Cut(k))
           B == {i \in 0..n : ~ IsCut(i + 1)}
           c == CHOOSE i \in 0..n : IsCut(i) /\ ~ IsCut(i + 1)
<1>1. n \in Nat /\ l \in Nat /\ l >= 1
  BY EmptySequence
<1>2. Trimmed(prefix, separator) = Cut(c)
  BY DEF Trimmed
<1>3. n \in B
  <2>1. (n + 1) * l >= n + 1
    BY <1>1
  <2>2. ~ ((n + 1) * l <= n)
    <3> DEFINE q == (n + 1) * l
    <3>1. q \in Nat
      BY <1>1
    <3> HIDE DEF q
    <3>2. q >= n + 1
      BY <2>1 DEF q
    <3> QED
      BY <1>1, <3>1, <3>2 DEF q
  <2> QED
    BY <1>1, <2>2
<1>4. IsCut(0)
  <2>1. 0 * l = 0 /\ 0..(0 - 1) = {}
    BY <1>1
  <2> QED
    BY <1>1, <2>1
<1> HIDE DEF IsCut
<1>5. PICK m \in B : \A k \in B : m <= k
  <2>1. B \in SUBSET Nat
    BY <1>1
  <2> QED
    BY <1>3, <2>1, LeastOne
<1>6. m \in 0..n /\ ~ IsCut(m + 1) /\ m \in Nat
  BY <1>1, <1>5
<1>7. IsCut(m)
  <2>1. CASE m = 0
    BY <1>4, <2>1
  <2>2. CASE m # 0
    <3>1. PICK k \in 0..n : k + 1 = m /\ ~ (m <= k)
      <4>1. m - 1 \in 0..n /\ (m - 1) + 1 = m /\ ~ (m <= m - 1)
        BY <1>1, <1>6, <2>2
      <4> QED
        BY <4>1
    <3>2. k \notin B
      <4> HIDE DEF B
      <4> QED
        BY <1>5, <3>1
    <3>3. IsCut(k + 1)
      BY <3>2
    <3> QED
      BY <3>1, <3>3
  <2> QED
    BY <2>1, <2>2
<1>8. c \in 0..n /\ IsCut(c)
  BY <1>6, <1>7
<1> HIDE DEF c
<1>9. c * l \in Nat /\ c * l <= n
  BY <1>1, <1>8 DEF IsCut
<1> DEFINE q == c * l
<1> HIDE DEF q
<1>10. n - q \in Int /\ \A i \in 1..(n - q) : i \in 1..n
  BY <1>1, <1>9 DEF q
<1>11. \A i \in 1..(n - q) : prefix[i] \in S
  BY <1>10, ElementOfSeq
<1>12. SubSeq(prefix, 1, n - q) \in Seq(S)
  BY <1>10, <1>11, SubSeqProperties
<1> QED
  BY <1>2, <1>12 DEF q

LEMMA OptionsTyped ==
  ASSUME NEW o \in Options
  PROVE  /\ o.prefix \in Seq(Sigma) /\ o.separator \in Seq(Sigma) /\ o.separator # <<>>
         /\ NormalizedPrefix(o.prefix, o.separator) \in Seq(Sigma)
<1>1. o.prefix \in PrefixSettings /\ o.separator \in Separators
  BY DEF Options
<1>2. ASSUME NEW s \in PrefixSettings \cup Separators PROVE s \in Seq(Sigma)
  <2>1. s \in Seq(Range(s))
    BY NamesAssumption
  <2>2. Range(s) \subseteq Sigma
    BY DEF Sigma
  <2> QED
    BY <2>1, <2>2, SeqMonotonic
<1>3. o.prefix \in Seq(Sigma) /\ o.separator \in Seq(Sigma) /\ o.separator # <<>>
  BY <1>1, <1>2, NamesAssumption
<1>4. <<"_">> \in Seq(Sigma) /\ <<"_">> # <<>>
  <2>1. "_" \in Sigma
    BY DEF Sigma
  <2>2. <<>> \in Seq(Sigma) /\ Append(<<>>, "_") = <<"_">>
    OBVIOUS
  <2> QED
    BY <2>1, <2>2, Appended
<1>5. Trimmed(o.prefix, o.separator) \in Seq(Sigma)
  BY <1>3, TrimmedTyped
<1>6. Trimmed(Trimmed(o.prefix, o.separator), <<"_">>) \in Seq(Sigma)
  BY <1>4, <1>5, TrimmedTyped
<1> QED
  BY <1>3, <1>5, <1>6 DEF NormalizedPrefix

\* What a name is about is what was written behind the prefix,
LEMMA OwnOfName ==
  ASSUME NEW o \in Options, NEW body \in Seq(Sigma), body # <<>>,
         NEW prefix, prefix = NormalizedPrefix(o.prefix, o.separator)
  PROVE  OwnPart(IF prefix = <<>> THEN prefix \o body ELSE prefix \o o.separator \o body, o) = body
<1> DEFINE sep == o.separator
           rest == sep \o body
<1>1. sep \in Seq(Sigma) /\ sep # <<>> /\ prefix \in Seq(Sigma)
  BY OptionsTyped
<1>2. CASE prefix = <<>>
  <2>1. <<>> \o body = body
    BY ConcatEmptySeq
  <2>2. OwnPart(body, o) = body
    BY <1>2 DEF OwnPart
  <2> QED
    BY <1>2, <2>1, <2>2
<1>3. CASE prefix # <<>>
  <2>1. prefix \o sep \o body = prefix \o rest
    <3> HIDE DEF sep
    <3>1. (prefix \o sep) \o body = prefix \o (sep \o body)
      BY <1>1, ConcatAssociative
    <3> QED
      BY <3>1
  <2>2. rest \in Seq(Sigma)
    BY <1>1, ConcatProperties
  <2>3. IsPrefix(sep, rest) /\ Beyond(sep, rest) = body
    BY <1>1, BeyondStart
  <2>4. Remainder(rest, o) = body
    BY <2>3 DEF Remainder
  <2> HIDE DEF rest
  <2>5. IsPrefix(prefix, prefix \o rest) /\ Beyond(prefix, prefix \o rest) = rest
    BY <1>1, <2>2, BeyondStart
  <2>6. OwnPart(prefix \o rest, o) = Remainder(rest, o)
    BY <1>3, <2>5 DEF OwnPart
  <2> QED
    BY <1>3, <2>1, <2>4, <2>6
<1> QED
  BY <1>2, <1>3

\* and behind a prefix alone there is nothing.
LEMMA OwnOfPrefix ==
  ASSUME NEW o \in Options, NEW prefix, prefix = NormalizedPrefix(o.prefix, o.separator)
  PROVE  OwnPart(prefix, o) = <<>>
<1>1. o.separator \in Seq(Sigma) /\ o.separator # <<>> /\ prefix \in Seq(Sigma)
  BY OptionsTyped
<1>2. CASE prefix = <<>>
  BY <1>2 DEF OwnPart
<1>3. CASE prefix # <<>>
  <2>1. prefix \o <<>> = prefix /\ <<>> \in Seq(Sigma)
    BY <1>1, ConcatEmptySeq
  <2>2. IsPrefix(prefix, prefix \o <<>>) /\ Beyond(prefix, prefix \o <<>>) = <<>>
    BY <1>1, <2>1, BeyondStart
  <2>3. IsPrefix(prefix, prefix) /\ Beyond(prefix, prefix) = <<>>
    BY <2>1, <2>2
  <2>4. ~ IsPrefix(o.separator, <<>>)
    <3>1. Len(o.separator) \in Nat /\ Len(o.separator) # 0 /\ Len(<<>>) = 0
      BY <1>1, EmptySequence
    <3> QED
      BY <3>1 DEF IsPrefix
  <2>5. ~ IsPrefix(<<"_">>, <<>>)
    BY DEF IsPrefix
  <2>6. Remainder(<<>>, o) = <<>>
    BY <2>4, <2>5 DEF Remainder, OneUnderscore
  <2> QED
    BY <1>3, <2>3, <2>6 DEF OwnPart
<1> QED
  BY <1>2, <1>3

LEMMA OwnTyped ==
  ASSUME NEW o \in Options, NEW name \in Seq(Sigma)
  PROVE  OwnPart(name, o) \in Seq(Sigma)
<1> DEFINE prefix == NormalizedPrefix(o.prefix, o.separator)
<1>1. o.separator \in Seq(Sigma) /\ prefix \in Seq(Sigma) /\ <<>> \in Seq(Sigma)
  BY OptionsTyped
<1> HIDE DEF prefix
<1>2. ASSUME NEW rest \in Seq(Sigma) PROVE Remainder(rest, o) \in Seq(Sigma)
  <2>1. Beyond(o.separator, rest) \in Seq(Sigma)
    BY <1>1, BeyondTyped
  <2>2. ASSUME IsPrefix(<<"_">>, rest) PROVE Tail(rest) \in Seq(Sigma)
    <3>1. rest # <<>>
      <4>1. Len(<<"_">>) = 1 /\ Len(<<>>) = 0
        OBVIOUS
      <4>2. ~ IsPrefix(<<"_">>, <<>>)
        BY <4>1 DEF IsPrefix
      <4> QED
        BY <2>2, <4>2
    <3> QED
      BY <3>1, HeadTailProperties
  <2> QED
    BY <1>1, <2>1, <2>2 DEF Remainder, OneUnderscore
<1>3. Remainder(Beyond(prefix, name), o) \in Seq(Sigma)
  BY <1>1, <1>2, BeyondTyped
<1>4. OwnPart(name, o) \in {name, <<>>, Remainder(Beyond(prefix, name), o)}
  BY DEF OwnPart, prefix
<1> QED
  BY <1>1, <1>3, <1>4

\* What path_for_env_var makes of the pieces of a name.
Cased(t, o) == [k \in DOMAIN t |-> IF o.folded THEN LowerCase(t[k]) ELSE t[k]]
Clean(t) == \A k \in 1..Len(t) : ~ IsReserved(t[k]) /\ t[k] # <<>>

LEMMA Judged ==
  ASSUME NEW o \in Options, NEW name \in Seq(Sigma),
         NEW own, own = OwnPart(name, o), NEW split, split = SplitAt(own, o.separator)
  PROVE  /\ own = <<>> => PathForEnvVar(name, o) = NotOurs
         /\ own # <<>> /\ Clean(split) => PathForEnvVar(name, o) = Path(Cased(split, o), {})
         /\ own # <<>> /\ ~ Clean(split) => PathForEnvVar(name, o) \in {NotOurs, Error}
<1> DEFINE bad == {k \in DOMAIN split : IsReserved(split[k])}
           empty == {k \in DOMAIN split : split[k] = <<>>}
           BadFirst == bad # {} /\ \A k \in empty : \E b \in bad : b < k
           EmptyFirst == empty # {} /\ \A b \in bad : \E k \in empty : k < b
<1>1. split \in Seq(Seq(Sigma)) /\ Len(split) \in Nat /\ DOMAIN split = 1..Len(split)
  <2>1. own \in Seq(Sigma) /\ o.separator \in Seq(Sigma)
    BY OwnTyped, OptionsTyped
  <2>2. split \in Seq(Seq(Sigma))
    BY <2>1, SplitTypes
  <2> QED
    BY <2>2, EmptySequence
<1>2. PathForEnvVar(name, o) =
        CASE own = <<>> -> NotOurs
          [] own # <<>> /\ BadFirst -> Error
          [] own # <<>> /\ EmptyFirst -> NotOurs
          [] OTHER -> Path(Cased(split, o), {})
  BY DEF PathForEnvVar, Cased
<1>3. bad \in SUBSET Nat /\ empty \in SUBSET Nat
  BY <1>1
<1>4. Clean(split) <=> bad = {} /\ empty = {}
  BY <1>1 DEF Clean
<1>5. ~ IsReserved(<<>>)
  BY DEF IsReserved, Range
<1>6. \A k \in bad : k \notin empty
  BY <1>5
<1> HIDE DEF bad, empty
<1>7. ASSUME bad # {} \/ empty # {} PROVE BadFirst \/ EmptyFirst
  <2>1. bad \cup empty \in SUBSET Nat /\ bad \cup empty # {}
    BY <1>3, <1>7
  <2>2. PICK m \in bad \cup empty : \A k \in bad \cup empty : m <= k
    BY <2>1, LeastOne
  <2>3. CASE m \in bad
    <3>1. \A k \in empty : m < k
      BY <1>3, <1>6, <2>2, <2>3
    <3> QED
      BY <2>3, <3>1
  <2>4. CASE m \in empty
    <3>1. \A b \in bad : m < b
      BY <1>3, <1>6, <2>2, <2>4
    <3> QED
      BY <2>4, <3>1
  <2> QED
    BY <2>2, <2>3, <2>4
<1>8. bad = {} => ~ BadFirst
  OBVIOUS
<1>9. empty = {} => ~ EmptyFirst
  OBVIOUS
<1> HIDE DEF BadFirst, EmptyFirst
<1> QED
  BY <1>2, <1>4, <1>7, <1>8, <1>9

LEMMA KeptSeparatorIsCaseless ==
  ASSUME NEW o \in Options, KeepsSeparator(o), o.folded
  PROVE  Caseless(o.separator)
<1>1. o.separator \in Seq(Sigma) /\ o.separator # <<>> /\ DOMAIN o.separator = 1..Len(o.separator)
  BY OptionsTyped, EmptySequence
<1>2. \A d \in DOMAIN Upper : Range(o.separator) \cap {d, Upper[d]} = {}
  BY DEF KeepsSeparator
<1>3. ASSUME NEW i \in 1..Len(o.separator), NEW c \in Sigma
      PROVE  Up(c) = o.separator[i] <=> c = o.separator[i]
  <2>1. o.separator[i] \in Range(o.separator)
    BY <1>1 DEF Range
  <2>2. c \in DOMAIN Upper => o.separator[i] # c /\ o.separator[i] # Upper[c]
    BY <1>2, <2>1
  <2> QED
    BY <2>2 DEF Up
<1> QED
  BY <1>1, <1>3 DEF Caseless

\* A name that is made of pieces which survive being joined is taken apart into them.
LEMMA ReadBack ==
  ASSUME NEW o \in Options, KeepsSeparator(o), NEW t \in Seq(Seq(Sigma)), Clean(t),
         SplitAt(JoinedBy(t, o.separator), o.separator) = t
  PROVE  PathForEnvVar(EnvName(Cased(t, o), o), o) = Path(Cased(t, o), {})
<1> DEFINE sep == o.separator
           n == Len(t)
           segments == Cased(t, o)
           named == [i \in DOMAIN segments |-> IF o.folded THEN UpperCase(segments[i]) ELSE segments[i]]
           J == JoinedBy(t, sep)
           body == JoinedBy(named, sep)
           prefix == NormalizedPrefix(o.prefix, sep)
           name == IF prefix = <<>> \/ body = <<>> THEN prefix \o body ELSE prefix \o sep \o body
<1>1. sep \in Seq(Sigma) /\ sep # <<>> /\ prefix \in Seq(Sigma) /\ o.folded \in BOOLEAN
  BY OptionsTyped DEF Options
<1>2. n \in Nat /\ DOMAIN t = 1..n /\ \A k \in 1..n : t[k] \in Seq(Sigma)
  BY EmptySequence, ElementOfSeq
<1>3. EnvName(segments, o) = name
  BY DEF EnvName
<1> HIDE DEF n
<1>4. segments = [k \in 1..n |-> IF o.folded THEN LowerCase(t[k]) ELSE t[k]]
  BY <1>2 DEF Cased
<1>5. J \in Seq(Sigma) /\ J # <<>>
  <2>1. J \in Seq(Sigma)
    BY <1>1, JoinedByTyped
  <2>2. ASSUME J = <<>> PROVE FALSE
    <3>0. SplitAt(<<>>, sep) = t
      BY <2>2
    <3>1. t = Append(<<>>, <<>>)
      <4>1. SplitRead(<<>>, sep) = SplitStart
        BY SplitNothing
      <4>2. SplitAt(<<>>, sep) = Append(SplitRead(<<>>, sep).pieces, SplitRead(<<>>, sep).current)
        BY SplitIs
      <4>3. SplitStart.pieces = <<>> /\ SplitStart.current = <<>>
        BY DEF SplitStart
      <4>4. SplitAt(<<>>, sep) = Append(<<>>, <<>>)
        BY <4>1, <4>2, <4>3
      <4> QED
        BY <3>0, <4>4
    <3>2. n = 1 /\ t[1] = <<>> /\ 1 \in 1..n
      BY <3>1 DEF n
    <3> QED
      BY <3>2 DEF Clean, n
  <2> QED
    BY <2>1, <2>2
<1>6. /\ named \in Seq(Seq(Sigma)) /\ Clean(named) /\ Cased(named, o) = segments
      /\ body \in Seq(Sigma) /\ body # <<>> /\ SplitAt(body, sep) = named
  <2>1. CASE ~ o.folded
    <3>1. segments = [k \in 1..n |-> t[k]]
      BY <1>4, <2>1
    <3>2. [k \in 1..n |-> t[k]] = t
      BY <1>2
    <3>3. segments = t
      BY <3>1, <3>2
    <3> HIDE DEF segments
    <3>4. named = [k \in 1..n |-> t[k]]
      BY <1>2, <2>1, <3>3
    <3>5. named = t
      BY <3>2, <3>4
    <3> HIDE DEF named
    <3> QED
      BY <1>5, <3>3, <3>5 DEF segments
  <2>2. CASE o.folded
    <3>1. Caseless(sep)
      BY <2>2, KeptSeparatorIsCaseless
    <3>2. segments = [k \in 1..n |-> LowerCase(t[k])]
      BY <1>4, <2>2
    <3> HIDE DEF segments
    <3>3. DOMAIN segments = 1..n /\ \A k \in 1..n : segments[k] = LowerCase(t[k])
      BY <3>2
    <3>4. named = [k \in 1..n |-> UpperCase(t[k])]
      <4>1. \A k \in 1..n : UpperCase(segments[k]) = UpperCase(t[k])
        BY <1>2, <3>3, CasesAgree
      <4> QED
        BY <2>2, <3>3, <4>1
    <3>5. named = UpAll(t)
      BY <1>2, <3>4 DEF UpAll
    <3> HIDE DEF named
    <3>6. body = UpperCase(J)
      BY <3>1, <3>5, JoinedInUpperCase
    <3>7. body \in Seq(Sigma) /\ body # <<>>
      BY <1>5, <3>6, CaseOfAll, EmptySequence
    <3>8. SplitAt(body, sep) = named
      BY <1>5, <3>1, <3>5, <3>6, SplitInUpperCase
    <3>9. /\ named \in Seq(Seq(Sigma)) /\ Len(named) = n /\ DOMAIN named = 1..n
          /\ \A k \in 1..n : named[k] = UpperCase(t[k])
      BY <3>4, <3>5, UpAllTyped DEF n
    <3>10. Clean(named)
      <4>1. ASSUME NEW k \in 1..n PROVE ~ IsReserved(named[k]) /\ named[k] # <<>>
        <5>1. t[k] \in Seq(Sigma) /\ ~ IsReserved(t[k]) /\ t[k] # <<>>
          BY <1>2 DEF Clean, n
        <5>2. ~ IsReserved(UpperCase(t[k]))
          BY <5>1, ReservedInAnyCase
        <5>3. UpperCase(t[k]) # <<>>
          BY <5>1, CaseOfAll, EmptySequence
        <5> QED
          BY <3>9, <5>2, <5>3
      <4> QED
        BY <3>9, <4>1 DEF Clean
    <3>11. Cased(named, o) = segments
      <4>1. \A k \in 1..n : LowerCase(named[k]) = LowerCase(t[k])
        BY <1>2, <3>9, CasesAgree
      <4>2. Cased(named, o) = [k \in 1..n |-> LowerCase(named[k])]
        BY <2>2, <3>9 DEF Cased
      <4> QED
        BY <3>2, <4>1, <4>2
    <3> QED
      BY <3>7, <3>8, <3>9, <3>10, <3>11
  <2> QED
    BY <1>1, <2>1, <2>2
<1> HIDE DEF segments, named, body, J
<1>7. name = IF prefix = <<>> THEN prefix \o body ELSE prefix \o sep \o body
  BY <1>6
<1>8. OwnPart(name, o) = body
  BY <1>6, <1>7, OwnOfName
<1>9. name \in Seq(Sigma)
  <2>1. prefix \o body \in Seq(Sigma) /\ prefix \o sep \in Seq(Sigma)
    BY <1>1, <1>6, ConcatProperties
  <2>2. (prefix \o sep) \o body \in Seq(Sigma)
    BY <1>6, <2>1, ConcatProperties
  <2> QED
    BY <1>7, <2>1, <2>2
<1> HIDE DEF name
<1>10. PathForEnvVar(name, o) = Path(segments, {})
  BY <1>6, <1>8, <1>9, Judged
<1> QED
  BY <1>3, <1>10 DEF segments

\* The two halves of the property.
LEMMA NamedReadsBack ==
  ASSUME ReaderInv, NEW o \in Options, KeepsSeparator(o), PathForEnvVar(text, o).outcome = "path"
  PROVE  LET segments == PathForEnvVar(text, o).segments
         IN  PathForEnvVar(EnvName(segments, o), o) = Path(segments, {})
<1> DEFINE own == OwnPart(text, o)
           split == SplitAt(own, o.separator)
<1>1. o.separator \in Seq(Sigma) /\ o.separator # <<>>
  BY OptionsTyped
<1>2. text \in Seq(Sigma)
  <2>1. Characters \subseteq Sigma /\ text \in Seq(Characters)
    BY DEF Sigma, ReaderInv
  <2> QED
    BY <2>1, SeqMonotonic
<1>3. own \in Seq(Sigma)
  BY <1>2, OwnTyped
<1>4. split \in Seq(Seq(Sigma))
  BY <1>1, <1>3, SplitTypes
<1>5. /\ own = <<>> => PathForEnvVar(text, o) = NotOurs
      /\ own # <<>> /\ Clean(split) => PathForEnvVar(text, o) = Path(Cased(split, o), {})
      /\ own # <<>> /\ ~ Clean(split) => PathForEnvVar(text, o) \in {NotOurs, Error}
  BY <1>2, Judged
<1> HIDE DEF own, split
<1>6. CASE own # <<>> /\ Clean(split)
  <2>1. JoinedBy(split, o.separator) = own
    <3>1. NoneEmpty(split)
      BY <1>6 DEF Clean, NoneEmpty
    <3> QED
      BY <1>1, <1>3, <3>1, SplitRejoins DEF split
  <2>2. SplitAt(JoinedBy(split, o.separator), o.separator) = split
    BY <2>1 DEF split
  <2>3. PathForEnvVar(EnvName(Cased(split, o), o), o) = Path(Cased(split, o), {})
    BY <1>4, <1>6, <2>2, ReadBack
  <2> QED
    BY <1>5, <1>6, <2>3 DEF Path
<1>7. CASE ~ (own # <<>> /\ Clean(split))
  <2>1. PathForEnvVar(text, o) = NotOurs
    BY <1>5, <1>7 DEF Error
  <2>2. PathForEnvVar(text, o).segments = <<>> /\ Path(<<>>, {}) = NotOurs
    BY <2>1 DEF NotOurs, Path
  <2> DEFINE prefix == NormalizedPrefix(o.prefix, o.separator)
  <2>3. prefix \in Seq(Sigma)
    BY OptionsTyped
  <2>4. EnvName(<<>>, o) = prefix \o <<>>
    <3> DEFINE named == [i \in DOMAIN <<>> |-> IF o.folded THEN UpperCase(<<>>[i]) ELSE <<>>[i]]
    <3>1. named = <<>>
      OBVIOUS
    <3>2. JoinedBy(named, o.separator) = <<>>
      BY <3>1, JoinedByNothing
    <3> QED
      BY <3>2 DEF EnvName
  <2>5. EnvName(<<>>, o) = prefix
    BY <2>3, <2>4, ConcatEmptySeq
  <2>6. OwnPart(prefix, o) = <<>>
    BY OwnOfPrefix
  <2>7. PathForEnvVar(prefix, o) = NotOurs
    BY <2>3, <2>6, Judged
  <2> QED
    BY <2>2, <2>5, <2>7
<1> QED
  BY <1>6, <1>7

LEMMA WrittenReadsBack ==
  ASSUME ReaderInv, NEW o \in Options, KeepsSeparator(o),
         ExternalPath(text, reader).outcome = "path",
         Expressible(ExternalPath(text, reader).segments, o)
  PROVE  LET segments == ExternalPath(text, reader).segments
         IN  PathForEnvVar(EnvName(segments, o), o) = Path(segments, {})
<1> DEFINE segments == ExternalPath(text, reader).segments
<1>1. o.separator \in Seq(Sigma) /\ o.separator # <<>> /\ o.folded \in BOOLEAN
  BY OptionsTyped DEF Options
<1>2. segments \in Seq(Written)
  <2>1. segments = <<>> \/ (~ Unclosed(reader) /\ segments = Segments(reader))
    BY DEF ExternalPath, Path, Error
  <2>2. Between(reader)
    BY DEF ReaderInv
  <2>3. <<>> \in Seq(Written)
    OBVIOUS
  <2> HIDE DEF segments
  <2> QED
    BY <2>1, <2>2, <2>3, AcceptedSegments
<1> HIDE DEF segments
<1>3. /\ SplitAt(JoinedBy(segments, o.separator), o.separator) = segments
      /\ o.folded => \A s \in Range(segments) : LowerCase(s) = s
      /\ <<"*">> \notin Range(segments)
  BY DEF Expressible, segments
<1>4. /\ Len(segments) \in Nat /\ DOMAIN segments = 1..Len(segments)
      /\ \A k \in 1..Len(segments) : segments[k] \in Written
  BY <1>2, EmptySequence, ElementOfSeq
<1>5. \A k \in 1..Len(segments) : segments[k] \in Range(segments)
  BY <1>4 DEF Range
<1>6. ASSUME NEW w \in Written PROVE w \in Seq(Sigma) /\ w # <<>> /\ Range(w) \cap {".", "[", "]"} = {}
  <2>1. w \in Seq(NameCharacters) /\ w # <<>>
    BY DEF Written
  <2>2. NameCharacters \subseteq Sigma
    BY DEF NameCharacters, Sigma
  <2>3. Range(w) \subseteq NameCharacters
    BY <2>1, RangeOfSeq
  <2>4. w \in Seq(Sigma)
    BY <2>1, <2>2, SeqMonotonic
  <2> QED
    BY <2>1, <2>3, <2>4 DEF NameCharacters
<1>7. segments \in Seq(Seq(Sigma))
  <2>1. Written \subseteq Seq(Sigma)
    BY <1>6
  <2> QED
    BY <1>2, <2>1, SeqMonotonic
<1>8. Clean(segments)
  BY <1>3, <1>4, <1>5, <1>6 DEF Clean, IsReserved
<1>9. Cased(segments, o) = segments
  <2>1. \A k \in 1..Len(segments) : (IF o.folded THEN LowerCase(segments[k]) ELSE segments[k]) = segments[k]
    BY <1>3, <1>5
  <2>2. Cased(segments, o) = [k \in 1..Len(segments) |-> segments[k]]
    BY <1>4, <2>1 DEF Cased
  <2>3. [k \in 1..Len(segments) |-> segments[k]] = segments
    BY <1>2, LenProperties
  <2> QED
    BY <2>2, <2>3
<1>10. PathForEnvVar(EnvName(Cased(segments, o), o), o) = Path(Cased(segments, o), {})
  BY <1>3, <1>7, <1>8, ReadBack
<1>11. PathForEnvVar(EnvName(segments, o), o) = Path(segments, {})
  BY <1>9, <1>10
<1> QED
  BY <1>11 DEF segments

LEMMA ReaderInvDocumented == ReaderInv => DocumentedVariablesAreRead
  BY NamedReadsBack, WrittenReadsBack DEF DocumentedVariablesAreRead

\* The name the documents give to the variable of a path is one that path_for_env_var
\* takes for that path: whatever variable the path was found in, and whatever text it
\* was read from as long as its segments do not run together.
THEOREM DocumentedVariables == Spec => []DocumentedVariablesAreRead
<1>1. Spec => []ReaderInv
  BY InitReader, ReaderStep, PTL DEF Spec
<1> QED
  BY <1>1, ReaderInvDocumented, PTL
=============================================================================
