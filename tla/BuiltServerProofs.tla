--------------------------- MODULE BuiltServerProofs ---------------------------
(***************************************************************************)
(* Proofs about the server of package builder: the validator and the router *)
(* take the same template, a request is judged by the operation it is       *)
(* handled as, a registered handler is reached, and what a net/http handler *)
(* writes arrives as it would without the recorder.                         *)
(***************************************************************************)
EXTENDS BuiltServer, InductionLemmas, FiniteSetTheorems

-----------------------------------------------------------------------------
\* A sum of integers is one.
LEMMA TotalIsInt ==
    ASSUME NEW seq \in Seq(Int)
    PROVE  Total(seq) \in Int
<1> DEFINE n == Len(seq)
           z == 0
           I == Int
           upTo[i \in 0..Len(seq)] == IF i = 0 THEN 0 ELSE upTo[i - 1] + seq[i]
           F == [p \in (1..n) \X I |-> p[2] + seq[p[1]]]
<1>1. n \in Nat /\ \A i \in 1..n : seq[i] \in Int
  OBVIOUS
<1>2. \A i \in 1..n : \A x \in I : F[<<i, x>>] = x + seq[i]
  OBVIOUS
<1>3. Total(seq) = upTo[Len(seq)]
  BY DEF Total
<1> HIDE DEF n, F
<1>4. PICK f \in [0..n -> I] : RecursiveTo(f, n, z, F)
  <2>1. ASSUME NEW i \in 1..n, NEW x \in I PROVE F[<<i, x>>] \in I
    <3>1. x + seq[i] \in I
      BY <1>1
    <3> HIDE DEF I
    <3> QED
      BY <1>2, <3>1
  <2>2. z \in I
    OBVIOUS
  <2> HIDE DEF z, I
  <2>3. KeepsIn(F, n, I)
    BY <2>1 DEF KeepsIn
  <2> QED
    BY <1>1, <2>2, <2>3, RecursionTo
<1>5. f[0] = 0 /\ \A i \in 1..n : f[i] = f[i - 1] + seq[i]
  <2>1. f[0] = 0
    BY <1>4 DEF RecursiveTo
  <2>2. ASSUME NEW i \in 1..n PROVE f[i] = f[i - 1] + seq[i]
    <3>1. f[i] = F[<<i, f[i - 1]>>]
      BY <1>4 DEF RecursiveTo
    <3>2. i - 1 \in 0..n
      BY <1>1
    <3>3. f[i - 1] \in I
      <4> HIDE DEF I
      <4> QED
        BY <1>4, <3>2
    <3>4. F[<<i, f[i - 1]>>] = f[i - 1] + seq[i]
      BY <1>2, <3>3
    <3> QED
      BY <3>1, <3>4
  <2> QED
    BY <2>1, <2>2
<1>6. f = [i \in 0..n |-> IF i = 0 THEN 0 ELSE f[i - 1] + seq[i]]
  <2>1. f = [i \in 0..n |-> f[i]]
    BY <1>4
  <2>2. ASSUME NEW i \in 0..n PROVE f[i] = IF i = 0 THEN 0 ELSE f[i - 1] + seq[i]
    BY <1>1, <1>5
  <2> QED
    BY <2>1, <2>2
<1>7. upTo = [i \in 0..n |-> IF i = 0 THEN 0 ELSE upTo[i - 1] + seq[i]]
  BY <1>6 DEF upTo, n
<1> HIDE DEF upTo
<1>8. \A i \in 0..n : upTo[i] \in Int
  <2> DEFINE T == {i \in Nat : i <= n => upTo[i] \in Int}
  <2>1. 0 \in T
    BY <1>1, <1>7
  <2>2. ASSUME NEW i \in T PROVE i + 1 \in T
    <3> SUFFICES ASSUME i + 1 <= n PROVE upTo[i + 1] \in Int
      OBVIOUS
    <3>1. i \in Nat /\ i <= n /\ i + 1 \in 0..n /\ i + 1 \in 1..n /\ i + 1 # 0 /\ (i + 1) - 1 = i
      BY <1>1
    <3>2. upTo[i + 1] = upTo[i] + seq[i + 1]
      BY <1>7, <3>1
    <3> QED
      BY <1>1, <3>1, <3>2
  <2>3. T \in SUBSET Nat
    OBVIOUS
  <2> HIDE DEF T
  <2>4. T = Nat
    BY <2>1, <2>2, <2>3, Induct
  <2>5. \A i \in 0..n : i \in T /\ i <= n
    BY <1>1, <2>4
  <2> QED
    BY <2>5 DEF T
<1> QED
  BY <1>1, <1>3, <1>8 DEF n

\* Of finitely many things in an order there is a first.
LEMMA First ==
    ASSUME NEW S, IsFiniteSet(S), S # {}, NEW R,
           \A a, b \in S : a # b => <<a, b>> \in R \/ <<b, a>> \in R,
           \A a, b, c \in S : <<a, b>> \in R /\ <<b, c>> \in R => <<a, c>> \in R
    PROVE  \E t \in S : \A u \in S \ {t} : <<t, u>> \in R
<1> DEFINE Is(X, t) == \A u \in X \ {t} : <<t, u>> \in R
           T == {n \in Nat : \A X \in SUBSET S : Cardinality(X) = n + 1 => \E t \in X : Is(X, t)}
<1>1. \A X \in SUBSET S : IsFiniteSet(X) /\ Cardinality(X) \in Nat
  BY FS_Subset, FS_CardinalityType
<1>2. 0 \in T
  <2> SUFFICES ASSUME NEW X \in SUBSET S, Cardinality(X) = 0 + 1 PROVE \E t \in X : Is(X, t)
    OBVIOUS
  <2>1. PICK x : X = {x}
    BY <1>1, FS_Singleton
  <2> QED
    BY <2>1
<1>3. ASSUME NEW n \in T PROVE n + 1 \in T
  <2> SUFFICES ASSUME NEW X \in SUBSET S, Cardinality(X) = (n + 1) + 1 PROVE \E t \in X : Is(X, t)
    OBVIOUS
  <2>1. X # {}
    BY FS_EmptySet
  <2>2. PICK x : x \in X
    BY <2>1
  <2> DEFINE Y == X \ {x}
  <2>3. Cardinality(Y) = n + 1 /\ Y \in SUBSET S
    BY <1>1, <2>2, FS_RemoveElement
  <2>4. PICK t \in Y : Is(Y, t)
    BY <2>3
  <2>5. CASE <<x, t>> \in R
    <3>1. \A u \in X \ {x} : <<x, u>> \in R
      BY <2>2, <2>4, <2>5
    <3> QED
      BY <2>2, <3>1
  <2>6. CASE <<t, x>> \in R
    BY <2>2, <2>4, <2>6
  <2> QED
    BY <2>2, <2>4, <2>5, <2>6
<1>4. T \in SUBSET Nat
  OBVIOUS
<1> HIDE DEF T
<1>5. T = Nat
  BY <1>2, <1>3, <1>4, Induct
<1>6. Cardinality(S) \in Nat /\ Cardinality(S) # 0
  BY <1>1, FS_EmptySet
<1>7. Cardinality(S) - 1 \in Nat /\ Cardinality(S) = (Cardinality(S) - 1) + 1
  BY <1>6
<1>8. \A X \in SUBSET S : Cardinality(X) = (Cardinality(S) - 1) + 1 => \E t \in X : Is(X, t)
  BY <1>5, <1>7 DEF T
<1> QED
  BY <1>7, <1>8

-----------------------------------------------------------------------------
(* The order the matchers are tried in. *)

\* A function over the places of a sequence is a sequence.
LEMMA MappedSeq ==
    ASSUME NEW S, NEW s \in Seq(S), NEW g, g = [i \in DOMAIN s |-> g[i]], \A i \in DOMAIN s : g[i] \in Int
    PROVE  g \in Seq(Int)
<1> DEFINE n == Len(s)
<1>1. n \in Nat /\ DOMAIN s = 1..n
  BY LenProperties
<1> HIDE DEF n
<1>2. g \in [1..n -> Int]
  BY <1>1
<1> QED
  BY <1>1, <1>2, SeqDef

LEMMA BytesType ==
    ASSUME NEW text \in Seq(STRING)
    PROVE  Bytes(text) \in Int
<1> DEFINE g == [i \in DOMAIN text |-> IF text[i] = "é" THEN 2 ELSE 1]
<1>1. g = [i \in DOMAIN text |-> g[i]] /\ \A i \in DOMAIN text : g[i] \in Int
  OBVIOUS
<1> HIDE DEF g
<1>2. g \in Seq(Int)
  BY <1>1, MappedSeq
<1>3. Total(g) \in Int
  BY <1>2, TotalIsInt
<1>4. Bytes(text) = Total(g)
  BY DEF Bytes, g
<1> QED
  BY <1>3, <1>4

\* The two measures of a template are integers.
LEMMA MeasuresType ==
    ASSUME NEW t \in Templates
    PROVE  Specificity(t) \in Int /\ TemplateLength(t) \in Int
<1>1. t \in Seq(Seq(STRING))
  BY TemplatesAssumption
<1>2. \A i \in DOMAIN t : Bytes(t[i]) \in Int
  BY <1>1, BytesType
<1>3. Specificity(t) \in Int
  <2> DEFINE g == [i \in DOMAIN t |-> IF IsParam(t[i]) THEN -1 ELSE Bytes(t[i])]
  <2>1. g = [i \in DOMAIN t |-> g[i]] /\ \A i \in DOMAIN t : g[i] \in Int
    BY <1>2
  <2> HIDE DEF g
  <2>2. g \in Seq(Int)
    BY <1>1, <2>1, MappedSeq
  <2> QED
    BY <2>2, TotalIsInt DEF Specificity, g
<1>4. TemplateLength(t) \in Int
  <2> DEFINE g == [i \in DOMAIN t |-> 1 + Bytes(t[i])]
  <2>1. g = [i \in DOMAIN t |-> g[i]] /\ \A i \in DOMAIN t : g[i] \in Int
    BY <1>2
  <2> HIDE DEF g
  <2>2. g \in Seq(Int)
    BY <1>1, <2>1, MappedSeq
  <2> QED
    BY <2>2, TotalIsInt DEF TemplateLength, g
<1> QED
  BY <1>3, <1>4

\* A template is a sequence, and its segments have places among the texts.
LEMMA TemplateType ==
    ASSUME NEW t \in Templates
    PROVE  /\ Len(t) \in Nat /\ DOMAIN t = 1..Len(t) /\ t = [i \in 1..Len(t) |-> t[i]] /\ t # NoMatch
           /\ \A i \in 1..Len(t) : t[i] \in UNION {Range(u) : u \in Templates} /\ TextRank(t[i]) \in Int
<1>1. t \in Seq(Seq(STRING)) /\ t # NoMatch
  BY TemplatesAssumption
<1> DEFINE n == Len(t)
<1>2. n \in Nat /\ DOMAIN t = 1..n /\ t = [i \in 1..n |-> t[i]]
  BY <1>1
<1> HIDE DEF n
<1>3. \A i \in 1..n : t[i] \in UNION {Range(u) : u \in Templates}
  BY <1>2 DEF Range
<1> QED
  BY <1>1, <1>2, <1>3, TextRankAssumption DEF n

\* Of two templates of one length one sorts before the other, and not both.
LEMMA SortsOneWay ==
    ASSUME NEW a \in Templates, NEW b \in Templates, Len(a) = Len(b), a # b
    PROVE  (SortsBefore(a, b) \/ SortsBefore(b, a)) /\ ~ (SortsBefore(a, b) /\ SortsBefore(b, a))
<1> DEFINE n == Len(a)
<1>1. /\ n \in Nat /\ DOMAIN a = 1..n /\ DOMAIN b = 1..n
      /\ a = [i \in 1..n |-> a[i]] /\ b = [i \in 1..n |-> b[i]]
      /\ \A i \in 1..n : TextRank(a[i]) \in Int /\ TextRank(b[i]) \in Int
  BY TemplateType
<1>2. \A i \in 1..n : a[i] # b[i] => TextRank(a[i]) # TextRank(b[i])
  BY TemplateType, TextRankAssumption
<1> HIDE DEF n
<1>3. PICK i \in 1..n : a[i] # b[i] /\ \A j \in 1..(i - 1) : a[j] = b[j]
  <2> DEFINE T == {k \in 1..n : a[k] # b[k]}
  <2>1. T # {} /\ T \in SUBSET Nat
    BY <1>1
  <2>2. PICK i \in T : \A j \in T : i <= j
    BY <2>1, Least
  <2>3. \A j \in 1..(i - 1) : j \in 1..n /\ ~ (i <= j)
    BY <1>1
  <2> QED
    BY <2>2, <2>3
<1>4. SortsBefore(a, b) \/ SortsBefore(b, a)
  <2>1. TextRank(a[i]) < TextRank(b[i]) \/ TextRank(b[i]) < TextRank(a[i])
    BY <1>1, <1>2, <1>3
  <2> QED
    BY <1>1, <1>3, <2>1 DEF SortsBefore
<1>5. ASSUME SortsBefore(a, b), SortsBefore(b, a) PROVE FALSE
  <2>1. PICK j \in 1..n : TextRank(a[j]) < TextRank(b[j]) /\ \A k \in 1..(j - 1) : a[k] = b[k]
    BY <1>1, <1>5 DEF SortsBefore
  <2>2. PICK k \in 1..n : TextRank(b[k]) < TextRank(a[k]) /\ \A m \in 1..(k - 1) : b[m] = a[m]
    BY <1>1, <1>5 DEF SortsBefore
  <2>3. a[j] # b[j] /\ a[k] # b[k]
    BY <1>1, <2>1, <2>2
  <2>4. j = k
    <3>1. CASE j < k
      <4>1. j \in 1..(k - 1)
        BY <1>1, <3>1
      <4> QED
        BY <2>2, <2>3, <4>1
    <3>2. CASE k < j
      <4>1. k \in 1..(j - 1)
        BY <1>1, <3>2
      <4> QED
        BY <2>1, <2>3, <4>1
    <3> QED
      BY <1>1, <3>1, <3>2
  <2> QED
    BY <1>1, <2>1, <2>2, <2>4
<1> QED
  BY <1>4, <1>5

\* The first place where the first or the second pair differs decides.
LEMMA SortsThrough ==
    ASSUME NEW a \in Templates, NEW b \in Templates, NEW c \in Templates, Len(a) = Len(b), Len(b) = Len(c),
           SortsBefore(a, b), SortsBefore(b, c)
    PROVE  SortsBefore(a, c)
<1> DEFINE n == Len(a)
<1>1. /\ n \in Nat /\ DOMAIN a = 1..n /\ DOMAIN b = 1..n
      /\ \A i \in 1..n : TextRank(a[i]) \in Int /\ TextRank(b[i]) \in Int /\ TextRank(c[i]) \in Int
  BY TemplateType
<1> HIDE DEF n
<1>2. PICK i \in 1..n : TextRank(a[i]) < TextRank(b[i]) /\ \A j \in 1..(i - 1) : a[j] = b[j]
  BY <1>1 DEF SortsBefore
<1>3. PICK k \in 1..n : TextRank(b[k]) < TextRank(c[k]) /\ \A j \in 1..(k - 1) : b[j] = c[j]
  BY <1>1 DEF SortsBefore
<1>4. CASE i < k
  <2>1. i \in 1..(k - 1) /\ \A j \in 1..(i - 1) : j \in 1..(k - 1)
    BY <1>1, <1>4
  <2>2. b[i] = c[i] /\ \A j \in 1..(i - 1) : a[j] = c[j]
    BY <1>2, <1>3, <2>1
  <2> QED
    BY <1>1, <1>2, <2>2 DEF SortsBefore
<1>5. CASE k < i
  <2>1. k \in 1..(i - 1) /\ \A j \in 1..(k - 1) : j \in 1..(i - 1)
    BY <1>1, <1>5
  <2>2. a[k] = b[k] /\ \A j \in 1..(k - 1) : a[j] = c[j]
    BY <1>2, <1>3, <2>1
  <2> QED
    BY <1>1, <1>3, <2>2 DEF SortsBefore
<1>6. CASE i = k
  <2>1. TextRank(a[i]) < TextRank(c[i])
    BY <1>1, <1>2, <1>3, <1>6
  <2>2. \A j \in 1..(i - 1) : a[j] = c[j]
    BY <1>2, <1>3, <1>6
  <2> QED
    BY <1>1, <2>1, <2>2 DEF SortsBefore
<1> QED
  BY <1>1, <1>4, <1>5, <1>6

\* So the matchers of the templates of one length stand in one order.
LEMMA TriedOneWay ==
    ASSUME NEW a \in Templates, NEW b \in Templates, Len(a) = Len(b), a # b
    PROVE  (TriedBefore(a, b) \/ TriedBefore(b, a)) /\ ~ (TriedBefore(a, b) /\ TriedBefore(b, a))
<1>1. /\ Specificity(a) \in Int /\ Specificity(b) \in Int
      /\ TemplateLength(a) \in Int /\ TemplateLength(b) \in Int
  BY MeasuresType
<1>2. (SortsBefore(a, b) \/ SortsBefore(b, a)) /\ ~ (SortsBefore(a, b) /\ SortsBefore(b, a))
  BY SortsOneWay
<1> QED
  BY <1>1, <1>2 DEF TriedBefore

LEMMA TriedThrough ==
    ASSUME NEW a \in Templates, NEW b \in Templates, NEW c \in Templates, Len(a) = Len(b), Len(b) = Len(c),
           TriedBefore(a, b), TriedBefore(b, c)
    PROVE  TriedBefore(a, c)
<1>1. /\ Specificity(a) \in Int /\ Specificity(b) \in Int /\ Specificity(c) \in Int
      /\ TemplateLength(a) \in Int /\ TemplateLength(b) \in Int /\ TemplateLength(c) \in Int
  BY MeasuresType
<1>2. SortsBefore(a, b) /\ SortsBefore(b, c) => SortsBefore(a, c)
  BY SortsThrough
<1> QED
  BY <1>1, <1>2 DEF TriedBefore

\* Which template a path takes is the first of those that fit it, whatever else
\* there is: a smaller set that still has it gives the same.
LEMMA MatchFirst ==
    ASSUME NEW T \in SUBSET Templates, IsFiniteSet(T), NEW path
    PROVE  /\ MatchPath(T, path) = NoMatch <=> \A t \in T : ~ Fits(t, path)
           /\ MatchPath(T, path) # NoMatch => MatchPath(T, path) \in T /\ Fits(MatchPath(T, path), path)
           /\ \A t \in T : Fits(t, path) /\ t # MatchPath(T, path) => TriedBefore(MatchPath(T, path), t)
<1> DEFINE hits == {t \in T : Fits(t, path)}
           R == {<<a, b>> : a \in hits, b \in hits} \cap {p \in hits \X hits : TriedBefore(p[1], p[2])}
           Is(t) == \A u \in hits \ {t} : TriedBefore(t, u)
<1>1. IsFiniteSet(hits) /\ hits \subseteq Templates
  BY FS_Subset
<1>2. \A a, b \in hits : <<a, b>> \in R <=> TriedBefore(a, b)
  OBVIOUS
<1>3. \A a, b \in hits : Len(a) = Len(b)
  BY DEF Fits
<1>4. CASE hits = {}
  <2>1. MatchPath(T, path) = NoMatch /\ \A t \in T : ~ Fits(t, path)
    BY <1>4 DEF MatchPath
  <2> QED
    BY <2>1
<1>5. CASE hits # {}
  <2> HIDE DEF R, hits
  <2>1. \A a, b \in hits : a # b => <<a, b>> \in R \/ <<b, a>> \in R
    BY <1>1, <1>2, <1>3, TriedOneWay
  <2>2. \A a, b, c \in hits : <<a, b>> \in R /\ <<b, c>> \in R => <<a, c>> \in R
    BY <1>1, <1>2, <1>3, TriedThrough
  <2>3. PICK t \in hits : \A u \in hits \ {t} : <<t, u>> \in R
    BY <1>1, <1>5, <2>1, <2>2, First
  <2>4. Is(t)
    BY <1>2, <2>3
  <2>5. MatchPath(T, path) = CHOOSE x \in hits : Is(x)
    BY <1>5 DEF MatchPath, hits
  <2>6. MatchPath(T, path) \in hits /\ Is(MatchPath(T, path))
    BY <2>4, <2>5
  <2> QED
    BY <1>1, <2>6, TemplateType DEF hits
<1> QED
  BY <1>4, <1>5

LEMMA MatchWithin ==
    ASSUME NEW T \in SUBSET Templates, IsFiniteSet(T), NEW U \in SUBSET T, NEW path, MatchPath(T, path) \in U
    PROVE  MatchPath(U, path) = MatchPath(T, path)
<1> DEFINE t == MatchPath(T, path)
           u == MatchPath(U, path)
<1>1. IsFiniteSet(U) /\ U \in SUBSET Templates
  BY FS_Subset
<1>2. t \in Templates /\ t # NoMatch
  BY TemplateType
<1>3. t \in U /\ Fits(t, path) /\ \A x \in T : Fits(x, path) /\ x # t => TriedBefore(t, x)
  BY <1>2, MatchFirst
<1>4. u # NoMatch /\ u \in U /\ Fits(u, path) /\ (t # u => TriedBefore(u, t))
  BY <1>1, <1>3, MatchFirst
<1> HIDE DEF t, u
<1>5. t # u => TriedBefore(t, u) /\ TriedBefore(u, t)
  BY <1>3, <1>4
<1>6. Len(t) = Len(u) /\ u \in Templates
  BY <1>1, <1>3, <1>4 DEF Fits
<1> QED
  BY <1>2, <1>5, <1>6, TriedOneWay DEF t, u

-----------------------------------------------------------------------------
(* What the recorder of HandleFunc replays. *)

\* The writes of one kind are picked one place at a time.
Picks(upTo, w, what) ==
    /\ Ofs(w, what) = upTo[Len(w)] /\ upTo[0] = <<>>
    /\ \A i \in 0..Len(w) : upTo[i] \in Seq(Range(w))
    /\ \A i \in 1..Len(w) : upTo[i] = IF w[i][1] = what THEN Append(upTo[i - 1], w[i]) ELSE upTo[i - 1]
LEMMA OfsIs ==
    ASSUME NEW w, IsSeq(w), NEW what
    PROVE  \E upTo : Picks(upTo, w, what)
<1> DEFINE n == Len(w)
           X == Seq(Range(w))
           none == <<>>
           at[i \in 0..Len(w)] ==
               IF i = 0 THEN <<>> ELSE IF w[i][1] = what THEN Append(at[i - 1], w[i]) ELSE at[i - 1]
           F == [p \in (1..n) \X X |-> IF w[p[1]][1] = what THEN Append(p[2], w[p[1]]) ELSE p[2]]
<1>1. n \in Nat /\ \A i \in 1..n : w[i] \in Range(w)
  BY SeqDomain DEF Range
<1>2. \A i \in 1..n : \A x \in X : F[<<i, x>>] = IF w[i][1] = what THEN Append(x, w[i]) ELSE x
  OBVIOUS
<1>3. Ofs(w, what) = at[Len(w)]
  BY DEF Ofs
<1>4. none \in X
  OBVIOUS
<1> HIDE DEF F
<1>5. ASSUME NEW i \in 1..n, NEW x \in X PROVE F[<<i, x>>] \in X
  <2>1. F[<<i, x>>] = IF w[i][1] = what THEN Append(x, w[i]) ELSE x
    BY <1>2
  <2>2. w[i] \in Range(w)
    BY <1>1
  <2>3. Append(x, w[i]) \in X
    BY <2>2
  <2> HIDE DEF X
  <2> QED
    BY <2>1, <2>3
<1> HIDE DEF n, X, none
<1>6. PICK f \in [0..n -> X] : RecursiveTo(f, n, none, F)
  <2>1. KeepsIn(F, n, X)
    BY <1>5 DEF KeepsIn
  <2> QED
    BY <1>1, <1>4, <2>1, RecursionTo
<1>7. f[0] = none
  BY <1>6 DEF RecursiveTo
<1>8. ASSUME NEW i \in 1..n PROVE f[i] = IF w[i][1] = what THEN Append(f[i - 1], w[i]) ELSE f[i - 1]
  <2>1. f[i] = F[<<i, f[i - 1]>>]
    BY <1>6 DEF RecursiveTo
  <2>2. f[i - 1] \in X
    <3>1. i - 1 \in 0..n
      BY <1>1
    <3> QED
      BY <1>6, <3>1
  <2> QED
    BY <1>2, <2>1, <2>2
<1>9. f = [i \in 0..n |-> IF i = 0 THEN none ELSE IF w[i][1] = what THEN Append(f[i - 1], w[i]) ELSE f[i - 1]]
  <2>1. f = [i \in 0..n |-> f[i]]
    BY <1>6
  <2>2. ASSUME NEW i \in 0..n
        PROVE  f[i] = IF i = 0 THEN none ELSE IF w[i][1] = what THEN Append(f[i - 1], w[i]) ELSE f[i - 1]
    <3>1. CASE i = 0
      BY <1>7, <3>1
    <3>2. CASE i # 0
      <4>1. i \in 1..n
        BY <1>1, <3>2
      <4> QED
        BY <1>8, <3>2, <4>1
    <3> QED
      BY <3>1, <3>2
  <2> QED
    BY <2>1, <2>2
<1>10. at = [i \in 0..Len(w) |-> IF i = 0 THEN <<>> ELSE IF w[i][1] = what THEN Append(at[i - 1], w[i]) ELSE at[i - 1]]
  BY <1>9 DEF at, n, none
<1> HIDE DEF at
<1>11. at[0] = <<>>
  BY <1>1, <1>10 DEF n
<1>12. \A i \in 1..n : at[i] = IF w[i][1] = what THEN Append(at[i - 1], w[i]) ELSE at[i - 1]
  <2> TAKE i \in 1..n
  <2>1. i \in 0..n /\ i # 0
    BY <1>1
  <2> QED
    BY <1>10, <2>1 DEF n
<1>13. \A i \in 0..n : at[i] \in X
  <2> DEFINE T == {i \in Nat : i <= n => at[i] \in X}
  <2>1. 0 \in T
    BY <1>4, <1>11 DEF none
  <2>2. ASSUME NEW i \in T PROVE i + 1 \in T
    <3> SUFFICES ASSUME i + 1 <= n PROVE at[i + 1] \in X
      OBVIOUS
    <3>1. i <= n /\ i + 1 \in 1..n /\ (i + 1) - 1 = i
      BY <1>1
    <3>2. at[i + 1] = IF w[i + 1][1] = what THEN Append(at[i], w[i + 1]) ELSE at[i]
      BY <1>12, <3>1
    <3>3. at[i] \in X /\ w[i + 1] \in Range(w)
      BY <1>1, <3>1
    <3>4. Append(at[i], w[i + 1]) \in X
      BY <3>3 DEF X
    <3> QED
      BY <3>2, <3>3, <3>4
  <2>3. T \in SUBSET Nat
    OBVIOUS
  <2> HIDE DEF T
  <2>4. T = Nat
    BY <2>1, <2>2, <2>3, Induct
  <2>5. \A i \in 0..n : i \in T /\ i <= n
    BY <1>1, <2>4
  <2> QED
    BY <2>5 DEF T
<1>14. Picks(at, w, what)
  BY <1>3, <1>11, <1>12, <1>13 DEF n, X, Picks
<1> QED
  BY <1>14

\* They are writes of that kind.
LEMMA OfsType ==
    ASSUME NEW w, IsSeq(w), NEW what
    PROVE  Ofs(w, what) \in Seq(Range(w)) /\ \A k \in DOMAIN Ofs(w, what) : Ofs(w, what)[k][1] = what
<1>1. PICK upTo : Picks(upTo, w, what)
  BY OfsIs
<1> USE DEF Picks
<1> DEFINE n == Len(w)
           Of(r) == \A k \in 1..Len(r) : r[k][1] = what
           T == {i \in Nat : i <= n => Of(upTo[i])}
<1>2. n \in Nat /\ \A i \in 1..n : w[i] \in Range(w)
  BY SeqDomain DEF Range
<1> HIDE DEF n
<1>3. 0 \in T
  BY <1>1
<1>4. ASSUME NEW i \in T PROVE i + 1 \in T
  <2> SUFFICES ASSUME i + 1 <= n PROVE Of(upTo[i + 1])
    OBVIOUS
  <2> DEFINE r == upTo[i]
             x == w[i + 1]
  <2>1. i <= n /\ i \in 0..n /\ i + 1 \in 1..n /\ (i + 1) - 1 = i
    BY <1>2
  <2>2. Of(r) /\ r \in Seq(Range(w)) /\ x \in Range(w)
    BY <1>1, <1>2, <2>1 DEF n
  <2>3. upTo[i + 1] = IF x[1] = what THEN Append(r, x) ELSE r
    BY <1>1, <2>1 DEF n
  <2> HIDE DEF r, x
  <2>4. x[1] = what => Of(Append(r, x))
    <3> SUFFICES ASSUME x[1] = what, NEW k \in 1..Len(Append(r, x)) PROVE Append(r, x)[k][1] = what
      OBVIOUS
    <3>1. Len(r) \in Nat /\ k \in 1..(Len(r) + 1)
      BY <2>2
    <3>2. CASE k = Len(r) + 1
      BY <2>2, <3>2
    <3>3. CASE k \in 1..Len(r)
      BY <2>2, <3>3
    <3> QED
      BY <3>1, <3>2, <3>3
  <2> QED
    BY <2>2, <2>3, <2>4
<1>5. T \in SUBSET Nat
  OBVIOUS
<1> HIDE DEF T
<1>6. T = Nat
  BY <1>3, <1>4, <1>5, Induct
<1>7. n \in T /\ n <= n /\ n \in 0..n
  BY <1>2, <1>6
<1>8. Of(upTo[n]) /\ upTo[n] \in Seq(Range(w))
  BY <1>1, <1>7 DEF T, n
<1>9. upTo[n] = Ofs(w, what)
  BY <1>1 DEF n
<1> QED
  BY <1>8, <1>9

\* There are none, or it is the only one.
LEMMA OfsFew ==
    ASSUME NEW w, IsSeq(w), NEW what
    PROVE  /\ (\A i \in 1..Len(w) : w[i][1] # what) => Ofs(w, what) = <<>>
           /\ \A k \in 1..Len(w) : w[k][1] = what /\ (\A i \in 1..Len(w) : w[i][1] = what => i = k)
                                   => Ofs(w, what) = <<w[k]>>
<1>1. PICK upTo : Picks(upTo, w, what)
  BY OfsIs
<1> USE DEF Picks
<1> DEFINE n == Len(w)
           none == <<>>
<1>2. n \in Nat
  BY SeqDomain
<1>3. /\ Ofs(w, what) = upTo[n] /\ upTo[0] = none
      /\ \A i \in 1..n : upTo[i] = IF w[i][1] = what THEN Append(upTo[i - 1], w[i]) ELSE upTo[i - 1]
  BY <1>1
<1> HIDE DEF n, none
<1>4. ASSUME \A i \in 1..n : w[i][1] # what PROVE Ofs(w, what) = none
  <2> DEFINE T == {i \in Nat : i <= n => upTo[i] = none}
  <2>1. 0 \in T
    BY <1>3
  <2>2. ASSUME NEW i \in T PROVE i + 1 \in T
    <3> SUFFICES ASSUME i + 1 <= n PROVE upTo[i + 1] = none
      OBVIOUS
    <3>1. i <= n /\ i + 1 \in 1..n /\ (i + 1) - 1 = i
      BY <1>2
    <3> QED
      BY <1>3, <1>4, <3>1
  <2>3. T \in SUBSET Nat
    OBVIOUS
  <2> HIDE DEF T
  <2>4. T = Nat
    BY <2>1, <2>2, <2>3, Induct
  <2>5. n \in T /\ n <= n
    BY <1>2, <2>4
  <2> QED
    BY <1>3, <2>5 DEF T
<1>5. ASSUME NEW k \in 1..n, w[k][1] = what, \A i \in 1..n : w[i][1] = what => i = k
      PROVE  Ofs(w, what) = <<w[k]>>
  <2> DEFINE one == <<w[k]>>
             T == {i \in Nat : i <= n => upTo[i] = IF i < k THEN none ELSE one}
  <2>1. 0 \in T
    BY <1>2, <1>3
  <2>2. Append(none, w[k]) = one
    BY DEF none
  <2> HIDE DEF one
  <2>3. ASSUME NEW i \in T PROVE i + 1 \in T
    <3> SUFFICES ASSUME i + 1 <= n PROVE upTo[i + 1] = IF i + 1 < k THEN none ELSE one
      OBVIOUS
    <3>1. i <= n /\ i + 1 \in 1..n /\ (i + 1) - 1 = i
      BY <1>2
    <3>2. upTo[i + 1] = IF w[i + 1][1] = what THEN Append(upTo[i], w[i + 1]) ELSE upTo[i]
      BY <1>3, <3>1
    <3>3. upTo[i] = IF i < k THEN none ELSE one
      BY <3>1
    <3>4. CASE i + 1 = k
      <4>1. w[i + 1][1] = what /\ w[i + 1] = w[k]
        BY <1>5, <3>4
      <4>2. i < k /\ ~ (i + 1 < k)
        BY <1>2, <3>1, <3>4
      <4>3. upTo[i] = none
        BY <3>3, <4>2
      <4>4. upTo[i + 1] = one
        BY <2>2, <3>2, <4>1, <4>3
      <4> QED
        BY <4>2, <4>4
    <3>5. CASE i + 1 # k
      <4>1. w[i + 1][1] # what
        BY <1>5, <3>1, <3>5
      <4>2. (i < k) <=> (i + 1 < k)
        BY <1>2, <3>1, <3>5
      <4> QED
        BY <3>2, <3>3, <4>1, <4>2
    <3> QED
      BY <3>4, <3>5
  <2>4. T \in SUBSET Nat
    OBVIOUS
  <2> HIDE DEF T
  <2>5. T = Nat
    BY <2>1, <2>3, <2>4, Induct
  <2>6. n \in T /\ n <= n /\ ~ (n < k)
    BY <1>2, <2>5
  <2> QED
    BY <1>3, <2>6 DEF T, one
<1> QED
  BY <1>4, <1>5 DEF n, none

\* What follows another write and is all of one kind is picked whole.
LEMMA OfsOfList ==
    ASSUME NEW t, IsSeq(t), NEW what, \A k \in 1..Len(t) : t[k][1] = what, NEW x, x[1] # what
    PROVE  Ofs(<<x>> \o t, what) = t
<1> DEFINE w == <<x>> \o t
           n == Len(t)
<1>1. n \in Nat /\ t = [i \in 1..n |-> t[i]]
  BY SeqDomain DEF IsSeq
<1>2. IsSeq(w)
  <2>1. IsSeq(<<x>>)
    BY TupleSeq
  <2> QED
    BY <2>1, ConcatSeq
<1>3. Len(w) = n + 1 /\ w[1] = x /\ \A i \in 1..n : w[i + 1] = t[i]
  <2> DEFINE S == Range(t) \cup {x}
  <2>1. t \in Seq(S) /\ <<x>> \in Seq(S)
    BY SeqMonotonic DEF IsSeq
  <2> HIDE DEF S
  <2>2. /\ Len(<<x>> \o t) = Len(<<x>>) + Len(t)
        /\ \A i \in 1..(Len(<<x>>) + Len(t)) :
              (<<x>> \o t)[i] = IF i <= Len(<<x>>) THEN <<x>>[i] ELSE t[i - Len(<<x>>)]
    BY <2>1, ConcatProperties
  <2>3. Len(<<x>>) = 1 /\ <<x>>[1] = x
    OBVIOUS
  <2>4. Len(w) = n + 1 /\ w[1] = x
    BY <1>1, <2>2, <2>3
  <2>5. ASSUME NEW i \in 1..n PROVE w[i + 1] = t[i]
    <3>1. i + 1 \in 1..(1 + n) /\ ~ (i + 1 <= 1) /\ (i + 1) - 1 = i
      BY <1>1
    <3> QED
      BY <2>2, <2>3, <3>1
  <2> QED
    BY <2>4, <2>5
<1> HIDE DEF w, n
<1>4. PICK upTo : Picks(upTo, w, what)
  BY <1>2, OfsIs
<1> USE DEF Picks
<1>5. /\ Ofs(w, what) = upTo[n + 1] /\ upTo[1] = <<>>
      /\ \A i \in 1..n : upTo[i + 1] = Append(upTo[i], t[i])
  <2>1. 1 \in 1..(n + 1) /\ 1 - 1 = 0
    BY <1>1
  <2>2. upTo[1] = upTo[0]
    BY <1>3, <1>4, <2>1
  <2>3. ASSUME NEW i \in 1..n PROVE upTo[i + 1] = Append(upTo[i], t[i])
    <3>1. i + 1 \in 1..(n + 1) /\ (i + 1) - 1 = i /\ t[i][1] = what
      BY <1>1 DEF n
    <3> QED
      BY <1>3, <1>4, <3>1
  <2> QED
    BY <1>3, <1>4, <2>2, <2>3
<1> DEFINE Begins(r, i) == /\ r \in Seq(Range(w)) /\ Len(r) = i
                           /\ \A k \in 1..i : r[k] = t[k]
           T == {i \in Nat : i <= n => Begins(upTo[i + 1], i)}
<1>6. 0 \in T
  <2>1. 0 + 1 = 1 /\ Begins(<<>>, 0)
    OBVIOUS
  <2>2. Begins(upTo[0 + 1], 0)
    BY <1>5, <2>1
  <2> QED
    BY <2>2
<1>7. ASSUME NEW i \in T PROVE i + 1 \in T
  <2> SUFFICES ASSUME i + 1 <= n PROVE Begins(upTo[(i + 1) + 1], i + 1)
    OBVIOUS
  <2> DEFINE r == upTo[i + 1]
             y == t[i + 1]
  <2>1. i \in Nat /\ i <= n /\ i + 1 \in 1..n
    BY <1>1
  <2>2. Begins(r, i)
    BY <2>1
  <2>3. upTo[(i + 1) + 1] = Append(r, y)
    BY <1>5, <2>1
  <2>4. y \in Range(w)
    <3>1. y = w[(i + 1) + 1] /\ (i + 1) + 1 \in DOMAIN w
      BY <1>1, <1>2, <1>3, <2>1, SeqDomain
    <3> QED
      BY <3>1 DEF Range
  <2>5. y = t[i + 1]
    OBVIOUS
  <2> HIDE DEF r, y
  <2>6. Append(r, y) \in Seq(Range(w)) /\ Len(Append(r, y)) = i + 1
    BY <2>2, <2>4
  <2>7. ASSUME NEW k \in 1..(i + 1) PROVE Append(r, y)[k] = t[k]
    <3>1. CASE k = i + 1
      BY <2>1, <2>2, <2>5, <3>1
    <3>2. CASE k # i + 1
      <4>1. k \in 1..i
        BY <2>1, <3>2
      <4> QED
        BY <2>1, <2>2, <4>1
    <3> QED
      BY <3>1, <3>2
  <2> QED
    BY <2>3, <2>6, <2>7
<1>8. T \in SUBSET Nat
  OBVIOUS
<1> HIDE DEF T
<1>9. T = Nat
  BY <1>6, <1>7, <1>8, Induct
<1> DEFINE r == upTo[n + 1]
<1>10. Begins(r, n)
  <2>1. n \in T /\ n <= n
    BY <1>1, <1>9
  <2> QED
    BY <2>1 DEF T
<1> HIDE DEF r
<1>11. r = [i \in 1..n |-> r[i]]
  BY <1>1, <1>10
<1>12. r = t
  BY <1>1, <1>10, <1>11
<1> QED
  BY <1>5, <1>12 DEF r, w

\* The least of some numbers.
LEMMA MinIs ==
    ASSUME NEW S \in SUBSET Nat, NEW m \in S, \A x \in S : m <= x
    PROVE  Min(S) = m
<1>1. \A y \in S : (\A x \in S : y <= x) => y = m
  OBVIOUS
<1> QED
  BY <1>1 DEF Min

\* A response that sets its status once and before its text is served as the
\* recorder replays it.
LEMMA ReplayAgrees ==
    ASSUME NEW w, IsSeq(w), Orderly(w)
    PROVE  Served(Captured(w)) = Served(w)
<1> DEFINE texts == Ofs(w, "text")
           all == Ofs(w, "status")
           status == IF all = <<>> THEN 200 ELSE Last(all)[2]
           first == <<"status", status>>
           c == <<first>> \o texts
           n == Len(w)
           m == Len(texts)
           sets == {i \in DOMAIN w : w[i][1] = "status"}
           starts == {i \in DOMAIN w : w[i][1] \in {"status", "text"}}
<1>1. n \in Nat /\ DOMAIN w = 1..n
  BY SeqDomain
<1>2. IsSeq(texts) /\ m \in Nat /\ DOMAIN texts = 1..m /\ \A k \in 1..m : texts[k][1] = "text"
  BY OfsType, SeqIsSeq, SeqDomain
<1>3. Captured(w) = c
  BY DEF Captured
<1>4. first[1] = "status" /\ first[2] = status
  OBVIOUS
<1> HIDE DEF first, status
<1>5. IsSeq(c) /\ Len(c) = m + 1 /\ DOMAIN c = 1..(m + 1) /\ c[1] = first
  <2>1. IsSeq(<<first>>) /\ IsSeq(texts)
    BY <1>2, TupleSeq
  <2>2. IsSeq(c)
    BY <2>1, ConcatSeq
  <2> DEFINE S == Range(texts) \cup {first}
  <2>3. texts \in Seq(S) /\ <<first>> \in Seq(S)
    BY <1>2, SeqMonotonic DEF IsSeq
  <2> HIDE DEF S, texts
  <2>4. Len(c) = 1 + m /\ c[1] = first
    BY <1>2, <2>3
  <2> QED
    BY <1>2, <2>2, <2>4, SeqDomain
<1>6. Served(c) = [status |-> status, text |-> Second(texts)]
  <2> DEFINE begins == {i \in DOMAIN c : c[i][1] \in {"status", "text"}}
  <2>1. Ofs(c, "text") = texts
    <3> HIDE DEF texts
    <3> QED
      BY <1>2, <1>4, OfsOfList
  <2> HIDE DEF c, texts
  <2>2. 1 \in begins /\ begins \in SUBSET Nat /\ \A x \in begins : 1 <= x
    BY <1>2, <1>4, <1>5
  <2>3. begins # {} /\ Min(begins) = 1
    BY <2>2, MinIs
  <2>4. c[Min(begins)][1] # "text" /\ c[Min(begins)][2] = status
    BY <1>4, <1>5, <2>3
  <2> HIDE DEF begins
  <2>5. (IF begins = {} \/ c[Min(begins)][1] = "text" THEN 200 ELSE c[Min(begins)][2]) = status
    <3>1. ~ (begins = {} \/ c[Min(begins)][1] = "text")
      BY <2>3, <2>4
    <3> QED
      BY <2>4, <3>1
  <2>6. Served(c) = [status |-> IF begins = {} \/ c[IF begins = {} THEN 0 ELSE Min(begins)][1] = "text" THEN 200
                               ELSE c[IF begins = {} THEN 0 ELSE Min(begins)][2],
                     text   |-> Second(texts)]
    BY <2>1 DEF Served, begins
  <2> QED
    BY <2>3, <2>5, <2>6
<1>7. (IF starts = {} \/ w[Min(starts)][1] = "text" THEN 200 ELSE w[Min(starts)][2]) = status
  <2> HIDE DEF texts, c
  <2>1. \A i, j \in sets : i = j
    <3>1. IsFiniteSet(sets)
      <4>1. sets \subseteq 1..n /\ IsFiniteSet(1..n)
        BY <1>1, FS_Interval
      <4> HIDE DEF sets
      <4> QED
        BY <4>1, FS_Subset
    <3>2. Cardinality(sets) <= 1
      BY DEF Orderly
    <3>3. ASSUME NEW i \in sets, NEW j \in sets, i # j PROVE FALSE
      <4> HIDE DEF sets
      <4>1. IsFiniteSet({i, j}) /\ Cardinality({i, j}) = 2
        <5>1. IsFiniteSet({i}) /\ Cardinality({i}) = 1 /\ j \notin {i} /\ {i} \cup {j} = {i, j}
          BY <3>3, FS_Singleton
        <5>2. IsFiniteSet({i} \cup {j}) /\ Cardinality({i} \cup {j}) = 2
          BY <5>1, FS_AddElement
        <5> QED
          BY <5>1, <5>2
      <4>2. Cardinality({i, j}) <= Cardinality(sets)
        <5>1. {i, j} \subseteq sets
          BY <3>3
        <5> QED
          BY <3>1, <5>1, FS_Subset
      <4>3. Cardinality(sets) \in Nat
        BY <3>1, FS_CardinalityType
      <4> QED
        BY <3>2, <4>1, <4>2, <4>3
    <3> QED
      BY <3>3
  <2>2. CASE sets = {}
    <3>1. all = <<>>
      <4>1. \A i \in 1..n : w[i][1] # "status"
        BY <1>1, <2>2
      <4> QED
        BY <4>1, OfsFew
    <3>2. status = 200
      BY <3>1 DEF status
    <3>3. CASE starts = {}
      BY <3>2, <3>3
    <3>4. CASE starts # {}
      <4>1. PICK k \in starts : \A x \in starts : k <= x
        <5>1. starts \in SUBSET Nat
          BY <1>1
        <5> HIDE DEF starts
        <5> QED
          BY <3>4, <5>1, Least
      <4>2. Min(starts) = k
        <5>1. starts \in SUBSET Nat
          BY <1>1
        <5> HIDE DEF starts
        <5> QED
          BY <4>1, <5>1, MinIs
      <4>3. w[k][1] = "text"
        BY <2>2, <4>1
      <4> QED
        BY <3>2, <4>2, <4>3
    <3> QED
      BY <3>3, <3>4
  <2>3. CASE sets # {}
    <3>1. PICK k \in 1..n : k \in sets
      BY <1>1, <2>3
    <3>2. all = <<w[k]>>
      <4>1. w[k][1] = "status" /\ \A i \in 1..n : w[i][1] = "status" => i = k
        BY <1>1, <2>1, <3>1
      <4> QED
        BY <4>1, OfsFew
    <3>3. status = w[k][2]
      <4>1. Len(<<w[k]>>) = 1 /\ <<w[k]>>[1] = w[k] /\ <<w[k]>> # <<>>
        OBVIOUS
      <4> QED
        BY <3>2, <4>1 DEF status, Last
    <3>4. \A x \in starts : k <= x
      <4> SUFFICES ASSUME NEW x \in starts PROVE k <= x
        OBVIOUS
      <4>1. CASE w[x][1] = "status"
        BY <1>1, <2>1, <3>1, <4>1
      <4>2. CASE w[x][1] = "text"
        <5>1. k < x
          BY <3>1, <4>2 DEF Orderly
        <5> QED
          BY <1>1, <5>1
      <4> QED
        BY <4>1, <4>2
    <3>5. k \in starts /\ starts \in SUBSET Nat
      BY <1>1, <3>1
    <3>6. Min(starts) = k /\ starts # {}
      <4> HIDE DEF starts
      <4> QED
        BY <3>4, <3>5, MinIs
    <3>7. w[k][1] # "text"
      BY <3>1
    <3> QED
      BY <3>3, <3>6, <3>7
  <2> QED
    BY <2>2, <2>3
<1>8. Served(w) = [status |-> status, text |-> Second(texts)]
  <2> HIDE DEF starts, status, c
  <2>1. Served(w) = [status |-> IF starts = {} \/ w[IF starts = {} THEN 0 ELSE Min(starts)][1] = "text" THEN 200
                               ELSE w[IF starts = {} THEN 0 ELSE Min(starts)][2],
                     text   |-> Second(texts)]
    BY DEF Served, starts
  <2> QED
    BY <1>7, <2>1
<1> QED
  BY <1>3, <1>6, <1>8

-----------------------------------------------------------------------------
(* The builder. *)

IsBuilt == stage \notin {"building", "failed"}

\* The calls up to made have been made, and BuildServer is one of them unless the
\* server is still being built.
Counted ==
    /\ setup \in Setups /\ made \in 0..Len(setup.script)
    /\ stage = "building" => \A i \in 1..made : setup.script[i].do # "build"
    /\ IsBuilt => /\ BuiltAt \in 1..made
                  /\ setup.script[BuiltAt].do = "build"
                  /\ \A j \in 1..(BuiltAt - 1) : setup.script[j].do # "build"

\* The map of the document has what was added ...
PathsKept ==
    /\ IsFiniteSet(DOMAIN paths) /\ DOMAIN paths \subseteq Templates
    /\ \A t \in DOMAIN paths : "ops" \in DOMAIN paths[t]
    /\ stage = "building" /\ ~faulty =>
          \A i \in 1..made : LET e == setup.script[i] IN
              e.do = "add" => e.path \in DOMAIN paths /\ Field(e.method) \in DOMAIN paths[e.path].ops

\* ... and the map of the handlers what was registered and not withdrawn.
HandlersKept ==
    /\ \A k \in DOMAIN handlers : IsHandler(handlers[k])
    /\ stage = "building" =>
          \A i \in 1..made : LET e == setup.script[i] IN
              /\ Registers(e, e.path, e.method)
              /\ \A j \in (i + 1)..made : ~Withdraws(setup.script[j], e.path, e.method)
              => /\ <<e.path, e.method>> \in DOMAIN handlers
                 /\ handlers[<<e.path, e.method>>] # NoHandler

\* The server has them as they were when it was built: an operation of the document
\* is its route's, unless it was set later.
RoutesFixed ==
    IsBuilt =>
        /\ IsFiniteSet(server.templates) /\ server.templates \subseteq DOMAIN paths
        /\ \A k \in DOMAIN server.routes :
              /\ k[1] \in server.templates
              /\ IsHandler(server.routes[k].handler)
              /\ \A p, m : k = <<p, m>> /\ Registered(p, m) => server.routes[k].handler # NoHandler
        /\ \A i \in 1..(BuiltAt - 1) : LET e == setup.script[i] IN
              e.do = "add" /\ Field(e.method) \in Methods => <<e.path, Field(e.method)>> \in DOMAIN server.routes
        /\ \A t \in DOMAIN paths : \A m \in Methods \cap DOMAIN paths[t].ops :
              \/ <<t, m>> \in DOMAIN server.routes /\ server.routes[<<t, m>>].op = paths[t].ops[m]
              \/ \E i \in (BuiltAt + 1)..made : LET e == setup.script[i] IN
                    e.do = "add" /\ e.path = t /\ Field(e.method) = m

BuildInv == Counted /\ PathsKept /\ HandlersKept /\ RoutesFixed

-----------------------------------------------------------------------------
(* The request. *)

Before  == {"building", "failed", "idle"}
Judged  == {"path", "query", "header", "cookie", "body", "judged"}
Passed  == {"routing", "dispatching", "handling", "panicked"}
Key     == <<RoutePath, request.method>>
HasRoute == Key \in DOMAIN server.routes /\ server.routes[Key].handler # NoHandler

\* It is judged by the operation of the document its path and method name, and
\* goes on only when nothing speaks against it.
JudgedRightly ==
    /\ stage \notin Before => {"method", "path"} \subseteq DOMAIN request /\ request.method = call.method
    /\ stage \notin Before \cup {"sent"} =>
          /\ {"op", "errors"} \subseteq DOMAIN result
          /\ result.op = GetOperation(Document, Template, request.method)
          /\ Judging /\ result.op = NoOperation => result.errors # {}
    /\ stage \in Judged => Judging
    /\ stage \in Passed /\ Judging => ~Refuses

\* A handler has it once its route was found, and nothing else answers then.
HandledRightly ==
    /\ stage \in Before \cup Judged \cup {"sent", "routing", "dispatching"} => seen = NotYet
    /\ stage \in {"handling", "panicked"} => seen # NotYet
    /\ stage \notin Before /\ seen # NotYet => HasRoute /\ seen.path = RoutePath /\ seen.id = server.routes[Key].op.id
    /\ stage = "panicked" => Handler.kind = "panics"
    /\ stage = "answered" /\ seen # NotYet /\ Handler.kind = "http" => reply = Served(Captured(Handler.writes))
    /\ stage = "answered" /\ seen = NotYet /\ ~(Judging /\ Refuses) => RoutePath = NoMatch \/ ~HasRoute

ServerInv == BuildInv /\ JudgedRightly /\ HandledRightly

-----------------------------------------------------------------------------
(* The steps of the builder. *)

\* The script is a sequence of calls whose templates and handlers are in order.
LEMMA ScriptType ==
    ASSUME Counted
    PROVE  /\ Len(setup.script) \in Nat /\ DOMAIN setup.script = 1..Len(setup.script)
           /\ \A i \in 1..Len(setup.script) :
                 LET e == setup.script[i]
                 IN  /\ e.do = "add" => e.path \in Templates
                     /\ e.do \in {"add", "handle"} => IsHandler(e.handler)
<1> DEFINE s == setup.script
<1>1. setup \in Setups /\ s \in Seq(Range(s))
  BY ScriptsAssumption DEF Counted
<1>2. Len(s) \in Nat /\ DOMAIN s = 1..Len(s) /\ \A i \in 1..Len(s) : s[i] \in Range(s)
  BY <1>1 DEF Range
<1>3. ASSUME NEW i \in 1..Len(s), s[i].do = "add" PROVE s[i].path \in Templates
  BY <1>1, <1>2, <1>3 DEF Templates
<1>4. ASSUME NEW i \in 1..Len(s), s[i].do \in {"add", "handle"} PROVE IsHandler(s[i].handler)
  BY <1>1, <1>2, <1>4, ScriptsAssumption
<1> QED
  BY <1>2, <1>3, <1>4

LEMMA InitBuild == Init => BuildInv
<1> SUFFICES ASSUME Init PROVE BuildInv
  OBVIOUS
<1>1. DOMAIN paths = {} /\ DOMAIN handlers = {} /\ made = 0 /\ stage = "building" /\ setup \in Setups
  BY DEF Init
<1>2. Len(setup.script) \in Nat
  BY <1>1, ScriptsAssumption
<1>3. Counted
  BY <1>1, <1>2 DEF Counted, IsBuilt
<1>4. PathsKept
  BY <1>1, FS_EmptySet DEF PathsKept
<1>5. HandlersKept
  BY <1>1 DEF HandlersKept
<1>6. RoutesFixed
  BY <1>1 DEF RoutesFixed, IsBuilt
<1> QED
  BY <1>3, <1>4, <1>5, <1>6 DEF BuildInv

\* The first call of BuildServer is where it is, and so are the registrations.
LEMMA SameScript ==
    ASSUME setup' = setup
    PROVE  BuiltAt' = BuiltAt /\ \A p, m : Registered(p, m)' <=> Registered(p, m)
<1>1. BuiltAt' = BuiltAt
  BY DEF BuiltAt
<1> QED
  BY <1>1 DEF Registered

\* A step that leaves the builder alone.
LEMMA ElseBuild ==
    ASSUME BuildInv, UNCHANGED builderVars, IsBuilt' => IsBuilt, stage' = "building" => stage = "building"
    PROVE  BuildInv'
<1> USE DEF BuildInv, builderVars
<1>1. BuiltAt' = BuiltAt /\ \A p, m : Registered(p, m)' <=> Registered(p, m)
  BY SameScript
<1>2. Counted'
  BY <1>1 DEF Counted
<1>3. PathsKept'
  BY DEF PathsKept
<1>4. HandlersKept'
  BY DEF HandlersKept
<1>5. RoutesFixed'
  BY <1>1 DEF RoutesFixed
<1> QED
  BY <1>2, <1>3, <1>4, <1>5

\* What AddOperation does to the map of the document.
LEMMA AddedPaths ==
    ASSUME BuildInv, AddOperation, NEW e, e = setup.script[made + 1]
    PROVE  /\ e.do = "add" /\ e.path \in Templates
           /\ DOMAIN paths' = DOMAIN paths \cup {e.path}
           /\ \A t \in DOMAIN paths : t # e.path => paths'[t] = paths[t]
           /\ "ops" \in DOMAIN paths'[e.path]
           /\ Supported(e.method) => Field(e.method) \in DOMAIN paths'[e.path].ops
           /\ \A m \in DOMAIN paths'[e.path].ops :
                 \/ m = Field(e.method)
                 \/ /\ e.path \in DOMAIN paths /\ m \in DOMAIN paths[e.path].ops
                    /\ paths'[e.path].ops[m] = paths[e.path].ops[m]
           /\ e.path \in DOMAIN paths => DOMAIN paths[e.path].ops \subseteq DOMAIN paths'[e.path].ops
<1> DEFINE item == IF e.path \in DOMAIN paths THEN paths[e.path] ELSE NoItem
           ops  == item.ops
           key  == Field(e.method)
           op   == Operation(e.op)
           put  == Put(ops, key, op)
           new  == IF Supported(e.method) THEN [item EXCEPT !.ops = put] ELSE item
<1>1. e.do = "add" /\ paths' = Put(paths, e.path, new)
  BY DEF AddOperation, Due, ThisCall
<1>2. e.path \in Templates
  <2>1. made + 1 \in 1..Len(setup.script)
    BY ScriptType DEF BuildInv, AddOperation, Due, Counted
  <2> QED
    BY <1>1, <2>1, ScriptType DEF BuildInv
<1>3. "ops" \in DOMAIN item /\ (e.path \notin DOMAIN paths => DOMAIN ops = {})
  BY DEF BuildInv, PathsKept, NoItem
<1>5. e.path \in DOMAIN paths => ops = paths[e.path].ops
  OBVIOUS
<1>6. "ops" \in DOMAIN new /\ new.ops = IF Supported(e.method) THEN put ELSE ops
  <2> HIDE DEF put
  <2>1. ops = item.ops
    OBVIOUS
  <2> HIDE DEF item, ops
  <2> QED
    BY <1>3, <2>1
<1> HIDE DEF new
<1>7. DOMAIN paths' = DOMAIN paths \cup {e.path} /\ paths'[e.path] = new
      /\ \A t \in DOMAIN paths : t # e.path => paths'[t] = paths[t]
  BY <1>1 DEF Put
<1> HIDE DEF item, ops, op
<1>4. DOMAIN put = DOMAIN ops \cup {key} /\ \A m \in DOMAIN ops : m # key => put[m] = ops[m]
  <2> HIDE DEF key
  <2> QED
    BY DEF Put
<1> HIDE DEF put
<1>8. \A m \in DOMAIN new.ops : m = key \/ (m \in DOMAIN ops /\ new.ops[m] = ops[m])
  <2> HIDE DEF key
  <2> QED
    BY <1>4, <1>6
<1>9. DOMAIN ops \subseteq DOMAIN new.ops /\ (Supported(e.method) => key \in DOMAIN new.ops)
  BY <1>4, <1>6
<1>10. \A m \in DOMAIN paths'[e.path].ops :
          \/ m = Field(e.method)
          \/ /\ e.path \in DOMAIN paths /\ m \in DOMAIN paths[e.path].ops
             /\ paths'[e.path].ops[m] = paths[e.path].ops[m]
  <2> SUFFICES ASSUME NEW m \in DOMAIN new.ops, m # Field(e.method)
               PROVE  /\ e.path \in DOMAIN paths /\ m \in DOMAIN paths[e.path].ops
                      /\ new.ops[m] = paths[e.path].ops[m]
    BY <1>7
  <2>1. m \in DOMAIN ops /\ new.ops[m] = ops[m]
    BY <1>8
  <2> QED
    BY <1>3, <1>5, <2>1
<1> QED
  BY <1>1, <1>2, <1>5, <1>6, <1>7, <1>9, <1>10

\* What a registration does to the map of the handlers.
LEMMA HandlersStep ==
    ASSUME BuildInv, NEW e, e = setup.script[made + 1], made + 1 \in 1..Len(setup.script),
           e.do \in {"add", "handle"}, made' = made + 1, setup' = setup, stage' = stage,
           IF e.do = "add" /\ e.handler = NoHandler THEN UNCHANGED handlers
           ELSE RegisterHandler(e.path, e.method, e.handler)
    PROVE  HandlersKept'
<1> DEFINE k == <<e.path, e.method>>
<1>1. made \in Nat /\ IsHandler(e.handler)
  BY ScriptType DEF BuildInv, Counted
<1>2. HandlersKept
  BY DEF BuildInv
<1>3. CASE e.do = "add" /\ e.handler = NoHandler
  <2>1. handlers' = handlers
    BY <1>3
  <2>2. ASSUME stage = "building", NEW i \in 1..(made + 1),
               Registers(setup.script[i], setup.script[i].path, setup.script[i].method),
               \A j \in (i + 1)..(made + 1) : ~Withdraws(setup.script[j], setup.script[i].path, setup.script[i].method)
        PROVE  /\ <<setup.script[i].path, setup.script[i].method>> \in DOMAIN handlers
               /\ handlers[<<setup.script[i].path, setup.script[i].method>>] # NoHandler
    <3>1. i # made + 1
      BY <1>3, <2>2 DEF Registers
    <3>2. i \in 1..made /\ \A j \in (i + 1)..made : j \in (i + 1)..(made + 1)
      BY <1>1, <3>1
    <3> QED
      BY <1>2, <2>2, <3>2 DEF HandlersKept
  <2>3. \A x \in DOMAIN handlers' : IsHandler(handlers'[x])
    BY <1>2, <2>1 DEF HandlersKept
  <2>4. made' = made + 1 /\ setup' = setup /\ stage' = stage
    OBVIOUS
  <2> QED
    BY <2>1, <2>2, <2>3, <2>4 DEF HandlersKept
<1>4. CASE ~ (e.do = "add" /\ e.handler = NoHandler)
  <2>1. /\ DOMAIN handlers' = DOMAIN handlers \cup {k} /\ handlers'[k] = e.handler
        /\ \A x \in DOMAIN handlers : x # k => handlers'[x] = handlers[x]
    <3>1. handlers' = Put(handlers, k, e.handler)
      BY <1>4 DEF RegisterHandler
    <3> HIDE DEF k
    <3> QED
      BY <3>1 DEF Put
  <2> HIDE DEF k
  <2>2. \A x \in DOMAIN handlers' : IsHandler(handlers'[x])
    BY <1>1, <1>2, <2>1 DEF HandlersKept
  <2>3. ASSUME stage = "building", NEW i \in 1..(made + 1),
               Registers(setup.script[i], setup.script[i].path, setup.script[i].method),
               \A j \in (i + 1)..(made + 1) : ~Withdraws(setup.script[j], setup.script[i].path, setup.script[i].method)
        PROVE  /\ <<setup.script[i].path, setup.script[i].method>> \in DOMAIN handlers'
               /\ handlers'[<<setup.script[i].path, setup.script[i].method>>] # NoHandler
    <3> DEFINE x == <<setup.script[i].path, setup.script[i].method>>
    <3>1. CASE i = made + 1
      <4>1. x = k /\ e.handler # NoHandler
        BY <2>3, <3>1 DEF Registers, k
      <4> QED
        BY <2>1, <4>1
    <3>2. CASE i # made + 1
      <4>1. i \in 1..made /\ made + 1 \in (i + 1)..(made + 1) /\ \A j \in (i + 1)..made : j \in (i + 1)..(made + 1)
        BY <1>1, <3>2
      <4>2. x \in DOMAIN handlers /\ handlers[x] # NoHandler
        BY <1>2, <2>3, <4>1 DEF HandlersKept
      <4>3. x = k => e.handler # NoHandler
        <5>1. ~Withdraws(e, setup.script[i].path, setup.script[i].method)
          BY <2>3, <4>1
        <5> QED
          BY <1>4, <5>1 DEF Withdraws, k
      <4> QED
        BY <2>1, <4>2, <4>3
    <3> QED
      BY <3>1, <3>2
  <2> QED
    BY <2>2, <2>3 DEF HandlersKept
<1> QED
  BY <1>3, <1>4
\* An operation the builder adds is in the document; if the server was built
\* before, the call is one of the late ones.
LEMMA AddBuild == BuildInv /\ AddOperation => BuildInv'
<1> SUFFICES ASSUME BuildInv, AddOperation PROVE BuildInv'
  OBVIOUS
<1> DEFINE e == setup.script[made + 1]
<1>1. /\ made' = made + 1 /\ setup' = setup /\ stage' = stage /\ server' = server /\ made + 1 \in 1..Len(setup.script)
      /\ e.do = "add" /\ made \in Nat
      /\ IF e.handler = NoHandler THEN UNCHANGED handlers ELSE RegisterHandler(e.path, e.method, e.handler)
  BY ScriptType DEF BuildInv, AddOperation, Due, Counted, ThisCall
<1>2. /\ e.path \in Templates
      /\ DOMAIN paths' = DOMAIN paths \cup {e.path}
      /\ \A t \in DOMAIN paths : t # e.path => paths'[t] = paths[t]
      /\ "ops" \in DOMAIN paths'[e.path]
      /\ Supported(e.method) => Field(e.method) \in DOMAIN paths'[e.path].ops
      /\ \A m \in DOMAIN paths'[e.path].ops :
            \/ m = Field(e.method)
            \/ /\ e.path \in DOMAIN paths /\ m \in DOMAIN paths[e.path].ops
               /\ paths'[e.path].ops[m] = paths[e.path].ops[m]
      /\ e.path \in DOMAIN paths => DOMAIN paths[e.path].ops \subseteq DOMAIN paths'[e.path].ops
  BY AddedPaths
<1>8. ~faulty' => ~faulty /\ Supported(e.method)
  BY Zenon DEF AddOperation, ThisCall
<1>3. HandlersKept'
  BY <1>1, HandlersStep
<1>4. BuiltAt' = BuiltAt /\ \A p, m : Registered(p, m)' <=> Registered(p, m)
  BY <1>1, SameScript
<1> HIDE DEF e
<1>5. Counted'
  <2>1. \A i \in 1..(made + 1) : i \in 1..made \/ i = made + 1
    BY <1>1
  <2>2. stage = "building" => \A i \in 1..(made + 1) : setup.script[i].do # "build"
    BY <1>1, <2>1 DEF BuildInv, Counted, e
  <2>3. IsBuilt => BuiltAt \in 1..(made + 1)
    BY <1>1 DEF BuildInv, Counted
  <2> QED
    BY <1>1, <1>4, <2>2, <2>3 DEF BuildInv, Counted, IsBuilt
<1>6. PathsKept'
  <2>1. IsFiniteSet(DOMAIN paths')
    BY <1>2, FS_AddElement DEF BuildInv, PathsKept
  <2>2. DOMAIN paths' \subseteq Templates /\ \A t \in DOMAIN paths' : "ops" \in DOMAIN paths'[t]
    BY <1>2 DEF BuildInv, PathsKept
  <2>3. ASSUME stage = "building", ~faulty', NEW i \in 1..(made + 1), setup.script[i].do = "add"
        PROVE  /\ setup.script[i].path \in DOMAIN paths'
               /\ Field(setup.script[i].method) \in DOMAIN paths'[setup.script[i].path].ops
    <3> DEFINE x == setup.script[i]
    <3>1. CASE i = made + 1
      <4>1. x = e /\ Supported(e.method)
        BY <1>8, <2>3, <3>1 DEF e
      <4> QED
        BY <1>2, <4>1
    <3>2. CASE i # made + 1
      <4>1. i \in 1..made
        BY <1>1, <3>2
      <4>2. x.path \in DOMAIN paths /\ Field(x.method) \in DOMAIN paths[x.path].ops
        BY <1>8, <2>3, <4>1 DEF BuildInv, PathsKept
      <4> HIDE DEF x
      <4>3. x.path \in DOMAIN paths' /\ Field(x.method) \in DOMAIN paths'[x.path].ops
        BY <1>2, <4>2
      <4> QED
        BY <4>3 DEF x
    <3> QED
      BY <3>1, <3>2
  <2> QED
    BY <1>1, <2>1, <2>2, <2>3 DEF PathsKept
<1>7. RoutesFixed'
  <2> SUFFICES ASSUME IsBuilt PROVE RoutesFixed'
    BY <1>1 DEF RoutesFixed, IsBuilt
  <2>1. BuiltAt \in 1..made /\ made + 1 \in (BuiltAt + 1)..(made + 1)
    BY <1>1 DEF BuildInv, Counted
  <2>2. \A i \in (BuiltAt + 1)..made : i \in (BuiltAt + 1)..(made + 1)
    BY <1>1, <2>1
  <2>3. ASSUME NEW t \in DOMAIN paths', NEW m \in Methods \cap DOMAIN paths'[t].ops
        PROVE  \/ <<t, m>> \in DOMAIN server.routes /\ server.routes[<<t, m>>].op = paths'[t].ops[m]
               \/ \E i \in (BuiltAt + 1)..(made + 1) :
                     setup.script[i].do = "add" /\ setup.script[i].path = t /\ Field(setup.script[i].method) = m
    <3>1. CASE t = e.path /\ m = Field(e.method)
      BY <1>1, <2>1, <3>1 DEF e
    <3>2. CASE ~ (t = e.path /\ m = Field(e.method))
      <4>1. t \in DOMAIN paths /\ m \in DOMAIN paths[t].ops /\ paths'[t].ops[m] = paths[t].ops[m]
        BY <1>2, <2>3, <3>2
      <4>2. \/ <<t, m>> \in DOMAIN server.routes /\ server.routes[<<t, m>>].op = paths[t].ops[m]
            \/ \E i \in (BuiltAt + 1)..made :
                  setup.script[i].do = "add" /\ setup.script[i].path = t /\ Field(setup.script[i].method) = m
        BY <2>3, <4>1 DEF BuildInv, RoutesFixed
      <4> QED
        BY <2>2, <4>1, <4>2
    <3> QED
      BY <3>1, <3>2
  <2>4. /\ IsFiniteSet(server.templates) /\ server.templates \subseteq DOMAIN paths'
        /\ \A k \in DOMAIN server.routes :
              /\ k[1] \in server.templates
              /\ IsHandler(server.routes[k].handler)
              /\ \A p, m : k = <<p, m>> /\ Registered(p, m) => server.routes[k].handler # NoHandler
        /\ \A i \in 1..(BuiltAt - 1) :
              setup.script[i].do = "add" /\ Field(setup.script[i].method) \in Methods
              => <<setup.script[i].path, Field(setup.script[i].method)>> \in DOMAIN server.routes
    BY <1>2 DEF BuildInv, RoutesFixed
  <2> QED
    BY <1>1, <1>4, <2>3, <2>4 DEF RoutesFixed
<1> QED
  BY <1>3, <1>5, <1>6, <1>7 DEF BuildInv

\* Handle leaves the document alone.
LEMMA HandleBuild == BuildInv /\ Handle => BuildInv'
<1> SUFFICES ASSUME BuildInv, Handle PROVE BuildInv'
  OBVIOUS
<1> DEFINE e == setup.script[made + 1]
<1>1. /\ made' = made + 1 /\ setup' = setup /\ stage' = stage /\ server' = server /\ made + 1 \in 1..Len(setup.script)
      /\ e.do = "handle" /\ made \in Nat /\ RegisterHandler(e.path, e.method, e.handler)
      /\ paths' = paths /\ faulty' = faulty
  BY ScriptType DEF BuildInv, Handle, Due, Counted, ThisCall
<1>2. HandlersKept'
  BY <1>1, HandlersStep
<1>3. BuiltAt' = BuiltAt /\ \A p, m : Registered(p, m)' <=> Registered(p, m)
  BY <1>1, SameScript
<1> HIDE DEF e
<1>4. \A i \in 1..(made + 1) : i \in 1..made \/ i = made + 1
  BY <1>1
<1>5. Counted'
  <2>1. stage = "building" => \A i \in 1..(made + 1) : setup.script[i].do # "build"
    BY <1>1, <1>4 DEF BuildInv, Counted, e
  <2>2. IsBuilt => BuiltAt \in 1..(made + 1)
    BY <1>1 DEF BuildInv, Counted
  <2> QED
    BY <1>1, <1>3, <2>1, <2>2 DEF BuildInv, Counted, IsBuilt
<1>6. PathsKept'
  <2>1. ASSUME stage = "building", ~faulty, NEW i \in 1..(made + 1), setup.script[i].do = "add"
        PROVE  /\ setup.script[i].path \in DOMAIN paths
               /\ Field(setup.script[i].method) \in DOMAIN paths[setup.script[i].path].ops
    <3>1. i \in 1..made
      BY <1>1, <1>4, <2>1 DEF e
    <3> QED
      BY <2>1, <3>1 DEF BuildInv, PathsKept
  <2> QED
    BY <1>1, <2>1 DEF BuildInv, PathsKept
<1>7. RoutesFixed'
  <2> SUFFICES ASSUME IsBuilt PROVE RoutesFixed'
    BY <1>1 DEF RoutesFixed, IsBuilt
  <2>1. \A i \in (BuiltAt + 1)..made : i \in (BuiltAt + 1)..(made + 1)
    BY <1>1 DEF BuildInv, Counted
  <2> QED
    BY <1>1, <1>3, <2>1 DEF BuildInv, RoutesFixed
<1> QED
  BY <1>2, <1>5, <1>6, <1>7 DEF BuildInv

\* BuildServer makes a route of every operation that is there, with the handler
\* that was registered.
LEMMA ServerBuild == BuildInv /\ BuildServer => BuildInv'
<1> SUFFICES ASSUME BuildInv, BuildServer PROVE BuildInv'
  OBVIOUS
<1>1. /\ stage = "building" /\ made' = made + 1 /\ setup' = setup /\ made + 1 \in 1..Len(setup.script)
      /\ setup.script[made + 1].do = "build" /\ made \in Nat
      /\ paths' = paths /\ faulty' = faulty /\ handlers' = handlers
  BY ScriptType DEF BuildInv, BuildServer, Due, Counted, ThisCall
<1>2. \A i \in 1..made : setup.script[i].do # "build"
  BY <1>1 DEF BuildInv, Counted
<1>3. BuiltAt = made + 1
  <2> DEFINE IsFirst(i) == setup.script[i].do = "build" /\ \A j \in 1..(i - 1) : setup.script[j].do # "build"
  <2>1. made + 1 \in DOMAIN setup.script /\ IsFirst(made + 1)
    BY <1>1, <1>2, ScriptType DEF BuildInv
  <2>2. ASSUME NEW i \in DOMAIN setup.script, IsFirst(i) PROVE i = made + 1
    <3>1. i \in 1..Len(setup.script) /\ Len(setup.script) \in Nat
      BY <2>2, ScriptType DEF BuildInv
    <3>2. i \notin 1..made
      BY <1>2, <2>2
    <3>3. made + 1 \notin 1..(i - 1)
      BY <1>1, <2>2
    <3> QED
      BY <1>1, <3>1, <3>2, <3>3
  <2> HIDE DEF IsFirst
  <2>3. (CHOOSE i \in DOMAIN setup.script : IsFirst(i)) = made + 1
    BY <2>1, <2>2
  <2> QED
    BY <2>3 DEF BuiltAt, IsFirst
<1>4. BuiltAt' = BuiltAt /\ \A p, m : Registered(p, m)' <=> Registered(p, m)
  BY <1>1, SameScript
<1>5. PathsKept' /\ HandlersKept'
  <2>1. stage' # "building"
    BY DEF BuildServer
  <2> QED
    BY <1>1, <2>1 DEF BuildInv, PathsKept, HandlersKept
<1>6. CASE faulty
  <2>1. stage' = "failed"
    BY <1>6 DEF BuildServer
  <2> QED
    BY <1>1, <1>5, <2>1 DEF BuildInv, Counted, RoutesFixed, IsBuilt
<1>7. CASE ~faulty
  <2>1. stage' = "idle" /\ server' = [templates |-> DOMAIN paths, routes |-> Routes]
    BY <1>7 DEF BuildServer
  <2>2. Counted'
    <3>1. made + 1 \in 1..(made + 1) /\ \A j \in 1..(made + 1 - 1) : setup.script[j].do # "build"
      BY <1>1, <1>2
    <3> QED
      BY <1>1, <1>3, <1>4, <2>1, <3>1 DEF BuildInv, Counted, IsBuilt
  <2>3. \A k : k \in DOMAIN Routes <=> \E t \in DOMAIN paths : \E m \in DOMAIN paths[t].ops \cap Methods : k = <<t, m>>
    BY DEF Routes
  <2>4. ASSUME NEW k \in DOMAIN Routes
        PROVE  k[1] \in DOMAIN paths /\ IsHandler(Routes[k].handler)
    <3>1. k[1] \in DOMAIN paths
      BY <2>3
    <3>2. Routes[k].handler = IF k \in DOMAIN handlers THEN handlers[k] ELSE NoHandler
      BY DEF Routes
    <3>3. IsHandler(NoHandler) /\ (k \in DOMAIN handlers => IsHandler(handlers[k]))
      BY DEF IsHandler, NoHandler, BuildInv, HandlersKept
    <3> QED
      BY <3>1, <3>2, <3>3
  <2>5. ASSUME NEW k \in DOMAIN Routes, NEW p, NEW m, k = <<p, m>>, Registered(p, m)
        PROVE  Routes[k].handler # NoHandler
    <3>1. PICK i \in 1..made : /\ Registers(setup.script[i], p, m)
                               /\ \A j \in (i + 1)..made : ~Withdraws(setup.script[j], p, m)
      BY <1>1, <1>3, <2>5 DEF Registered
    <3>2. setup.script[i].path = p /\ setup.script[i].method = m
      BY <3>1 DEF Registers
    <3>3. k \in DOMAIN handlers /\ handlers[k] # NoHandler
      BY <1>1, <2>5, <3>1, <3>2 DEF BuildInv, HandlersKept
    <3> QED
      BY <3>3 DEF Routes
  <2>6. ASSUME NEW i \in 1..made, setup.script[i].do = "add", Field(setup.script[i].method) \in Methods
        PROVE  <<setup.script[i].path, Field(setup.script[i].method)>> \in DOMAIN Routes
    <3>1. /\ setup.script[i].path \in DOMAIN paths
          /\ Field(setup.script[i].method) \in DOMAIN paths[setup.script[i].path].ops
      BY <1>1, <1>7, <2>6 DEF BuildInv, PathsKept
    <3> QED
      BY <2>3, <2>6, <3>1
  <2>7. ASSUME NEW t \in DOMAIN paths, NEW m \in Methods \cap DOMAIN paths[t].ops
        PROVE  <<t, m>> \in DOMAIN Routes /\ Routes[<<t, m>>].op = paths[t].ops[m]
    <3>1. <<t, m>> \in DOMAIN Routes
      BY <2>3
    <3>2. Routes[<<t, m>>].op = paths[<<t, m>>[1]].ops[<<t, m>>[2]]
      BY <3>1 DEF Routes
    <3> QED
      BY <3>1, <3>2
  <2> HIDE DEF Routes
  <2>8. RoutesFixed'
    <3>1. IsFiniteSet(DOMAIN paths)
      BY DEF BuildInv, PathsKept
    <3>2. server'.templates = DOMAIN paths /\ server'.routes = Routes /\ made + 1 - 1 = made
      BY <1>1, <2>1
    <3> QED
      BY <1>1, <1>3, <1>4, <2>4, <2>5, <2>6, <2>7, <3>1, <3>2 DEF RoutesFixed
  <2> QED
    BY <1>5, <2>2, <2>8 DEF BuildInv
<1> QED
  BY <1>6, <1>7
-----------------------------------------------------------------------------
(* The steps of a request. *)

\* What is read of the server and the request is what it was.
LEMMA SameReading ==
    ASSUME setup' = setup, paths' = paths, server' = server, request'.path = request.path, request'.method = request.method
    PROVE  /\ Document' = Document /\ Template' = Template /\ RoutePath' = RoutePath /\ Key' = Key /\ Judging' = Judging
           /\ HasRoute' <=> HasRoute
<1>1. Document' = Document /\ Template' = Template /\ RoutePath' = RoutePath /\ Judging' = Judging
  BY DEF Document, Template, RoutePath, Judging
<1>2. Key' = Key
  BY <1>1 DEF Key
<1> QED
  BY <1>1, <1>2 DEF HasRoute

\* Nothing is claimed of a request before there is one.
LEMMA NoRequestYet ==
    ASSUME stage' \in Before, seen' = NotYet
    PROVE  JudgedRightly' /\ HandledRightly'
<1>1. stage' \notin {"sent", "answered", "handling"} \cup Judged \cup Passed
  BY DEF Before, Judged, Passed
<1> QED
  BY <1>1 DEF JudgedRightly, HandledRightly, Passed

LEMMA BuilderStep ==
    ASSUME ServerInv, AddOperation \/ Handle \/ BuildServer
    PROVE  JudgedRightly' /\ HandledRightly'
<1>1. stage' \in Before /\ seen' = seen /\ stage \in Before
  BY DEF AddOperation, Handle, BuildServer, Before
<1>2. seen' = NotYet
  BY <1>1 DEF ServerInv, HandledRightly
<1> QED
  BY <1>1, <1>2, NoRequestYet

LEMMA SendStep ==
    ASSUME ServerInv, Send
    PROVE  JudgedRightly' /\ HandledRightly'
<1>1. /\ stage' = "sent" /\ stage' \notin Before /\ stage' \notin Judged /\ stage' \notin Passed /\ stage \in Before
      /\ stage' \in Before \cup {"sent"}
  BY DEF Send, Before, Judged, Passed
<1>2. {"method", "path"} \subseteq DOMAIN request' /\ request'.method = call'.method
  BY DEF Send
<1>3. seen' = NotYet
  BY <1>1 DEF Send, ServerInv, HandledRightly
<1> QED
  BY <1>1, <1>2, <1>3 DEF JudgedRightly, HandledRightly

LEMMA SwitchStep ==
    ASSUME ServerInv, SetSwitches \/ UNCHANGED vars
    PROVE  JudgedRightly' /\ HandledRightly'
<1>1. UNCHANGED <<builderVars, call, request, stage, result, seen, reply>>
  BY DEF SetSwitches, vars
<1>2. /\ Document' = Document /\ Template' = Template /\ RoutePath' = RoutePath /\ Key' = Key /\ Judging' = Judging
      /\ HasRoute' <=> HasRoute
  BY <1>1, SameReading DEF builderVars
<1>3. Refuses' <=> Refuses
  BY <1>1 DEF Refuses, builderVars
<1>4. Handler' = Handler
  BY <1>1 DEF Handler, builderVars
<1>5. JudgedRightly'
  BY <1>1, <1>2, <1>3 DEF ServerInv, JudgedRightly, builderVars
<1>6. HandledRightly'
  BY <1>1, <1>2, <1>3, <1>4 DEF ServerInv, HandledRightly, builderVars
<1> QED
  BY <1>5, <1>6

LEMMA EnterStep ==
    ASSUME ServerInv, Enter
    PROVE  JudgedRightly' /\ HandledRightly'
<1> DEFINE op == GetOperation(Document, Template, request.method)
<1>1. /\ stage = "sent" /\ UNCHANGED <<builderVars, call, request, seen>>
      /\ result' = [NoResult EXCEPT !.op = op, !.errors = IF op = NoOperation THEN {<<"request", "">>} ELSE {}]
      /\ stage' = IF ~Judging THEN "routing" ELSE IF op = NoOperation THEN "judged" ELSE "path"
  BY DEF Enter
<1>2. /\ Document' = Document /\ Template' = Template /\ Judging' = Judging
  BY <1>1, SameReading DEF builderVars
<1> HIDE DEF op
<1>3. DOMAIN result' = {"errors", "warnings", "params", "op"} /\ result'.op = op
      /\ result'.errors = IF op = NoOperation THEN {<<"request", "">>} ELSE {}
  BY <1>1 DEF NoResult
<1>4. stage \notin Before /\ stage' \notin Before
  BY <1>1 DEF Before
<1>5. /\ stage' \in Judged => Judging
      /\ stage' \in Passed => ~Judging
      /\ stage' \in {"routing", "judged", "path"}
  BY <1>1 DEF Judged, Passed
<1>6. seen' = NotYet
  BY <1>1 DEF ServerInv, HandledRightly
<1>7. JudgedRightly'
  BY <1>1, <1>2, <1>3, <1>4, <1>5 DEF ServerInv, JudgedRightly, op
<1>8. HandledRightly'
  BY <1>5, <1>6 DEF HandledRightly
<1> QED
  BY <1>7, <1>8

\* A part adds its findings and leaves the operation.
LEMMA FoundStep ==
    ASSUME ServerInv, NEW place, NEW next, stage \in Judged, next \in Judged, Found(place, next),
           request' = request \/ request' = [request EXCEPT !.body = NoText]
    PROVE  JudgedRightly' /\ HandledRightly'
<1> DEFINE part == PartOf(place, Document, Template, result.op, request, using)
<1>1. /\ UNCHANGED <<builderVars, call, seen>> /\ stage' = next
      /\ result' = [result EXCEPT !.errors = @ \cup part.errors, !.warnings = @ \cup part.warnings,
                                  !.params = Put(@, place, part.values)]
  BY DEF Found
<1>2. stage \notin Before \cup {"sent"} /\ stage' \notin Before /\ stage' \notin {"handling", "answered"} \cup Passed
  BY <1>1 DEF Before, Judged, Passed
<1>3. {"method", "path"} \subseteq DOMAIN request /\ request.method = call.method
  BY <1>2 DEF ServerInv, JudgedRightly
<1>4. DOMAIN request' = DOMAIN request /\ request'.path = request.path /\ request'.method = request.method
  BY <1>3
<1>5. Document' = Document /\ Template' = Template /\ Judging' = Judging
  BY <1>1, <1>4, SameReading DEF builderVars
<1>6. {"op", "errors"} \subseteq DOMAIN result /\ result.op = GetOperation(Document, Template, request.method)
      /\ (Judging /\ result.op = NoOperation => result.errors # {})
  BY <1>2 DEF ServerInv, JudgedRightly
<1> HIDE DEF part
<1>7. DOMAIN result' = DOMAIN result /\ result'.op = result.op /\ result'.errors = result.errors \cup part.errors
  BY <1>1, <1>6
<1>8. Judging
  BY DEF ServerInv, JudgedRightly
<1>9. seen' = NotYet
  BY <1>1 DEF ServerInv, HandledRightly
<1>10. JudgedRightly'
  BY <1>1, <1>2, <1>3, <1>4, <1>5, <1>6, <1>7, <1>8 DEF JudgedRightly
<1>11. HandledRightly'
  BY <1>2, <1>9 DEF HandledRightly, Passed
<1> QED
  BY <1>10, <1>11

LEMMA ValidateStep ==
    ASSUME ServerInv, Validate
    PROVE  JudgedRightly' /\ HandledRightly'
<1> USE DEF Judged
<1>1. CASE ValidatePath
  BY <1>1, FoundStep DEF ValidatePath
<1>2. CASE ValidateQuery
  BY <1>2, FoundStep DEF ValidateQuery
<1>3. CASE ValidateHeaders
  BY <1>3, FoundStep DEF ValidateHeaders
<1>4. CASE ValidateCookies
  BY <1>4, FoundStep DEF ValidateCookies
<1>5. CASE ValidateBody
  <2>1. request' = request \/ request' = [request EXCEPT !.body = NoText]
    BY <1>5 DEF ValidateBody
  <2> QED
    BY <1>5, <2>1, FoundStep DEF ValidateBody
<1> QED
  BY <1>1, <1>2, <1>3, <1>4, <1>5 DEF Validate
\* A step after the validation leaves the builder, the path and the findings.
LEMMA LaterStep ==
    ASSUME ServerInv, stage \in Passed \cup {"judged"}, UNCHANGED <<builderVars, call, result>>,
           DOMAIN request' = DOMAIN request, request'.path = request.path, request'.method = request.method,
           stage' \in Passed => ~(Judging /\ Refuses), stage' \notin Judged
    PROVE  /\ JudgedRightly'
           /\ Document' = Document /\ Template' = Template /\ RoutePath' = RoutePath /\ Key' = Key /\ Judging' = Judging
           /\ HasRoute' <=> HasRoute
           /\ Refuses' <=> Refuses
<1>1. stage \notin Before \cup {"sent"}
  BY DEF Before, Judged, Passed
<1>2. {"method", "path"} \subseteq DOMAIN request /\ request.method = call.method
  BY <1>1 DEF ServerInv, JudgedRightly
<1>3. /\ Document' = Document /\ Template' = Template /\ RoutePath' = RoutePath /\ Key' = Key /\ Judging' = Judging
      /\ HasRoute' <=> HasRoute
  BY SameReading DEF builderVars
<1>4. Refuses' <=> Refuses
  BY DEF Refuses, builderVars
<1>5. /\ {"op", "errors"} \subseteq DOMAIN result /\ result.op = GetOperation(Document, Template, request.method)
      /\ (Judging /\ result.op = NoOperation => result.errors # {})
  BY <1>1 DEF ServerInv, JudgedRightly
<1>6. JudgedRightly'
  BY <1>2, <1>3, <1>4, <1>5 DEF JudgedRightly
<1> QED
  BY <1>3, <1>4, <1>6

LEMMA JudgeStep ==
    ASSUME ServerInv, Judge
    PROVE  JudgedRightly' /\ HandledRightly'
<1>1. /\ stage = "judged" /\ UNCHANGED <<builderVars, call, request, result, seen>>
      /\ stage' = IF Refuses THEN "answered" ELSE "routing"
  BY DEF Judge, Answer
<1>2. JudgedRightly' /\ Judging' = Judging /\ (Refuses' <=> Refuses)
  BY <1>1, LaterStep DEF Judged, Passed
<1>3. Judging /\ seen' = NotYet
  BY <1>1 DEF ServerInv, JudgedRightly, HandledRightly, Judged
<1>4. HandledRightly'
  BY <1>1, <1>2, <1>3 DEF HandledRightly
<1> QED
  BY <1>2, <1>4

LEMMA RouteStep ==
    ASSUME ServerInv, Route
    PROVE  JudgedRightly' /\ HandledRightly'
<1>1. /\ stage = "routing" /\ UNCHANGED <<builderVars, call, request, result, seen>>
      /\ stage' = IF RoutePath = NoMatch THEN "answered" ELSE "dispatching"
  BY DEF Route, Answer
<1>2. ~(Judging /\ Refuses)
  BY <1>1 DEF ServerInv, JudgedRightly, Passed
<1>3. JudgedRightly' /\ RoutePath' = RoutePath
  BY <1>1, <1>2, LaterStep DEF Judged, Passed
<1>4. seen' = NotYet
  BY <1>1 DEF ServerInv, HandledRightly
<1>5. HandledRightly'
  BY <1>1, <1>3, <1>4 DEF HandledRightly
<1> QED
  BY <1>3, <1>5

LEMMA DispatchStep ==
    ASSUME ServerInv, Dispatch
    PROVE  JudgedRightly' /\ HandledRightly'
<1> DEFINE route == server.routes[Key]
<1>1. stage = "dispatching" /\ UNCHANGED <<builderVars, call, result>>
  BY DEF Dispatch
<1>2. ~(Judging /\ Refuses) /\ seen = NotYet
  BY <1>1 DEF ServerInv, JudgedRightly, HandledRightly, Passed
<1>3. {"method", "path"} \subseteq DOMAIN request
  BY <1>1 DEF ServerInv, JudgedRightly, Before
<1>4. CASE ~HasRoute
  <2>1. stage' = "answered" /\ UNCHANGED <<seen, request>>
    <3>1. CASE Key \notin DOMAIN server.routes
      BY <3>1 DEF Dispatch, Key, Answer
    <3>2. CASE Key \in DOMAIN server.routes /\ route.handler = NoHandler
      BY <3>2 DEF Dispatch, Key, Answer
    <3> QED
      BY <1>4, <3>1, <3>2 DEF HasRoute
  <2>2. JudgedRightly' /\ (HasRoute' <=> HasRoute)
    BY <1>1, <1>2, <2>1, LaterStep DEF Judged, Passed
  <2>3. HandledRightly'
    BY <1>2, <1>4, <2>1, <2>2 DEF HandledRightly
  <2> QED
    BY <2>2, <2>3
<1>5. CASE HasRoute
  <2>1. /\ BuildRequest(route) /\ stage' = "handling"
        /\ request' = [request EXCEPT !.body = IF RawBody = NoText THEN @ ELSE NoText]
    BY <1>5 DEF Dispatch, Key, HasRoute
  <2>2. DOMAIN request' = DOMAIN request /\ request'.path = request.path /\ request'.method = request.method
    BY <1>3, <2>1
  <2>3. /\ JudgedRightly' /\ RoutePath' = RoutePath /\ Key' = Key
        /\ HasRoute' <=> HasRoute
    BY <1>1, <1>2, <2>1, <2>2, LaterStep DEF Judged, Passed
  <2>4. seen' # NotYet /\ seen'.path = RoutePath /\ seen'.id = route.op.id
    <3>1. DOMAIN seen' = {"id", "op", "path", "raw", "body", "params"} /\ seen'.path = RoutePath /\ seen'.id = route.op.id
      BY <2>1 DEF BuildRequest
    <3>2. DOMAIN NotYet = {"id"} /\ "op" \notin {"id"}
      BY DEF NotYet
    <3> QED
      BY <3>1, <3>2
  <2>5. server' = server
    BY <1>1 DEF builderVars
  <2> HIDE DEF HasRoute
  <2>6. HandledRightly'
    BY <1>5, <2>1, <2>3, <2>4, <2>5 DEF HandledRightly, Before, Judged
  <2> QED
    BY <2>3, <2>6
<1> QED
  BY <1>4, <1>5

LEMMA RunStep ==
    ASSUME ServerInv, Run
    PROVE  JudgedRightly' /\ HandledRightly'
<1>1. stage = "handling" /\ UNCHANGED <<builderVars, call, request, result, seen>>
  BY DEF Run
<1>2. ~(Judging /\ Refuses)
  BY <1>1 DEF ServerInv, JudgedRightly, Passed
<1>3. seen # NotYet /\ HasRoute /\ seen.path = RoutePath /\ seen.id = server.routes[Key].op.id
  BY <1>1 DEF ServerInv, HandledRightly, Before
<1>4. Handler = server.routes[Key].handler
  BY <1>3 DEF Handler, Key
<1>5. IsHandler(Handler) /\ Handler # NoHandler
  BY <1>1, <1>3, <1>4 DEF ServerInv, BuildInv, RoutesFixed, IsBuilt, HasRoute
<1>6. Handler' = Handler
  BY <1>1 DEF Handler, builderVars
<1>7. \/ Handler.kind = "typed" /\ stage' = "answered"
      \/ Handler.kind = "http" /\ stage' = "answered" /\ reply' = Served(Captured(Handler.writes))
      \/ Handler.kind = "panics" /\ stage' = "panicked"
  <2>1. CASE Handler.kind = "typed"
    BY <2>1 DEF Run, Answer
  <2>2. CASE Handler.kind = "http"
    <3> DEFINE out == Served(Captured(Handler.writes))
    <3>1. stage' = "answered" /\ reply' = [status |-> out.status, text |-> out.text]
      <4> HIDE DEF out
      <4>1. Answer(out.status, out.text)
        BY <2>2 DEF Run, out
      <4> QED
        BY <4>1 DEF Answer
    <3>2. out = [status |-> out.status, text |-> out.text]
      BY DEF Served
    <3> QED
      BY <2>2, <3>1, <3>2
  <2>3. CASE Handler.kind = "panics"
    BY <2>3 DEF Run
  <2> QED
    BY <1>5, <2>1, <2>2, <2>3 DEF IsHandler
<1>8. stage' \notin Judged /\ stage' \notin Before
  BY <1>7 DEF Judged, Before
<1>9. JudgedRightly' /\ RoutePath' = RoutePath /\ Key' = Key /\ (HasRoute' <=> HasRoute)
  BY <1>1, <1>2, <1>8, LaterStep DEF Passed
<1>10. HandledRightly'
  <2>1. server' = server /\ seen' = seen
    BY <1>1 DEF builderVars
  <2>2. stage' \in {"answered", "panicked"}
    BY <1>7
  <2> QED
    BY <1>3, <1>6, <1>7, <1>8, <1>9, <2>1, <2>2 DEF HandledRightly
<1> QED
  BY <1>9, <1>10

LEMMA RecoverStep ==
    ASSUME ServerInv, Recover
    PROVE  JudgedRightly' /\ HandledRightly'
<1>1. /\ stage = "panicked" /\ stage' \in {"answered", "broken"} /\ UNCHANGED <<builderVars, call, request, result, seen>>
  BY DEF Recover, Answer
<1>2. ~(Judging /\ Refuses) /\ stage' \notin Judged /\ stage' \notin Before
  BY <1>1 DEF ServerInv, JudgedRightly, Passed, Judged, Before
<1>3. seen # NotYet /\ HasRoute /\ seen.path = RoutePath /\ seen.id = server.routes[Key].op.id /\ Handler.kind = "panics"
  BY <1>1 DEF ServerInv, HandledRightly, Before
<1>4. Handler' = Handler
  BY <1>1 DEF Handler, builderVars
<1>5. JudgedRightly' /\ RoutePath' = RoutePath /\ Key' = Key /\ (HasRoute' <=> HasRoute)
  BY <1>1, <1>2, LaterStep DEF Passed
<1>6. HandledRightly'
  <2>1. server' = server /\ seen' = seen
    BY <1>1 DEF builderVars
  <2> QED
    BY <1>1, <1>2, <1>3, <1>4, <1>5, <2>1 DEF HandledRightly
<1> QED
  BY <1>5, <1>6
LEMMA InitServer == Init => ServerInv
<1> SUFFICES ASSUME Init PROVE ServerInv
  OBVIOUS
<1>1. stage = "building" /\ seen = NotYet
  BY DEF Init
<1>2. JudgedRightly /\ HandledRightly
  <2>1. stage \in Before /\ stage \notin {"sent", "answered", "handling"} \cup Judged \cup Passed
    BY <1>1 DEF Before, Judged, Passed
  <2> QED
    BY <1>1, <2>1 DEF JudgedRightly, HandledRightly, Passed
<1> QED
  BY <1>2, InitBuild DEF ServerInv

LEMMA NextServer == ServerInv /\ [Next]_vars => ServerInv'
<1> SUFFICES ASSUME ServerInv, [Next]_vars PROVE ServerInv'
  OBVIOUS
<1>1. BuildInv
  BY DEF ServerInv
<1>2. CASE AddOperation
  BY <1>1, <1>2, AddBuild, BuilderStep DEF ServerInv
<1>3. CASE Handle
  BY <1>1, <1>3, HandleBuild, BuilderStep DEF ServerInv
<1>4. CASE BuildServer
  BY <1>1, <1>4, ServerBuild, BuilderStep DEF ServerInv
<1>5. CASE Send
  <2>1. UNCHANGED builderVars /\ stage = "idle" /\ stage' = "sent"
    BY <1>5 DEF Send
  <2> QED
    BY <1>1, <1>5, <2>1, ElseBuild, SendStep DEF ServerInv, IsBuilt
<1>6. CASE SetSwitches \/ UNCHANGED vars
  <2>1. UNCHANGED builderVars /\ stage' = stage
    BY <1>6 DEF SetSwitches, vars
  <2>2. JudgedRightly' /\ HandledRightly'
    BY <1>6, SwitchStep
  <2> QED
    BY <1>1, <2>1, <2>2, ElseBuild DEF ServerInv, IsBuilt
<1>7. CASE Serve
  <2>1. UNCHANGED builderVars /\ IsBuilt /\ stage' # "building"
    <3>1. CASE Enter
      BY <3>1 DEF Enter, IsBuilt
    <3>2. CASE Validate
      BY <3>2 DEF Validate, ValidatePath, ValidateQuery, ValidateHeaders, ValidateCookies, ValidateBody, Found, IsBuilt
    <3>3. CASE Judge \/ Route
      BY <3>3 DEF Judge, Route, Answer, IsBuilt
    <3>4. CASE Dispatch
      BY <3>4 DEF Dispatch, Answer, IsBuilt
    <3>5. CASE Run
      <4>1. UNCHANGED builderVars /\ stage = "handling"
        BY <3>5 DEF Run
      <4>2. Handler.kind \in {"typed", "http", "panics"}
        <5>1. seen # NotYet /\ HasRoute /\ seen.path = RoutePath
          BY <4>1 DEF ServerInv, HandledRightly, Before
        <5>2. Handler = server.routes[Key].handler
          BY <5>1 DEF Handler, Key
        <5> QED
          BY <1>1, <4>1, <5>1, <5>2 DEF BuildInv, RoutesFixed, IsBuilt, HasRoute, IsHandler
      <4>3. stage' \in {"answered", "panicked"}
        BY <3>5, <4>2 DEF Run, Answer
      <4> QED
        BY <4>1, <4>3 DEF IsBuilt
    <3>6. CASE Recover
      BY <3>6 DEF Recover, Answer, IsBuilt
    <3> QED
      BY <1>7, <3>1, <3>2, <3>3, <3>4, <3>5, <3>6 DEF Serve
  <2>2. JudgedRightly' /\ HandledRightly'
    BY <1>7, EnterStep, ValidateStep, JudgeStep, RouteStep, DispatchStep, RunStep, RecoverStep DEF Serve
  <2> QED
    BY <1>1, <2>1, <2>2, ElseBuild DEF ServerInv
<1> QED
  BY <1>2, <1>3, <1>4, <1>5, <1>6, <1>7 DEF Next, Over

LEMMA ServerAlways == Spec => []ServerInv
BY InitServer, NextServer, PTL DEF Spec

-----------------------------------------------------------------------------
(* What a request can rely on. *)

\* The operation the request was judged by is that of its route ...
LEMMA JudgedIsHandled == ServerInv => JudgedByItsOperation
<1> SUFFICES ASSUME ServerInv, stage = "handling", Judging
             PROVE  \/ seen.id = result.op.id
                    \/ \E i \in (BuiltAt + 1)..Len(setup.script) : LET e == setup.script[i] IN
                          e.do = "add" /\ e.path = Template /\ Field(e.method) = request.method
  BY DEF JudgedByItsOperation
<1> DEFINE m == request.method
           U == {k[1] : k \in DOMAIN server.routes}
<1>1. seen # NotYet /\ seen.id = server.routes[Key].op.id
  BY DEF ServerInv, HandledRightly, Before
<1>2. result.op = GetOperation(Document, Template, m) /\ (result.op = NoOperation => result.errors # {}) /\ result.errors = {}
  BY DEF ServerInv, JudgedRightly, Before, Passed, Refuses
<1>3. Template \in DOMAIN paths /\ m \in Methods \cap DOMAIN paths[Template].ops /\ result.op = paths[Template].ops[m]
  BY <1>2 DEF GetOperation, Document
<1>4. CASE <<Template, m>> \in DOMAIN server.routes /\ server.routes[<<Template, m>>].op = paths[Template].ops[m]
  <2>1. Template \in U
    <3>1. <<Template, m>>[1] = Template
      OBVIOUS
    <3> QED
      BY <1>4, <3>1
  <2>2. IsFiniteSet(server.templates) /\ server.templates \subseteq Templates /\ U \subseteq server.templates
    BY DEF ServerInv, BuildInv, RoutesFixed, PathsKept, IsBuilt
  <2>3. RoutePath = Template
    BY <2>1, <2>2, MatchWithin DEF RoutePath, Template
  <2> QED
    BY <1>1, <1>3, <1>4, <2>3 DEF Key
<1>5. CASE \E i \in (BuiltAt + 1)..made : LET e == setup.script[i] IN
                e.do = "add" /\ e.path = Template /\ Field(e.method) = m
  <2>1. \A i \in (BuiltAt + 1)..made : i \in (BuiltAt + 1)..Len(setup.script)
    BY ScriptType DEF ServerInv, BuildInv, Counted, IsBuilt
  <2> QED
    BY <1>5, <2>1
<1> QED
  BY <1>3, <1>4, <1>5 DEF ServerInv, BuildInv, RoutesFixed, IsBuilt

\* ... and what was registered for it is found.
LEMMA RegisteredIsServed == ServerInv => RegisteredHandlersServe
<1> SUFFICES ASSUME ServerInv, stage = "answered", ~(Judging /\ Refuses), Template = call.path,
                    NEW i \in 1..(BuiltAt - 1), setup.script[i].do = "add", setup.script[i].path = call.path,
                    Field(setup.script[i].method) = call.method, call.method \in Methods,
                    Registered(call.path, call.method), seen = NotYet
             PROVE  FALSE
  BY DEF RegisteredHandlersServe
<1> DEFINE U == {k[1] : k \in DOMAIN server.routes}
           key == <<call.path, call.method>>
<1>1. IsBuilt /\ request.method = call.method
  BY DEF IsBuilt, ServerInv, JudgedRightly, Before
<1>2. key \in DOMAIN server.routes /\ server.routes[key].handler # NoHandler
  BY <1>1 DEF ServerInv, BuildInv, RoutesFixed
<1>3. Template \in U /\ key[1] = call.path
  BY <1>2
<1>4. IsFiniteSet(server.templates) /\ server.templates \subseteq Templates /\ U \subseteq server.templates
  BY <1>1 DEF ServerInv, BuildInv, RoutesFixed, PathsKept
<1>5. RoutePath = Template
  BY <1>3, <1>4, MatchWithin DEF RoutePath, Template
<1>6. RoutePath # NoMatch
  BY <1>3, <1>4, <1>5, TemplateType
<1>7. HasRoute
  BY <1>1, <1>2, <1>5 DEF HasRoute, Key
<1> QED
  BY <1>6, <1>7 DEF ServerInv, HandledRightly

\* What a net/http handler writes is what the client gets.
LEMMA ReplayedAgrees == ServerInv => CapturedAnswersAgree
<1> SUFFICES ASSUME ServerInv, stage = "answered", seen # NotYet, Handler.kind = "http", Orderly(Handler.writes)
             PROVE  reply = Served(Handler.writes)
  BY DEF CapturedAnswersAgree
<1>1. reply = Served(Captured(Handler.writes)) /\ HasRoute /\ seen.path = RoutePath
  BY DEF ServerInv, HandledRightly, Before
<1>2. Handler = server.routes[Key].handler
  BY <1>1 DEF Handler, Key
<1>3. IsHandler(Handler)
  BY <1>1, <1>2 DEF ServerInv, BuildInv, RoutesFixed, IsBuilt, HasRoute
<1>4. IsSeq(Handler.writes)
  BY <1>3 DEF IsHandler, NoHandler, IsSeq
<1> QED
  BY <1>1, <1>4, ReplayAgrees

\* A call the validator lets through, on an operation added before BuildServer with
\* a handler registered in whatever way and not withdrawn, reaches a handler: the
\* templates the router compiles are those the validator matches.
THEOREM ServerServesRegistered == Spec => []RegisteredHandlersServe
BY ServerAlways, RegisteredIsServed, PTL

\* The operation a request was judged by is the one whose handler gets it, unless
\* the builder set it after the server was built.
THEOREM ServerJudgesByOperation == Spec => []JudgedByItsOperation
BY ServerAlways, JudgedIsHandled, PTL

\* Recording what a net/http handler writes and replaying it changes nothing for a
\* handler that sets its status once and first.
THEOREM ServerReplaysAnswers == Spec => []CapturedAnswersAgree
BY ServerAlways, ReplayedAgrees, PTL
===============================================================================
