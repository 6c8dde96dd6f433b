-------------------------- MODULE InductionLemmas --------------------------
(***************************************************************************)
(* Facts the proofs share.  Induction over the natural numbers without     *)
(* operators as parameters: a set of numbers that has 0 and the successors *)
(* of its elements has them all, and a function may be defined from its    *)
(* value for the predecessor.  And sequences of anything.                  *)
(***************************************************************************)
EXTENDS Naturals, SequencesExt, SequenceTheorems, WellFoundedInduction, TLAPS

\* There is no endless descent among the numbers.
LEMMA LessIsWellFounded ==
    \E R : IsWellFoundedOn(R, Nat) /\ \A x, y \in Nat : y < x => <<y, x>> \in R
<1> WITNESS OpToRel(<, Nat)
<1>1. \A x, y \in Nat : y < x => <<y, x>> \in OpToRel(<, Nat)
  BY DEF OpToRel
<1> QED
  BY <1>1, NatLessThanWellFounded

\* A set of numbers has a least one, unless it is empty.
LEMMA Least ==
    ASSUME NEW T \in SUBSET Nat, T # {}
    PROVE  \E x \in T : \A y \in T : x <= y
<1>1. PICK R : IsWellFoundedOn(R, Nat) /\ \A x, y \in Nat : y < x => <<y, x>> \in R
  BY LessIsWellFounded
<1>2. PICK x \in T : \A y \in T : ~ (<<y, x>> \in R)
  <2>1. T \subseteq Nat /\ T # {} /\ IsWellFoundedOn(R, Nat)
    BY <1>1
  <2> QED
    BY <2>1, WFMin, Zenon
<1>3. \A y \in T : ~ (y < x)
  BY <1>1, <1>2
<1>4. \A y \in T : x <= y
  BY <1>3
<1> QED
  BY <1>4

\* Induction.
LEMMA Induct ==
    ASSUME NEW T \in SUBSET Nat, 0 \in T, \A n \in T : n + 1 \in T
    PROVE  T = Nat
<1> SUFFICES ASSUME Nat \ T # {} PROVE FALSE
  OBVIOUS
<1>1. PICK x \in Nat \ T : \A y \in Nat \ T : x <= y
  BY Least
<1>2. x # 0 /\ x - 1 \in Nat
  BY <1>1
<1>3. x - 1 \in T
  BY <1>1, <1>2
<1> QED
  BY <1>1, <1>2, <1>3

\* A function that is defined from its value for the predecessor exists: it is put
\* together from its finite beginnings, which agree with each other.
Recursive(f, b, F) ==
    /\ f = [i \in Nat |-> f[i]] /\ f[0] = b
    /\ \A i \in Nat : i # 0 => f[i] = F[<<i, f[i - 1]>>]
LEMMA Recursion ==
    ASSUME NEW b, NEW F
    PROVE  \E f : Recursive(f, b, F)
<1> DEFINE Is(g, n) == DOMAIN g = 0..n /\ g[0] = b /\ \A i \in 0..n : i # 0 => g[i] = F[<<i, g[i - 1]>>]
           T == {n \in Nat : \E g : Is(g, n)}
<1>1. 0 \in T
  <2> DEFINE g == [i \in 0..0 |-> b]
  <2>1. Is(g, 0)
    OBVIOUS
  <2> QED
    BY <2>1
<1>2. ASSUME NEW n \in T PROVE n + 1 \in T
  <2>1. PICK g : Is(g, n)
    OBVIOUS
  <2> DEFINE h == [i \in 0..(n+1) |-> IF i = n + 1 THEN F[<<n + 1, g[n]>>] ELSE g[i]]
  <2>2. \A i \in 0..n : h[i] = g[i]
    OBVIOUS
  <2>3. h[n+1] = F[<<n + 1, g[n]>>] /\ DOMAIN h = 0..(n+1)
    OBVIOUS
  <2> HIDE DEF h
  <2>4. ASSUME NEW i \in 0..(n+1), i # 0 PROVE h[i] = F[<<i, h[i - 1]>>]
    <3>1. CASE i = n + 1
      <4>1. h[n] = g[n] /\ i - 1 = n
        BY <2>2, <3>1
      <4> QED
        BY <2>3, <3>1, <4>1
    <3>2. CASE i \in 0..n
      <4>1. h[i] = g[i] /\ h[i - 1] = g[i - 1]
        BY <2>2, <2>4, <3>2
      <4> QED
        BY <2>1, <2>4, <3>2, <4>1
    <3> QED
      BY <3>1, <3>2
  <2>5. h[0] = b
    BY <2>1, <2>2
  <2>6. Is(h, n + 1)
    BY <2>3, <2>4, <2>5
  <2> QED
    BY <2>6
<1>3. T = Nat
  <2> HIDE DEF T
  <2>1. T \in SUBSET Nat
    BY DEF T
  <2> QED
    BY <1>1, <1>2, <2>1, Induct
<1>4. ASSUME NEW n \in Nat, NEW m \in Nat, NEW g, NEW h, Is(g, n), Is(h, m)
      PROVE \A i \in Nat : i <= n /\ i <= m => g[i] = h[i]
  <2> DEFINE S == {i \in Nat : i <= n /\ i <= m => g[i] = h[i]}
  <2>1. 0 \in S
    BY <1>4
  <2>2. ASSUME NEW i \in S PROVE i + 1 \in S
    <3> SUFFICES ASSUME i + 1 <= n, i + 1 <= m PROVE g[i + 1] = h[i + 1]
      OBVIOUS
    <3>1. g[i] = h[i]
      OBVIOUS
    <3>2. i + 1 \in 0..n /\ i + 1 \in 0..m /\ i + 1 # 0 /\ (i + 1) - 1 = i
      OBVIOUS
    <3> QED
      BY <1>4, <3>1, <3>2
  <2>3. S \in SUBSET Nat
    OBVIOUS
  <2> HIDE DEF S
  <2>4. S = Nat
    BY <2>1, <2>2, <2>3, Induct
  <2> QED
    BY <2>4 DEF S
<1> DEFINE at(n) == CHOOSE g : Is(g, n)
           f == [i \in Nat |-> at(i)[i]]
<1>5. \A n \in Nat : Is(at(n), n)
  BY <1>3
<1>6. \A i \in Nat : f[i] = at(i)[i]
  OBVIOUS
<1>7. f = [i \in Nat |-> f[i]]
  OBVIOUS
<1> HIDE DEF f, at
<1>8. ASSUME NEW i \in Nat PROVE f[i] = IF i = 0 THEN b ELSE F[<<i, f[i - 1]>>]
  <2>1. CASE i = 0
    BY <1>5, <1>6, <2>1
  <2>2. CASE i # 0
    <3>1. i - 1 \in Nat /\ i - 1 <= i /\ i - 1 <= i - 1 /\ i \in 0..i
      BY <2>2
    <3>2. Is(at(i), i) /\ Is(at(i - 1), i - 1)
      BY <1>5, <3>1
    <3>3. at(i)[i] = F[<<i, at(i)[i - 1]>>]
      BY <2>2, <3>1, <3>2
    <3> HIDE DEF Is
    <3>4. at(i)[i - 1] = at(i - 1)[i - 1]
      BY <1>4, <3>1, <3>2
    <3> QED
      BY <1>6, <2>2, <3>1, <3>3, <3>4
  <2> QED
    BY <2>1, <2>2
<1> QED
  BY <1>7, <1>8 DEF Recursive

\* Where the step stays in a set, so do all values.
LEMMA RecursionIn ==
    ASSUME NEW X, NEW b \in X, NEW F, \A i \in Nat : \A x \in X : F[<<i, x>>] \in X
    PROVE  \E f \in [Nat -> X] : Recursive(f, b, F)
<1>1. PICK f : Recursive(f, b, F)
  BY Recursion
<1>2. /\ f = [i \in Nat |-> f[i]] /\ f[0] = b
      /\ \A i \in Nat : i # 0 => f[i] = F[<<i, f[i - 1]>>]
  BY <1>1 DEF Recursive
<1> DEFINE T == {i \in Nat : f[i] \in X}
<1>3. 0 \in T
  BY <1>2
<1>4. ASSUME NEW i \in T PROVE i + 1 \in T
  <2>1. i + 1 \in Nat /\ i + 1 # 0 /\ (i + 1) - 1 = i
    OBVIOUS
  <2>2. f[i + 1] = F[<<i + 1, f[i]>>]
    BY <1>2, <2>1
  <2> QED
    BY <2>1, <2>2
<1>5. T \in SUBSET Nat
  OBVIOUS
<1> HIDE DEF T
<1>6. T = Nat
  BY <1>3, <1>4, <1>5, Induct
<1>7. f \in [Nat -> X]
  BY <1>2, <1>6 DEF T
<1> QED
  BY <1>1, <1>7

\* So does one that is defined up to a number only.
KeepsIn(F, n, X)         == \A i \in 1..n : \A x \in X : F[<<i, x>>] \in X
RecursiveTo(f, n, b, F)  == f[0] = b /\ \A i \in 1..n : f[i] = F[<<i, f[i - 1]>>]
LEMMA RecursionTo ==
    ASSUME NEW n \in Nat, NEW X, NEW b \in X, NEW F, KeepsIn(F, n, X)
    PROVE  \E f \in [0..n -> X] : RecursiveTo(f, n, b, F)
<1> USE DEF KeepsIn, RecursiveTo
<1> DEFINE G == [p \in Nat \X X |-> IF p[1] \in 1..n THEN F[p] ELSE b]
<1>1. \A i \in Nat : \A x \in X : G[<<i, x>>] = IF i \in 1..n THEN F[<<i, x>>] ELSE b
  OBVIOUS
<1> HIDE DEF G
<1>2. \A i \in Nat : \A x \in X : G[<<i, x>>] \in X
  BY <1>1
<1>3. PICK g \in [Nat -> X] : Recursive(g, b, G)
  BY <1>2, RecursionIn
<1>4. g[0] = b /\ \A i \in Nat : i # 0 => g[i] = G[<<i, g[i - 1]>>]
  BY <1>3 DEF Recursive
<1> DEFINE f == [i \in 0..n |-> g[i]]
<1>5. f \in [0..n -> X] /\ f[0] = b
  BY <1>4
<1>6. ASSUME NEW i \in 1..n PROVE f[i] = F[<<i, f[i - 1]>>]
  <2>1. i \in Nat /\ i # 0 /\ i - 1 \in Nat /\ i - 1 \in 0..n /\ i \in 0..n
    OBVIOUS
  <2>2. f[i] = g[i] /\ f[i - 1] = g[i - 1] /\ g[i - 1] \in X
    BY <2>1
  <2> HIDE DEF f
  <2> QED
    BY <1>1, <1>4, <2>1, <2>2
<1> QED
  BY <1>5, <1>6

-----------------------------------------------------------------------------
(* Sequences *)

\* A sequence of whatever is in it.
IsSeq(s) == s \in Seq(Range(s))

\* The domain of a sequence is 1 to its length.
LEMMA SeqDomain ==
    ASSUME NEW s, IsSeq(s)
    PROVE  Len(s) \in Nat /\ DOMAIN s = 1..Len(s)
BY DEF IsSeq

\* And only its domain.
LEMMA LenIs ==
    ASSUME NEW s, IsSeq(s), NEW n \in Nat, DOMAIN s = 1..n
    PROVE  Len(s) = n
<1> DEFINE m == Len(s)
<1>1. m \in Nat /\ 1..m = 1..n
  BY SeqDomain
<1> HIDE DEF m
<1>2. m = n
  <2>1. CASE m < n
    <3>1. n \in 1..n /\ n \notin 1..m
      BY <1>1, <2>1
    <3> QED
      BY <1>1, <3>1
  <2>2. CASE n < m
    <3>1. m \in 1..m /\ m \notin 1..n
      BY <1>1, <2>2
    <3> QED
      BY <1>1, <3>1
  <2> QED
    BY <1>1, <2>1, <2>2
<1> QED
  BY <1>2 DEF m

\* Appending keeps a sequence one, and every element where it was.
LEMMA AppendSeq ==
    ASSUME NEW s, IsSeq(s), NEW e
    PROVE  /\ IsSeq(Append(s, e))
           /\ DOMAIN Append(s, e) = 1..(Len(s) + 1)
           /\ \A i \in 1..Len(s) : Append(s, e)[i] = s[i]
           /\ Append(s, e)[Len(s) + 1] = e
<1> DEFINE T == Range(s) \cup {e}
           t == Append(s, e)
<1>1. s \in Seq(T) /\ e \in T
  BY DEF IsSeq
<1>2. t \in Seq(T) /\ Len(t) = Len(s) + 1 /\ Len(s) \in Nat
  BY <1>1
<1>3. DOMAIN t = 1..(Len(s) + 1) /\ t[Len(s) + 1] = e /\ \A i \in 1..Len(s) : t[i] = s[i]
  BY <1>1, <1>2
<1> HIDE DEF t, T
<1>4. \A i \in 1..Len(t) : t[i] \in Range(t)
  BY <1>2, <1>3 DEF Range
<1>5. t \in Seq(Range(t))
  BY <1>2, <1>4
<1>6. QED
  BY <1>3, <1>5 DEF IsSeq, t

\* So does taking the last element away.
LEMMA FrontSeq ==
    ASSUME NEW s, IsSeq(s), s # <<>>
    PROVE  /\ IsSeq(Front(s))
           /\ DOMAIN Front(s) = 1..(Len(s) - 1)
           /\ \A i \in 1..(Len(s) - 1) : Front(s)[i] = s[i]
<1> DEFINE t == SubSeq(s, 1, Len(s) - 1)
<1>1. Len(s) \in Nat /\ Len(s) > 0
  BY EmptySeq DEF IsSeq
<1>2. t \in Seq(Range(s)) /\ Len(t) = Len(s) - 1 /\ \A i \in 1..(Len(s) - 1) : t[i] = s[i]
  <2>1. 1 \in Int /\ Len(s) - 1 \in Int /\ \A i \in 1..(Len(s) - 1) : s[i] \in Range(s)
    BY <1>1, SeqDomain DEF Range
  <2>2. /\ t \in Seq(Range(s))
        /\ Len(t) = IF 1 <= Len(s) - 1 THEN (Len(s) - 1) - 1 + 1 ELSE 0
        /\ \A i \in 1..((Len(s) - 1) - 1 + 1) : t[i] = s[1 + i - 1]
    BY <2>1, SubSeqProperties
  <2> HIDE DEF t
  <2>3. Len(t) = Len(s) - 1
    <3> DEFINE n == Len(s)
    <3>1. n \in Nat /\ n > 0 /\ Len(t) = IF 1 <= n - 1 THEN (n - 1) - 1 + 1 ELSE 0
      BY <1>1, <2>2
    <3> HIDE DEF n
    <3>2. Len(t) = n - 1
      BY <3>1
    <3>3. QED
      BY <3>2 DEF n
  <2>4. \A i \in 1..(Len(s) - 1) : t[i] = s[i]
    BY <1>1, <2>2
  <2>5. QED
    BY <2>2, <2>3, <2>4
<1>3. DOMAIN t = 1..(Len(s) - 1)
  BY <1>1, <1>2
<1> HIDE DEF t
<1>4. \A i \in 1..Len(t) : t[i] \in Range(t)
  BY <1>2, <1>3 DEF Range
<1>5. t \in Seq(Range(t))
  BY <1>2, <1>4
<1>6. QED
  BY <1>2, <1>3, <1>5 DEF IsSeq, Front, t

\* Appending adds one value.
LEMMA AppendRange ==
    ASSUME NEW s, IsSeq(s), NEW e
    PROVE  IsSeq(Append(s, e)) /\ Range(Append(s, e)) = Range(s) \cup {e}
<1> DEFINE t == Append(s, e)
<1>1. IsSeq(t) /\ DOMAIN t = 1..(Len(s) + 1) /\ t[Len(s) + 1] = e /\ \A i \in 1..Len(s) : t[i] = s[i]
  BY AppendSeq
<1>2. Len(s) \in Nat /\ DOMAIN s = 1..Len(s)
  BY SeqDomain
<1> HIDE DEF t
<1>3. 1..(Len(s) + 1) = (1..Len(s)) \cup {Len(s) + 1}
  BY <1>2
<1>4. Range(t) = Range(s) \cup {e}
  BY <1>1, <1>2, <1>3 DEF Range
<1>5. QED
  BY <1>1, <1>4 DEF t

\* A sequence over any set is one of what is in it.
LEMMA SeqIsSeq ==
    ASSUME NEW S, NEW s \in Seq(S)
    PROVE  IsSeq(s)
BY SeqOfRange DEF IsSeq

\* Sequences put together are a sequence of what is in them.
LEMMA ConcatSeq ==
    ASSUME NEW s, NEW t, IsSeq(s), IsSeq(t)
    PROVE  IsSeq(s \o t) /\ Range(s \o t) = Range(s) \cup Range(t)
<1> DEFINE S == Range(s) \cup Range(t)
<1>1. s \in Seq(S) /\ t \in Seq(S)
  BY SeqMonotonic DEF IsSeq
<1> HIDE DEF S
<1>2. s \o t \in Seq(S) /\ Range(s \o t) = Range(s) \cup Range(t)
  BY <1>1, ConcatProperties, RangeConcatenation
<1> QED
  BY <1>2, SeqIsSeq

\* Short tuples are sequences.
LEMMA TupleSeq ==
    /\ \A a : IsSeq(<<a>>)
    /\ \A a, b : IsSeq(<<a, b>>)
    /\ \A a, b, c : IsSeq(<<a, b, c>>)
    /\ \A a, b, c, d : IsSeq(<<a, b, c, d>>)
    /\ \A a, b, c, d, e : IsSeq(<<a, b, c, d, e>>)
    /\ \A a, b, c, d, e, f, g : IsSeq(<<a, b, c, d, e, f, g>>)
    /\ \A a, b, c, d, e, f, g, h : IsSeq(<<a, b, c, d, e, f, g, h>>)
<1>1. \A a : IsSeq(<<a>>)
  <2> SUFFICES ASSUME NEW a PROVE IsSeq(<<a>>)
    OBVIOUS
  <2>1. <<a>> \in Seq({a})
    OBVIOUS
  <2> QED
    BY <2>1, SeqIsSeq
<1>2. \A a, b : IsSeq(<<a, b>>)
  <2> SUFFICES ASSUME NEW a, NEW b PROVE IsSeq(<<a, b>>)
    OBVIOUS
  <2>1. <<a, b>> \in Seq({a, b})
    OBVIOUS
  <2> QED
    BY <2>1, SeqIsSeq
<1>3. \A a, b, c : IsSeq(<<a, b, c>>)
  <2> SUFFICES ASSUME NEW a, NEW b, NEW c PROVE IsSeq(<<a, b, c>>)
    OBVIOUS
  <2>1. <<a, b, c>> \in Seq({a, b, c})
    OBVIOUS
  <2> QED
    BY <2>1, SeqIsSeq
<1>4. \A a, b, c, d : IsSeq(<<a, b, c, d>>)
  <2> SUFFICES ASSUME NEW a, NEW b, NEW c, NEW d PROVE IsSeq(<<a, b, c, d>>)
    OBVIOUS
  <2>1. <<a, b, c, d>> \in Seq({a, b, c, d})
    OBVIOUS
  <2> QED
    BY <2>1, SeqIsSeq
<1>5. \A a, b, c, d, e : IsSeq(<<a, b, c, d, e>>)
  <2> SUFFICES ASSUME NEW a, NEW b, NEW c, NEW d, NEW e PROVE IsSeq(<<a, b, c, d, e>>)
    OBVIOUS
  <2>1. <<a, b, c, d, e>> \in Seq({a, b, c, d, e})
    OBVIOUS
  <2> QED
    BY <2>1, SeqIsSeq
<1>6. \A a, b, c, d, e, f, g : IsSeq(<<a, b, c, d, e, f, g>>)
  <2> SUFFICES ASSUME NEW a, NEW b, NEW c, NEW d, NEW e, NEW f, NEW g PROVE IsSeq(<<a, b, c, d, e, f, g>>)
    OBVIOUS
  <2>1. <<a, b, c, d, e, f, g>> \in Seq({a, b, c, d, e, f, g})
    OBVIOUS
  <2> QED
    BY <2>1, SeqIsSeq
<1>7. \A a, b, c, d, e, f, g, h : IsSeq(<<a, b, c, d, e, f, g, h>>)
  <2> SUFFICES ASSUME NEW a, NEW b, NEW c, NEW d, NEW e, NEW f, NEW g, NEW h PROVE IsSeq(<<a, b, c, d, e, f, g, h>>)
    OBVIOUS
  <2>1. <<a, b, c, d, e, f, g, h>> \in Seq({a, b, c, d, e, f, g, h})
    OBVIOUS
  <2> QED
    BY <2>1, SeqIsSeq
<1> QED
  BY <1>1, <1>2, <1>3, <1>4, <1>5, <1>6, <1>7
=============================================================================
