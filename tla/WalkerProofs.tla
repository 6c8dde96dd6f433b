---------------------------- MODULE WalkerProofs ----------------------------
(***************************************************************************)
(* Walks of any documents by any handlers.                                 *)
(***************************************************************************)
EXTENDS Walker, InductionLemmas, FiniteSetTheorems

-----------------------------------------------------------------------------
(* Sequences *)

\* What is chosen of the first elements.
IsChosen(f, s, places) ==
    /\ f \in [Nat -> Seq({s[i] : i \in Nat})] /\ f[0] = <<>>
    /\ \A i \in Nat : i # 0 => f[i] = IF i \in places THEN Append(f[i - 1], s[i]) ELSE f[i - 1]

\* Chosen is the last of them.
LEMMA ChosenIs ==
    ASSUME NEW s, NEW places
    PROVE  \E f : IsChosen(f, s, places) /\ Chosen(s, places) = f[Len(s)]
<1> DEFINE S == {s[i] : i \in Nat}
           X == Seq(S)
           F == [p \in Nat \X X |-> IF p[1] \in places THEN Append(p[2], s[p[1]]) ELSE p[2]]
           upTo[i \in Nat] ==
               IF i = 0 THEN <<>>
               ELSE IF i \in places THEN Append(upTo[i - 1], s[i]) ELSE upTo[i - 1]
<1>1. \A i \in Nat : \A x \in X : F[<<i, x>>] = IF i \in places THEN Append(x, s[i]) ELSE x
  OBVIOUS
<1>2. \A i \in Nat : \A x \in X : F[<<i, x>>] \in X
  <2> TAKE i \in Nat
  <2> TAKE x \in X
  <2>1. s[i] \in S
    OBVIOUS
  <2> QED
    BY <1>1, <2>1
<1> HIDE DEF F
<1>3. <<>> \in X
  OBVIOUS
<1> HIDE DEF X
<1>4. PICK f \in [Nat -> X] : Recursive(f, <<>>, F)
  BY <1>2, <1>3, RecursionIn
<1>5. /\ f[0] = <<>> /\ f = [i \in Nat |-> f[i]]
      /\ \A i \in Nat : i # 0 => f[i] = F[<<i, f[i - 1]>>]
  BY <1>4 DEF Recursive
<1>6. \A i \in Nat : i # 0 => f[i] = IF i \in places THEN Append(f[i - 1], s[i]) ELSE f[i - 1]
  <2> TAKE i \in Nat
  <2> HAVE i # 0
  <2>1. i - 1 \in Nat /\ f[i - 1] \in X
    BY <1>4
  <2> QED
    BY <1>1, <1>5, <2>1
<1>7. f = [i \in Nat |-> IF i = 0 THEN <<>>
                         ELSE IF i \in places THEN Append(f[i - 1], s[i]) ELSE f[i - 1]]
  BY <1>5, <1>6
<1>8. upTo = [i \in Nat |-> IF i = 0 THEN <<>>
                            ELSE IF i \in places THEN Append(upTo[i - 1], s[i]) ELSE upTo[i - 1]]
  BY <1>7 DEF upTo
<1>9. Chosen(s, places) = upTo[Len(s)]
  BY DEF Chosen
<1> HIDE DEF upTo
<1>10. upTo[0] = <<>>
  BY <1>8
<1>11. \A i \in Nat : i # 0 => upTo[i] = IF i \in places THEN Append(upTo[i - 1], s[i]) ELSE upTo[i - 1]
  BY <1>8
<1> DEFINE T == {i \in Nat : upTo[i] = f[i]}
<1>12. 0 \in T
  BY <1>5, <1>10
<1>13. ASSUME NEW i \in T PROVE i + 1 \in T
  <2>1. i + 1 \in Nat /\ i + 1 # 0 /\ (i + 1) - 1 = i
    OBVIOUS
  <2> QED
    BY <1>6, <1>11, <2>1
<1>14. T \in SUBSET Nat
  OBVIOUS
<1> HIDE DEF T
<1>15. T = Nat
  BY <1>12, <1>13, <1>14, Induct
<1>16. upTo = f
  BY <1>5, <1>8, <1>15 DEF T
<1>17. IsChosen(f, s, places)
  BY <1>4, <1>5, <1>6 DEF IsChosen, X
<1> QED
  BY <1>9, <1>16, <1>17

\* Nothing is chosen of nothing.
LEMMA ChosenOfNone ==
    ASSUME NEW places
    PROVE  Chosen(<<>>, places) = <<>>
<1>1. PICK f : IsChosen(f, <<>>, places) /\ Chosen(<<>>, places) = f[Len(<<>>)]
  BY ChosenIs
<1>2. Len(<<>>) = 0
  OBVIOUS
<1> QED
  BY <1>1, <1>2 DEF IsChosen

\* What is chosen of the first elements does not depend on the others.
LEMMA ChosenSame ==
    ASSUME NEW s, NEW t, NEW T, NEW U, NEW f, NEW g, IsChosen(f, s, T), IsChosen(g, t, U), NEW n \in Nat,
           \A i \in 1..n : s[i] = t[i] /\ (i \in T <=> i \in U)
    PROVE  f[n] = g[n]
<1> DEFINE M == {i \in Nat : i <= n => f[i] = g[i]}
<1>1. 0 \in M
  BY DEF IsChosen
<1>2. ASSUME NEW i \in M PROVE i + 1 \in M
  <2> SUFFICES ASSUME i + 1 <= n PROVE f[i + 1] = g[i + 1]
    OBVIOUS
  <2>1. i + 1 \in 1..n /\ i + 1 \in Nat /\ i + 1 # 0 /\ (i + 1) - 1 = i /\ i <= n
    OBVIOUS
  <2> QED
    BY <2>1, ZenonT(30) DEF IsChosen
<1>3. M \in SUBSET Nat
  OBVIOUS
<1> HIDE DEF M
<1>4. M = Nat
  BY <1>1, <1>2, <1>3, Induct
<1> QED
  BY <1>4 DEF M

\* The last element is chosen last.
LEMMA ChosenAppend ==
    ASSUME NEW s, IsSeq(s), NEW x, NEW T, NEW U, \A i \in 1..Len(s) : (i \in T <=> i \in U)
    PROVE  Chosen(Append(s, x), T) = IF Len(s) + 1 \in T THEN Append(Chosen(s, U), x) ELSE Chosen(s, U)
<1> DEFINE t == Append(s, x)
           n == Len(s)
<1>1. n \in Nat /\ Len(t) = n + 1 /\ t[n + 1] = x /\ \A i \in 1..n : s[i] = t[i]
  <2>1. IsSeq(t) /\ DOMAIN t = 1..(n + 1) /\ t[n + 1] = x /\ \A i \in 1..n : s[i] = t[i]
    BY AppendSeq
  <2>2. n \in Nat
    BY SeqDomain
  <2> QED
    BY <2>1, <2>2, SeqDomain
<1> HIDE DEF t, n
<1>2. PICK f : IsChosen(f, t, T) /\ Chosen(t, T) = f[Len(t)]
  BY ChosenIs
<1>3. PICK g : IsChosen(g, s, U) /\ Chosen(s, U) = g[n]
  BY ChosenIs DEF n
<1>4. f[n] = g[n]
  <2>1. \A i \in 1..n : t[i] = s[i] /\ (i \in T <=> i \in U)
    BY <1>1 DEF n
  <2> QED
    BY <1>1, <1>2, <1>3, <2>1, ChosenSame
<1>5. n + 1 \in Nat /\ n + 1 # 0 /\ (n + 1) - 1 = n
  BY <1>1
<1>6. f[n + 1] = IF n + 1 \in T THEN Append(f[n], x) ELSE f[n]
  BY <1>1, <1>2, <1>5 DEF IsChosen
<1> QED
  BY <1>1, <1>2, <1>3, <1>4, <1>6 DEF t, n

\* What is chosen is a sequence of elements of those places, and has them all.
LEMMA ChosenSeq ==
    ASSUME NEW s, IsSeq(s), NEW T
    PROVE  /\ IsSeq(Chosen(s, T))
           /\ Range(Chosen(s, T)) = {s[i] : i \in T \cap DOMAIN s}
<1>1. PICK f : IsChosen(f, s, T) /\ Chosen(s, T) = f[Len(s)]
  BY ChosenIs
<1>2. Len(s) \in Nat /\ DOMAIN s = 1..Len(s)
  BY SeqDomain
<1>3. f[0] = <<>> /\ \A i \in Nat : i # 0 => f[i] = IF i \in T THEN Append(f[i - 1], s[i]) ELSE f[i - 1]
  BY <1>1 DEF IsChosen
<1> DEFINE M == {n \in Nat : IsSeq(f[n]) /\ Range(f[n]) = {s[i] : i \in T \cap (1..n)}}
<1>4. 0 \in M
  <2>1. Range(<<>>) = {} /\ IsSeq(<<>>)
    BY DEF Range, IsSeq
  <2>2. {s[i] : i \in T \cap (1..0)} = {}
    OBVIOUS
  <2> QED
    BY <1>3, <2>1, <2>2
<1>5. ASSUME NEW n \in M PROVE n + 1 \in M
  <2>1. n + 1 \in Nat /\ n + 1 # 0 /\ (n + 1) - 1 = n /\ 1..(n + 1) = (1..n) \cup {n + 1}
    OBVIOUS
  <2>2. IsSeq(f[n]) /\ Range(f[n]) = {s[i] : i \in T \cap (1..n)}
    OBVIOUS
  <2>3. CASE n + 1 \in T
    <3>1. f[n + 1] = Append(f[n], s[n + 1])
      BY <1>3, <2>1, <2>3
    <3>2. IsSeq(Append(f[n], s[n + 1])) /\ Range(Append(f[n], s[n + 1])) = Range(f[n]) \cup {s[n + 1]}
      BY <2>2, AppendRange
    <3>3. {s[i] : i \in T \cap (1..(n + 1))} = {s[i] : i \in T \cap (1..n)} \cup {s[n + 1]}
      BY <2>1, <2>3
    <3> QED
      BY <2>1, <2>2, <3>1, <3>2, <3>3
  <2>4. CASE n + 1 \notin T
    <3>1. f[n + 1] = f[n]
      BY <1>3, <2>1, <2>4
    <3>2. T \cap (1..(n + 1)) = T \cap (1..n)
      BY <2>1, <2>4
    <3> QED
      BY <2>1, <2>2, <3>1, <3>2
  <2> QED
    BY <2>3, <2>4
<1>6. M \in SUBSET Nat
  OBVIOUS
<1> HIDE DEF M
<1>7. M = Nat
  BY <1>4, <1>5, <1>6, Induct
<1> QED
  BY <1>1, <1>2, <1>7 DEF M

\* Flattening puts one sequence after the other.
Flattens(f, ss) ==
    /\ f[0] = <<>>
    /\ \A i \in 0..Len(ss) : IsSeq(f[i])
    /\ \A i \in 1..Len(ss) : f[i] = f[i - 1] \o ss[i]
LEMMA FlattenSteps ==
    ASSUME NEW ss, IsSeq(ss), \A i \in DOMAIN ss : IsSeq(ss[i])
    PROVE  \E f : Flattens(f, ss) /\ FlattenSeq(ss) = f[Len(ss)]
<1> DEFINE n == Len(ss)
           flatten[i \in 1..n] == IF i = 1 THEN ss[i] ELSE flatten[i - 1] \o ss[i]
           F == [p \in Nat \X Seq(UNION {Range(ss[i]) : i \in DOMAIN ss}) |->
                    IF p[1] \in DOMAIN ss THEN p[2] \o ss[p[1]] ELSE p[2]]
           S == UNION {Range(ss[i]) : i \in DOMAIN ss}
           X == Seq(S)
<1>1. FlattenSeq(ss) = IF n = 0 THEN ss ELSE flatten[n]
  BY DEF FlattenSeq
<1>2. n \in Nat /\ DOMAIN ss = 1..n
  BY SeqDomain
<1>3. \A i \in 1..n : ss[i] \in X
  <2> TAKE i \in 1..n
  <2>1. Range(ss[i]) \subseteq S /\ ss[i] \in Seq(Range(ss[i]))
    BY <1>2 DEF IsSeq
  <2> QED
    BY <2>1, SeqMonotonic
<1>4. \A i \in Nat : \A x \in X : F[<<i, x>>] = IF i \in 1..n THEN x \o ss[i] ELSE x
  BY <1>2
<1> HIDE DEF F, S
<1>5. \A i \in Nat : \A x \in X : F[<<i, x>>] \in X
  <2> TAKE i \in Nat
  <2> TAKE x \in X
  <2>1. CASE i \in 1..n
    <3>1. ss[i] \in X
      BY <1>3, <2>1
    <3>2. x \o ss[i] \in X
      BY <3>1, ConcatProperties
    <3> HIDE DEF X
    <3> QED
      BY <1>4, <2>1, <3>2
  <2>2. CASE i \notin 1..n
    BY <1>4, <2>2
  <2> QED
    BY <2>1, <2>2
<1>6. <<>> \in X
  OBVIOUS
<1>7. PICK f \in [Nat -> X] : Recursive(f, <<>>, F)
  <2> HIDE DEF X
  <2> QED
    BY <1>5, <1>6, RecursionIn
<1>8. f[0] = <<>> /\ \A i \in Nat : i # 0 => f[i] = F[<<i, f[i - 1]>>]
  BY <1>7 DEF Recursive
<1>9. \A i \in 1..n : f[i] = f[i - 1] \o ss[i]
  <2> TAKE i \in 1..n
  <2>1. i \in Nat /\ i # 0 /\ i - 1 \in Nat /\ f[i - 1] \in X
    BY <1>2, <1>7, SMTT(30)
  <2> QED
    BY <1>4, <1>8, <2>1
<1> DEFINE g == [i \in 1..n |-> f[i]]
<1>10. g = [i \in 1..n |-> IF i = 1 THEN ss[i] ELSE g[i - 1] \o ss[i]]
  <2>1. ASSUME NEW i \in 1..n PROVE f[i] = IF i = 1 THEN ss[i] ELSE g[i - 1] \o ss[i]
    <3>1. CASE i = 1
      <4>0. i - 1 = 0 /\ ss[i] \in X
        <5> HIDE DEF X, g
        <5> QED
          BY <1>3, <3>1
      <4>1. f[i] = f[0] \o ss[i]
        BY <1>9, <4>0
      <4>2. <<>> \o ss[i] = ss[i]
        BY <4>0, ConcatEmptySeq
      <4> QED
        BY <1>8, <3>1, <4>0, <4>1, <4>2
    <3>2. CASE i # 1
      <4>1. i - 1 \in 1..n
        BY <1>2, <3>2
      <4>2. g[i - 1] = f[i - 1]
        BY <4>1
      <4> HIDE DEF g, X
      <4> QED
        BY <1>9, <3>2, <4>2
    <3> QED
      BY <3>1, <3>2
  <2> QED
    BY <2>1
<1> HIDE DEF g
<1>11. flatten = [i \in 1..n |-> IF i = 1 THEN ss[i] ELSE flatten[i - 1] \o ss[i]]
  BY <1>10 DEF flatten
<1> HIDE DEF flatten
<1> HIDE DEF X
<1>13. \A i \in 1..n : flatten[i] = f[i]
  <2> DEFINE T == {i \in Nat : i + 1 <= n => flatten[i + 1] = f[i + 1]}
  <2>1. 0 \in T
    <3> SUFFICES ASSUME 1 <= n PROVE flatten[1] = f[1]
      OBVIOUS
    <3>1. 1 \in 1..n
      BY <1>2
    <3>2. flatten[1] = ss[1]
      BY <1>11, <3>1
    <3>3. f[1] = f[0] \o ss[1] /\ ss[1] \in X
      <4>1. f[1] = f[1 - 1] \o ss[1]
        BY <1>9, <3>1
      <4>2. 1 - 1 = 0
        OBVIOUS
      <4>3. f[1] = f[0] \o ss[1]
        BY <4>1, <4>2
      <4> QED
        BY <1>3, <3>1, <4>3
    <3>4. <<>> \o ss[1] = ss[1]
      BY <3>3, ConcatEmptySeq DEF X
    <3> QED
      BY <1>8, <3>2, <3>3, <3>4
  <2>2. ASSUME NEW i \in Nat, i \in T PROVE i + 1 \in T
    <3> SUFFICES ASSUME (i + 1) + 1 <= n PROVE flatten[(i + 1) + 1] = f[(i + 1) + 1]
      OBVIOUS
    <3>1. flatten[i + 1] = f[i + 1]
      BY <1>2, <2>2
    <3> HIDE DEF T
    <3>2. (i + 1) + 1 \in 1..n /\ (i + 1) + 1 # 1 /\ ((i + 1) + 1) - 1 = i + 1
      BY <1>2
    <3>3. flatten[(i + 1) + 1] = flatten[i + 1] \o ss[(i + 1) + 1]
      BY <1>11, <3>2
    <3> QED
      BY <1>9, <3>1, <3>2, <3>3
  <2>3. T \in SUBSET Nat
    OBVIOUS
  <2> HIDE DEF T
  <2>4. T = Nat
    BY <2>1, <2>2, <2>3, Induct
  <2>5. ASSUME NEW i \in 1..n PROVE flatten[i] = f[i]
    <3>1. i - 1 \in T /\ (i - 1) + 1 = i /\ i <= n
      BY <1>2, <2>4
    <3> QED
      BY <3>1 DEF T
  <2> QED
    BY <2>5
<1>14. \A i \in 0..n : IsSeq(f[i])
  <2> TAKE i \in 0..n
  <2>1. f[i] \in X
    BY <1>2, <1>7
  <2> QED
    BY <2>1, SeqIsSeq DEF X
<1>15. Flattens(f, ss)
  BY <1>8, <1>9, <1>14 DEF Flattens
<1>16. CASE n = 0
  <2>1. ss = <<>>
    BY <1>2, <1>16, EmptySeq DEF IsSeq
  <2> QED
    BY <1>1, <1>8, <1>15, <1>16, <2>1
<1>17. CASE n # 0
  <2>1. flatten[n] = f[n]
    BY <1>2, <1>13, <1>17
  <2> QED
    BY <1>1, <1>15, <1>17, <2>1
<1> QED
  BY <1>16, <1>17

\* It keeps their values.
LEMMA FlattenIs ==
    ASSUME NEW ss, IsSeq(ss), \A i \in DOMAIN ss : IsSeq(ss[i])
    PROVE  /\ IsSeq(FlattenSeq(ss))
           /\ Range(FlattenSeq(ss)) = UNION {Range(ss[i]) : i \in DOMAIN ss}
<1> DEFINE n == Len(ss)
<1>1. PICK f : Flattens(f, ss) /\ FlattenSeq(ss) = f[n]
  BY FlattenSteps
<1>2. n \in Nat /\ DOMAIN ss = 1..n
  BY SeqDomain
<1> HIDE DEF n
<1>3. f[0] = <<>> /\ (\A i \in 0..n : IsSeq(f[i])) /\ \A i \in 1..n : f[i] = f[i - 1] \o ss[i]
  BY <1>1 DEF Flattens, n
<1> DEFINE T == {i \in Nat : i <= n => Range(f[i]) = UNION {Range(ss[j]) : j \in 1..i}}
<1>4. 0 \in T
  <2>1. Range(<<>>) = {}
    BY DEF Range
  <2> QED
    BY <1>3, <2>1
<1>5. ASSUME NEW i \in Nat, i \in T PROVE i + 1 \in T
  <2> SUFFICES ASSUME i + 1 <= n PROVE Range(f[i + 1]) = UNION {Range(ss[j]) : j \in 1..(i + 1)}
    OBVIOUS
  <2>1. Range(f[i]) = UNION {Range(ss[j]) : j \in 1..i}
    BY <1>2, <1>5
  <2> HIDE DEF T
  <2>2. i + 1 \in 1..n /\ i \in 0..n /\ (i + 1) - 1 = i
    BY <1>2
  <2>3. f[i + 1] = f[i] \o ss[i + 1] /\ IsSeq(f[i]) /\ IsSeq(ss[i + 1])
    BY <1>2, <1>3, <2>2
  <2>4. Range(f[i + 1]) = Range(f[i]) \cup Range(ss[i + 1])
    BY <2>3, ConcatSeq
  <2>5. 1..(i + 1) = (1..i) \cup {i + 1}
    OBVIOUS
  <2> QED
    BY <2>1, <2>4, <2>5
<1>6. T \in SUBSET Nat
  OBVIOUS
<1> HIDE DEF T
<1>7. T = Nat
  BY <1>4, <1>5, <1>6, Induct
<1>8. Range(f[n]) = UNION {Range(ss[j]) : j \in 1..n}
  BY <1>2, <1>7 DEF T
<1>9. IsSeq(f[n])
  BY <1>2, <1>3
<1> QED
  BY <1>1, <1>2, <1>8, <1>9

\* One element comes before another, or is the same.
Before(s, x, y) == \E i, j \in DOMAIN s : i <= j /\ s[i] = x /\ s[j] = y

\* One more element comes last.
LEMMA BeforeAppend ==
    ASSUME NEW s, IsSeq(s), NEW e, NEW x, NEW y, Before(Append(s, e), x, y)
    PROVE  Before(s, x, y) \/ (x \in Range(s) \cup {e} /\ y = e)
<1> DEFINE t == Append(s, e)
           n == Len(s)
<1>1. DOMAIN t = 1..(n + 1) /\ (\A i \in 1..n : t[i] = s[i]) /\ t[n + 1] = e
  BY AppendSeq
<1>2. n \in Nat /\ DOMAIN s = 1..n
  BY SeqDomain
<1>3. Range(t) = Range(s) \cup {e}
  BY AppendRange
<1> HIDE DEF n, t
<1>4. PICK i, j \in DOMAIN t : i <= j /\ t[i] = x /\ t[j] = y
  BY DEF Before, t
<1>5. x \in Range(t)
  BY <1>4 DEF Range
<1>6. CASE j = n + 1
  BY <1>1, <1>3, <1>4, <1>5, <1>6
<1>7. CASE j # n + 1
  <2>1. i \in 1..n /\ j \in 1..n
    BY <1>1, <1>2, <1>4, <1>7
  <2> QED
    BY <1>1, <1>2, <1>4, <2>1 DEF Before
<1> QED
  BY <1>6, <1>7

\* Of two sequences, all of the first comes before all of the second.
LEMMA BeforeConcat ==
    ASSUME NEW s, NEW t, IsSeq(s), IsSeq(t), NEW x, NEW y, Before(s \o t, x, y)
    PROVE  \/ Before(s, x, y)
           \/ x \in Range(s) /\ y \in Range(t)
           \/ Before(t, x, y)
<1> DEFINE u == s \o t
           n == Len(s)
           m == Len(t)
<1>1. n \in Nat /\ m \in Nat /\ DOMAIN s = 1..n /\ DOMAIN t = 1..m
  BY SeqDomain
<1>2. /\ Len(u) = n + m
      /\ \A i \in 1..(n + m) : u[i] = IF i <= n THEN s[i] ELSE t[i - n]
  <2>1. s \in Seq(Range(s) \cup Range(t)) /\ t \in Seq(Range(s) \cup Range(t))
    BY SeqMonotonic DEF IsSeq
  <2> QED
    BY <2>1, ConcatProperties
<1>3. DOMAIN u = 1..Len(u)
  BY ConcatSeq, SeqDomain
<1> HIDE DEF u, n, m
<1>4. PICK i, j \in DOMAIN u : i <= j /\ u[i] = x /\ u[j] = y
  BY DEF Before, u
<1>5. i \in 1..(n + m) /\ j \in 1..(n + m)
  BY <1>2, <1>3, <1>4
<1>6. CASE j <= n
  <2>1. i \in DOMAIN s /\ j \in DOMAIN s /\ s[i] = x /\ s[j] = y
    BY <1>1, <1>2, <1>4, <1>5, <1>6
  <2> QED
    BY <1>4, <2>1 DEF Before
<1>7. CASE ~(j <= n) /\ i <= n
  <2>1. i \in DOMAIN s /\ j - n \in DOMAIN t /\ s[i] = x /\ t[j - n] = y
    BY <1>1, <1>2, <1>4, <1>5, <1>7
  <2> QED
    BY <2>1 DEF Range
<1>8. CASE ~(i <= n)
  <2>1. i - n \in DOMAIN t /\ j - n \in DOMAIN t /\ t[i - n] = x /\ t[j - n] = y /\ i - n <= j - n
    BY <1>1, <1>2, <1>4, <1>5, <1>8
  <2> QED
    BY <2>1 DEF Before
<1> QED
  BY <1>6, <1>7, <1>8

\* What is chosen stays in its order.
LEMMA BeforeChosen ==
    ASSUME NEW s, IsSeq(s), NEW T, NEW x, NEW y, Before(Chosen(s, T), x, y)
    PROVE  Before(s, x, y)
<1>1. PICK f : IsChosen(f, s, T) /\ Chosen(s, T) = f[Len(s)]
  BY ChosenIs
<1>2. Len(s) \in Nat /\ DOMAIN s = 1..Len(s)
  BY SeqDomain
<1>3. f[0] = <<>> /\ \A i \in Nat : i # 0 => f[i] = IF i \in T THEN Append(f[i - 1], s[i]) ELSE f[i - 1]
  BY <1>1 DEF IsChosen
<1> DEFINE In(n) == {s[i] : i \in 1..n}
           Upto(n) == \A a, b : Before(f[n], a, b) => \E i, j \in 1..n : i <= j /\ s[i] = a /\ s[j] = b
           M == {n \in Nat : IsSeq(f[n]) /\ Range(f[n]) \subseteq In(n) /\ Upto(n)}
<1>4. 0 \in M
  <2>1. Range(<<>>) = {} /\ IsSeq(<<>>) /\ \A a, b : ~Before(<<>>, a, b)
    BY DEF Range, IsSeq, Before
  <2> QED
    BY <1>3, <2>1
<1>5. ASSUME NEW n \in M PROVE n + 1 \in M
  <2>1. n + 1 \in Nat /\ n + 1 # 0 /\ (n + 1) - 1 = n /\ 1..(n + 1) = (1..n) \cup {n + 1}
    OBVIOUS
  <2>2. IsSeq(f[n]) /\ Range(f[n]) \subseteq In(n) /\ Upto(n)
    OBVIOUS
  <2>3. CASE n + 1 \in T
    <3> DEFINE g == f[n]
               e == s[n + 1]
    <3>1. f[n + 1] = Append(g, e)
      BY <1>3, <2>1, <2>3
    <3>2. IsSeq(Append(g, e)) /\ Range(Append(g, e)) = Range(g) \cup {e}
      BY <2>2, AppendRange
    <3>3. ASSUME NEW a, NEW b, Before(Append(g, e), a, b)
          PROVE  \E i, j \in 1..(n + 1) : i <= j /\ s[i] = a /\ s[j] = b
      <4>1. Before(g, a, b) \/ (a \in Range(g) \cup {e} /\ b = e)
        BY <2>2, <3>3, BeforeAppend
      <4>2. CASE Before(g, a, b)
        BY <2>1, <2>2, <4>2
      <4>3. CASE a \in Range(g) \cup {e} /\ b = e
        <5>1. PICK i \in 1..(n + 1) : s[i] = a
          BY <2>1, <2>2, <4>3
        <5>2. i <= n + 1 /\ n + 1 \in 1..(n + 1)
          BY <2>1
        <5> QED
          BY <4>3, <5>1, <5>2
      <4> QED
        BY <4>1, <4>2, <4>3
    <3>4. Range(g) \cup {e} \subseteq In(n + 1)
      BY <2>1, <2>2
    <3> HIDE DEF g, e, M
    <3>5. IsSeq(f[n + 1]) /\ Range(f[n + 1]) \subseteq In(n + 1) /\ Upto(n + 1)
      BY <3>1, <3>2, <3>3, <3>4
    <3> QED
      BY <2>1, <3>5 DEF M
  <2>4. CASE n + 1 \notin T
    <3>1. f[n + 1] = f[n]
      BY <1>3, <2>1, <2>4
    <3>2. IsSeq(f[n + 1]) /\ Range(f[n + 1]) \subseteq In(n + 1) /\ Upto(n + 1)
      BY <2>1, <2>2, <3>1
    <3> QED
      BY <2>1, <3>2
  <2> QED
    BY <2>3, <2>4
<1>6. M \in SUBSET Nat
  OBVIOUS
<1> HIDE DEF M
<1>7. M = Nat
  BY <1>4, <1>5, <1>6, Induct
<1>8. Upto(Len(s))
  BY <1>2, <1>7 DEF M
<1> DEFINE m == Len(s)
<1>9. \E i, j \in 1..m : i <= j /\ s[i] = x /\ s[j] = y
  <2> HIDE DEF m
  <2>1. Before(f[m], x, y)
    BY <1>1 DEF m
  <2> QED
    BY <1>8, <2>1 DEF m
<1> QED
  BY <1>2, <1>9 DEF Before

\* So does what is flattened.
LEMMA BeforeFlatten ==
    ASSUME NEW ss, IsSeq(ss), \A i \in DOMAIN ss : IsSeq(ss[i]), NEW x, NEW y, Before(FlattenSeq(ss), x, y)
    PROVE  \E i, j \in DOMAIN ss : i <= j /\ x \in Range(ss[i]) /\ y \in Range(ss[j])
<1> DEFINE n == Len(ss)
<1>1. PICK f : Flattens(f, ss) /\ FlattenSeq(ss) = f[n]
  BY FlattenSteps
<1>2. n \in Nat /\ DOMAIN ss = 1..n
  BY SeqDomain
<1> HIDE DEF n
<1>3. f[0] = <<>> /\ (\A i \in 0..n : IsSeq(f[i])) /\ \A i \in 1..n : f[i] = f[i - 1] \o ss[i]
  BY <1>1 DEF Flattens, n
<1> DEFINE From(m, a) == \E i \in 1..m : a \in Range(ss[i])
           Upto(m) == /\ \A a \in Range(f[m]) : From(m, a)
                      /\ \A a, b : Before(f[m], a, b) =>
                             \E i, j \in 1..m : i <= j /\ a \in Range(ss[i]) /\ b \in Range(ss[j])
           T == {m \in Nat : m <= n => Upto(m)}
<1>4. 0 \in T
  <2>1. Range(<<>>) = {} /\ \A a, b : ~Before(<<>>, a, b)
    BY DEF Range, Before
  <2> QED
    BY <1>3, <2>1
<1>5. ASSUME NEW m \in Nat, m \in T PROVE m + 1 \in T
  <2> SUFFICES ASSUME m + 1 <= n PROVE Upto(m + 1)
    OBVIOUS
  <2>1. Upto(m)
    BY <1>2, <1>5
  <2> HIDE DEF T
  <2>2. m + 1 \in 1..n /\ m \in 0..n /\ (m + 1) - 1 = m /\ 1..(m + 1) = (1..m) \cup {m + 1}
    BY <1>2
  <2> DEFINE g == f[m]
             h == ss[m + 1]
  <2>3. f[m + 1] = g \o h /\ IsSeq(g) /\ IsSeq(h)
    BY <1>2, <1>3, <2>2
  <2> HIDE DEF g
  <2>4. Range(g \o h) = Range(g) \cup Range(h)
    BY <2>3, ConcatSeq
  <2>5. ASSUME NEW a \in Range(g) \cup Range(h) PROVE From(m + 1, a)
    BY <2>1, <2>2 DEF g
  <2>6. ASSUME NEW a, NEW b, Before(g \o h, a, b)
        PROVE  \E i, j \in 1..(m + 1) : i <= j /\ a \in Range(ss[i]) /\ b \in Range(ss[j])
    <3>1. \/ Before(g, a, b)
          \/ a \in Range(g) /\ b \in Range(h)
          \/ Before(h, a, b)
      BY <2>3, <2>6, BeforeConcat
    <3>2. CASE Before(g, a, b)
      BY <2>1, <2>2, <3>2 DEF g
    <3>3. CASE a \in Range(g) /\ b \in Range(h)
      <4>1. PICK i \in 1..m : a \in Range(ss[i])
        BY <2>1, <3>3 DEF g
      <4>2. i <= m + 1 /\ i \in 1..(m + 1) /\ m + 1 \in 1..(m + 1)
        BY <2>2
      <4> QED
        BY <3>3, <4>1, <4>2
    <3>4. CASE Before(h, a, b)
      <4>1. a \in Range(h) /\ b \in Range(h)
        BY <3>4 DEF Before, Range
      <4>2. m + 1 <= m + 1 /\ m + 1 \in 1..(m + 1)
        BY <2>2
      <4> QED
        BY <4>1, <4>2
    <3> QED
      BY <3>1, <3>2, <3>3, <3>4
  <2> QED
    BY <2>3, <2>4, <2>5, <2>6
<1>6. T \in SUBSET Nat
  OBVIOUS
<1> HIDE DEF T
<1>7. T = Nat
  BY <1>4, <1>5, <1>6, Induct
<1>8. Upto(n)
  <2>1. n \in T /\ n <= n
    BY <1>2, <1>7
  <2> HIDE DEF Upto
  <2> QED
    BY <2>1 DEF T
<1> QED
  BY <1>1, <1>2, <1>8

-----------------------------------------------------------------------------
(* What is to be looked at *)

\* The tables are sequences.
LEMMA InTurnSeq ==
    ASSUME NEW ats, IsSeq(ats)
    PROVE  IsSeq(InTurn(ats)) /\ IsSeq(EachAlone(ats))
<1> DEFINE n == Len(ats)
           S == {Guarded(ats[i], "node") : i \in 1..n} \cup {Guarded(ats[i], ats[i]) : i \in 1..n}
<1>1. n \in Nat /\ DOMAIN ats = 1..n
  BY SeqDomain
<1>2. InTurn(ats) \in [1..n -> S] /\ EachAlone(ats) \in [1..n -> S]
  BY <1>1 DEF InTurn, EachAlone
<1> HIDE DEF n, S
<1>3. InTurn(ats) \in Seq(S) /\ EachAlone(ats) \in Seq(S)
  BY <1>1, <1>2, SeqDef
<1> QED
  BY <1>3, SeqIsSeq

\* Every table is put together from such.
LEMMA FieldsSeq ==
    ASSUME NEW version, NEW kind
    PROVE  IsSeq(Fields(version, kind))
<1>1. IsSeq(DocumentFields2)
  BY TupleSeq, InTurnSeq DEF DocumentFields2
<1>2. IsSeq(DocumentFields3)
  BY TupleSeq, InTurnSeq DEF DocumentFields3
<1>3. IsSeq(ComponentFields)
  BY TupleSeq, InTurnSeq DEF ComponentFields
<1>4. IsSeq(LaterComponents)
  BY TupleSeq, InTurnSeq DEF LaterComponents
<1>5. IsSeq(TagFields)
  BY TupleSeq, InTurnSeq DEF TagFields
<1>6. IsSeq(PathFields)
  BY TupleSeq, InTurnSeq DEF PathFields
<1>7. IsSeq(PathItemFields2)
  BY TupleSeq, InTurnSeq DEF PathItemFields2
<1>8. IsSeq(MethodFields)
  BY TupleSeq, InTurnSeq DEF MethodFields
<1>9. IsSeq(RequestFields)
  BY TupleSeq, InTurnSeq DEF RequestFields
<1>10. IsSeq(ResponseFields3)
  BY TupleSeq, InTurnSeq DEF ResponseFields3
<1>11. IsSeq(CallbackFields)
  BY TupleSeq, InTurnSeq DEF CallbackFields
<1>12. \A s, t : IsSeq(s) /\ IsSeq(t) => IsSeq(s \o t)
  BY ConcatSeq
<1>13. \A ats : IsSeq(ats) => IsSeq(InTurn(ats)) /\ IsSeq(EachAlone(ats))
  BY InTurnSeq
<1>14. IsSeq(ResponsesFields)
  BY TupleSeq DEF ResponsesFields
<1>15. IsSeq(WebhookFields)
  BY <1>8 DEF WebhookFields
<1>16. IsSeq(PathItemFields3)
  BY <1>13, <1>12, <1>8, TupleSeq DEF PathItemFields3
<1>17. IsSeq(OperationFields2)
  BY <1>13, <1>12, <1>14, TupleSeq DEF OperationFields2
<1>18. IsSeq(OperationFields3)
  BY <1>13, <1>12, <1>14, TupleSeq DEF OperationFields3
<1>19. IsSeq(ResponseFields2)
  BY <1>13, <1>12, TupleSeq DEF ResponseFields2
<1>20. IsSeq(ParameterFields)
  BY <1>13, <1>12, TupleSeq DEF ParameterFields
<1>21. IsSeq(HeaderFields)
  BY <1>13, <1>12, TupleSeq DEF HeaderFields
<1>22. IsSeq(MediaTypeFields)
  BY <1>13, <1>12, TupleSeq DEF MediaTypeFields
<1>23. IsSeq(PropertyFields)
  BY <1>13, <1>12, TupleSeq DEF PropertyFields
<1>24. IsSeq(ArrayFields)
  BY <1>13, <1>12, TupleSeq DEF ArrayFields
<1>25. IsSeq(CompositionFields)
  BY TupleSeq DEF CompositionFields
<1>26. IsSeq(ConditionFields)
  BY TupleSeq DEF ConditionFields
<1>27. IsSeq(OtherSchemaFields)
  BY TupleSeq DEF OtherSchemaFields
<1>28. IsSeq(SchemaFields)
  BY <1>12, <1>23, <1>24, <1>25, <1>26, <1>27 DEF SchemaFields
<1>29. IsSeq(<<>>)
  BY DEF IsSeq
<1>30. IsSeq(DocumentFields3 \o ComponentFields \o LaterComponents \o TagFields)
  BY <1>12, <1>2, <1>3, <1>4, <1>5
<1> QED
  BY <1>1, <1>6, <1>7, <1>9, <1>10, <1>11, <1>15, <1>16, <1>17, <1>18, <1>19, <1>20, <1>21,
     <1>22, <1>28, <1>29, <1>30
  DEF Fields

\* A value for each place makes a sequence.
LEMMA MapSeq ==
    ASSUME NEW s, IsSeq(s), NEW g, DOMAIN g = DOMAIN s, g = [i \in DOMAIN s |-> g[i]]
    PROVE  IsSeq(g) /\ Len(g) = Len(s)
<1> DEFINE n == Len(s)
<1>1. n \in Nat /\ DOMAIN g = 1..n
  BY SeqDomain
<1> HIDE DEF n
<1>2. g \in [1..n -> Range(g)]
  <2>1. \A i \in 1..n : g[i] \in Range(g)
    BY <1>1 DEF Range
  <2> QED
    BY <1>1, <2>1
<1>3. g \in Seq(Range(g))
  BY <1>1, <1>2, SeqDef
<1>4. Len(g) = n
  BY <1>1, <1>3, LenProperties
<1> QED
  BY <1>3, <1>4 DEF IsSeq, n

\* What is to be looked at, field by field.
Parts(ss, kids, fields) ==
    /\ IsSeq(ss) /\ DOMAIN ss = DOMAIN fields
    /\ \A i \in DOMAIN ss :
           /\ IsSeq(ss[i])
           /\ \A item : item \in Range(ss[i]) <=>
                  \E k \in DOMAIN kids : kids[k].at = fields[i].at /\ item = Item(kids[k], fields[i])
LEMMA TodoParts ==
    ASSUME NEW d, NEW n, IsSeq(d.kids[n])
    PROVE  \E ss : Parts(ss, d.kids[n], Fields(d.version, d.kind[n])) /\ Todo(d, n) = FlattenSeq(ss)
<1> DEFINE kids == d.kids[n]
           fields == Fields(d.version, d.kind[n])
           each(f) == [i \in DOMAIN kids |-> Item(kids[i], f)]
           at(f) == {i \in DOMAIN kids : kids[i].at = f.at}
           items(f) == Chosen(each(f), at(f))
           ss == [i \in DOMAIN fields |-> items(fields[i])]
<1>1. Todo(d, n) = FlattenSeq(ss)
  BY DEF Todo
<1>2. ASSUME NEW f PROVE IsSeq(items(f)) /\ Range(items(f)) = {Item(kids[i], f) : i \in at(f)}
  <2>1. DOMAIN each(f) = DOMAIN kids /\ \A i \in DOMAIN kids : each(f)[i] = Item(kids[i], f)
    OBVIOUS
  <2>2. IsSeq(each(f))
    <3> DEFINE g == each(f)
    <3>1. g = [i \in DOMAIN kids |-> g[i]] /\ DOMAIN g = DOMAIN kids
      OBVIOUS
    <3> HIDE DEF g
    <3> QED
      BY <3>1, MapSeq DEF g
  <2> DEFINE g == each(f)
             T == at(f)
  <2>3. IsSeq(Chosen(g, T)) /\ Range(Chosen(g, T)) = {g[i] : i \in T \cap DOMAIN g}
    <3> HIDE DEF g, T
    <3> QED
      BY <2>2, ChosenSeq DEF g
  <2>4. {g[i] : i \in T \cap DOMAIN g} = {Item(kids[i], f) : i \in T}
    BY <2>1
  <2> QED
    BY <2>3, <2>4
<1>3. IsSeq(fields)
  BY FieldsSeq
<1> HIDE DEF items, fields, kids, at
<1>4. DOMAIN ss = DOMAIN fields /\ \A i \in DOMAIN fields : ss[i] = items(fields[i])
  OBVIOUS
<1>5. IsSeq(ss)
  <2>1. ss = [i \in DOMAIN fields |-> ss[i]]
    OBVIOUS
  <2> HIDE DEF ss
  <2> QED
    BY <1>3, <1>4, <2>1, MapSeq
<1> HIDE DEF ss
<1>6. \A i \in DOMAIN ss :
          /\ IsSeq(ss[i])
          /\ \A item : item \in Range(ss[i]) <=>
                 \E k \in DOMAIN kids : kids[k].at = fields[i].at /\ item = Item(kids[k], fields[i])
  BY <1>2, <1>4 DEF at
<1>7. Parts(ss, kids, fields)
  BY <1>4, <1>5, <1>6 DEF Parts
<1> QED
  BY <1>1, <1>7 DEF kids, fields

\* A node's function looks at the children in the fields of its kind.
LEMMA TodoIs ==
    ASSUME NEW d, NEW n, IsSeq(d.kids[n])
    PROVE  /\ IsSeq(Todo(d, n))
           /\ \A item : item \in Range(Todo(d, n)) <=>
                  \E k \in DOMAIN d.kids[n], f \in Range(Fields(d.version, d.kind[n])) :
                      d.kids[n][k].at = f.at /\ item = Item(d.kids[n][k], f)
<1> DEFINE kids == d.kids[n]
           fields == Fields(d.version, d.kind[n])
<1>1. PICK ss : Parts(ss, kids, fields) /\ Todo(d, n) = FlattenSeq(ss)
  BY TodoParts
<1> HIDE DEF kids, fields
<1>2. IsSeq(FlattenSeq(ss)) /\ Range(FlattenSeq(ss)) = UNION {Range(ss[i]) : i \in DOMAIN ss}
  BY <1>1, FlattenIs DEF Parts
<1>3. ASSUME NEW item
      PROVE  item \in Range(Todo(d, n)) <=>
                 \E k \in DOMAIN kids, f \in Range(fields) : kids[k].at = f.at /\ item = Item(kids[k], f)
  <2>1. item \in Range(Todo(d, n)) <=> \E i \in DOMAIN fields : item \in Range(ss[i])
    BY <1>1, <1>2 DEF Parts
  <2>2. \A i \in DOMAIN fields :
            item \in Range(ss[i]) <=>
                \E k \in DOMAIN kids : kids[k].at = fields[i].at /\ item = Item(kids[k], fields[i])
    BY <1>1 DEF Parts
  <2> QED
    BY <2>1, <2>2 DEF Range
<1> QED
  BY <1>1, <1>2, <1>3 DEF kids, fields

\* It looks at them in the order of the fields.
LEMMA TodoOrder ==
    ASSUME NEW d, NEW n, IsSeq(d.kids[n]), NEW x, NEW y, Before(Todo(d, n), x, y)
    PROVE  Before(Fields(d.version, d.kind[n]), x.field, y.field)
<1> DEFINE kids == d.kids[n]
           fields == Fields(d.version, d.kind[n])
<1>1. PICK ss : Parts(ss, kids, fields) /\ Todo(d, n) = FlattenSeq(ss)
  BY TodoParts
<1> HIDE DEF kids, fields
<1>2. PICK i, j \in DOMAIN ss : i <= j /\ x \in Range(ss[i]) /\ y \in Range(ss[j])
  BY <1>1, BeforeFlatten DEF Parts
<1>3. x.field = fields[i] /\ y.field = fields[j]
  BY <1>1, <1>2 DEF Parts, Item
<1> QED
  BY <1>1, <1>2, <1>3 DEF Before, Parts, fields

-----------------------------------------------------------------------------
(* Frames *)

\* The documents are those that were given.
LEMMA DocumentIs ==
    ASSUME FrameInv
    PROVE  /\ IsDocument(doc) /\ "doc" \in Nodes /\ Kind("doc") = "document"
           /\ \A n \in Nodes : /\ IsSeq(doc.kids[n]) /\ IsSeq(Todo(doc, n))
                               /\ \A item \in Range(Todo(doc, n)) : item.child \in Nodes
                               /\ Kind(n) = "schema" =>
                                      \A item \in Range(Todo(doc, n)) :
                                          Kind(item.child) \in {"schema", "mapRef", "externalDocs"}
<1>1. IsDocument(doc)
  BY DocumentsAssumption DEF FrameInv
<1>2. "doc" \in Nodes /\ Kind("doc") = "document"
  BY <1>1 DEF IsDocument, Nodes, Kind
<1>3. ASSUME NEW n \in Nodes
      PROVE  /\ IsSeq(doc.kids[n]) /\ IsSeq(Todo(doc, n))
             /\ \A item \in Range(Todo(doc, n)) : item.child \in Nodes
             /\ Kind(n) = "schema" =>
                    \A item \in Range(Todo(doc, n)) :
                        Kind(item.child) \in {"schema", "mapRef", "externalDocs"}
  <2>1. /\ doc.kids[n] \in Seq([at : STRING, node : Nodes, key : Seq(STRING)])
        /\ Kind(n) = "schema" =>
               \A i \in DOMAIN doc.kids[n] :
                   Kind(doc.kids[n][i].node) \in {"schema", "mapRef", "externalDocs"}
    BY <1>1 DEF IsDocument, Nodes, Kind
  <2>2. IsSeq(doc.kids[n])
    BY <2>1, SeqIsSeq
  <2>3. \A k \in DOMAIN doc.kids[n] : doc.kids[n][k].node \in Nodes
    <3> DEFINE S == [at : STRING, node : Nodes, key : Seq(STRING)]
    <3>1. \A x \in S : x.node \in Nodes
      OBVIOUS
    <3>2. doc.kids[n] \in Seq(S)
      BY <2>1
    <3> HIDE DEF S
    <3>3. \A k \in DOMAIN doc.kids[n] : doc.kids[n][k] \in S
      BY <3>2
    <3> QED
      BY <3>1, <3>3
  <2>4. \A item \in Range(Todo(doc, n)) : \E k \in DOMAIN doc.kids[n] : item.child = doc.kids[n][k].node
    BY <2>2, TodoIs DEF Item
  <2> QED
    BY <2>1, <2>2, <2>3, <2>4, TodoIs
<1> QED
  BY <1>1, <1>2, <1>3

\* The top frame with another list.
Refilled(t) == Below \o <<[Top EXCEPT !.todo = t]>>
LEMMA RefilledIs ==
    ASSUME FrameInv, phase = "walking", NEW t
    PROVE  /\ IsSeq(stack) /\ Len(stack) \in DOMAIN stack /\ DOMAIN stack = 1..Len(stack) /\ Len(stack) \in Nat
           /\ IsSeq(Refilled(t)) /\ Len(Refilled(t)) = Len(stack)
           /\ \A i \in DOMAIN stack :
                  Refilled(t)[i] = [node |-> stack[i].node, depth |-> stack[i].depth, wc |-> stack[i].wc,
                                    todo |-> IF i = Len(stack) THEN t ELSE stack[i].todo]
<1>1. IsSeq(stack) /\ stack # <<>>
  BY DEF FrameInv, IsSeq
<1>2. Len(stack) \in Nat /\ Len(stack) # 0 /\ DOMAIN stack = 1..Len(stack)
  BY <1>1, SeqDomain, EmptySeq DEF IsSeq
<1>3. IsSeq(Below) /\ DOMAIN Below = 1..(Len(stack) - 1) /\ \A i \in 1..(Len(stack) - 1) : Below[i] = stack[i]
  BY <1>1, FrontSeq DEF Below
<1> DEFINE e == [Top EXCEPT !.todo = t]
<1>4. e = [node |-> Top.node, depth |-> Top.depth, wc |-> Top.wc, todo |-> t]
  <2>1. Top = [node |-> Top.node, depth |-> Top.depth, wc |-> Top.wc, todo |-> Top.todo]
    BY <1>2 DEF FrameInv, Top
  <2> QED
    BY <2>1
<1> DEFINE b == Below
<1> HIDE DEF e, b
<1>5. Refilled(t) = Append(b, e)
  <2>1. Below \in Seq(Range(Below) \cup {e})
    BY <1>3, SeqMonotonic DEF IsSeq
  <2>2. e \in Range(Below) \cup {e}
    OBVIOUS
  <2>3. Append(Below, e) = Below \o <<e>>
    BY <2>1, <2>2, AppendIsConcat
  <2> QED
    BY <2>3 DEF Refilled, e, b
<1> DEFINE m == Len(stack)
<1>6. m \in Nat /\ m # 0 /\ m - 1 \in Nat /\ (m - 1) + 1 = m /\ DOMAIN stack = 1..m
  <2> HIDE DEF m
  <2>1. m \in Nat /\ m # 0 /\ DOMAIN stack = 1..m
    BY <1>2 DEF m
  <2> QED
    BY <2>1
<1>7. Len(b) = m - 1
  BY <1>3, <1>6, LenIs DEF b
<1>8. /\ IsSeq(Append(b, e)) /\ DOMAIN Append(b, e) = 1..((m - 1) + 1)
      /\ \A i \in 1..(m - 1) : Append(b, e)[i] = b[i]
      /\ Append(b, e)[(m - 1) + 1] = e
  BY <1>3, <1>7, AppendSeq DEF b
<1>9. Top = stack[m] /\ b = Below /\ \A i \in 1..(m - 1) : Below[i] = stack[i]
  BY <1>3 DEF Top, b
<1> HIDE DEF m
<1>10. IsSeq(Append(b, e)) /\ DOMAIN Append(b, e) = 1..m /\ Len(Append(b, e)) = m
  BY <1>6, <1>8, LenIs
<1>11. \A i \in 1..m :
          Append(b, e)[i] = [node |-> stack[i].node, depth |-> stack[i].depth, wc |-> stack[i].wc,
                             todo |-> IF i = m THEN t ELSE stack[i].todo]
  <2> TAKE i \in 1..m
  <2>1. CASE i = m
    <3>1. Append(b, e)[i] = e
      BY <1>6, <1>8, <2>1
    <3> QED
      BY <1>4, <1>9, <2>1, <3>1
  <2>2. CASE i # m
    <3>1. i \in 1..(m - 1)
      BY <1>6, <2>2
    <3>2. Append(b, e)[i] = stack[i]
      BY <1>8, <1>9, <3>1
    <3>3. stack[i] = [node |-> stack[i].node, depth |-> stack[i].depth, wc |-> stack[i].wc, todo |-> stack[i].todo]
      BY <1>6 DEF FrameInv
    <3> QED
      BY <2>2, <3>2, <3>3
  <2> QED
    BY <2>1, <2>2
<1>12. m = Len(stack) /\ m \in DOMAIN stack
  BY <1>6 DEF m
<1> QED
  BY <1>1, <1>5, <1>6, <1>10, <1>11, <1>12

\* The top frame with another list, under a new frame.
LEMMA PushedIs ==
    ASSUME FrameInv, phase = "walking", NEW t, NEW f
    PROVE  /\ IsSeq(Append(Refilled(t), f))
           /\ Len(Append(Refilled(t), f)) = Len(stack) + 1
           /\ DOMAIN Append(Refilled(t), f) = 1..(Len(stack) + 1)
           /\ \A i \in DOMAIN stack : Append(Refilled(t), f)[i] = Refilled(t)[i]
           /\ Append(Refilled(t), f)[Len(stack) + 1] = f
<1> DEFINE m == Len(stack)
           r == Refilled(t)
<1>1. IsSeq(r) /\ Len(r) = m /\ m \in Nat /\ DOMAIN stack = 1..m
  BY RefilledIs
<1> HIDE DEF m, r
<1>2. /\ IsSeq(Append(r, f)) /\ DOMAIN Append(r, f) = 1..(m + 1)
      /\ \A i \in 1..m : Append(r, f)[i] = r[i]
      /\ Append(r, f)[m + 1] = f
  BY <1>1, AppendSeq
<1>3. m + 1 \in Nat
  BY <1>1
<1>4. Len(Append(r, f)) = m + 1
  BY <1>2, <1>3, LenIs
<1> QED
  BY <1>1, <1>2, <1>4 DEF m, r

\* The frames below the top.
LEMMA BelowIs ==
    ASSUME FrameInv, phase = "walking"
    PROVE  /\ IsSeq(Below) /\ DOMAIN Below = 1..(Len(stack) - 1) /\ Len(Below) = Len(stack) - 1
           /\ Len(stack) \in Nat /\ Len(stack) > 0 /\ DOMAIN stack = 1..Len(stack)
           /\ \A i \in DOMAIN Below : Below[i] = stack[i]
<1> DEFINE m == Len(stack)
           b == Below
<1>1. IsSeq(stack) /\ m \in Nat /\ m # 0 /\ DOMAIN stack = 1..m
  <2>1. m \in DOMAIN stack /\ m \in Nat /\ DOMAIN stack = 1..m /\ IsSeq(stack)
    BY RefilledIs
  <2> HIDE DEF m
  <2> QED
    BY <2>1
<1>2. IsSeq(b) /\ DOMAIN b = 1..(m - 1) /\ \A i \in 1..(m - 1) : b[i] = stack[i]
  BY <1>1, FrontSeq DEF Below, FrameInv
<1> HIDE DEF m, b
<1>3. m - 1 \in Nat /\ m > 0
  BY <1>1
<1>4. Len(b) = m - 1
  BY <1>2, <1>3, LenIs
<1> QED
  BY <1>1, <1>2, <1>3, <1>4 DEF m, b

\* What is first in a list, and what comes after it.
LEMMA HeadTailSeq ==
    ASSUME NEW s, IsSeq(s), s # <<>>
    PROVE  IsSeq(Tail(s)) /\ Range(s) = Range(Tail(s)) \cup {Head(s)}
<1> DEFINE n == Len(s)
           t == Tail(s)
           S == Range(s)
<1>1. s \in Seq(S)
  BY DEF IsSeq
<1> HIDE DEF S
<1>2. /\ t \in Seq(S) /\ Len(t) = n - 1 /\ Head(s) = s[1] /\ n \in Nat /\ n # 0 /\ DOMAIN s = 1..n
      /\ \A i \in 1..(n - 1) : t[i] = s[i + 1]
  BY <1>1, HeadTailProperties, LenProperties, EmptySeq
<1>3. DOMAIN t = 1..(n - 1)
  BY <1>2, LenProperties
<1> HIDE DEF n, t
<1>4. Range(t) = {s[i] : i \in 2..n}
  <2>1. ASSUME NEW i \in 2..n PROVE i - 1 \in 1..(n - 1) /\ (i - 1) + 1 = i
    BY <1>2, <2>1
  <2>2. ASSUME NEW i \in 1..(n - 1) PROVE i + 1 \in 2..n
    BY <1>2, <2>2
  <2>3. ASSUME NEW i \in 2..n PROVE s[i] = t[i - 1]
    BY <1>2, <2>1
  <2> QED
    BY <1>2, <1>3, <2>1, <2>2, <2>3 DEF Range
<1>5. Range(s) = {s[i] : i \in 2..n} \cup {s[1]}
  <2>1. 1..n = (2..n) \cup {1}
    BY <1>2
  <2> QED
    BY <1>2, <2>1 DEF Range
<1>6. IsSeq(t)
  BY <1>2, SeqIsSeq
<1> QED
  BY <1>2, <1>4, <1>5, <1>6 DEF t

\* Lists of some values are sequences that hold no others.
LEMMA OverSeq ==
    ASSUME NEW s, NEW S
    PROVE  s \in Seq(S) <=> IsSeq(s) /\ Range(s) \subseteq S
<1>1. ASSUME s \in Seq(S) PROVE IsSeq(s) /\ Range(s) \subseteq S
  <2>1. IsSeq(s) /\ DOMAIN s = 1..Len(s) /\ \A i \in 1..Len(s) : s[i] \in S
    BY <1>1, SeqIsSeq
  <2> QED
    BY <2>1 DEF Range
<1>2. ASSUME IsSeq(s), Range(s) \subseteq S PROVE s \in Seq(S)
  BY <1>2, SeqMonotonic DEF IsSeq
<1> QED
  BY <1>1, <1>2

\* The frame on top.
LEMMA TopIs ==
    ASSUME FrameInv, phase = "walking"
    PROVE  /\ Top = stack[Len(stack)] /\ Len(stack) \in DOMAIN stack
           /\ Top.node \in Nodes
           /\ IsSeq(Top.todo) /\ Range(Top.todo) \subseteq Range(Todo(doc, Top.node))
<1>1. Len(stack) \in DOMAIN stack
  BY RefilledIs
<1>2. Top.node \in Nodes /\ Top.todo \in Seq(Range(Todo(doc, Top.node)))
  BY <1>1 DEF FrameInv, Top
<1> QED
  BY <1>1, <1>2, OverSeq DEF Top

-----------------------------------------------------------------------------
(* Steps *)

\* The call of a handler, and what is logged of it.
Call(event, n, wc, answer) ==
    [event |-> event, node |-> n, wc |-> wc, answer |-> answer, late |-> stopped,
     parent |-> IF parents = <<>> THEN "none" ELSE Last(parents), within |-> OnStack]
Logged(calls, event, n, wc, answer) ==
    IF answer = "none" THEN calls ELSE Append(calls, Call(event, n, wc, answer))

LEMMA LoggedIs ==
    ASSUME NEW calls, IsSeq(calls), NEW event, NEW n, NEW wc, NEW answer
    PROVE  /\ calls \o Called(event, n, wc, answer) = Logged(calls, event, n, wc, answer)
           /\ IsSeq(Logged(calls, event, n, wc, answer))
           /\ Range(Logged(calls, event, n, wc, answer))
                = Range(calls) \cup (IF answer = "none" THEN {} ELSE {Call(event, n, wc, answer)})
<1> DEFINE c == Call(event, n, wc, answer)
           S == Range(calls) \cup {c}
<1>1. Called(event, n, wc, answer) = IF answer = "none" THEN <<>> ELSE <<c>>
  BY DEF Called, Call, OnStack
<1>2. calls \in Seq(S) /\ c \in S
  BY SeqMonotonic DEF IsSeq
<1> HIDE DEF c, S
<1>3. calls \o <<>> = calls /\ calls \o <<c>> = Append(calls, c)
  BY <1>2, ConcatEmptySeq, AppendIsConcat
<1>4. IsSeq(Append(calls, c)) /\ Range(Append(calls, c)) = Range(calls) \cup {c}
  BY AppendRange
<1> QED
  BY <1>1, <1>3, <1>4 DEF Logged, c

\* The child whose turn it is.
NextItem     == Head(Top.todo)
Child        == NextItem.child
ChildDepth   == SchemaDepth(NextItem)
ChildContext == Context(Top.wc, Kind(Top.node), NextItem)

\* Its walk is over with its handlers, or it gets a frame.
Passes(ref, event, answer) ==
    /\ log' = Logged(Logged(log, "ref", Child, ChildContext, ref), event, Child, ChildContext, answer)
    /\ stack' = Refilled(Tail(Top.todo))
    /\ UNCHANGED <<doc, registered, phase, parents, visiting>>
    /\ \/ ref = "Stop" /\ event = "visit" /\ answer = "none" /\ stopped' = TRUE
       \/ /\ ref # "Stop" /\ event = "skipped" /\ stopped' = stopped
          /\ Skipped(Child, ChildDepth) # "none"
          /\ answer = IF "skipped" \in registered THEN Skipped(Child, ChildDepth) ELSE "none"
       \/ /\ ref # "Stop" /\ event = "visit" /\ stopped' = (stopped \/ answer = "Stop")
          /\ Skipped(Child, ChildDepth) = "none"
          /\ answer \in Answers(HandlerOf(Kind(Child))) /\ ~GoesOn(Child, answer)
Enters(ref, answer) ==
    /\ log' = Logged(Logged(log, "ref", Child, ChildContext, ref), "visit", Child, ChildContext, answer)
    /\ stack' = Append(Refilled(Tail(Top.todo)), Frame(Child, ChildDepth, ChildContext))
    /\ parents' = IF Kind(Child) \in PushesParent THEN Append(parents, Child) ELSE parents
    /\ visiting' = visiting \cup (IF Kind(Child) = "schema" THEN {Child} ELSE {})
    /\ UNCHANGED <<doc, registered, phase, stopped>>
    /\ ref # "Stop" /\ Skipped(Child, ChildDepth) = "none"
    /\ answer \in Answers(HandlerOf(Kind(Child))) /\ GoesOn(Child, answer)

LEMMA VisitIs ==
    ASSUME FrameInv, Visit
    PROVE  /\ phase = "walking" /\ Top.todo # <<>> /\ ~(NextItem.field.guarded /\ stopped)
           /\ \E ref \in RefAnswers(Child) :
                  (\E event, answer : Passes(ref, event, answer)) \/ (\E answer : Enters(ref, answer))
<1>0. \A calls, event, n, wc, answer :
          IsSeq(calls) => calls \o Called(event, n, wc, answer) = Logged(calls, event, n, wc, answer)
  BY LoggedIs
<1>1. IsSeq(log)
  BY OverSeq DEF FrameInv
<1>2. \A ref : /\ log \o Called("ref", Child, ChildContext, ref) = Logged(log, "ref", Child, ChildContext, ref)
               /\ IsSeq(Logged(log, "ref", Child, ChildContext, ref))
  BY <1>1, LoggedIs
<1>3. \A ref, event, answer :
          log \o Called("ref", Child, ChildContext, ref) \o Called(event, Child, ChildContext, answer)
          = Logged(Logged(log, "ref", Child, ChildContext, ref), event, Child, ChildContext, answer)
  <2> TAKE ref, event, answer
  <2> DEFINE calls == Logged(log, "ref", Child, ChildContext, ref)
  <2>1. IsSeq(calls) /\ log \o Called("ref", Child, ChildContext, ref) = calls
    BY <1>2
  <2> HIDE DEF calls
  <2>2. calls \o Called(event, Child, ChildContext, answer) = Logged(calls, event, Child, ChildContext, answer)
    BY <1>0, <2>1
  <2> QED
    BY <2>1, <2>2 DEF calls
<1>4. phase = "walking" /\ Top.todo # <<>> /\ ~(NextItem.field.guarded /\ stopped)
  BY DEF Visit, NextItem
<1>5. PICK ref \in RefAnswers(Child) :
          \/ /\ ref = "Stop"
             /\ log' = log \o Called("ref", Child, ChildContext, ref)
             /\ stopped' = TRUE
             /\ stack' = Rest
             /\ UNCHANGED <<parents, visiting>>
          \/ /\ ref # "Stop" /\ Skipped(Child, ChildDepth) # "none"
             /\ log' = log \o Called("ref", Child, ChildContext, ref)
                       \o Called("skipped", Child, ChildContext,
                                 IF "skipped" \in registered THEN Skipped(Child, ChildDepth) ELSE "none")
             /\ stack' = Rest
             /\ UNCHANGED <<parents, visiting, stopped>>
          \/ /\ ref # "Stop" /\ Skipped(Child, ChildDepth) = "none"
             /\ \E answer \in Answers(HandlerOf(Kind(Child))) :
                   /\ log' = log \o Called("ref", Child, ChildContext, ref)
                             \o Called("visit", Child, ChildContext, answer)
                   /\ stopped' = (stopped \/ answer = "Stop")
                   /\ parents' = Push(Child, answer)
                   /\ IF GoesOn(Child, answer)
                      THEN /\ stack' = Append(Rest, Frame(Child, ChildDepth, ChildContext))
                           /\ visiting' = visiting \cup (IF Kind(Child) = "schema" THEN {Child} ELSE {})
                      ELSE stack' = Rest /\ UNCHANGED visiting
  BY DEF Visit, NextItem, Child, ChildDepth, ChildContext
<1>6. UNCHANGED <<doc, registered, phase>>
  BY DEF Visit
<1>7. Rest = Refilled(Tail(Top.todo))
  BY DEF Rest, Refilled
<1>8. CASE ref = "Stop"
  <2>1. /\ log' = log \o Called("ref", Child, ChildContext, ref)
        /\ stopped' = TRUE /\ stack' = Rest /\ UNCHANGED <<parents, visiting>>
    BY <1>5, <1>8
  <2>2. log' = Logged(Logged(log, "ref", Child, ChildContext, ref), "visit", Child, ChildContext, "none")
    BY <1>2, <2>1 DEF Logged
  <2>3. Passes(ref, "visit", "none")
    BY <1>6, <1>7, <1>8, <2>1, <2>2 DEF Passes
  <2> QED
    BY <1>4, <2>3
<1>9. CASE ref # "Stop" /\ Skipped(Child, ChildDepth) # "none"
  <2> DEFINE why == IF "skipped" \in registered THEN Skipped(Child, ChildDepth) ELSE "none"
  <2>1. /\ log' = log \o Called("ref", Child, ChildContext, ref) \o Called("skipped", Child, ChildContext, why)
        /\ stack' = Rest /\ UNCHANGED <<parents, visiting, stopped>>
    BY <1>5, <1>9
  <2>2. log' = Logged(Logged(log, "ref", Child, ChildContext, ref), "skipped", Child, ChildContext, why)
    BY <1>3, <2>1
  <2>3. Passes(ref, "skipped", why)
    BY <1>6, <1>7, <1>9, <2>1, <2>2 DEF Passes
  <2> QED
    BY <1>4, <2>3
<1>10. CASE ref # "Stop" /\ Skipped(Child, ChildDepth) = "none"
  <2>1. PICK answer \in Answers(HandlerOf(Kind(Child))) :
                   /\ log' = log \o Called("ref", Child, ChildContext, ref)
                             \o Called("visit", Child, ChildContext, answer)
                   /\ stopped' = (stopped \/ answer = "Stop")
                   /\ parents' = Push(Child, answer)
                   /\ IF GoesOn(Child, answer)
                      THEN /\ stack' = Append(Rest, Frame(Child, ChildDepth, ChildContext))
                           /\ visiting' = visiting \cup (IF Kind(Child) = "schema" THEN {Child} ELSE {})
                      ELSE stack' = Rest /\ UNCHANGED visiting
    BY <1>5, <1>10
  <2>2. log' = Logged(Logged(log, "ref", Child, ChildContext, ref), "visit", Child, ChildContext, answer)
    BY <1>3, <2>1
  <2>3. CASE GoesOn(Child, answer)
    <3>1. answer # "Stop"
      BY <2>3 DEF GoesOn
    <3>2. stopped' = stopped
      BY <2>1, <3>1 DEF FrameInv
    <3>3. parents' = IF Kind(Child) \in PushesParent THEN Append(parents, Child) ELSE parents
      BY <2>1, <2>3 DEF Push
    <3>4. Enters(ref, answer)
      BY <1>6, <1>7, <1>10, <2>1, <2>2, <2>3, <3>2, <3>3 DEF Enters
    <3> QED
      BY <1>4, <3>4
  <2>4. CASE ~GoesOn(Child, answer)
    <3>1. parents' = parents
      BY <2>1, <2>4 DEF Push
    <3>2. Passes(ref, "visit", answer)
      BY <1>6, <1>7, <1>10, <2>1, <2>2, <2>4, <3>1 DEF Passes
    <3> QED
      BY <1>4, <3>2
  <2> QED
    BY <2>3, <2>4
<1> QED
  BY <1>8, <1>9, <1>10

\* A child is a node of the document.
LEMMA ChildIs ==
    ASSUME FrameInv, phase = "walking", Top.todo # <<>>
    PROVE  /\ NextItem \in Range(Todo(doc, Top.node)) /\ Child \in Nodes
           /\ IsSeq(Tail(Top.todo)) /\ Range(Top.todo) = Range(Tail(Top.todo)) \cup {NextItem}
           /\ IsSeq(Todo(doc, Child))
<1>1. IsSeq(Tail(Top.todo)) /\ Range(Top.todo) = Range(Tail(Top.todo)) \cup {NextItem}
  BY TopIs, HeadTailSeq DEF NextItem
<1>2. NextItem \in Range(Todo(doc, Top.node)) /\ Top.node \in Nodes
  BY <1>1, TopIs
<1> QED
  BY <1>1, <1>2, DocumentIs DEF Child

\* Frames of nodes, with some of their children, stay that.
IsFrame(d, f) ==
    /\ f = [node |-> f.node, depth |-> f.depth, wc |-> f.wc, todo |-> f.todo]
    /\ f.node \in DOMAIN d.kind /\ IsSeq(f.todo) /\ Range(f.todo) \subseteq Range(Todo(d, f.node))
Framed ==
    /\ doc \in {walk.doc : walk \in Walks}
    /\ phase = "walking" <=> stack # <<>>
    /\ stopped \in BOOLEAN
    /\ phase = "start" => log = <<>> /\ ~stopped /\ parents = <<>> /\ visiting = {}
    /\ IsSeq(log) /\ \A c \in Range(log) : c.node \in DOMAIN doc.kind
    /\ IsSeq(stack) /\ \A i \in DOMAIN stack : IsFrame(doc, stack[i])
LEMMA FrameInvIs == FrameInv <=> Framed
<1>1. Calls = Range(log)
  BY DEF Calls, Range
<1>2. log \in Seq(Calls) <=> IsSeq(log)
  BY <1>1 DEF IsSeq
<1>3. \A i \in DOMAIN stack :
          IsFrame(doc, stack[i]) <=>
              LET f == stack[i] IN
              /\ f = [node |-> f.node, depth |-> f.depth, wc |-> f.wc, todo |-> f.todo]
              /\ f.node \in Nodes /\ f.todo \in Seq(Range(Todo(doc, f.node)))
  BY OverSeq DEF IsFrame, Nodes
<1> QED
  BY <1>1, <1>2, <1>3 DEF FrameInv, IsSeq, Nodes, Framed

\* The document's handlers.
LEMMA VisitDocumentIs ==
    ASSUME Framed, VisitDocument
    PROVE  /\ phase = "start" /\ log = <<>> /\ stack = <<>> /\ ~stopped /\ parents = <<>> /\ visiting = {}
           /\ UNCHANGED <<doc, registered, parents, visiting>>
           /\ \E typed \in Answers("typedDocument"), generic \in Answers("document") :
                  /\ log' = Logged(Logged(<<>>, "visit", "doc", NoContext, typed), "visit", "doc", NoContext,
                                   IF typed = "Stop" THEN "none" ELSE generic)
                  /\ stopped' = ("Stop" \in {typed, generic})
                  /\ IF {typed, generic} \subseteq {"none", "Continue"}
                     THEN phase' = "walking" /\ stack' = <<Frame("doc", 0, NoContext)>>
                     ELSE phase' = "done" /\ stack' = <<>>
<1>1. /\ phase = "start" /\ log = <<>> /\ stack = <<>> /\ ~stopped /\ parents = <<>> /\ visiting = {}
      /\ UNCHANGED <<doc, registered, parents, visiting>>
  BY DEF VisitDocument, Framed
<1>2. PICK typed \in Answers("typedDocument"), generic \in Answers("document") :
          /\ log' = Called("visit", "doc", NoContext, typed)
                    \o (IF typed = "Stop" THEN <<>> ELSE Called("visit", "doc", NoContext, generic))
          /\ stopped' = ("Stop" \in {typed, generic})
          /\ IF {typed, generic} \subseteq {"none", "Continue"}
             THEN phase' = "walking" /\ stack' = <<Frame("doc", 0, NoContext)>>
             ELSE phase' = "done" /\ UNCHANGED stack
  BY DEF VisitDocument
<1>3. \A calls, event, n, wc, answer :
          IsSeq(calls) => /\ calls \o Called(event, n, wc, answer) = Logged(calls, event, n, wc, answer)
                          /\ IsSeq(Logged(calls, event, n, wc, answer))
  BY LoggedIs
<1> DEFINE first == Logged(<<>>, "visit", "doc", NoContext, typed)
           a     == IF typed = "Stop" THEN "none" ELSE generic
<1>4. IsSeq(first) /\ <<>> \o Called("visit", "doc", NoContext, typed) = first
  <2>1. IsSeq(<<>>)
    BY DEF IsSeq
  <2> QED
    BY <1>3, <2>1
<1>5. Called("visit", "doc", NoContext, typed) = first
  BY DEF Called, Logged, Call, OnStack
<1>6. first \o <<>> = first
  BY <1>4, ConcatEmptySeq DEF IsSeq
<1>7. log' = Logged(first, "visit", "doc", NoContext, a)
  <2>1. CASE typed = "Stop"
    BY <1>2, <1>5, <1>6, <2>1 DEF Logged
  <2>2. CASE typed # "Stop"
    <3> HIDE DEF first
    <3> QED
      BY <1>2, <1>3, <1>4, <1>5, <2>2
  <2> QED
    BY <2>1, <2>2
<1> QED
  BY <1>1, <1>2, <1>7

\* The frames after each step.
LEMMA FramedNext ==
    ASSUME Framed, [Next]_vars
    PROVE  Framed'
<1> FrameInv
  BY FrameInvIs
<1>l. \A calls, event, n, wc, answer :
          IsSeq(calls) /\ (\A c \in Range(calls) : c.node \in DOMAIN doc.kind) /\ n \in DOMAIN doc.kind =>
              /\ IsSeq(Logged(calls, event, n, wc, answer))
              /\ \A c \in Range(Logged(calls, event, n, wc, answer)) : c.node \in DOMAIN doc.kind
  <2> TAKE calls, event, n, wc, answer
  <2> HAVE IsSeq(calls) /\ (\A c \in Range(calls) : c.node \in DOMAIN doc.kind) /\ n \in DOMAIN doc.kind
  <2>1. Call(event, n, wc, answer).node = n
    BY DEF Call
  <2> QED
    BY <2>1, LoggedIs
<1>1. CASE VisitDocument
  <2>1. PICK typed \in Answers("typedDocument"), generic \in Answers("document") :
                  /\ log' = Logged(Logged(<<>>, "visit", "doc", NoContext, typed), "visit", "doc", NoContext,
                                   IF typed = "Stop" THEN "none" ELSE generic)
                  /\ stopped' = ("Stop" \in {typed, generic})
                  /\ IF {typed, generic} \subseteq {"none", "Continue"}
                     THEN phase' = "walking" /\ stack' = <<Frame("doc", 0, NoContext)>>
                     ELSE phase' = "done" /\ stack' = <<>>
    BY <1>1, VisitDocumentIs
  <2>2. doc' = doc /\ log = <<>> /\ stack = <<>>
    BY <1>1, VisitDocumentIs
  <2>3. IsSeq(log') /\ \A c \in Range(log') : c.node \in DOMAIN doc.kind
    <3>1. IsSeq(<<>>) /\ \A c \in Range(<<>>) : c.node \in DOMAIN doc.kind
      BY <2>2 DEF Framed
    <3>2. "doc" \in DOMAIN doc.kind
      BY DocumentIs DEF Nodes
    <3> DEFINE first == Logged(<<>>, "visit", "doc", NoContext, typed)
    <3>3. IsSeq(first) /\ \A c \in Range(first) : c.node \in DOMAIN doc.kind
      BY <1>l, <3>1, <3>2
    <3> HIDE DEF first
    <3>4. log' = Logged(first, "visit", "doc", NoContext, IF typed = "Stop" THEN "none" ELSE generic)
      BY <2>1 DEF first
    <3> QED
      BY <1>l, <3>2, <3>3, <3>4
  <2>4. IsSeq(stack') /\ \A i \in DOMAIN stack' : IsFrame(doc, stack'[i])
    <3>1. CASE stack' = <<>>
      BY <2>2, <3>1 DEF Framed
    <3>2. CASE stack' = <<Frame("doc", 0, NoContext)>>
      <4> DEFINE f == Frame("doc", 0, NoContext)
      <4>1. IsFrame(doc, f)
        <5>1. "doc" \in DOMAIN doc.kind /\ IsSeq(Todo(doc, "doc"))
          BY DocumentIs DEF Nodes
        <5> QED
          BY <5>1 DEF IsFrame, Frame
      <4> HIDE DEF f
      <4>2. IsSeq(<<f>>) /\ \A i \in DOMAIN <<f>> : <<f>>[i] = f
        BY TupleSeq
      <4> QED
        BY <3>2, <4>1, <4>2 DEF f
    <3> QED
      BY <2>1, <3>1, <3>2
  <2>5. (phase' = "walking" <=> stack' # <<>>) /\ phase' # "start" /\ stopped' \in BOOLEAN
    <3>1. CASE {typed, generic} \subseteq {"none", "Continue"}
      BY <2>1, <3>1
    <3>2. CASE ~({typed, generic} \subseteq {"none", "Continue"})
      BY <2>1, <3>2
    <3> QED
      BY <3>1, <3>2
  <2> QED
    BY <2>2, <2>3, <2>4, <2>5 DEF Framed
<1>r. ASSUME phase = "walking", NEW t, IsSeq(t), Range(t) \subseteq Range(Todo(doc, Top.node))
      PROVE  IsSeq(Refilled(t)) /\ Refilled(t) # <<>> /\ \A i \in DOMAIN Refilled(t) : IsFrame(doc, Refilled(t)[i])
  <2> DEFINE m == Len(stack)
  <2>1. /\ m \in Nat /\ m \in DOMAIN stack /\ DOMAIN stack = 1..m /\ Top = stack[m]
        /\ IsSeq(Refilled(t)) /\ Len(Refilled(t)) = m
        /\ \A i \in DOMAIN stack :
               Refilled(t)[i] = [node |-> stack[i].node, depth |-> stack[i].depth, wc |-> stack[i].wc,
                                 todo |-> IF i = m THEN t ELSE stack[i].todo]
    BY <1>r, RefilledIs DEF Top
  <2>2. DOMAIN Refilled(t) = 1..m
    BY <2>1, SeqDomain
  <2> HIDE DEF m
  <2>3. \A i \in 1..m : IsFrame(doc, stack[i])
    BY <2>1 DEF Framed
  <2>4. \A i \in 1..m : IsFrame(doc, Refilled(t)[i])
    <3> TAKE i \in 1..m
    <3>1. CASE i = m
      BY <1>r, <2>1, <2>3, <3>1 DEF IsFrame
    <3>2. CASE i # m
      <4>1. Refilled(t)[i] = [node |-> stack[i].node, depth |-> stack[i].depth, wc |-> stack[i].wc,
                              todo |-> stack[i].todo]
        BY <2>1, <3>2
      <4>2. Refilled(t)[i] = stack[i]
        BY <2>3, <4>1 DEF IsFrame
      <4> QED
        BY <2>3, <4>2
    <3> QED
      BY <3>1, <3>2
  <2>5. Refilled(t) # <<>>
    BY <2>1, <2>2
  <2> QED
    BY <2>1, <2>2, <2>4, <2>5
<1>2. CASE Abandon
  <2>1. /\ phase = "walking" /\ Top.todo # <<>> /\ stack' = Refilled(Later(Top.todo))
        /\ UNCHANGED <<doc, registered, phase, parents, visiting, stopped, log>>
    BY <1>2 DEF Abandon, Refilled
  <2>2. IsSeq(Top.todo) /\ Range(Top.todo) \subseteq Range(Todo(doc, Top.node))
    BY <2>1, TopIs
  <2> DEFINE todo == Top.todo
             t == Later(todo)
  <2>3. IsSeq(t) /\ Range(t) \subseteq Range(todo)
    <3> HIDE DEF todo
    <3>1. IsSeq(todo)
      BY <2>2 DEF todo
    <3> DEFINE T == {i \in DOMAIN todo : todo[i].field.scope # Head(todo).field.scope}
    <3>2. IsSeq(<<>>) /\ Range(<<>>) = {}
      BY DEF IsSeq, Range
    <3>3. IsSeq(Chosen(todo, T)) /\ Range(Chosen(todo, T)) = {todo[i] : i \in T \cap DOMAIN todo}
      BY <3>1, ChosenSeq
    <3>4. Range(Chosen(todo, T)) \subseteq Range(todo)
      BY <3>3 DEF Range
    <3>5. t = <<>> \/ t = Chosen(todo, T)
      BY DEF Later
    <3> QED
      BY <3>2, <3>3, <3>4, <3>5
  <2> HIDE DEF t
  <2>4. IsSeq(Refilled(t)) /\ Refilled(t) # <<>> /\ \A i \in DOMAIN Refilled(t) : IsFrame(doc, Refilled(t)[i])
    BY <1>r, <2>1, <2>2, <2>3
  <2>5. stack' = Refilled(t)
    BY <2>1 DEF t
  <2> QED
    BY <2>1, <2>4, <2>5 DEF Framed
<1>3. CASE Visit
  <2>1. /\ phase = "walking" /\ Top.todo # <<>>
        /\ \E ref : (\E event, answer : Passes(ref, event, answer)) \/ (\E answer : Enters(ref, answer))
    BY <1>3, VisitIs
  <2> DEFINE t == Tail(Top.todo)
  <2>2. Child \in DOMAIN doc.kind /\ IsSeq(t) /\ Range(t) \subseteq Range(Todo(doc, Top.node)) /\ IsSeq(Todo(doc, Child))
    BY <2>1, ChildIs, TopIs DEF Nodes
  <2> HIDE DEF t
  <2>3. IsSeq(Refilled(t)) /\ Refilled(t) # <<>> /\ \A i \in DOMAIN Refilled(t) : IsFrame(doc, Refilled(t)[i])
    BY <1>r, <2>1, <2>2
  <2>4. \A ref, event, answer :
            LET calls == Logged(Logged(log, "ref", Child, ChildContext, ref), event, Child, ChildContext, answer)
            IN  IsSeq(calls) /\ \A c \in Range(calls) : c.node \in DOMAIN doc.kind
    <3> TAKE ref, event, answer
    <3> DEFINE first == Logged(log, "ref", Child, ChildContext, ref)
    <3>1. IsSeq(first) /\ \A c \in Range(first) : c.node \in DOMAIN doc.kind
      BY <1>l, <2>2 DEF Framed
    <3> HIDE DEF first
    <3>2. /\ IsSeq(Logged(first, event, Child, ChildContext, answer))
          /\ \A c \in Range(Logged(first, event, Child, ChildContext, answer)) : c.node \in DOMAIN doc.kind
      BY <1>l, <2>2, <3>1
    <3> QED
      BY <3>2 DEF first
  <2>5. ASSUME NEW ref, NEW event, NEW answer, Passes(ref, event, answer) PROVE Framed'
    <3>1. stopped' \in BOOLEAN
      <4>1. stopped' = TRUE \/ stopped' = stopped \/ stopped' = (stopped \/ answer = "Stop")
        BY <2>5 DEF Passes
      <4> QED
        BY <4>1 DEF Framed
    <3>2. stack' = Refilled(t) /\ UNCHANGED <<doc, phase>>
      BY <2>5 DEF Passes, t
    <3>3. IsSeq(log') /\ \A c \in Range(log') : c.node \in DOMAIN doc.kind
      BY <2>4, <2>5 DEF Passes
    <3> QED
      BY <2>1, <2>3, <3>1, <3>2, <3>3 DEF Framed
  <2>6. ASSUME NEW ref, NEW answer, Enters(ref, answer) PROVE Framed'
    <3> DEFINE f == Frame(Child, ChildDepth, ChildContext)
               r == Refilled(t)
               m == Len(stack)
    <3>1. stack' = Append(r, f) /\ UNCHANGED <<doc, phase, stopped>>
      BY <2>6 DEF Enters, t
    <3>2. IsFrame(doc, f)
      BY <2>2 DEF IsFrame, Frame
    <3> HIDE DEF f
    <3>3. /\ IsSeq(Append(r, f)) /\ DOMAIN Append(r, f) = 1..(m + 1)
          /\ \A i \in DOMAIN stack : Append(r, f)[i] = r[i]
          /\ Append(r, f)[m + 1] = f
      BY <2>1, PushedIs
    <3>4. m \in Nat /\ DOMAIN stack = 1..m /\ DOMAIN r = 1..m
      <4>1. m \in Nat /\ DOMAIN stack = 1..m /\ Len(r) = m /\ IsSeq(r)
        BY <2>1, RefilledIs
      <4> QED
        BY <4>1, SeqDomain
    <3> HIDE DEF r, m
    <3>5. \A i \in 1..(m + 1) : IsFrame(doc, Append(r, f)[i])
      <4> TAKE i \in 1..(m + 1)
      <4>1. i = m + 1 \/ i \in 1..m
        BY <3>4
      <4> QED
        BY <2>3, <3>2, <3>3, <3>4, <4>1 DEF r
    <3>6. m + 1 \in 1..(m + 1)
      BY <3>4
    <3>7. Append(r, f) # <<>>
      BY <3>3, <3>6
    <3>8. IsSeq(log') /\ \A c \in Range(log') : c.node \in DOMAIN doc.kind
      BY <2>4, <2>6 DEF Enters
    <3> QED
      BY <2>1, <3>1, <3>3, <3>5, <3>7, <3>8 DEF Framed
  <2> QED
    BY <2>1, <2>5, <2>6
<1>4. CASE Leave
  <2>1. /\ phase = "walking" /\ stack' = Below /\ UNCHANGED <<doc, registered, stopped>>
        /\ log' = log \o Called("post", Top.node, Top.wc, PostAnswer(Top.node))
        /\ phase' = IF Below = <<>> THEN "done" ELSE phase
    BY <1>4 DEF Leave
  <2>2. Top.node \in DOMAIN doc.kind
    BY <2>1, TopIs DEF Nodes
  <2>3. IsSeq(log') /\ \A c \in Range(log') : c.node \in DOMAIN doc.kind
    <3> DEFINE a == PostAnswer(Top.node)
    <3> HIDE DEF a
    <3>1. log' = Logged(log, "post", Top.node, Top.wc, a)
      BY <2>1, LoggedIs DEF Framed, a
    <3> QED
      BY <1>l, <2>2, <3>1 DEF Framed
  <2>4. IsSeq(Below) /\ \A i \in DOMAIN Below : IsFrame(doc, Below[i])
    <3> DEFINE m == Len(stack)
    <3>1. /\ IsSeq(Below) /\ DOMAIN Below = 1..(m - 1) /\ m \in Nat /\ DOMAIN stack = 1..m
          /\ \A i \in DOMAIN Below : Below[i] = stack[i]
      BY <2>1, BelowIs
    <3> HIDE DEF m
    <3>2. 1..(m - 1) \subseteq 1..m
      BY <3>1
    <3> QED
      BY <3>1, <3>2 DEF Framed
  <2>5. phase' # "start" /\ (phase' = "walking" <=> stack' # <<>>)
    BY <2>1
  <2> QED
    BY <2>1, <2>3, <2>4, <2>5 DEF Framed
<1>5. CASE UNCHANGED vars
  BY <1>5 DEF Framed, vars
<1>6. CASE Done
  BY <1>6 DEF Done, Framed, vars
<1> QED
  BY <1>1, <1>2, <1>3, <1>4, <1>5, <1>6 DEF Next

\* No frames, no calls.
LEMMA InitFramed == ASSUME Init PROVE Framed
<1>1. doc \in {walk.doc : walk \in Walks}
  BY DEF Init
<1>2. IsSeq(<<>>) /\ DOMAIN <<>> = {} /\ Range(<<>>) = {}
  BY DEF IsSeq, Range
<1>3. stack = <<>> /\ log = <<>> /\ phase = "start" /\ stopped = FALSE /\ parents = <<>> /\ visiting = {}
  BY DEF Init
<1> QED
  BY <1>1, <1>2, <1>3 DEF Framed

\* Every frame of every walk is a call for a node of its document.
THEOREM FramesAlwaysOfNodes == Spec => []FrameInv
<1>1. Init => Framed
  BY InitFramed
<1>2. Framed /\ [Next]_vars => Framed'
  BY FramedNext
<1>3. Framed => FrameInv
  BY FrameInvIs
<1> QED
  BY <1>1, <1>2, <1>3, PTL DEF Spec

-----------------------------------------------------------------------------
(* The frames of some nodes *)

\* Those of the nodes of K, from the bottom up.
Among(s, K) == Chosen([i \in DOMAIN s |-> s[i].node], {i \in DOMAIN s : s[i].node \in K})

\* Only the nodes of the frames matter.
LEMMA AmongSame ==
    ASSUME NEW s, NEW t, DOMAIN s = DOMAIN t, \A i \in DOMAIN s : s[i].node = t[i].node, NEW K
    PROVE  Among(s, K) = Among(t, K)
<1>1. [i \in DOMAIN s |-> s[i].node] = [i \in DOMAIN t |-> t[i].node]
  OBVIOUS
<1>2. {i \in DOMAIN s : s[i].node \in K} = {i \in DOMAIN t : t[i].node \in K}
  OBVIOUS
<1> QED
  BY <1>1, <1>2 DEF Among

\* The node of a new frame comes last.
LEMMA AmongAppend ==
    ASSUME NEW s, IsSeq(s), NEW f, NEW K
    PROVE  Among(Append(s, f), K) = IF f.node \in K THEN Append(Among(s, K), f.node) ELSE Among(s, K)
<1> DEFINE t == Append(s, f)
           n == Len(s)
           u == [i \in DOMAIN s |-> s[i].node]
           v == [i \in DOMAIN t |-> t[i].node]
           U == {i \in DOMAIN s : s[i].node \in K}
           T == {i \in DOMAIN t : t[i].node \in K}
<1>1. /\ n \in Nat /\ DOMAIN s = 1..n /\ DOMAIN t = 1..(n + 1)
      /\ \A i \in 1..n : t[i] = s[i]
      /\ t[n + 1] = f
  BY AppendSeq, SeqDomain
<1> HIDE DEF t, n
<1>2. IsSeq(u) /\ Len(u) = n
  <2>1. DOMAIN u = DOMAIN s /\ u = [i \in DOMAIN s |-> u[i]]
    OBVIOUS
  <2> HIDE DEF u
  <2> QED
    BY <2>1, MapSeq DEF n
<1>3. v = Append(u, f.node)
  <2>1. /\ IsSeq(Append(u, f.node)) /\ DOMAIN Append(u, f.node) = 1..(n + 1)
        /\ \A i \in 1..n : Append(u, f.node)[i] = u[i]
        /\ Append(u, f.node)[n + 1] = f.node
    <3> HIDE DEF u
    <3> QED
      BY <1>2, AppendSeq
  <2> DEFINE w == Append(u, f.node)
  <2>2. Len(w) = n + 1 /\ n + 1 \in Nat
    <3> HIDE DEF u
    <3>1. n + 1 \in Nat
      BY <1>1
    <3> QED
      BY <2>1, <3>1, LenIs
  <2>3. w = [i \in 1..(n + 1) |-> w[i]]
    <3> HIDE DEF u
    <3> DEFINE S == Range(w)
    <3>1. w \in Seq(S)
      BY <2>1 DEF IsSeq
    <3> HIDE DEF w, S
    <3> QED
      BY <2>2, <3>1
  <2>4. \A i \in 1..(n + 1) : w[i] = t[i].node
    <3> TAKE i \in 1..(n + 1)
    <3>1. i \in 1..n \/ i = n + 1
      BY <1>1
    <3>2. CASE i \in 1..n
      <4>1. w[i] = u[i] /\ u[i] = s[i].node /\ t[i] = s[i]
        BY <1>1, <2>1, <3>2
      <4> QED
        BY <4>1
    <3>3. CASE i = n + 1
      BY <1>1, <2>1, <3>3
    <3> QED
      BY <3>1, <3>2, <3>3
  <2> HIDE DEF w
  <2> QED
    BY <1>1, <2>3, <2>4 DEF w
<1>4. \A i \in 1..n : (i \in T <=> i \in U)
  <2>1. \A i \in 1..n : i \in 1..(n + 1)
    BY <1>1
  <2> QED
    BY <1>1, <2>1
<1>5. n + 1 \in T <=> f.node \in K
  <2>1. n + 1 \in 1..(n + 1)
    BY <1>1
  <2> QED
    BY <1>1, <2>1
<1> HIDE DEF u, v, T, U
<1>6. Chosen(Append(u, f.node), T)
      = IF n + 1 \in T THEN Append(Chosen(u, U), f.node) ELSE Chosen(u, U)
  <2>1. \A x : Chosen(Append(u, x), T) = IF Len(u) + 1 \in T THEN Append(Chosen(u, U), x) ELSE Chosen(u, U)
    <3>1. \A i \in 1..Len(u) : (i \in T <=> i \in U)
      BY <1>2, <1>4
    <3> QED
      BY <1>2, <3>1, ChosenAppend
  <2> QED
    BY <1>2, <2>1
<1> QED
  BY <1>3, <1>5, <1>6 DEF Among, u, v, T, U, t

\* They are a sequence.
LEMMA AmongSeq ==
    ASSUME NEW s, IsSeq(s), NEW K
    PROVE  IsSeq(Among(s, K))
<1> DEFINE u == [i \in DOMAIN s |-> s[i].node]
           U == {i \in DOMAIN s : s[i].node \in K}
<1>1. IsSeq(u)
  <2>1. DOMAIN u = DOMAIN s /\ u = [i \in DOMAIN s |-> u[i]]
    OBVIOUS
  <2> HIDE DEF u
  <2> QED
    BY <2>1, MapSeq
<1>2. Among(s, K) = Chosen(u, U)
  BY DEF Among
<1> HIDE DEF u, U
<1> QED
  BY <1>1, <1>2, ChosenSeq

\* No frames, no nodes.
LEMMA AmongNone ==
    ASSUME NEW K
    PROVE  Among(<<>>, K) = <<>>
<1>1. [i \in DOMAIN <<>> |-> <<>>[i].node] = <<>>
  OBVIOUS
<1> QED
  BY <1>1, ChosenOfNone DEF Among

\* What was appended last comes away first.
LEMMA LastOfAppend ==
    ASSUME NEW s, IsSeq(s), NEW x
    PROVE  Append(s, x) # <<>> /\ Front(Append(s, x)) = s /\ Last(Append(s, x)) = x
<1> DEFINE t == Append(s, x)
           f == Front(t)
           n == Len(s)
<1>1. /\ n \in Nat /\ DOMAIN s = 1..n /\ IsSeq(t) /\ DOMAIN t = 1..(n + 1)
      /\ t[n + 1] = x /\ \A i \in 1..n : t[i] = s[i]
  BY AppendSeq, SeqDomain
<1> HIDE DEF t, n
<1>2. n + 1 \in Nat /\ (n + 1) - 1 = n /\ n + 1 \in 1..(n + 1)
  BY <1>1
<1>3. Len(t) = n + 1 /\ t # <<>>
  BY <1>1, <1>2, LenIs
<1>4. Last(t) = x
  BY <1>1, <1>3 DEF Last
<1>5. IsSeq(f) /\ DOMAIN f = 1..n /\ \A i \in 1..n : f[i] = t[i]
  BY <1>1, <1>2, <1>3, FrontSeq
<1> HIDE DEF f
<1>6. Len(f) = n /\ Len(s) = n
  BY <1>1, <1>5, LenIs DEF n
<1>7. f = [i \in 1..n |-> f[i]] /\ s = [i \in 1..n |-> s[i]]
  <2>1. f \in Seq(Range(f)) /\ s \in Seq(Range(s))
    BY <1>5 DEF IsSeq
  <2> QED
    BY <1>6, <2>1
<1>8. f = s
  BY <1>1, <1>5, <1>7
<1> QED
  BY <1>3, <1>4, <1>8 DEF f, t

\* Another list for the top frame changes no node.
LEMMA AmongRefilled ==
    ASSUME FrameInv, phase = "walking", NEW t, NEW K
    PROVE  Among(Refilled(t), K) = Among(stack, K)
<1> DEFINE r == Refilled(t)
<1>1. /\ IsSeq(r) /\ Len(r) = Len(stack) /\ DOMAIN stack = 1..Len(stack)
      /\ \A i \in DOMAIN stack : r[i].node = stack[i].node
  <2>1. /\ IsSeq(r) /\ Len(r) = Len(stack) /\ DOMAIN stack = 1..Len(stack)
        /\ \A i \in DOMAIN stack :
               r[i] = [node |-> stack[i].node, depth |-> stack[i].depth, wc |-> stack[i].wc,
                       todo |-> IF i = Len(stack) THEN t ELSE stack[i].todo]
    BY RefilledIs
  <2> DEFINE m == Len(stack)
  <2> HIDE DEF r, m
  <2>2. \A i \in DOMAIN stack :
            r[i] = [node |-> stack[i].node, depth |-> stack[i].depth, wc |-> stack[i].wc,
                    todo |-> IF i = m THEN t ELSE stack[i].todo]
    BY <2>1 DEF m
  <2>3. \A i \in DOMAIN stack : r[i].node = stack[i].node
    <3> TAKE i \in DOMAIN stack
    <3> DEFINE todo == IF i = m THEN t ELSE stack[i].todo
    <3>1. r[i] = [node |-> stack[i].node, depth |-> stack[i].depth, wc |-> stack[i].wc, todo |-> todo]
      BY <2>2
    <3> HIDE DEF todo
    <3> QED
      BY <3>1
  <2> QED
    BY <2>1, <2>3
<1> HIDE DEF r
<1>2. DOMAIN r = DOMAIN stack
  BY <1>1, SeqDomain
<1> QED
  BY <1>1, <1>2, AmongSame DEF r

\* A new frame adds its node.
LEMMA AmongPushed ==
    ASSUME FrameInv, phase = "walking", NEW t, NEW f, NEW K
    PROVE  Among(Append(Refilled(t), f), K)
             = IF f.node \in K THEN Append(Among(stack, K), f.node) ELSE Among(stack, K)
BY RefilledIs, AmongRefilled, AmongAppend

\* The top's node comes last.
LEMMA AmongBelow ==
    ASSUME FrameInv, phase = "walking", NEW K
    PROVE  Among(stack, K) = IF Top.node \in K THEN Append(Among(Below, K), Top.node) ELSE Among(Below, K)
<1> DEFINE b == Below
           e == Top
           t == Append(b, e)
           m == Len(stack)
<1>1. /\ IsSeq(b) /\ DOMAIN b = 1..(m - 1) /\ Len(b) = m - 1 /\ m \in Nat /\ m > 0 /\ DOMAIN stack = 1..m
      /\ \A i \in DOMAIN b : b[i] = stack[i]
  BY BelowIs
<1>2. e = stack[m]
  BY DEF Top
<1> HIDE DEF b, e, m
<1>3. /\ DOMAIN t = 1..((m - 1) + 1) /\ t[(m - 1) + 1] = e
      /\ \A i \in 1..(m - 1) : t[i] = b[i]
  BY <1>1, AppendSeq
<1> HIDE DEF t
<1>4. (m - 1) + 1 = m
  BY <1>1
<1>5. DOMAIN t = DOMAIN stack /\ \A i \in DOMAIN t : t[i].node = stack[i].node
  <2>1. DOMAIN t = DOMAIN stack
    BY <1>1, <1>3, <1>4
  <2>2. \A i \in 1..m : i \in 1..(m - 1) \/ i = m
    BY <1>1
  <2> QED
    BY <1>1, <1>2, <1>3, <1>4, <2>1, <2>2
<1>6. Among(t, K) = Among(stack, K)
  BY <1>5, AmongSame
<1>7. Among(t, K) = IF e.node \in K THEN Append(Among(b, K), e.node) ELSE Among(b, K)
  BY <1>1, AmongAppend DEF t
<1> QED
  BY <1>6, <1>7 DEF b, e

-----------------------------------------------------------------------------
(* Parents *)

Tracked(d) == {n \in DOMAIN d.kind : d.kind[n] \in PushesParent}
ParentsAre == parents = Among(stack, Tracked(doc))

LEMMA ParentsAreNearest == ASSUME FrameInv PROVE ParentsAre <=> ParentIsNearest
<1>1. \A i \in DOMAIN stack : stack[i].node \in DOMAIN doc.kind
  BY DEF FrameInv, Nodes
<1>2. {i \in DOMAIN stack : stack[i].node \in Tracked(doc)}
      = {i \in DOMAIN stack : Kind(stack[i].node) \in PushesParent}
  BY <1>1 DEF Tracked, Kind
<1> QED
  BY <1>2 DEF ParentsAre, ParentIsNearest, Among, OnStack

\* A frame is pushed with its parent, and popped with it.
LEMMA ParentsNext ==
    ASSUME Framed, ParentsAre, [Next]_vars
    PROVE  ParentsAre'
<1> FrameInv
  BY FrameInvIs
<1> DEFINE K == Tracked(doc)
<1>1. CASE VisitDocument
  <2>1. doc' = doc /\ parents' = parents /\ parents = <<>>
    BY <1>1, VisitDocumentIs
  <2>2. "doc" \notin K
    BY DocumentIs DEF Tracked, Kind, PushesParent
  <2> HIDE DEF K
  <2> DEFINE f == Frame("doc", 0, NoContext)
  <2>3. stack' = <<>> \/ stack' = <<f>>
    BY <1>1, VisitDocumentIs
  <2>4. f.node = "doc"
    BY DEF Frame
  <2> HIDE DEF f
  <2>5. IsSeq(<<>>) /\ Append(<<>>, f) = <<f>>
    BY DEF IsSeq
  <2>6. Among(<<>>, K) = <<>> /\ Among(<<f>>, K) = <<>>
    <3>1. Among(<<>>, K) = <<>>
      BY AmongNone
    <3>2. \A s : IsSeq(s) =>
              Among(Append(s, f), K) = IF f.node \in K THEN Append(Among(s, K), f.node) ELSE Among(s, K)
      BY AmongAppend
    <3>3. Among(Append(<<>>, f), K) = Among(<<>>, K)
      BY <2>2, <2>4, <2>5, <3>2
    <3> QED
      BY <2>5, <3>1, <3>3
  <2> QED
    BY <2>1, <2>3, <2>6 DEF ParentsAre, K
<1>2. CASE Abandon
  <2>1. phase = "walking" /\ stack' = Refilled(Later(Top.todo)) /\ UNCHANGED <<doc, parents>>
    BY <1>2 DEF Abandon, Refilled
  <2>2. Among(stack', K) = Among(stack, K)
    BY <2>1, AmongRefilled
  <2> QED
    BY <2>1, <2>2 DEF ParentsAre
<1>3. CASE Visit
  <2>1. /\ phase = "walking" /\ Top.todo # <<>>
        /\ \E ref : (\E event, answer : Passes(ref, event, answer)) \/ (\E answer : Enters(ref, answer))
    BY <1>3, VisitIs
  <2>2. ASSUME NEW ref, NEW event, NEW answer, Passes(ref, event, answer) PROVE ParentsAre'
    <3>1. stack' = Refilled(Tail(Top.todo)) /\ UNCHANGED <<doc, parents>>
      BY <2>2 DEF Passes
    <3>2. Among(stack', K) = Among(stack, K)
      BY <2>1, <3>1, AmongRefilled
    <3> QED
      BY <3>1, <3>2 DEF ParentsAre
  <2>3. ASSUME NEW ref, NEW answer, Enters(ref, answer) PROVE ParentsAre'
    <3> DEFINE f == Frame(Child, ChildDepth, ChildContext)
    <3>1. /\ stack' = Append(Refilled(Tail(Top.todo)), f) /\ doc' = doc
          /\ parents' = IF Kind(Child) \in PushesParent THEN Append(parents, Child) ELSE parents
      BY <2>3 DEF Enters
    <3>2. f.node = Child
      BY DEF Frame
    <3>3. Child \in K <=> Kind(Child) \in PushesParent
      BY <2>1, ChildIs DEF Tracked, Kind, Nodes
    <3> HIDE DEF f, K
    <3>4. Among(stack', K) = IF Child \in K THEN Append(Among(stack, K), Child) ELSE Among(stack, K)
      BY <2>1, <3>1, <3>2, AmongPushed
    <3> QED
      BY <3>1, <3>3, <3>4 DEF ParentsAre, K
  <2> QED
    BY <2>1, <2>2, <2>3
<1>4. CASE Leave
  <2>1. /\ phase = "walking" /\ stack' = Below /\ doc' = doc
        /\ parents' = IF Kind(Top.node) \in PushesParent THEN Front(parents) ELSE parents
    BY <1>4 DEF Leave
  <2>2. Top.node \in K <=> Kind(Top.node) \in PushesParent
    BY <2>1, TopIs DEF Tracked, Kind, Nodes
  <2> HIDE DEF K
  <2>3. Among(stack, K) = IF Top.node \in K THEN Append(Among(Below, K), Top.node) ELSE Among(Below, K)
    BY <2>1, AmongBelow
  <2>4. IsSeq(Among(Below, K))
    BY <2>1, BelowIs, AmongSeq
  <2>5. parents' = Among(Below, K)
    BY <2>1, <2>2, <2>3, <2>4, LastOfAppend DEF ParentsAre, K
  <2> QED
    BY <2>1, <2>5 DEF ParentsAre, K
<1>5. CASE UNCHANGED vars
  BY <1>5 DEF ParentsAre, vars
<1>6. CASE Done
  BY <1>6 DEF Done, ParentsAre, vars
<1> QED
  BY <1>1, <1>2, <1>3, <1>4, <1>5, <1>6 DEF Next

-----------------------------------------------------------------------------
(* Handlers that were opened *)

\* What is open after each of the calls.
Nothing == [open |-> <<>>, broken |-> FALSE]
IsNested(f, walk, calls) ==
    /\ f \in [Nat -> [open : Seq({calls[i].node : i \in Nat}), broken : BOOLEAN]]
    /\ f[0] = Nothing
    /\ \A i \in Nat : i # 0 => f[i] = Nest(walk, f[i - 1], calls[i])

\* A call opens a node, closes one, or changes nothing.
LEMMA NestIs ==
    ASSUME NEW S, NEW walk, NEW c, c.node \in S, NEW x \in [open : Seq(S), broken : BOOLEAN]
    PROVE  Nest(walk, x, c) \in [open : Seq(S), broken : BOOLEAN]
<1>1. /\ x = [open |-> x.open, broken |-> x.broken] /\ x.broken \in BOOLEAN /\ x.open \in Seq(S)
      /\ IsSeq(x.open) /\ Range(x.open) \subseteq S
  <2>1. x = [open |-> x.open, broken |-> x.broken] /\ x.broken \in BOOLEAN /\ x.open \in Seq(S)
    OBVIOUS
  <2> QED
    BY <2>1, OverSeq
<1>2. Append(x.open, c.node) \in Seq(S)
  BY <1>1
<1>3. x.open # <<>> => Front(x.open) \in Seq(S)
  <2> SUFFICES ASSUME x.open # <<>> PROVE Front(x.open) \in Seq(S)
    OBVIOUS
  <2> DEFINE s == x.open
             t == Front(s)
             n == Len(s)
  <2>1. IsSeq(s) /\ Range(s) \subseteq S /\ s # <<>>
    BY <1>1
  <2> HIDE DEF s
  <2>2. IsSeq(t) /\ DOMAIN t = 1..(n - 1) /\ n \in Nat /\ DOMAIN s = 1..n /\ \A i \in 1..(n - 1) : t[i] = s[i]
    BY <2>1, FrontSeq, SeqDomain
  <2> HIDE DEF t, n
  <2>3. 1..(n - 1) \subseteq 1..n
    BY <2>2
  <2>4. Range(t) \subseteq Range(s)
    BY <2>2, <2>3 DEF Range
  <2>5. t \in Seq(S)
    BY <2>1, <2>2, <2>4, OverSeq
  <2> QED
    BY <2>5 DEF s, t
<1>4. /\ [x EXCEPT !.open = Append(@, c.node)] = [open |-> Append(x.open, c.node), broken |-> x.broken]
      /\ [x EXCEPT !.open = Front(@)] = [open |-> Front(x.open), broken |-> x.broken]
      /\ [x EXCEPT !.broken = TRUE] = [open |-> x.open, broken |-> TRUE]
  <2>1. \A y : /\ [x EXCEPT !.open = y] = [open |-> y, broken |-> x.broken]
               /\ [x EXCEPT !.broken = y] = [open |-> x.open, broken |-> y]
    BY <1>1
  <2> QED
    BY <2>1
<1>5. \/ Nest(walk, x, c) = [open |-> Append(x.open, c.node), broken |-> x.broken]
      \/ Nest(walk, x, c) = x
      \/ x.open # <<>> /\ Nest(walk, x, c) = [open |-> Front(x.open), broken |-> x.broken]
      \/ Nest(walk, x, c) = [open |-> x.open, broken |-> TRUE]
  BY <1>4 DEF Nest
<1>6. \A y \in Seq(S), b \in BOOLEAN : [open |-> y, broken |-> b] \in [open : Seq(S), broken : BOOLEAN]
  OBVIOUS
<1>7. TRUE \in BOOLEAN
  OBVIOUS
<1> QED
  BY <1>1, <1>2, <1>3, <1>5, <1>6, <1>7

\* Nested is the last of them.
LEMMA NestedIs ==
    ASSUME NEW walk, NEW calls
    PROVE  \E f : IsNested(f, walk, calls) /\ Nested(walk, calls) = f[Len(calls)]
<1> DEFINE S == {calls[i].node : i \in Nat}
           X == [open : Seq(S), broken : BOOLEAN]
           F == [p \in Nat \X X |-> Nest(walk, p[2], calls[p[1]])]
           after[i \in Nat] == IF i = 0 THEN [open |-> <<>>, broken |-> FALSE]
                               ELSE Nest(walk, after[i - 1], calls[i])
<1>1. \A i \in Nat : \A x \in X : F[<<i, x>>] = Nest(walk, x, calls[i])
  OBVIOUS
<1>2. \A i \in Nat : \A x \in X : F[<<i, x>>] \in X
  <2> TAKE i \in Nat
  <2> TAKE x \in X
  <2>1. calls[i].node \in S
    OBVIOUS
  <2> HIDE DEF S, F
  <2>2. Nest(walk, x, calls[i]) \in X
    BY <2>1, NestIs
  <2> QED
    BY <1>1, <2>2
<1> HIDE DEF F
<1>3. Nothing \in X
  <2>1. <<>> \in Seq(S)
    OBVIOUS
  <2> HIDE DEF S
  <2> QED
    BY <2>1 DEF Nothing
<1> HIDE DEF X
<1>4. PICK f \in [Nat -> X] : Recursive(f, Nothing, F)
  BY <1>2, <1>3, RecursionIn
<1>5. /\ f[0] = Nothing /\ f = [i \in Nat |-> f[i]]
      /\ \A i \in Nat : i # 0 => f[i] = F[<<i, f[i - 1]>>]
  BY <1>4 DEF Recursive
<1>6. \A i \in Nat : i # 0 => f[i] = Nest(walk, f[i - 1], calls[i])
  <2> TAKE i \in Nat
  <2> HAVE i # 0
  <2>1. i - 1 \in Nat /\ f[i - 1] \in X
    BY <1>4
  <2> QED
    BY <1>1, <1>5, <2>1
<1>7. f = [i \in Nat |-> IF i = 0 THEN [open |-> <<>>, broken |-> FALSE]
                         ELSE Nest(walk, f[i - 1], calls[i])]
  BY <1>5, <1>6 DEF Nothing
<1>8. after = [i \in Nat |-> IF i = 0 THEN [open |-> <<>>, broken |-> FALSE]
                             ELSE Nest(walk, after[i - 1], calls[i])]
  BY <1>7 DEF after
<1>9. Nested(walk, calls) = after[Len(calls)]
  BY DEF Nested
<1> HIDE DEF after
<1>10. after[0] = Nothing
  BY <1>8 DEF Nothing
<1>11. \A i \in Nat : i # 0 => after[i] = Nest(walk, after[i - 1], calls[i])
  BY <1>8
<1> DEFINE T == {i \in Nat : after[i] = f[i]}
<1>12. 0 \in T
  BY <1>5, <1>10
<1>13. ASSUME NEW i \in T PROVE i + 1 \in T
  <2>1. i + 1 \in Nat /\ i + 1 # 0 /\ (i + 1) - 1 = i
    OBVIOUS
  <2> QED
    BY <1>6, <1>11, <2>1
<1>14. T \in SUBSET Nat
  OBVIOUS
<1> HIDE DEF T
<1>15. T = Nat
  BY <1>12, <1>13, <1>14, Induct
<1>16. after = f
  BY <1>5, <1>8, <1>15 DEF T
<1>17. IsNested(f, walk, calls)
  BY <1>4, <1>5, <1>6 DEF IsNested, X, S
<1> QED
  BY <1>9, <1>16, <1>17

\* Nothing is open before the first call.
LEMMA NestedOfNone ==
    ASSUME NEW walk
    PROVE  Nested(walk, <<>>) = Nothing
<1>1. PICK f : IsNested(f, walk, <<>>) /\ Nested(walk, <<>>) = f[Len(<<>>)]
  BY NestedIs
<1>2. Len(<<>>) = 0
  OBVIOUS
<1> QED
  BY <1>1, <1>2 DEF IsNested

\* The last call changes what the others left open.
LEMMA NestedAppend ==
    ASSUME NEW walk, NEW calls, IsSeq(calls), NEW c
    PROVE  Nested(walk, Append(calls, c)) = Nest(walk, Nested(walk, calls), c)
<1> DEFINE t == Append(calls, c)
           n == Len(calls)
<1>1. n \in Nat /\ Len(t) = n + 1 /\ t[n + 1] = c /\ \A i \in 1..n : t[i] = calls[i]
  <2>1. IsSeq(t) /\ DOMAIN t = 1..(n + 1) /\ t[n + 1] = c /\ \A i \in 1..n : t[i] = calls[i]
    BY AppendSeq
  <2>2. n \in Nat
    BY SeqDomain
  <2> QED
    BY <2>1, <2>2, SeqDomain
<1> HIDE DEF t, n
<1>2. PICK f : IsNested(f, walk, t) /\ Nested(walk, t) = f[Len(t)]
  BY NestedIs
<1>3. PICK g : IsNested(g, walk, calls) /\ Nested(walk, calls) = g[n]
  BY NestedIs DEF n
<1>4. /\ f[0] = g[0]
      /\ \A i \in Nat : i # 0 => f[i] = Nest(walk, f[i - 1], t[i])
      /\ \A i \in Nat : i # 0 => g[i] = Nest(walk, g[i - 1], calls[i])
  BY <1>2, <1>3 DEF IsNested
<1> DEFINE M == {i \in Nat : i <= n => f[i] = g[i]}
<1>5. 0 \in M
  BY <1>4
<1>6. ASSUME NEW i \in M PROVE i + 1 \in M
  <2> SUFFICES ASSUME i + 1 <= n PROVE f[i + 1] = g[i + 1]
    OBVIOUS
  <2>1. i + 1 \in 1..n /\ i + 1 \in Nat /\ i + 1 # 0 /\ (i + 1) - 1 = i /\ i <= n
    BY <1>1
  <2> QED
    BY <1>1, <1>4, <2>1
<1>7. M \in SUBSET Nat
  OBVIOUS
<1> HIDE DEF M
<1>8. M = Nat
  BY <1>5, <1>6, <1>7, Induct
<1>9. f[n] = g[n]
  BY <1>1, <1>8 DEF M
<1>10. n + 1 \in Nat /\ n + 1 # 0 /\ (n + 1) - 1 = n
  BY <1>1
<1>11. f[n + 1] = Nest(walk, f[n], c)
  BY <1>1, <1>4, <1>10
<1> QED
  BY <1>1, <1>2, <1>3, <1>9, <1>11 DEF t

\* It is a sequence, and a record says so.
LEMMA NestedSeq ==
    ASSUME NEW walk, NEW calls, IsSeq(calls)
    PROVE  LET nest == Nested(walk, calls)
           IN  /\ nest = [open |-> nest.open, broken |-> nest.broken]
               /\ IsSeq(nest.open) /\ nest.broken \in BOOLEAN
<1>1. PICK f : IsNested(f, walk, calls) /\ Nested(walk, calls) = f[Len(calls)]
  BY NestedIs
<1> DEFINE S == {calls[i].node : i \in Nat}
           X == [open : Seq(S), broken : BOOLEAN]
<1>2. f \in [Nat -> X] /\ Len(calls) \in Nat
  BY <1>1, SeqDomain DEF IsNested
<1>3. \A x \in X : x = [open |-> x.open, broken |-> x.broken] /\ x.open \in Seq(S) /\ x.broken \in BOOLEAN
  <2> HIDE DEF S
  <2> QED
    OBVIOUS
<1> HIDE DEF X, S
<1>4. Nested(walk, calls) \in X
  BY <1>1, <1>2
<1> QED
  BY <1>3, <1>4, SeqIsSeq

\* The nodes whose handlers are counted.
Counted(walk) == {n \in DOMAIN walk.doc.kind : Counts(walk, n)}
Opened ==
    /\ \A c \in Range(log) : c.event = "post" => ~c.late
    /\ "post" \in registered =>
           /\ ~Nested(Walk, log).broken
           /\ ~stopped => Nested(Walk, log).open = Among(stack, Counted(Walk))

LEMMA OpenedIs == ASSUME FrameInv PROVE Opened <=> NestInv
<1>1. \A i \in DOMAIN stack : stack[i].node \in DOMAIN Walk.doc.kind
  BY DEF FrameInv, Nodes, Walk
<1>2. {i \in DOMAIN stack : stack[i].node \in Counted(Walk)}
      = {i \in DOMAIN stack : Counts(Walk, stack[i].node)}
  BY <1>1 DEF Counted
<1>3. Among(stack, Counted(Walk)) = Chosen(OnStack, {i \in DOMAIN stack : Counts(Walk, stack[i].node)})
  BY <1>2 DEF Among, OnStack
<1>4. Calls = Range(log)
  BY DEF Calls, Range
<1> QED
  BY <1>3, <1>4 DEF Opened, NestInv

\* What a call that is logged leaves open.
LEMMA NestedLogged ==
    ASSUME NEW walk, NEW calls, IsSeq(calls), NEW event, NEW n, NEW wc, NEW answer
    PROVE  Nested(walk, Logged(calls, event, n, wc, answer))
             = IF answer = "none" THEN Nested(walk, calls)
               ELSE Nest(walk, Nested(walk, calls), Call(event, n, wc, answer))
BY NestedAppend DEF Logged

\* Calls that open and close nothing leave things as they were.
LEMMA NestUnless ==
    ASSUME NEW walk, NEW nest, NEW event, NEW n, NEW wc, NEW answer,
           \/ event \notin {"visit", "post"}
           \/ ~Counts(walk, n)
           \/ event = "visit" /\ (answer # "Continue" \/ (stopped /\ walk.doc.kind[n] # "schema"))
    PROVE  Nest(walk, nest, Call(event, n, wc, answer)) = nest
<1> DEFINE c == Call(event, n, wc, answer)
<1>1. c.event = event /\ c.node = n /\ c.answer = answer /\ c.late = stopped
  BY DEF Call
<1> HIDE DEF c
<1>2. ~Opens(walk, c) /\ ~Closes(walk, c)
  BY <1>1 DEF Opens, Closes
<1> QED
  BY <1>2 DEF Nest, c

\* A child leaves open what its own handler opened.
LEMMA NestedChild ==
    ASSUME NEW walk, IsSeq(log), NEW ref, NEW event, NEW n, NEW wc, NEW answer
    PROVE  LET calls == Logged(Logged(log, "ref", n, wc, ref), event, n, wc, answer)
           IN  /\ Nested(walk, calls) = IF answer = "none" THEN Nested(walk, log)
                                        ELSE Nest(walk, Nested(walk, log), Call(event, n, wc, answer))
               /\ event # "post" /\ (\A c \in Range(log) : c.event = "post" => ~c.late) =>
                      \A c \in Range(calls) : c.event = "post" => ~c.late
<1> DEFINE first == Logged(log, "ref", n, wc, ref)
<1>1. Nested(walk, first) = Nested(walk, log)
  <2>1. Nest(walk, Nested(walk, log), Call("ref", n, wc, ref)) = Nested(walk, log)
    BY NestUnless
  <2> QED
    BY <2>1, NestedLogged
<1>2. IsSeq(first) /\ Range(first) \subseteq Range(log) \cup {Call("ref", n, wc, ref)}
  BY LoggedIs
<1> HIDE DEF first
<1>3. Nested(walk, Logged(first, event, n, wc, answer))
      = IF answer = "none" THEN Nested(walk, first)
        ELSE Nest(walk, Nested(walk, first), Call(event, n, wc, answer))
  BY <1>2, NestedLogged
<1>4. Range(Logged(first, event, n, wc, answer))
      \subseteq Range(log) \cup {Call("ref", n, wc, ref), Call(event, n, wc, answer)}
  BY <1>2, LoggedIs
<1>5. Call("ref", n, wc, ref).event = "ref" /\ Call(event, n, wc, answer).event = event
  BY DEF Call
<1> QED
  BY <1>1, <1>3, <1>4, <1>5 DEF first

\* What is open follows the frames.
LEMMA OpenedNext ==
    ASSUME Framed, Opened, [Next]_vars
    PROVE  Opened'
<1> FrameInv
  BY FrameInvIs
<1> DEFINE K == Counted(Walk)
           nest == Nested(Walk, log)
<1>s. IsSeq(log) /\ stopped \in BOOLEAN
  BY DEF Framed
<1>c. \A walk, ref, event, n, wc, answer :
          LET calls == Logged(Logged(log, "ref", n, wc, ref), event, n, wc, answer)
          IN  /\ Nested(walk, calls) = IF answer = "none" THEN Nested(walk, log)
                                       ELSE Nest(walk, Nested(walk, log), Call(event, n, wc, answer))
              /\ event # "post" /\ (\A c \in Range(log) : c.event = "post" => ~c.late) =>
                     \A c \in Range(calls) : c.event = "post" => ~c.late
  BY <1>s, NestedChild
<1>1. CASE VisitDocument
  <2>1. PICK typed \in Answers("typedDocument"), generic \in Answers("document") :
           /\ log' = Logged(Logged(<<>>, "visit", "doc", NoContext, typed), "visit", "doc", NoContext,
                            IF typed = "Stop" THEN "none" ELSE generic)
           /\ IF {typed, generic} \subseteq {"none", "Continue"}
              THEN phase' = "walking" /\ stack' = <<Frame("doc", 0, NoContext)>>
              ELSE phase' = "done" /\ stack' = <<>>
    BY <1>1, VisitDocumentIs
  <2>2. log = <<>> /\ UNCHANGED <<doc, registered>>
    BY <1>1, VisitDocumentIs
  <2>3. ~Counts(Walk, "doc") /\ "doc" \notin K
    <3>1. Walk.doc.kind["doc"] = "document"
      BY DocumentIs DEF Walk, Kind
    <3>2. ~Counts(Walk, "doc")
      BY <3>1 DEF Counts
    <3> QED
      BY <3>2 DEF Counted
  <2> DEFINE first == Logged(<<>>, "visit", "doc", NoContext, typed)
             a == IF typed = "Stop" THEN "none" ELSE generic
  <2>4. IsSeq(first) /\ Nested(Walk, first) = Nothing /\ Range(first) \subseteq {Call("visit", "doc", NoContext, typed)}
    <3>1. IsSeq(<<>>) /\ Range(<<>>) = {}
      BY DEF IsSeq, Range
    <3>2. IsSeq(first) /\ Range(first) \subseteq {Call("visit", "doc", NoContext, typed)}
      BY <3>1, LoggedIs
    <3>3. Nested(Walk, <<>>) = Nothing /\ Nest(Walk, Nothing, Call("visit", "doc", NoContext, typed)) = Nothing
      BY <2>3, NestedOfNone, NestUnless
    <3>4. Nested(Walk, first) = Nothing
      BY <3>1, <3>3, NestedLogged
    <3> QED
      BY <3>2, <3>4
  <2> HIDE DEF first, a
  <2>5. log' = Logged(first, "visit", "doc", NoContext, a)
    BY <2>1 DEF first, a
  <2>6. Nested(Walk, log') = Nothing
    <3>1. Nest(Walk, Nothing, Call("visit", "doc", NoContext, a)) = Nothing
      BY <2>3, NestUnless
    <3> QED
      BY <2>4, <2>5, <3>1, NestedLogged
  <2>7. \A c \in Range(log') : c.event # "post"
    <3>1. Range(log') \subseteq {Call("visit", "doc", NoContext, typed), Call("visit", "doc", NoContext, a)}
      BY <2>4, <2>5, LoggedIs
    <3>2. \A x : Call("visit", "doc", NoContext, x).event = "visit"
      BY DEF Call
    <3> QED
      BY <3>1, <3>2
  <2> HIDE DEF K
  <2>8. Among(stack', K) = <<>>
    <3> DEFINE f == Frame("doc", 0, NoContext)
    <3>1. f.node = "doc" /\ (stack' = <<>> \/ stack' = <<f>>)
      BY <2>1 DEF Frame
    <3> HIDE DEF f
    <3>2. IsSeq(<<>>) /\ Append(<<>>, f) = <<f>>
      BY DEF IsSeq
    <3>3. \A t : IsSeq(t) =>
              Among(Append(t, f), K) = IF f.node \in K THEN Append(Among(t, K), f.node) ELSE Among(t, K)
      BY AmongAppend
    <3>4. Among(Append(<<>>, f), K) = Among(<<>>, K) /\ Among(<<>>, K) = <<>>
      BY <2>3, <3>1, <3>2, <3>3, AmongNone
    <3> QED
      BY <3>1, <3>2, <3>4
  <2>9. Walk' = Walk
    BY <2>2 DEF Walk
  <2>10. Nothing.open = <<>> /\ Nothing.broken = FALSE
    BY DEF Nothing
  <2> QED
    BY <2>6, <2>7, <2>8, <2>9, <2>10 DEF Opened, K
<1>2. CASE Abandon
  <2>1. /\ phase = "walking" /\ stack' = Refilled(Later(Top.todo))
        /\ UNCHANGED <<doc, registered, log, stopped>>
    BY <1>2 DEF Abandon, Refilled
  <2>2. Among(stack', K) = Among(stack, K)
    BY <2>1, AmongRefilled
  <2>3. Walk' = Walk
    BY <2>1 DEF Walk
  <2> QED
    BY <2>1, <2>2, <2>3 DEF Opened
<1>3. CASE Visit
  <2>1. /\ phase = "walking" /\ Top.todo # <<>>
        /\ \E ref : (\E event, answer : Passes(ref, event, answer)) \/ (\E answer : Enters(ref, answer))
    BY <1>3, VisitIs
  <2>2. Child \in DOMAIN doc.kind
    BY <2>1, ChildIs DEF Nodes
  <2>3. ASSUME NEW ref, NEW event, NEW answer, Passes(ref, event, answer) PROVE Opened'
    <3>1. stack' = Refilled(Tail(Top.todo)) /\ UNCHANGED <<doc, registered>>
      BY <2>3 DEF Passes
    <3>2. Among(stack', K) = Among(stack, K)
      BY <2>1, <3>1, AmongRefilled
    <3>3. Walk' = Walk
      BY <3>1 DEF Walk
    <3>4. event # "post" /\ (stopped' \/ stopped' = stopped)
      BY <1>s, <2>3 DEF Passes
    <3>5. answer # "none" => Nest(Walk, nest, Call(event, Child, ChildContext, answer)) = nest
      <4>1. \/ answer = "none" \/ event = "skipped"
            \/ event = "visit" /\ (answer # "Continue" \/ (stopped /\ Walk.doc.kind[Child] # "schema"))
        BY <2>3 DEF Passes, GoesOn, Walk, Kind
      <4> QED
        BY <4>1, NestUnless
    <3>6. /\ Nested(Walk, log') = nest
          /\ \A c \in Range(log') : c.event = "post" => ~c.late
      <4> DEFINE n == Child
                 wc == ChildContext
      <4>1. log' = Logged(Logged(log, "ref", n, wc, ref), event, n, wc, answer)
        BY <2>3 DEF Passes
      <4> HIDE DEF n, wc, nest
      <4>2. LET calls == Logged(Logged(log, "ref", n, wc, ref), event, n, wc, answer)
            IN  /\ Nested(Walk, calls) = IF answer = "none" THEN nest
                                         ELSE Nest(Walk, nest, Call(event, n, wc, answer))
                /\ event # "post" /\ (\A c \in Range(log) : c.event = "post" => ~c.late) =>
                       \A c \in Range(calls) : c.event = "post" => ~c.late
        BY <1>c DEF nest
      <4> QED
        BY <3>4, <3>5, <4>1, <4>2 DEF Opened, n, wc
    <3> HIDE DEF K, nest
    <3> QED
      BY <1>s, <3>1, <3>2, <3>3, <3>4, <3>6 DEF Opened, K, nest
  <2>4. ASSUME NEW ref, NEW answer, Enters(ref, answer) PROVE Opened'
    <3> DEFINE f == Frame(Child, ChildDepth, ChildContext)
    <3>1. /\ stack' = Append(Refilled(Tail(Top.todo)), f) /\ UNCHANGED <<doc, registered, stopped>>
          /\ answer \in Answers(HandlerOf(Kind(Child))) /\ GoesOn(Child, answer)
          /\ log' = Logged(Logged(log, "ref", Child, ChildContext, ref), "visit", Child, ChildContext, answer)
      BY <2>4 DEF Enters
    <3>2. f.node = Child
      BY DEF Frame
    <3> HIDE DEF f
    <3>3. Among(stack', K) = IF Child \in K THEN Append(Among(stack, K), Child) ELSE Among(stack, K)
      <4> HIDE DEF K
      <4> QED
        BY <2>1, <3>1, <3>2, AmongPushed
    <3>4. Walk' = Walk
      BY <3>1 DEF Walk
    <3>5. Child \in K <=> Counts(Walk, Child)
      BY <2>2 DEF Counted, Walk
    <3>6. nest = [open |-> nest.open, broken |-> nest.broken]
      BY <1>s, NestedSeq
    <3> HIDE DEF nest
    <3>7. /\ Nested(Walk, log') = IF answer = "none" THEN nest
                                  ELSE Nest(Walk, nest, Call("visit", Child, ChildContext, answer))
          /\ \A c \in Range(log') : c.event = "post" => ~c.late
      <4> DEFINE n == Child
                 wc == ChildContext
      <4>1. log' = Logged(Logged(log, "ref", n, wc, ref), "visit", n, wc, answer)
        BY <3>1
      <4> HIDE DEF n, wc
      <4>2. LET calls == Logged(Logged(log, "ref", n, wc, ref), "visit", n, wc, answer)
            IN  /\ Nested(Walk, calls) = IF answer = "none" THEN nest
                                         ELSE Nest(Walk, nest, Call("visit", n, wc, answer))
                /\ "visit" # "post" /\ (\A c \in Range(log) : c.event = "post" => ~c.late) =>
                       \A c \in Range(calls) : c.event = "post" => ~c.late
        BY <1>c DEF nest
      <4> QED
        BY <4>1, <4>2 DEF Opened, n, wc
    <3>8. Nested(Walk, log') = IF Child \in K THEN [open |-> Append(nest.open, Child), broken |-> nest.broken] ELSE nest
      <4>1. CASE answer = "none"
        <5>1. HandlerOf(Kind(Child)) \notin registered
          BY <3>1, <4>1 DEF Answers
        <5>2. ~Counts(Walk, Child)
          BY <5>1 DEF Counts, Walk, Kind
        <5> QED
          BY <3>5, <3>7, <4>1, <5>2
      <4>2. CASE answer = "Continue"
        <5> DEFINE c == Call("visit", Child, ChildContext, answer)
        <5>1. c.event = "visit" /\ c.node = Child /\ c.answer = answer /\ c.late = stopped
          BY DEF Call
        <5> HIDE DEF c
        <5>2. stopped => Walk.doc.kind[Child] = "schema"
          BY <3>1, <4>2 DEF GoesOn, Walk, Kind
        <5>3. Opens(Walk, c) <=> Counts(Walk, Child)
          BY <4>2, <5>1, <5>2 DEF Opens
        <5>4. ~Closes(Walk, c)
          BY <5>1 DEF Closes
        <5>5. [nest EXCEPT !.open = Append(@, Child)] = [open |-> Append(nest.open, Child), broken |-> nest.broken]
          <6>1. \A y : [nest EXCEPT !.open = y] = [open |-> y, broken |-> nest.broken]
            BY <3>6
          <6> QED
            BY <6>1
        <5>6. Nest(Walk, nest, c) = IF Child \in K THEN [nest EXCEPT !.open = Append(@, Child)] ELSE nest
          BY <3>5, <5>1, <5>3, <5>4 DEF Nest
        <5>7. Nested(Walk, log') = Nest(Walk, nest, c)
          BY <3>7, <4>2 DEF c
        <5> QED
          BY <5>5, <5>6, <5>7
      <4>3. answer \in {"none", "Continue"}
        BY <3>1 DEF GoesOn
      <4> QED
        BY <4>1, <4>2, <4>3
    <3>9. "post" \in registered =>
             ~nest.broken /\ (~stopped => nest.open = Among(stack, K))
      BY DEF Opened, nest
    <3> HIDE DEF K
    <3>10. "post" \in registered =>
             ~Nested(Walk, log').broken /\ (~stopped => Nested(Walk, log').open = Among(stack', K))
      <4>1. CASE Child \in K
        <5>1. Nested(Walk, log').open = Append(nest.open, Child) /\ Nested(Walk, log').broken = nest.broken
          BY <3>8, <4>1
        <5> QED
          BY <3>3, <3>9, <4>1, <5>1
      <4>2. CASE Child \notin K
        BY <3>3, <3>8, <3>9, <4>2
      <4> QED
        BY <4>1, <4>2
    <3> QED
      BY <3>1, <3>4, <3>7, <3>10 DEF Opened, K
  <2> QED
    BY <2>1, <2>3, <2>4
<1>4. CASE Leave
  <2> DEFINE a == PostAnswer(Top.node)
             n == Top.node
             wc == Top.wc
  <2>1. /\ phase = "walking" /\ stack' = Below /\ UNCHANGED <<doc, registered, stopped>>
        /\ log' = Logged(log, "post", n, wc, a)
    BY <1>4, <1>s, LoggedIs DEF Leave
  <2>2. n \in DOMAIN doc.kind
    BY <2>1, TopIs DEF Nodes
  <2>3. n \in K <=> Counts(Walk, n)
    BY <2>2 DEF Counted, Walk
  <2>4. IF a = "none" THEN ("post" \in registered /\ ~stopped => ~Counts(Walk, n))
        ELSE a = "post" /\ ~stopped /\ "post" \in registered
    BY DEF PostAnswer, Counts, Walk, Kind
  <2>5. Walk' = Walk
    BY <2>1 DEF Walk
  <2>6. nest = [open |-> nest.open, broken |-> nest.broken]
    BY <1>s, NestedSeq
  <2>7. "post" \in registered => ~nest.broken /\ (~stopped => nest.open = Among(stack, K))
    BY DEF Opened
  <2>8. IsSeq(Among(Below, K)) /\ Among(stack, K) = IF n \in K THEN Append(Among(Below, K), n) ELSE Among(Below, K)
    <3> HIDE DEF K
    <3> QED
      BY <2>1, BelowIs, AmongSeq, AmongBelow
  <2>9. /\ Nested(Walk, log') = IF a = "none" THEN nest ELSE Nest(Walk, nest, Call("post", n, wc, a))
        /\ \A c \in Range(log') : c.event = "post" => ~c.late
    <3>1. Call("post", n, wc, a).late = stopped
      BY DEF Call
    <3> HIDE DEF a, n, wc
    <3>2. Nested(Walk, log') = IF a = "none" THEN nest ELSE Nest(Walk, nest, Call("post", n, wc, a))
      BY <1>s, <2>1, NestedLogged
    <3>3. Range(log') = Range(log) \cup (IF a = "none" THEN {} ELSE {Call("post", n, wc, a)})
      BY <1>s, <2>1, LoggedIs
    <3> QED
      BY <2>4, <3>1, <3>2, <3>3 DEF Opened
  <2> HIDE DEF a, n, wc, K, nest
  <2>10. CASE a = "none"
    <3>1. "post" \in registered =>
             ~Nested(Walk, log').broken /\ (~stopped => Nested(Walk, log').open = Among(stack', K))
      BY <2>1, <2>3, <2>4, <2>7, <2>8, <2>9, <2>10
    <3> QED
      BY <2>1, <2>5, <2>9, <3>1 DEF Opened, K
  <2>11. CASE a # "none"
    <3> DEFINE c == Call("post", n, wc, a)
    <3>1. c.event = "post" /\ c.node = n
      BY DEF Call
    <3> HIDE DEF c
    <3>2. ~Opens(Walk, c) /\ (Closes(Walk, c) <=> n \in K)
      BY <2>3, <3>1 DEF Opens, Closes
    <3>3. nest.open = Among(stack, K) /\ ~nest.broken
      BY <2>4, <2>7, <2>11
    <3>4. Nested(Walk, log') = Nest(Walk, nest, c)
      BY <2>9, <2>11 DEF c
    <3>5. CASE n \in K
      <4>1. nest.open # <<>> /\ Last(nest.open) = n /\ Front(nest.open) = Among(Below, K)
        BY <2>8, <3>3, <3>5, LastOfAppend
      <4>2. Nest(Walk, nest, c) = [nest EXCEPT !.open = Front(@)]
        BY <3>1, <3>2, <3>5, <4>1 DEF Nest
      <4>3. [nest EXCEPT !.open = Front(@)] = [open |-> Front(nest.open), broken |-> nest.broken]
        BY <2>6
      <4>4. Nested(Walk, log').open = Among(stack', K) /\ ~Nested(Walk, log').broken
        BY <2>1, <3>3, <3>4, <4>1, <4>2, <4>3
      <4> QED
        BY <2>1, <2>5, <2>9, <4>4 DEF Opened, K
    <3>6. CASE n \notin K
      <4>1. Nest(Walk, nest, c) = nest
        BY <3>2, <3>6 DEF Nest
      <4>2. Nested(Walk, log').open = Among(stack', K) /\ ~Nested(Walk, log').broken
        BY <2>1, <2>8, <3>3, <3>4, <3>6, <4>1
      <4> QED
        BY <2>1, <2>5, <2>9, <4>2 DEF Opened, K
    <3> QED
      BY <3>5, <3>6
  <2> QED
    BY <2>10, <2>11
<1>5. CASE UNCHANGED vars
  <2>1. Walk' = Walk
    BY <1>5 DEF vars, Walk
  <2> QED
    BY <1>5, <2>1 DEF Opened, vars
<1>6. CASE Done
  <2>1. Walk' = Walk
    BY <1>6 DEF Done, vars, Walk
  <2> QED
    BY <1>6, <2>1 DEF Done, Opened, vars
<1> QED
  BY <1>1, <1>2, <1>3, <1>4, <1>5, <1>6 DEF Next

\* A handler is told the nearest parent, and post handlers close what was opened,
\* innermost first, whatever the document and whatever the handlers answer.
THEOREM HandlersAlwaysFollowTree == Spec => []HandlersFollowTree
<1> DEFINE Inv == Framed /\ ParentsAre /\ Opened
<1>1. Init => Inv
  <2> SUFFICES ASSUME Init PROVE Inv
    OBVIOUS
  <2>1. stack = <<>> /\ log = <<>> /\ parents = <<>>
    BY DEF Init
  <2>2. Framed
    BY InitFramed
  <2>3. ParentsAre
    BY <2>1, AmongNone DEF ParentsAre
  <2>4. Opened
    <3>1. Nested(Walk, log) = Nothing /\ Among(stack, Counted(Walk)) = <<>> /\ Range(log) = {}
      BY <2>1, NestedOfNone, AmongNone DEF Range
    <3>2. Nothing.open = <<>> /\ Nothing.broken = FALSE
      BY DEF Nothing
    <3> QED
      BY <3>1, <3>2 DEF Opened
  <2> QED
    BY <2>2, <2>3, <2>4
<1>2. Inv /\ [Next]_vars => Inv'
  BY FramedNext, ParentsNext, OpenedNext
<1>3. Inv => HandlersFollowTree
  <2> SUFFICES ASSUME Inv PROVE HandlersFollowTree
    OBVIOUS
  <2>1. FrameInv
    BY FrameInvIs
  <2>2. ParentIsNearest
    BY <2>1, ParentsAreNearest
  <2>3. Calls = Range(log)
    BY DEF Calls, Range
  <2>4. phase = "done" => Among(stack, Counted(Walk)) = <<>>
    BY AmongNone DEF Framed
  <2>5. HandlersNest
    BY <2>3, <2>4 DEF HandlersNest, Opened
  <2> QED
    BY <2>2, <2>5 DEF HandlersFollowTree
<1> QED
  BY <1>1, <1>2, <1>3, PTL DEF Spec

-----------------------------------------------------------------------------
(* Schemas on the way *)

SchemasAt(d, s) == {i \in DOMAIN s : d.kind[s[i].node] = "schema"}
Guards(d, s, v) ==
    /\ v = {s[i].node : i \in SchemasAt(d, s)}
    /\ \A i, j \in SchemasAt(d, s) : s[i].node = s[j].node => i = j
    /\ \A i \in SchemasAt(d, s) :
           /\ s[i].depth \in 0..MaxSchemaDepth
           /\ Cardinality({j \in SchemasAt(d, s) : j <= i}) = s[i].depth + 1
    /\ \A i \in SchemasAt(d, s), j \in DOMAIN s :
           i < j => j \in SchemasAt(d, s) \/ (j = Len(s) /\ s[j].todo = <<>>)
\* No other node between or over them.
Solid(d, s) == \A i \in SchemasAt(d, s), j \in DOMAIN s : i < j => j \in SchemasAt(d, s)

LEMMA GuardsAre == GuardInv <=> Guards(doc, stack, visiting)
BY DEF GuardInv, Guards, SchemaFrames, SchemasAt, Kind

\* There are finitely many.
LEMMA SchemasFinite ==
    ASSUME NEW d, NEW s, IsSeq(s)
    PROVE  IsFiniteSet(SchemasAt(d, s)) /\ Cardinality(SchemasAt(d, s)) \in Nat
<1> DEFINE n == Len(s)
<1>1. n \in Nat /\ DOMAIN s = 1..n
  BY SeqDomain
<1> HIDE DEF n
<1>2. IsFiniteSet(1..n)
  BY <1>1, FS_Interval
<1>3. SchemasAt(d, s) \subseteq 1..n
  BY <1>1 DEF SchemasAt
<1> QED
  BY <1>2, <1>3, FS_Subset, FS_CardinalityType

\* A schema that is not among them may be entered, at the depth that they make.
LEMMA GuardsAppend ==
    ASSUME NEW d, NEW s, IsSeq(s), NEW v, NEW f, Guards(d, s, v), Solid(d, s),
           d.kind[f.node] = "schema" =>
               f.node \notin v /\ f.depth \in 0..MaxSchemaDepth /\ Cardinality(SchemasAt(d, s)) = f.depth,
           d.kind[f.node] # "schema" => SchemasAt(d, s) = {} \/ f.todo = <<>>
    PROVE  Guards(d, Append(s, f), v \cup (IF d.kind[f.node] = "schema" THEN {f.node} ELSE {}))
<1> DEFINE t == Append(s, f)
           n == Len(s)
           S == SchemasAt(d, s)
           T == SchemasAt(d, t)
<1>1. /\ n \in Nat /\ DOMAIN s = 1..n /\ IsSeq(t) /\ DOMAIN t = 1..(n + 1)
      /\ t[n + 1] = f /\ \A i \in 1..n : t[i] = s[i]
  BY AppendSeq, SeqDomain
<1> HIDE DEF t, n
<1>2. n + 1 \in Nat /\ n + 1 \in 1..(n + 1) /\ n + 1 \notin 1..n
      /\ 1..(n + 1) = (1..n) \cup {n + 1} /\ \A i \in 1..n : i < n + 1 /\ i \in Nat
  BY <1>1
<1>3. Len(t) = n + 1
  BY <1>1, <1>2, LenIs
<1>4. T = S \cup (IF d.kind[f.node] = "schema" THEN {n + 1} ELSE {})
  BY <1>1, <1>2 DEF SchemasAt
<1>5. S \subseteq 1..n
  BY <1>1 DEF SchemasAt
<1>6. /\ v = {s[i].node : i \in S}
      /\ \A i, j \in S : s[i].node = s[j].node => i = j
      /\ \A i \in S : s[i].depth \in 0..MaxSchemaDepth /\ Cardinality({j \in S : j <= i}) = s[i].depth + 1
  BY DEF Guards
<1>7. \A i \in S, j \in 1..n : i < j => j \in S
  BY <1>1 DEF Solid
<1>8. IsFiniteSet(S)
  BY SchemasFinite
<1> HIDE DEF S, T
<1>9. {t[i].node : i \in T} = v \cup (IF d.kind[f.node] = "schema" THEN {f.node} ELSE {})
  <2>1. {t[i].node : i \in S} = {s[i].node : i \in S}
    BY <1>1, <1>5
  <2>2. CASE d.kind[f.node] = "schema"
    <3>1. T = S \cup {n + 1}
      BY <1>4, <2>2
    <3> QED
      BY <1>1, <1>6, <2>1, <2>2, <3>1
  <2>3. CASE d.kind[f.node] # "schema"
    BY <1>4, <1>6, <2>1, <2>3
  <2> QED
    BY <2>2, <2>3
<1>10. \A i, j \in T : t[i].node = t[j].node => i = j
  <2>1. \A i \in S : t[i].node = s[i].node /\ s[i].node \in v
    BY <1>1, <1>5, <1>6
  <2>2. \A i \in T : i \in S \/ (i = n + 1 /\ t[i].node = f.node /\ d.kind[f.node] = "schema" /\ f.node \notin v)
    BY <1>1, <1>4
  <2> QED
    BY <1>6, <2>1, <2>2
<1>11. \A i \in T : t[i].depth \in 0..MaxSchemaDepth /\ Cardinality({j \in T : j <= i}) = t[i].depth + 1
  <2> TAKE i \in T
  <2>1. CASE i \in S
    <3>1. {j \in T : j <= i} = {j \in S : j <= i}
      <4>1. \A j \in T : j <= i => j \in S
        <5>1. ~(n + 1 <= i)
          BY <1>1, <1>2, <1>5, <2>1
        <5> QED
          BY <1>4, <5>1
      <4>2. S \subseteq T
        BY <1>4
      <4> QED
        BY <4>1, <4>2
    <3>2. t[i] = s[i]
      BY <1>1, <1>5, <2>1
    <3> QED
      BY <1>6, <2>1, <3>1, <3>2
  <2>2. CASE i \notin S
    <3>1. i = n + 1 /\ d.kind[f.node] = "schema" /\ T = S \cup {n + 1}
      BY <1>4, <2>2
    <3>2. {j \in T : j <= i} = S \cup {n + 1}
      <4>1. \A j \in S : j <= n + 1
        BY <1>2, <1>5
      <4>2. n + 1 <= n + 1
        BY <1>2
      <4> QED
        BY <3>1, <4>1, <4>2
    <3>3. n + 1 \notin S
      BY <1>2, <1>5
    <3>4. Cardinality(S \cup {n + 1}) = Cardinality(S) + 1
      BY <1>8, <3>3, FS_AddElement
    <3> QED
      BY <1>1, <3>1, <3>2, <3>4 DEF S
  <2> QED
    BY <2>1, <2>2
<1>12. \A i \in T, j \in 1..(n + 1) : i < j => j \in T \/ (j = n + 1 /\ t[j].todo = <<>>)
  <2> TAKE i \in T, j \in 1..(n + 1)
  <2> HAVE i < j
  <2>1. CASE j \in 1..n
    <3>1. i \in S
      BY <1>1, <1>2, <1>4, <2>1
    <3>2. j \in S
      BY <1>7, <2>1, <3>1
    <3> QED
      BY <1>4, <3>2
  <2>2. CASE j = n + 1
    <3>1. CASE d.kind[f.node] = "schema"
      BY <1>4, <2>2, <3>1
    <3>2. CASE d.kind[f.node] # "schema"
      <4>1. S # {}
        BY <1>4, <3>2
      <4> QED
        BY <1>1, <2>2, <3>2, <4>1 DEF S
    <3> QED
      BY <3>1, <3>2
  <2> QED
    BY <1>2, <2>1, <2>2
<1> QED
  BY <1>1, <1>3, <1>9, <1>10, <1>11, <1>12 DEF Guards, T, t

\* Frames with the same nodes and depths, when none is a schema under a top that
\* is none.
LEMMA GuardsSame ==
    ASSUME NEW d, NEW s, NEW v, NEW t, DOMAIN s = DOMAIN t,
           \A i \in DOMAIN s : s[i].node = t[i].node /\ s[i].depth = t[i].depth, Guards(d, s, v), Solid(d, s)
    PROVE  SchemasAt(d, t) = SchemasAt(d, s) /\ Guards(d, t, v) /\ Solid(d, t)
<1> DEFINE S == SchemasAt(d, s)
<1>1. SchemasAt(d, t) = S /\ S \subseteq DOMAIN s
  BY DEF SchemasAt
<1>2. /\ v = {s[i].node : i \in S}
      /\ \A i, j \in S : s[i].node = s[j].node => i = j
      /\ \A i \in S : s[i].depth \in 0..MaxSchemaDepth /\ Cardinality({j \in S : j <= i}) = s[i].depth + 1
      /\ \A i \in S, j \in DOMAIN s : i < j => j \in S
  BY DEF Guards, Solid
<1> HIDE DEF S
<1>3. v = {t[i].node : i \in S}
  BY <1>1, <1>2
<1>4. Guards(d, t, v)
  BY <1>1, <1>2, <1>3 DEF Guards
<1>5. Solid(d, t)
  BY <1>1, <1>2 DEF Solid
<1> QED
  BY <1>1, <1>4, <1>5 DEF S

\* A top frame with children left is one of a schema if any is.
LEMMA TopGuards ==
    ASSUME FrameInv, phase = "walking", Top.todo # <<>>, Guards(doc, stack, visiting)
    PROVE  /\ Solid(doc, stack)
           /\ Cardinality(SchemasAt(doc, stack)) = IF Kind(Top.node) = "schema" THEN Top.depth + 1 ELSE 0
           /\ Kind(Top.node) # "schema" => SchemasAt(doc, stack) = {}
<1> DEFINE m == Len(stack)
           S == SchemasAt(doc, stack)
<1>1. m \in Nat /\ m \in DOMAIN stack /\ DOMAIN stack = 1..m /\ Top = stack[m]
  BY RefilledIs DEF Top
<1>2. /\ S \subseteq 1..m
      /\ m \in S <=> Kind(Top.node) = "schema"
      /\ \A i \in S : Cardinality({j \in S : j <= i}) = stack[i].depth + 1
      /\ \A i \in S, j \in 1..m : i < j => j \in S \/ (j = m /\ stack[j].todo = <<>>)
  BY <1>1 DEF SchemasAt, Guards, Kind
<1> HIDE DEF m, S
<1>3. \A i \in S, j \in 1..m : i < j => j \in S
  BY <1>1, <1>2
<1>4. CASE Kind(Top.node) = "schema"
  <2>1. \A j \in S : j <= m
    BY <1>1, <1>2
  <2>2. {j \in S : j <= m} = S
    BY <2>1
  <2>3. Cardinality(S) = Top.depth + 1
    BY <1>1, <1>2, <1>4, <2>2
  <2> QED
    BY <1>1, <1>3, <1>4, <2>3 DEF Solid, S
<1>5. CASE Kind(Top.node) # "schema"
  <2>1. \A i \in S : i # m /\ i \in 1..m
    BY <1>2, <1>5
  <2>2. \A i \in S : i < m
    BY <1>1, <2>1
  <2>3. S = {}
    BY <1>1, <1>2, <1>3, <1>5, <2>2
  <2>4. Cardinality(S) = 0
    BY <2>3, FS_EmptySet
  <2> QED
    BY <1>1, <1>3, <1>5, <2>3, <2>4 DEF Solid, S
<1> QED
  BY <1>4, <1>5

\* Another list for the top frame changes no guard.
LEMMA RefilledGuards ==
    ASSUME FrameInv, phase = "walking", Top.todo # <<>>, Guards(doc, stack, visiting), NEW t
    PROVE  /\ Guards(doc, Refilled(t), visiting) /\ Solid(doc, Refilled(t))
           /\ SchemasAt(doc, Refilled(t)) = SchemasAt(doc, stack) /\ IsSeq(Refilled(t))
<1> DEFINE r == Refilled(t)
<1>1. /\ IsSeq(r) /\ Len(r) = Len(stack) /\ DOMAIN stack = 1..Len(stack)
      /\ \A i \in DOMAIN stack :
             r[i] = [node |-> stack[i].node, depth |-> stack[i].depth, wc |-> stack[i].wc,
                     todo |-> IF i = Len(stack) THEN t ELSE stack[i].todo]
  BY RefilledIs
<1>2. \A i \in DOMAIN stack : stack[i].node = r[i].node /\ stack[i].depth = r[i].depth
  <2> HIDE DEF r
  <2> TAKE i \in DOMAIN stack
  <2> DEFINE todo == IF i = Len(stack) THEN t ELSE stack[i].todo
  <2>1. r[i] = [node |-> stack[i].node, depth |-> stack[i].depth, wc |-> stack[i].wc, todo |-> todo]
    BY <1>1
  <2> HIDE DEF todo
  <2> QED
    BY <2>1
<1> HIDE DEF r
<1>3. DOMAIN stack = DOMAIN r
  BY <1>1, SeqDomain
<1>4. Solid(doc, stack)
  BY TopGuards
<1> QED
  BY <1>1, <1>2, <1>3, <1>4, GuardsSame DEF r

\* Values in a schema that are none hold no more.
LEMMA ValuesHoldNothing ==
    ASSUME FrameInv, NEW n \in Nodes, Kind(n) \in {"mapRef", "externalDocs"}
    PROVE  Todo(doc, n) = <<>>
<1>1. Fields(doc.version, doc.kind[n]) = <<>>
  BY DEF Fields, Kind
<1>2. IsSeq(doc.kids[n])
  BY DocumentIs
<1>3. Range(<<>>) = {}
  BY DEF Range
<1>4. IsSeq(Todo(doc, n)) /\ Range(Todo(doc, n)) = {}
  <2>1. \A item : item \notin Range(Todo(doc, n))
    BY <1>1, <1>2, <1>3, TodoIs
  <2> QED
    BY <1>2, <2>1, TodoIs
<1> DEFINE t == Todo(doc, n)
<1> HIDE DEF t
<1>5. IsSeq(t) /\ Range(t) = {}
  BY <1>4 DEF t
<1>6. t \in Seq({})
  BY <1>5 DEF IsSeq
<1>7. t = <<>>
  BY <1>6
<1> QED
  BY <1>7 DEF t

\* The guards admit what goes one deeper and is not there yet.
LEMMA EntersGuards ==
    ASSUME FrameInv, phase = "walking", Top.todo # <<>>, Guards(doc, stack, visiting),
           Skipped(Child, ChildDepth) = "none"
    PROVE  /\ Kind(Child) = "schema" =>
                  /\ Child \notin visiting /\ ChildDepth \in 0..MaxSchemaDepth
                  /\ Cardinality(SchemasAt(doc, stack)) = ChildDepth
           /\ Kind(Child) # "schema" => SchemasAt(doc, stack) = {} \/ Todo(doc, Child) = <<>>
<1>1. ASSUME Kind(Child) = "schema"
      PROVE  Cardinality(SchemasAt(doc, stack)) = ChildDepth
  BY <1>1, TopGuards DEF ChildDepth, SchemaDepth, Child
<1>2. ASSUME Kind(Child) = "schema"
      PROVE  Child \notin visiting /\ ChildDepth \in 0..MaxSchemaDepth
  <2>1. Child \notin visiting /\ ~(ChildDepth > MaxSchemaDepth)
    BY <1>2 DEF Skipped
  <2>2. IsSeq(stack)
    BY DEF FrameInv, IsSeq
  <2>3. ChildDepth \in Nat
    BY <1>1, <1>2, <2>2, SchemasFinite
  <2> QED
    BY <2>1, <2>3, DepthAssumption
<1>3. ASSUME Kind(Child) # "schema", SchemasAt(doc, stack) # {}
      PROVE  Todo(doc, Child) = <<>>
  <2>1. Kind(Top.node) = "schema"
    BY <1>3, TopGuards
  <2>2. NextItem \in Range(Todo(doc, Top.node)) /\ Top.node \in Nodes /\ Child \in Nodes
    BY ChildIs, TopIs
  <2>3. Kind(Child) \in {"schema", "mapRef", "externalDocs"}
    BY <2>1, <2>2, DocumentIs DEF Child
  <2> QED
    BY <1>3, <2>2, <2>3, ValuesHoldNothing
<1> QED
  BY <1>1, <1>2, <1>3

\* The guards follow the frames.
LEMMA GuardsNext ==
    ASSUME Framed, Guards(doc, stack, visiting), [Next]_vars
    PROVE  Guards(doc, stack, visiting)'
<1> SUFFICES Guards(doc', stack', visiting')
  OBVIOUS
<1> FrameInv
  BY FrameInvIs
<1>1. CASE VisitDocument
  <2>1. doc' = doc /\ visiting' = visiting /\ visiting = {} /\ stack = <<>>
    BY <1>1, VisitDocumentIs
  <2> DEFINE f == Frame("doc", 0, NoContext)
  <2>2. stack' = <<>> \/ stack' = <<f>>
    BY <1>1, VisitDocumentIs
  <2>3. f.node = "doc" /\ doc.kind["doc"] # "schema"
    BY DocumentIs DEF Frame, Kind
  <2> HIDE DEF f
  <2>4. SchemasAt(doc, <<>>) = {} /\ SchemasAt(doc, <<f>>) = {}
    BY <2>3 DEF SchemasAt
  <2> QED
    BY <2>1, <2>2, <2>4 DEF Guards
<1>2. CASE Abandon
  <2>1. phase = "walking" /\ Top.todo # <<>> /\ stack' = Refilled(Later(Top.todo)) /\ UNCHANGED <<doc, visiting>>
    BY <1>2 DEF Abandon, Refilled
  <2> QED
    BY <2>1, RefilledGuards
<1>3. CASE Visit
  <2>1. /\ phase = "walking" /\ Top.todo # <<>>
        /\ \E ref : (\E event, answer : Passes(ref, event, answer)) \/ (\E answer : Enters(ref, answer))
    BY <1>3, VisitIs
  <2>2. ASSUME NEW ref, NEW event, NEW answer, Passes(ref, event, answer) PROVE Guards(doc', stack', visiting')
    <3>1. stack' = Refilled(Tail(Top.todo)) /\ UNCHANGED <<doc, visiting>>
      BY <2>2 DEF Passes
    <3> QED
      BY <2>1, <3>1, RefilledGuards
  <2>3. ASSUME NEW ref, NEW answer, Enters(ref, answer) PROVE Guards(doc', stack', visiting')
    <3> DEFINE f == Frame(Child, ChildDepth, ChildContext)
               s == Refilled(Tail(Top.todo))
    <3>1. /\ stack' = Append(s, f) /\ doc' = doc
          /\ visiting' = visiting \cup (IF doc.kind[Child] = "schema" THEN {Child} ELSE {})
          /\ Skipped(Child, ChildDepth) = "none"
      BY <2>3 DEF Enters, Kind
    <3>2. f.node = Child /\ f.depth = ChildDepth /\ f.todo = Todo(doc, Child)
      BY DEF Frame
    <3>3. /\ Guards(doc, s, visiting) /\ Solid(doc, s) /\ SchemasAt(doc, s) = SchemasAt(doc, stack) /\ IsSeq(s)
      BY <2>1, RefilledGuards
    <3> HIDE DEF f, s
    <3>4. doc.kind[f.node] = "schema" =>
              f.node \notin visiting /\ f.depth \in 0..MaxSchemaDepth /\ Cardinality(SchemasAt(doc, s)) = f.depth
      BY <2>1, <3>1, <3>2, <3>3, EntersGuards DEF Kind
    <3>5. doc.kind[f.node] # "schema" => SchemasAt(doc, s) = {} \/ f.todo = <<>>
      BY <2>1, <3>1, <3>2, <3>3, EntersGuards DEF Kind
    <3>6. Guards(doc, Append(s, f), visiting \cup (IF doc.kind[f.node] = "schema" THEN {f.node} ELSE {}))
      BY <3>3, <3>4, <3>5, GuardsAppend
    <3> QED
      BY <3>1, <3>2, <3>6
  <2> QED
    BY <2>1, <2>2, <2>3
<1>4. CASE Leave
  <2>1. phase = "walking" /\ stack' = Below /\ doc' = doc /\ visiting' = visiting \ {Top.node}
    BY <1>4 DEF Leave
  <2> DEFINE b == Below
             m == Len(stack)
             S == SchemasAt(doc, stack)
             B == SchemasAt(doc, b)
  <2>2. /\ DOMAIN b = 1..(m - 1) /\ m \in Nat /\ DOMAIN stack = 1..m /\ m > 0 /\ Len(b) = m - 1
        /\ \A i \in DOMAIN b : b[i] = stack[i]
    BY <2>1, BelowIs
  <2>3. Top = stack[m]
    BY DEF Top
  <2> HIDE DEF b, m
  <2>4. /\ \A i \in 1..(m - 1) : i \in 1..m /\ i # m /\ i \in Nat /\ ~(m <= i)
        /\ \A i \in 1..m : i = m \/ i \in 1..(m - 1)
    BY <2>2
  <2>5. B = S \ {m} /\ S \subseteq 1..m /\ B \subseteq 1..(m - 1)
    BY <2>2, <2>4 DEF SchemasAt
  <2>6. /\ visiting = {stack[i].node : i \in S}
        /\ \A i, j \in S : stack[i].node = stack[j].node => i = j
        /\ \A i \in S : /\ stack[i].depth \in 0..MaxSchemaDepth
                         /\ Cardinality({j \in S : j <= i}) = stack[i].depth + 1
        /\ \A i \in S, j \in 1..m : i < j => j \in S \/ (j = Len(stack) /\ stack[j].todo = <<>>)
    BY <2>2 DEF Guards
  <2>7. \A i \in S : stack[i].node = stack[m].node => i = m
    <3>1. \A i \in S : stack[i].node = stack[m].node => m \in S
      BY <2>2, <2>5 DEF SchemasAt
    <3> QED
      BY <2>6, <3>1
  <2> HIDE DEF S, B
  <2>8. visiting \ {Top.node} = {b[i].node : i \in B}
    <3>1. {b[i].node : i \in B} = {stack[i].node : i \in B}
      BY <2>2, <2>5
    <3> QED
      BY <2>3, <2>5, <2>6, <2>7, <3>1, SMTT(30)
  <2>9. \A i \in B : b[i].depth \in 0..MaxSchemaDepth /\ Cardinality({j \in B : j <= i}) = b[i].depth + 1
    <3> TAKE i \in B
    <3>1. {j \in B : j <= i} = {j \in S : j <= i}
      BY <2>4, <2>5
    <3>2. b[i] = stack[i] /\ i \in S
      BY <2>2, <2>5
    <3> QED
      BY <2>6, <3>1, <3>2
  <2>10. \A i, j \in B : b[i].node = b[j].node => i = j
    BY <2>2, <2>5, <2>6
  <2>11. \A i \in B, j \in 1..(m - 1) : i < j => j \in B
    <3>1. Len(stack) = m
      BY DEF m
    <3> QED
      BY <2>4, <2>5, <2>6, <3>1
  <2>12. Guards(doc, b, visiting \ {Top.node})
    BY <2>2, <2>8, <2>9, <2>10, <2>11 DEF Guards, B
  <2> QED
    BY <2>1, <2>12 DEF b
<1>5. CASE UNCHANGED vars
  BY <1>5 DEF vars
<1>6. CASE Done
  BY <1>6 DEF Done, vars
<1> QED
  BY <1>1, <1>2, <1>3, <1>4, <1>5, <1>6 DEF Next

\* The guards were right about a call.
CutAt(d, c) ==
    d.kind[c.node] = "schema" /\ c.event \in {"visit", "skipped"} =>
        LET around == ToSet(c.within)
            Deep   == Cardinality({i \in DOMAIN c.within : d.kind[c.within[i]] = "schema"})
        IN  \/ c.event = "visit" /\ c.node \notin around /\ Deep <= MaxSchemaDepth
            \/ c.event = "skipped" /\ c.answer = "cycle" /\ c.node \in around
            \/ c.event = "skipped" /\ c.answer = "depth" /\ Deep > MaxSchemaDepth
Cut == \A c \in Range(log) : CutAt(doc, c)

LEMMA CutIs == Cut <=> CyclesAreCut
<1>1. Calls = Range(log)
  BY DEF Calls, Range
<1> QED
  BY <1>1 DEF Cut, CutAt, CyclesAreCut, Kind

\* They are right about the child whose turn it is.
LEMMA ChildCut ==
    ASSUME FrameInv, phase = "walking", Top.todo # <<>>, Guards(doc, stack, visiting),
           NEW event, NEW wc, NEW answer,
           \/ event \notin {"visit", "skipped"}
           \/ event = "visit" /\ Skipped(Child, ChildDepth) = "none"
           \/ event = "skipped" /\ answer = Skipped(Child, ChildDepth) /\ answer # "none"
    PROVE  CutAt(doc, Call(event, Child, wc, answer))
<1> DEFINE c == Call(event, Child, wc, answer)
           Deep == Cardinality({i \in DOMAIN c.within : doc.kind[c.within[i]] = "schema"})
<1>1. c.event = event /\ c.node = Child /\ c.answer = answer /\ c.within = OnStack
  BY DEF Call
<1>2. DOMAIN OnStack = DOMAIN stack /\ \A i \in DOMAIN stack : OnStack[i] = stack[i].node
  BY DEF OnStack
<1>3. ToSet(c.within) = {stack[i].node : i \in DOMAIN stack}
  BY <1>1, <1>2 DEF ToSet
<1>4. Deep = Cardinality(SchemasAt(doc, stack))
  <2>1. {i \in DOMAIN c.within : doc.kind[c.within[i]] = "schema"} = SchemasAt(doc, stack)
    BY <1>1, <1>2 DEF SchemasAt
  <2> QED
    BY <2>1
<1>5. Child \in ToSet(c.within) /\ Kind(Child) = "schema" <=> Child \in visiting /\ Kind(Child) = "schema"
  <2>1. visiting = {stack[i].node : i \in SchemasAt(doc, stack)}
    BY DEF Guards
  <2> QED
    BY <1>3, <2>1 DEF SchemasAt, Kind
<1>6. ASSUME Kind(Child) = "schema"
      PROVE  Deep = ChildDepth /\ ChildDepth \in Nat
  <2>1. Deep = ChildDepth
    BY <1>4, <1>6, TopGuards DEF ChildDepth, SchemaDepth, Child
  <2>2. IsSeq(stack)
    BY DEF FrameInv, IsSeq
  <2> QED
    BY <1>4, <2>1, <2>2, SchemasFinite
<1> HIDE DEF c, Deep
<1>7. SUFFICES ASSUME Kind(Child) = "schema", event \in {"visit", "skipped"}
               PROVE  \/ event = "visit" /\ Child \notin ToSet(c.within) /\ Deep <= MaxSchemaDepth
                      \/ event = "skipped" /\ answer = "cycle" /\ Child \in ToSet(c.within)
                      \/ event = "skipped" /\ answer = "depth" /\ Deep > MaxSchemaDepth
  BY <1>1 DEF CutAt, c, Deep, Kind
<1>8. CASE event = "visit"
  <2>1. Child \notin visiting /\ ~(ChildDepth > MaxSchemaDepth)
    BY <1>7, <1>8 DEF Skipped
  <2>2. Child \notin ToSet(c.within) /\ Deep <= MaxSchemaDepth
    BY <1>5, <1>6, <1>7, <2>1, DepthAssumption
  <2> QED
    BY <1>8, <2>2
<1>9. CASE event # "visit"
  <2>1. answer = Skipped(Child, ChildDepth) /\ answer # "none"
    BY <1>7, <1>9
  <2>2. \/ answer = "depth" /\ ChildDepth > MaxSchemaDepth
        \/ answer = "cycle" /\ Child \in visiting
    BY <1>7, <2>1 DEF Skipped
  <2>3. \/ answer = "depth" /\ Deep > MaxSchemaDepth
        \/ answer = "cycle" /\ Child \in ToSet(c.within)
    BY <1>5, <1>6, <1>7, <2>2
  <2> QED
    BY <1>7, <1>9, <2>3
<1> QED
  BY <1>8, <1>9

\* They stay right about what was called.
LEMMA CutNext ==
    ASSUME Framed, Guards(doc, stack, visiting), Cut, [Next]_vars
    PROVE  Cut'
<1> FrameInv
  BY FrameInvIs
<1>s. IsSeq(log)
  BY DEF Framed
<1>l. \A calls, event, n, wc, answer :
          /\ IsSeq(calls) /\ (\A c \in Range(calls) : CutAt(doc, c))
          /\ answer # "none" => CutAt(doc, Call(event, n, wc, answer))
          => /\ IsSeq(Logged(calls, event, n, wc, answer))
             /\ \A c \in Range(Logged(calls, event, n, wc, answer)) : CutAt(doc, c)
  BY LoggedIs
<1>1. CASE VisitDocument
  <2>1. PICK typed \in Answers("typedDocument"), generic \in Answers("document") :
           log' = Logged(Logged(<<>>, "visit", "doc", NoContext, typed), "visit", "doc", NoContext,
                         IF typed = "Stop" THEN "none" ELSE generic)
    BY <1>1, VisitDocumentIs
  <2>2. doc' = doc
    BY <1>1, VisitDocumentIs
  <2>3. \A answer : CutAt(doc, Call("visit", "doc", NoContext, answer))
    <3> TAKE answer
    <3>1. Call("visit", "doc", NoContext, answer).node = "doc" /\ doc.kind["doc"] = "document"
      BY DocumentIs DEF Call, Kind
    <3> QED
      BY <3>1 DEF CutAt
  <2>4. IsSeq(<<>>) /\ Range(<<>>) = {}
    BY DEF IsSeq, Range
  <2> DEFINE first == Logged(<<>>, "visit", "doc", NoContext, typed)
  <2>5. IsSeq(first) /\ \A c \in Range(first) : CutAt(doc, c)
    BY <1>l, <2>3, <2>4
  <2> HIDE DEF first
  <2>6. \A answer : \A c \in Range(Logged(first, "visit", "doc", NoContext, answer)) : CutAt(doc, c)
    BY <1>l, <2>3, <2>5
  <2>7. \A c \in Range(log') : CutAt(doc, c)
    BY <2>1, <2>6 DEF first
  <2> QED
    BY <2>2, <2>7 DEF Cut
<1>2. CASE Abandon
  BY <1>2 DEF Abandon, Cut
<1>3. CASE Visit
  <2>1. /\ phase = "walking" /\ Top.todo # <<>>
        /\ \E ref : (\E event, answer : Passes(ref, event, answer)) \/ (\E answer : Enters(ref, answer))
    BY <1>3, VisitIs
  <2>2. \A event, wc, answer :
            \/ event \notin {"visit", "skipped"}
            \/ event = "visit" /\ Skipped(Child, ChildDepth) = "none"
            \/ event = "skipped" /\ answer = Skipped(Child, ChildDepth) /\ answer # "none"
            => CutAt(doc, Call(event, Child, wc, answer))
    BY <2>1, ChildCut
  <2> DEFINE first(ref) == Logged(log, "ref", Child, ChildContext, ref)
  <2>3. \A ref : IsSeq(first(ref)) /\ \A c \in Range(first(ref)) : CutAt(doc, c)
    <3>1. \A ref : CutAt(doc, Call("ref", Child, ChildContext, ref))
      BY <2>2
    <3> QED
      BY <1>l, <1>s, <3>1 DEF Cut
  <2> HIDE DEF first
  <2>4. ASSUME NEW ref, NEW event, NEW answer,
               log' = Logged(first(ref), event, Child, ChildContext, answer), doc' = doc,
               \/ answer = "none"
               \/ event = "visit" /\ Skipped(Child, ChildDepth) = "none"
               \/ event = "skipped" /\ answer = Skipped(Child, ChildDepth) /\ answer # "none"
        PROVE  Cut'
    <3>1. answer # "none" => CutAt(doc, Call(event, Child, ChildContext, answer))
      BY <2>2, <2>4
    <3>2. \A c \in Range(Logged(first(ref), event, Child, ChildContext, answer)) : CutAt(doc, c)
      BY <1>l, <2>3, <3>1
    <3>3. \A c \in Range(log') : CutAt(doc, c)
      BY <2>4, <3>2
    <3> QED
      BY <2>4, <3>3 DEF Cut
  <2>5. ASSUME NEW ref, NEW event, NEW answer, Passes(ref, event, answer) PROVE Cut'
    <3>1. log' = Logged(first(ref), event, Child, ChildContext, answer) /\ doc' = doc
      BY <2>5 DEF Passes, first
    <3>2. \/ answer = "none"
          \/ event = "visit" /\ Skipped(Child, ChildDepth) = "none"
          \/ event = "skipped" /\ answer = Skipped(Child, ChildDepth) /\ answer # "none"
      BY <2>5 DEF Passes
    <3> QED
      BY <2>4, <3>1, <3>2
  <2>6. ASSUME NEW ref, NEW answer, Enters(ref, answer) PROVE Cut'
    <3>1. /\ log' = Logged(first(ref), "visit", Child, ChildContext, answer) /\ doc' = doc
          /\ Skipped(Child, ChildDepth) = "none"
      BY <2>6 DEF Enters, first
    <3> QED
      BY <2>4, <3>1
  <2> QED
    BY <2>1, <2>5, <2>6
<1>4. CASE Leave
  <2> DEFINE a == PostAnswer(Top.node)
             n == Top.node
             wc == Top.wc
  <2>1. doc' = doc /\ log' = Logged(log, "post", n, wc, a)
    BY <1>4, <1>s, LoggedIs DEF Leave
  <2>2. CutAt(doc, Call("post", n, wc, a))
    <3>1. Call("post", n, wc, a).event = "post"
      BY DEF Call
    <3> QED
      BY <3>1 DEF CutAt
  <2> HIDE DEF a, n, wc
  <2>3. \A c \in Range(Logged(log, "post", n, wc, a)) : CutAt(doc, c)
    BY <1>l, <1>s, <2>2 DEF Cut
  <2>4. \A c \in Range(log') : CutAt(doc, c)
    BY <2>1, <2>3
  <2> QED
    BY <2>1, <2>4 DEF Cut
<1>5. CASE UNCHANGED vars
  BY <1>5 DEF vars, Cut
<1>6. CASE Done
  BY <1>6 DEF Done, vars, Cut
<1> QED
  BY <1>1, <1>2, <1>3, <1>4, <1>5, <1>6 DEF Next

-----------------------------------------------------------------------------
(* Children that are heard of *)

HeardIn(d, C, m) ==
    /\ \E c \in C : c.node = m /\ c.event \in {"ref", "visit", "skipped"}
    /\ m \in d.refs => <<d.kind[m], "$ref">> \in Unwalked \/ \E c \in C : c.node = m /\ c.event = "ref"
WaitsIn(s, n, m) ==
    \E j \in DOMAIN s : s[j].node = n /\ \E item \in Range(s[j].todo) : item.child = m
KidsHeard(d, C, s, n) ==
    \A i \in DOMAIN d.kids[n] :
        LET kid == d.kids[n][i]
        IN  <<d.kind[n], kid.at>> \in Unwalked \/ HeardIn(d, C, kid.node) \/ WaitsIn(s, n, kid.node)
Hears ==
    registered = Handlers /\ (\A c \in Range(log) : c.answer \notin {"Stop", "SkipChildren"}) =>
        ~stopped /\ \A c \in Range(log) : c.event = "visit" => KidsHeard(doc, Range(log), stack, c.node)

LEMMA HearsIs == Hears <=> HeardInv
<1>1. Calls = Range(log)
  BY DEF Calls, Range
<1> QED
  BY <1>1 DEF Hears, HeardInv, Listening, KidsHeard, HeardIn, HeardOf, WaitsIn, Kind

\* Children wait in a node's list, but for those that are known to be left out.
LEMMA ChildrenWait ==
    ASSUME FrameInv, GapsAreKnown, NEW n \in Nodes, NEW i \in DOMAIN doc.kids[n]
    PROVE  \/ <<doc.kind[n], doc.kids[n][i].at>> \in Unwalked
           \/ \E item \in Range(Todo(doc, n)) : item.child = doc.kids[n][i].node
<1>1. GapsIn(doc)
  BY DEF FrameInv, GapsAreKnown
<1> DEFINE kid == doc.kids[n][i]
           fields == Fields(doc.version, doc.kind[n])
<1>2. <<doc.kind[n], kid.at>> \in Unwalked \/ \E f \in Range(fields) : f.at = kid.at
  BY <1>1 DEF GapsIn, Nodes
<1>3. \A f : Item(kid, f).child = kid.node
  BY DEF Item
<1>4. ASSUME NEW f \in Range(fields), f.at = kid.at
      PROVE  Item(kid, f) \in Range(Todo(doc, n))
  <2>1. IsSeq(doc.kids[n])
    BY DocumentIs
  <2> QED
    BY <1>4, <2>1, TodoIs
<1> QED
  BY <1>2, <1>3, <1>4

\* The next child leaves the list of the top frame, and nothing else does.
LEMMA RefilledWaits ==
    ASSUME FrameInv, phase = "walking", Top.todo # <<>>, NEW n, NEW m, WaitsIn(stack, n, m)
    PROVE  m = Child \/ WaitsIn(Refilled(Tail(Top.todo)), n, m)
<1> DEFINE t == Tail(Top.todo)
           r == Refilled(t)
           top == Len(stack)
<1>1. /\ IsSeq(r) /\ Len(r) = top /\ top \in DOMAIN stack /\ DOMAIN stack = 1..top
      /\ \A i \in DOMAIN stack :
             r[i] = [node |-> stack[i].node, depth |-> stack[i].depth, wc |-> stack[i].wc,
                     todo |-> IF i = top THEN t ELSE stack[i].todo]
  BY RefilledIs
<1>2. Top = stack[top] /\ Range(Top.todo) = Range(t) \cup {NextItem}
  BY ChildIs DEF Top
<1> HIDE DEF r, t, top
<1>3. DOMAIN r = DOMAIN stack
  BY <1>1, SeqDomain
<1>4. PICK j \in DOMAIN stack : stack[j].node = n /\ \E item \in Range(stack[j].todo) : item.child = m
  BY DEF WaitsIn
<1>5. PICK item \in Range(stack[j].todo) : item.child = m
  BY <1>4
<1> DEFINE todo == IF j = top THEN t ELSE stack[j].todo
<1>6. r[j].node = n /\ r[j].todo = todo
  <2>1. r[j] = [node |-> stack[j].node, depth |-> stack[j].depth, wc |-> stack[j].wc, todo |-> todo]
    BY <1>1
  <2> HIDE DEF todo
  <2> QED
    BY <1>4, <2>1
<1>7. m = Child \/ item \in Range(todo)
  BY <1>2, <1>5 DEF Child
<1> HIDE DEF todo
<1>8. m = Child \/ WaitsIn(r, n, m)
  BY <1>3, <1>5, <1>6, <1>7 DEF WaitsIn
<1> QED
  BY <1>8 DEF r, t

\* What waits still does under a new frame, and so do the new frame's children.
LEMMA PushedWaits ==
    ASSUME NEW s, IsSeq(s), NEW f, NEW n, NEW m,
           \/ WaitsIn(s, n, m)
           \/ f.node = n /\ \E item \in Range(f.todo) : item.child = m
    PROVE  WaitsIn(Append(s, f), n, m)
<1> DEFINE t == Append(s, f)
           k == Len(s)
<1>1. /\ k \in Nat /\ DOMAIN s = 1..k /\ DOMAIN t = 1..(k + 1)
      /\ t[k + 1] = f /\ \A i \in 1..k : t[i] = s[i]
  BY AppendSeq, SeqDomain
<1> HIDE DEF t, k
<1>2. k + 1 \in 1..(k + 1) /\ \A i \in 1..k : i \in 1..(k + 1)
  BY <1>1
<1>3. WaitsIn(t, n, m)
  BY <1>1, <1>2 DEF WaitsIn
<1> QED
  BY <1>3 DEF t

\* Whatever was heard of still is after more calls.
LEMMA HeardMore ==
    ASSUME NEW d, NEW C, NEW D, C \subseteq D, NEW m, HeardIn(d, C, m)
    PROVE  HeardIn(d, D, m)
BY DEF HeardIn

\* Who listens to everything hears of the child whose turn it is.
LEMMA ChildHeard ==
    ASSUME FrameInv, GapsAreKnown, phase = "walking", Top.todo # <<>>, registered = Handlers,
           NEW ref \in RefAnswers(Child), NEW event, NEW answer, NEW C,
           ref # "none" => Call("ref", Child, ChildContext, ref) \in C,
           answer # "none" => Call(event, Child, ChildContext, answer) \in C,
           \/ event = "skipped" /\ answer # "none"
           \/ event = "visit" /\ answer \in Answers(HandlerOf(Kind(Child)))
    PROVE  HeardIn(doc, C, Child)
<1>1. GapsIn(doc)
  BY DEF FrameInv, GapsAreKnown
<1>2. /\ Child \in doc.refs => <<doc.kind[Child], "$ref">> \in Unwalked \/ doc.kind[Child] \in ReportsRef
      /\ HandlerOf(doc.kind[Child]) \notin Handlers => Child \in doc.refs /\ doc.kind[Child] \in ReportsRef
  BY <1>1, ChildIs DEF GapsIn, Nodes
<1>3. ASSUME Child \in doc.refs, doc.kind[Child] \in ReportsRef
      PROVE  ref # "none"
  <2>1. "mapRefs" \in registered /\ "ref" \in registered
    BY DEF Handlers
  <2> QED
    BY <1>3, <2>1 DEF RefAnswers, Answers, Kind
<1>4. /\ Call("ref", Child, ChildContext, ref).node = Child
      /\ Call("ref", Child, ChildContext, ref).event = "ref"
      /\ Call(event, Child, ChildContext, answer).node = Child
      /\ Call(event, Child, ChildContext, answer).event = event
  BY DEF Call
<1>5. Child \in doc.refs =>
          <<doc.kind[Child], "$ref">> \in Unwalked \/ \E c \in C : c.node = Child /\ c.event = "ref"
  BY <1>2, <1>3, <1>4
<1>6. \E c \in C : c.node = Child /\ c.event \in {"ref", "visit", "skipped"}
  <2>1. CASE answer # "none"
    BY <1>4, <2>1
  <2>2. CASE answer = "none"
    <3>1. HandlerOf(doc.kind[Child]) \notin Handlers
      BY <2>2 DEF Answers, Kind
    <3> QED
      BY <1>2, <1>3, <1>4, <3>1
  <2> QED
    BY <2>1, <2>2
<1> QED
  BY <1>5, <1>6 DEF HeardIn

\* Nobody is lost.
LEMMA HearsNext ==
    ASSUME Framed, GapsAreKnown, Hears, [Next]_vars
    PROVE  Hears'
<1> FrameInv
  BY FrameInvIs
<1>s. IsSeq(log) /\ stopped \in BOOLEAN
  BY DEF Framed
<1>5. CASE UNCHANGED vars
  BY <1>5 DEF vars, Hears
<1>6. CASE Done
  BY <1>6 DEF Done, vars, Hears
<1>2. CASE Abandon
  BY <1>2 DEF Abandon, Hears
<1> DEFINE C == Range(log)
           D == Range(log')
<1>7. SUFFICES ASSUME ~(UNCHANGED vars), ~Done, ~Abandon, doc' = doc, registered' = registered,
                      registered = Handlers, \A c \in D : c.answer \notin {"Stop", "SkipChildren"}
               PROVE  ~stopped' /\ \A c \in D : c.event = "visit" => KidsHeard(doc, D, stack', c.node)
  <2>1. ~(UNCHANGED vars) /\ ~Done /\ ~Abandon => doc' = doc /\ registered' = registered
    BY DEF Next, VisitDocument, Visit, Leave
  <2> QED
    BY <1>2, <1>5, <1>6, <2>1 DEF Hears
<1>8. ASSUME C \subseteq D
      PROVE  ~stopped /\ \A c \in C : c.event = "visit" => KidsHeard(doc, C, stack, c.node)
  BY <1>7, <1>8 DEF Hears
<1>a. \A handler \in Handlers : \A answer \in Answers(handler) : answer \in {"Continue", "SkipChildren", "Stop"}
  BY <1>7 DEF Answers
<1>l. \A calls, event, n, wc, answer :
          IsSeq(calls) => /\ IsSeq(Logged(calls, event, n, wc, answer))
                          /\ Range(Logged(calls, event, n, wc, answer))
                               = Range(calls) \cup (IF answer = "none" THEN {} ELSE {Call(event, n, wc, answer)})
  BY LoggedIs
<1>f. \A event, n, wc, answer : /\ Call(event, n, wc, answer).event = event /\ Call(event, n, wc, answer).node = n
                                /\ Call(event, n, wc, answer).answer = answer
  BY DEF Call
<1>1. CASE VisitDocument
  <2>1. PICK typed \in Answers("typedDocument"), generic \in Answers("document") :
           /\ log' = Logged(Logged(<<>>, "visit", "doc", NoContext, typed), "visit", "doc", NoContext,
                            IF typed = "Stop" THEN "none" ELSE generic)
           /\ stopped' = ("Stop" \in {typed, generic})
           /\ IF {typed, generic} \subseteq {"none", "Continue"}
              THEN phase' = "walking" /\ stack' = <<Frame("doc", 0, NoContext)>>
              ELSE phase' = "done" /\ stack' = <<>>
    BY <1>1, VisitDocumentIs
  <2>2. IsSeq(<<>>) /\ Range(<<>>) = {}
    BY DEF IsSeq, Range
  <2>3. typed \in {"Continue", "SkipChildren", "Stop"} /\ generic \in {"Continue", "SkipChildren", "Stop"}
    BY <1>a DEF Handlers
  <2> DEFINE first == Logged(<<>>, "visit", "doc", NoContext, typed)
             a == IF typed = "Stop" THEN "none" ELSE generic
  <2>4. IsSeq(first) /\ Range(first) = {Call("visit", "doc", NoContext, typed)}
    BY <1>l, <2>2, <2>3
  <2> HIDE DEF first
  <2>5. D = {Call("visit", "doc", NoContext, typed)} \cup (IF a = "none" THEN {} ELSE {Call("visit", "doc", NoContext, a)})
    BY <1>l, <2>1, <2>4 DEF first
  <2>6. typed = "Continue"
    <3>1. Call("visit", "doc", NoContext, typed) \in D
      BY <2>5
    <3> QED
      BY <1>7, <1>f, <2>3, <3>1
  <2>7. generic = "Continue"
    <3>1. Call("visit", "doc", NoContext, generic) \in D
      BY <2>3, <2>5, <2>6
    <3> QED
      BY <1>7, <1>f, <2>3, <3>1
  <2> DEFINE f == Frame("doc", 0, NoContext)
  <2>8. ~stopped' /\ stack' = <<f>>
    BY <2>1, <2>6, <2>7
  <2>9. f.node = "doc" /\ f.todo = Todo(doc, "doc")
    BY DEF Frame
  <2> HIDE DEF f
  <2>10. KidsHeard(doc, D, <<f>>, "doc")
    <3>1. "doc" \in Nodes
      BY DocumentIs
    <3>2. \A m : (\E item \in Range(f.todo) : item.child = m) => WaitsIn(<<f>>, "doc", m)
      BY <2>9 DEF WaitsIn
    <3>3. \A i \in DOMAIN doc.kids["doc"] :
              \/ <<doc.kind["doc"], doc.kids["doc"][i].at>> \in Unwalked
              \/ \E item \in Range(f.todo) : item.child = doc.kids["doc"][i].node
      BY <2>9, <3>1, ChildrenWait
    <3> QED
      BY <3>2, <3>3 DEF KidsHeard
  <2>11. \A c \in D : c.node = "doc"
    BY <1>f, <2>5
  <2> QED
    BY <2>8, <2>10, <2>11
<1>3. CASE Visit
  <2>1. /\ phase = "walking" /\ Top.todo # <<>>
        /\ \E ref \in RefAnswers(Child) :
               (\E event, answer : Passes(ref, event, answer)) \/ (\E answer : Enters(ref, answer))
    BY <1>3, VisitIs
  <2> DEFINE m == Child
             wc == ChildContext
             r == Refilled(Tail(Top.todo))
  <2>2. ASSUME NEW ref, NEW event, NEW answer,
               log' = Logged(Logged(log, "ref", m, wc, ref), event, m, wc, answer)
        PROVE  /\ D = C \cup (IF ref = "none" THEN {} ELSE {Call("ref", m, wc, ref)})
                         \cup (IF answer = "none" THEN {} ELSE {Call(event, m, wc, answer)})
               /\ ref \notin {"Stop", "SkipChildren"} /\ answer \notin {"Stop", "SkipChildren"}
    <3> DEFINE first == Logged(log, "ref", m, wc, ref)
    <3> HIDE DEF m, wc
    <3>1. IsSeq(first) /\ Range(first) = C \cup (IF ref = "none" THEN {} ELSE {Call("ref", m, wc, ref)})
      BY <1>l, <1>s
    <3> HIDE DEF first
    <3>2. Range(Logged(first, event, m, wc, answer))
          = Range(first) \cup (IF answer = "none" THEN {} ELSE {Call(event, m, wc, answer)})
      BY <1>l, <3>1
    <3>3. D = C \cup (IF ref = "none" THEN {} ELSE {Call("ref", m, wc, ref)})
               \cup (IF answer = "none" THEN {} ELSE {Call(event, m, wc, answer)})
      BY <2>2, <3>1, <3>2 DEF first
    <3>4. ref # "none" => Call("ref", m, wc, ref) \in D
      BY <3>3
    <3>5. answer # "none" => Call(event, m, wc, answer) \in D
      BY <3>3
    <3>6. ref \notin {"Stop", "SkipChildren"}
      BY <1>7, <1>f, <3>4
    <3>7. answer \notin {"Stop", "SkipChildren"}
      BY <1>7, <1>f, <3>5
    <3> QED
      BY <3>3, <3>6, <3>7
  <2>3. ASSUME NEW ref \in RefAnswers(m), NEW event, NEW answer,
               log' = Logged(Logged(log, "ref", m, wc, ref), event, m, wc, answer),
               \/ event = "skipped" /\ answer # "none"
               \/ event = "visit" /\ answer \in Answers(HandlerOf(Kind(m)))
        PROVE  /\ HeardIn(doc, D, m) /\ C \subseteq D
               /\ \A c \in C : c.event = "visit" => KidsHeard(doc, D, r, c.node)
    <3> HIDE DEF D, r
    <3>1. D = C \cup (IF ref = "none" THEN {} ELSE {Call("ref", m, wc, ref)})
               \cup (IF answer = "none" THEN {} ELSE {Call(event, m, wc, answer)})
      BY <2>2, <2>3 DEF D
    <3>2. C \subseteq D
      BY <3>1
    <3>3. HeardIn(doc, D, m)
      <4>1. ref # "none" => Call("ref", m, wc, ref) \in D
        BY <3>1
      <4>2. answer # "none" => Call(event, m, wc, answer) \in D
        BY <3>1
      <4> QED
        BY <1>7, <2>1, <2>3, <4>1, <4>2, ChildHeard
    <3>4. ASSUME NEW c \in C, c.event = "visit" PROVE KidsHeard(doc, D, r, c.node)
      <4>1. KidsHeard(doc, C, stack, c.node)
        BY <1>8, <3>2, <3>4 DEF D
      <4>2. \A k : HeardIn(doc, C, k) => HeardIn(doc, D, k)
        BY <3>2, HeardMore
      <4>3. \A k : WaitsIn(stack, c.node, k) => k = m \/ WaitsIn(r, c.node, k)
        BY <2>1, RefilledWaits DEF r
      <4> QED
        BY <3>3, <4>1, <4>2, <4>3 DEF KidsHeard
    <3> QED
      BY <3>2, <3>3, <3>4
  <2>4. ASSUME NEW ref \in RefAnswers(m), NEW event, NEW answer, Passes(ref, event, answer)
        PROVE  ~stopped' /\ \A c \in D : c.event = "visit" => KidsHeard(doc, D, stack', c.node)
    <3>1. log' = Logged(Logged(log, "ref", m, wc, ref), event, m, wc, answer) /\ stack' = r
      BY <2>4 DEF Passes
    <3>2. /\ D = C \cup (IF ref = "none" THEN {} ELSE {Call("ref", m, wc, ref)})
                    \cup (IF answer = "none" THEN {} ELSE {Call(event, m, wc, answer)})
          /\ ref \notin {"Stop", "SkipChildren"} /\ answer \notin {"Stop", "SkipChildren"}
      BY <2>2, <3>1
    <3>3. \/ event = "skipped" /\ stopped' = stopped /\ answer # "none"
          \/ /\ event = "visit" /\ stopped' = (stopped \/ answer = "Stop")
             /\ answer \in Answers(HandlerOf(Kind(m))) /\ ~GoesOn(m, answer)
      <4>1. "skipped" \in registered
        BY <1>7 DEF Handlers
      <4> QED
        BY <2>4, <3>2, <4>1 DEF Passes
    <3>4. /\ HeardIn(doc, D, m) /\ C \subseteq D
          /\ \A c \in C : c.event = "visit" => KidsHeard(doc, D, r, c.node)
      BY <2>3, <3>1, <3>3
    <3>5. ~stopped
      BY <1>8, <3>4
    <3>6. ~stopped'
      BY <1>s, <3>2, <3>3, <3>5
    <3>7. event = "visit" => FALSE
      <4> SUFFICES ASSUME event = "visit" PROVE FALSE
        OBVIOUS
      <4>1. answer \in {"none", "Continue"}
        BY <3>2, <3>3 DEF Answers
      <4> QED
        BY <3>3, <3>5, <4>1 DEF GoesOn
    <3>8. \A c \in D : c.event = "visit" => c \in C
      BY <1>f, <3>2, <3>7
    <3> QED
      BY <3>1, <3>4, <3>6, <3>8
  <2>5. ASSUME NEW ref \in RefAnswers(m), NEW answer, Enters(ref, answer)
        PROVE  ~stopped' /\ \A c \in D : c.event = "visit" => KidsHeard(doc, D, stack', c.node)
    <3> DEFINE f == Frame(Child, ChildDepth, ChildContext)
    <3>1. /\ log' = Logged(Logged(log, "ref", m, wc, ref), "visit", m, wc, answer) /\ stack' = Append(r, f)
          /\ answer \in Answers(HandlerOf(Kind(m))) /\ stopped' = stopped
      BY <2>5 DEF Enters
    <3>2. D = C \cup (IF ref = "none" THEN {} ELSE {Call("ref", m, wc, ref)})
               \cup (IF answer = "none" THEN {} ELSE {Call("visit", m, wc, answer)})
      BY <2>2, <3>1
    <3>3. /\ HeardIn(doc, D, m) /\ C \subseteq D
          /\ \A c \in C : c.event = "visit" => KidsHeard(doc, D, r, c.node)
      BY <2>3, <3>1
    <3>4. f.node = m /\ f.todo = Todo(doc, m) /\ m \in Nodes
      BY <2>1, ChildIs DEF Frame
    <3>5. IsSeq(r)
      BY <2>1, RefilledIs
    <3> HIDE DEF f, r
    <3>6. \A n, k : WaitsIn(r, n, k) => WaitsIn(Append(r, f), n, k)
      BY <3>5, PushedWaits
    <3>7. \A k : (\E item \in Range(f.todo) : item.child = k) => WaitsIn(Append(r, f), m, k)
      BY <3>4, <3>5, PushedWaits
    <3>8. \A c \in C : c.event = "visit" => KidsHeard(doc, D, stack', c.node)
      <4> HIDE DEF D, C
      <4> QED
        BY <3>1, <3>3, <3>6 DEF KidsHeard
    <3>9. KidsHeard(doc, D, stack', m)
      <4> HIDE DEF D
      <4>1. \A i \in DOMAIN doc.kids[m] :
                \/ <<doc.kind[m], doc.kids[m][i].at>> \in Unwalked
                \/ \E item \in Range(f.todo) : item.child = doc.kids[m][i].node
        BY <3>4, ChildrenWait
      <4> QED
        BY <3>1, <3>7, <4>1 DEF KidsHeard
    <3>10. \A c \in D : c.event = "visit" => c \in C \/ c.node = m
      BY <1>f, <3>2
    <3> QED
      BY <1>8, <3>1, <3>3, <3>8, <3>9, <3>10
  <2> QED
    BY <2>1, <2>4, <2>5
<1>4. CASE Leave
  <2> DEFINE a == PostAnswer(Top.node)
             n == Top.node
             wc == Top.wc
             b == Below
             top == Len(stack)
  <2>1. /\ phase = "walking" /\ Top.todo = <<>> /\ stack' = b /\ stopped' = stopped
        /\ log' = Logged(log, "post", n, wc, a)
    BY <1>4, <1>s, LoggedIs DEF Leave
  <2>2. D = C \cup (IF a = "none" THEN {} ELSE {Call("post", n, wc, a)})
    <3> HIDE DEF a, n, wc
    <3> QED
      BY <1>l, <1>s, <2>1
  <2>3. C \subseteq D /\ \A c \in D : c.event = "visit" => c \in C
    BY <1>f, <2>2
  <2>4. /\ DOMAIN b = 1..(top - 1) /\ top \in Nat /\ DOMAIN stack = 1..top
        /\ \A i \in DOMAIN b : b[i] = stack[i]
        /\ Top = stack[top]
    BY <2>1, BelowIs DEF Top
  <2> HIDE DEF D, C, b, top
  <2>5. \A i \in 1..top : i = top \/ i \in 1..(top - 1)
    BY <2>4
  <2>6. \A k, l : WaitsIn(stack, k, l) => WaitsIn(b, k, l)
    <3> TAKE k, l
    <3> HAVE WaitsIn(stack, k, l)
    <3>1. PICK j \in DOMAIN stack : stack[j].node = k /\ \E item \in Range(stack[j].todo) : item.child = l
      BY DEF WaitsIn
    <3>2. Range(<<>>) = {}
      BY DEF Range
    <3>3. j # top
      BY <2>1, <2>4, <3>1, <3>2
    <3>4. j \in DOMAIN b /\ b[j] = stack[j]
      BY <2>4, <2>5, <3>3
    <3> QED
      BY <3>1, <3>4 DEF WaitsIn
  <2>7. \A k : HeardIn(doc, C, k) => HeardIn(doc, D, k)
    BY <2>3, HeardMore
  <2>8. \A c \in C : c.event = "visit" => KidsHeard(doc, D, b, c.node)
    BY <1>8, <2>3, <2>6, <2>7 DEF KidsHeard, C, D
  <2> QED
    BY <1>8, <2>1, <2>3, <2>8 DEF C, D
<1> QED
  BY <1>1, <1>3, <1>4, <1>7 DEF Next

\* Guards cut circles and nothing else, and a caller that listens to everything
\* hears of every child and every reference, but for the gaps that are known.
THEOREM EachNodeAlwaysWalked == ASSUME GapsAreKnown PROVE Spec => []EachNodeWalked
<1> DEFINE Inv == Framed /\ Guards(doc, stack, visiting) /\ Cut /\ Hears
<1>1. Init => Inv
  <2> SUFFICES ASSUME Init PROVE Inv
    OBVIOUS
  <2>1. stack = <<>> /\ log = <<>> /\ visiting = {} /\ stopped = FALSE
    BY DEF Init
  <2>2. Framed
    BY InitFramed
  <2>3. Range(log) = {}
    BY <2>1 DEF Range
  <2>4. SchemasAt(doc, stack) = {}
    BY <2>1 DEF SchemasAt
  <2>5. Guards(doc, stack, visiting)
    BY <2>1, <2>4 DEF Guards
  <2> QED
    BY <2>1, <2>2, <2>3, <2>5 DEF Cut, Hears
<1>2. Inv /\ [Next]_vars => Inv'
  BY FramedNext, GuardsNext, CutNext, HearsNext
<1>3. Inv => EachNodeWalked
  <2> SUFFICES ASSUME Inv PROVE EachNodeWalked
    OBVIOUS
  <2>1. CyclesAreCut
    BY CutIs
  <2>2. NothingMissed
    <3>1. Calls = Range(log)
      BY DEF Calls, Range
    <3>2. phase = "done" => \A n, m : ~WaitsIn(stack, n, m)
      BY DEF WaitsIn, Framed
    <3> QED
      BY <3>1, <3>2 DEF NothingMissed, Hears, KidsHeard, HeardIn, Kind
  <2> QED
    BY <2>1, <2>2 DEF EachNodeWalked
<1> QED
  BY <1>1, <1>2, <1>3, PTL DEF Spec

-----------------------------------------------------------------------------
(* After a Stop *)

LEMMA HoldersAre ==
    /\ Outer = {"document", "path", "webhook", "pathItem", "operation", "callback"}
    /\ Holders["path"] = {"document"} /\ Holders["webhook"] = {"document"}
    /\ Holders["pathItem"] = {"document", "path", "callback"}
    /\ Holders["operation"] = {"pathItem", "webhook"}
    /\ Holders["callback"] = {"document", "operation"} /\ Holders["document"] = {}
BY DEF Holders, Outer

\* A stopped walk looks at none of the fields that a function looks at in turn.
LEMMA InTurnShut ==
    ASSUME NEW ats, NEW f \in Range(InTurn(ats))
    PROVE  Shut(f)
BY DEF InTurn, Range, Guarded, Shut

\* So what groups others, but for operations, is left.
LEMMA OuterShut ==
    ASSUME NEW version, NEW kind \in Outer, kind # "operation", NEW f \in Range(Fields(version, kind))
    PROVE  Shut(f)
<1>1. \A s, t : IsSeq(s) /\ IsSeq(t) => IsSeq(s \o t) /\ Range(s \o t) = Range(s) \cup Range(t)
  BY ConcatSeq
<1>2. \A ats : \A g \in Range(InTurn(ats)) : Shut(g)
  BY InTurnShut
<1>3. \A ats : IsSeq(ats) => IsSeq(InTurn(ats))
  BY InTurnSeq
<1> DEFINE D == DocumentFields3 \o ComponentFields \o LaterComponents \o TagFields
<1>4. Range(D) = Range(DocumentFields3) \cup Range(ComponentFields) \cup Range(LaterComponents) \cup Range(TagFields)
  <2>1. IsSeq(DocumentFields3) /\ IsSeq(ComponentFields)
    BY <1>3, TupleSeq DEF DocumentFields3, ComponentFields
  <2>2. IsSeq(LaterComponents) /\ IsSeq(TagFields)
    BY <1>3, TupleSeq DEF LaterComponents, TagFields
  <2> QED
    BY <1>1, <2>1, <2>2
<1>5. \A g \in Range(D) : Shut(g)
  BY <1>2, <1>4 DEF DocumentFields3, ComponentFields, LaterComponents, TagFields
<1>6. \A g \in Range(MethodFields) : Shut(g)
  BY <1>2 DEF MethodFields
<1>7. \A g \in Range(PathItemFields3) : Shut(g)
  <2>1. IsSeq(InTurn(<<"parameters">>)) /\ IsSeq(MethodFields)
    BY <1>3, TupleSeq DEF MethodFields
  <2>2. Range(PathItemFields3) = Range(InTurn(<<"parameters">>)) \cup Range(MethodFields)
    BY <1>1, <2>1 DEF PathItemFields3
  <2> QED
    BY <1>2, <1>6, <2>2
<1>8. \A g \in Range(DocumentFields2) \cup Range(PathFields) \cup Range(PathItemFields2) \cup Range(CallbackFields) : Shut(g)
  BY <1>2 DEF DocumentFields2, PathFields, PathItemFields2, CallbackFields
<1> HIDE DEF D
<1>9. Fields(version, kind) \in {DocumentFields2, D, PathFields, MethodFields, PathItemFields2, PathItemFields3, CallbackFields}
  <2>1. kind \in {"document", "path", "webhook", "pathItem", "callback"}
    BY HoldersAre
  <2>2. CASE kind = "document"
    BY <2>2 DEF Fields, D
  <2>3. CASE kind = "path"
    BY <2>3 DEF Fields
  <2>4. CASE kind = "webhook"
    BY <2>4 DEF Fields, WebhookFields
  <2>5. CASE kind = "pathItem"
    BY <2>5 DEF Fields
  <2>6. CASE kind = "callback"
    BY <2>6 DEF Fields
  <2> QED
    BY <2>1, <2>2, <2>3, <2>4, <2>5, <2>6
<1> QED
  BY <1>5, <1>6, <1>7, <1>8, <1>9

\* An operation is left once its callbacks are looked at.
LEMMA CallbacksLast ==
    ASSUME NEW version, NEW x, NEW y, Before(Fields(version, "operation"), x, y), x.at = "callbacks"
    PROVE  Shut(y)
<1> DEFINE A == InTurn(<<"externalDocs", "parameters">>)
           B == <<Unguarded("requestBody", "node")>>
           C == ResponsesFields
           D == InTurn(<<"callbacks", "callbackRefs">>)
<1>1. \A s, t : IsSeq(s) /\ IsSeq(t) => IsSeq(s \o t) /\ Range(s \o t) = Range(s) \cup Range(t)
  BY ConcatSeq
<1>2. IsSeq(A) /\ IsSeq(B) /\ IsSeq(C) /\ IsSeq(D)
  BY TupleSeq, InTurnSeq DEF ResponsesFields
<1>3. \A f \in Range(A) : f.at # "callbacks"
  BY DEF InTurn, Guarded, Range
<1>4. \A f \in Range(B) : f.at # "callbacks"
  BY DEF Unguarded, Range
<1>5. \A f \in Range(C) : f.at # "callbacks"
  BY DEF ResponsesFields, Unguarded, Guarded, Range
<1>6. \A f \in Range(D) : Shut(f)
  BY InTurnShut
<1>7. \A s, a, b : Before(s, a, b) => a \in Range(s) /\ b \in Range(s)
  BY DEF Before, Range
<1>8. Fields(version, "operation") \in {A \o C, A \o B \o C \o D}
  BY DEF Fields, OperationFields2, OperationFields3
<1> HIDE DEF A, B, C, D
<1>9. /\ IsSeq(A \o C) /\ Range(A \o C) = Range(A) \cup Range(C)
      /\ IsSeq(A \o B \o C) /\ Range(A \o B \o C) = Range(A) \cup Range(B) \cup Range(C)
  BY <1>1, <1>2
<1>10. CASE Fields(version, "operation") = A \o C
  BY <1>3, <1>5, <1>7, <1>9, <1>10
<1>11. CASE Fields(version, "operation") = A \o B \o C \o D
  <2> DEFINE E == A \o B \o C
  <2>1. Before(E \o D, x, y) /\ IsSeq(E)
    BY <1>9, <1>11
  <2>2. \A f \in Range(E) : f.at # "callbacks"
    BY <1>3, <1>4, <1>5, <1>9
  <2> HIDE DEF E
  <2>3. Before(E, x, y) \/ (x \in Range(E) /\ y \in Range(D)) \/ Before(D, x, y)
    BY <1>2, <2>1, BeforeConcat
  <2> QED
    BY <1>6, <1>7, <2>2, <2>3
<1> QED
  BY <1>8, <1>10, <1>11

\* A frame of what groups others has nothing left that a stopped walk looks at, unless
\* it is an operation's.
LEMMA FrameShut ==
    ASSUME FrameInv, NEW n \in Nodes, Kind(n) \in Outer, Kind(n) # "operation", NEW t,
           Range(t) \subseteq Range(Todo(doc, n))
    PROVE  Shuts(t)
<1>1. IsSeq(doc.kids[n])
  BY DocumentIs
<1>2. \A item \in Range(Todo(doc, n)) : item.field \in Range(Fields(doc.version, Kind(n)))
  BY <1>1, TodoIs DEF Item, Kind
<1> QED
  BY <1>2, OuterShut DEF Shuts

\* The frames that group others.
Orderly(t) == \A x, y : Before(t, x, y) /\ x.field.at = "callbacks" => Shut(y.field)
OuterAt(d, s) ==
    \A i \in DOMAIN s :
        /\ s[i].node = "doc" <=> i = 1
        /\ d.kind[s[i].node] = "operation" => Orderly(s[i].todo)
        /\ d.kind[s[i].node] \in Outer =>
               \A j \in DOMAIN s : j < i => d.kind[s[j].node] \in Outer /\ Shuts(s[j].todo)

LEMMA OuterIs == OuterAt(doc, stack) <=> OuterInv
<1>1. \A t : Orderly(t) <=> \A a, b \in DOMAIN t : a <= b /\ t[a].field.at = "callbacks" => Shut(t[b].field)
  BY DEF Orderly, Before
<1> QED
  BY <1>1 DEF OuterAt, OuterInv, Kind

\* What is left of a list keeps its order.
LEMMA OuterRefilled ==
    ASSUME FrameInv, phase = "walking", OuterAt(doc, stack), NEW t,
           Range(t) \subseteq Range(Top.todo), \A x, y : Before(t, x, y) => Before(Top.todo, x, y)
    PROVE  OuterAt(doc, Refilled(t))
<1> DEFINE s == Refilled(t)
           top == Len(stack)
<1>1. DOMAIN s = DOMAIN stack /\ Top = stack[top] /\ top \in DOMAIN stack
  BY RefilledIs, SeqDomain, TopIs
<1>2. \A i \in DOMAIN stack : s[i].node = stack[i].node /\ s[i].todo = IF i = top THEN t ELSE stack[i].todo
  <2> DEFINE rest(i) == IF i = top THEN t ELSE stack[i].todo
  <2>1. \A i \in DOMAIN stack : s[i] = [node |-> stack[i].node, depth |-> stack[i].depth, wc |-> stack[i].wc,
                                       todo |-> rest(i)]
    BY RefilledIs
  <2> HIDE DEF rest, s
  <2>3. ASSUME NEW i \in DOMAIN stack PROVE s[i].node = stack[i].node /\ s[i].todo = rest(i)
    <3>1. s[i] = [node |-> stack[i].node, depth |-> stack[i].depth, wc |-> stack[i].wc, todo |-> rest(i)]
      BY <2>1
    <3> QED
      BY ONLY <3>1
  <2> QED
    BY <2>3 DEF rest
<1> HIDE DEF s, top
<1>3. Shuts(Top.todo) => Shuts(t)
  BY DEF Shuts
<1>4. Orderly(Top.todo) => Orderly(t)
  BY DEF Orderly
<1>5. \A i \in DOMAIN stack : /\ Shuts(stack[i].todo) => Shuts(s[i].todo)
                              /\ Orderly(stack[i].todo) => Orderly(s[i].todo)
  BY <1>1, <1>2, <1>3, <1>4
<1>6. OuterAt(doc, s)
  BY <1>1, <1>2, <1>5 DEF OuterAt
<1> QED
  BY <1>6 DEF s

\* A frame is put on top.
LEMMA OuterPushed ==
    ASSUME NEW d, NEW s, IsSeq(s), s # <<>>, OuterAt(d, s), NEW f, f.node # "doc",
           d.kind[f.node] = "operation" => Orderly(f.todo),
           d.kind[f.node] \in Outer =>
               \A j \in DOMAIN s : d.kind[s[j].node] \in Outer /\ Shuts(s[j].todo)
    PROVE  OuterAt(d, Append(s, f))
<1> DEFINE t == Append(s, f)
           n == Len(s)
<1>1. DOMAIN t = 1..(n + 1) /\ (\A i \in 1..n : t[i] = s[i]) /\ t[n + 1] = f
  BY AppendSeq
<1>2. n \in Nat /\ n # 0 /\ DOMAIN s = 1..n
  BY SeqDomain, EmptySeq DEF IsSeq
<1> HIDE DEF t, n
<1> SUFFICES ASSUME NEW i \in DOMAIN t
             PROVE  /\ t[i].node = "doc" <=> i = 1
                    /\ d.kind[t[i].node] = "operation" => Orderly(t[i].todo)
                    /\ d.kind[t[i].node] \in Outer =>
                           \A j \in DOMAIN t : j < i => d.kind[t[j].node] \in Outer /\ Shuts(t[j].todo)
  BY DEF OuterAt, t
<1>3. CASE i = n + 1
  <2>1. t[i] = f /\ i # 1 /\ \A j \in DOMAIN t : j < i => j \in DOMAIN s /\ t[j] = s[j]
    BY <1>1, <1>2, <1>3
  <2> QED
    BY <2>1
<1>4. CASE i # n + 1
  <2>1. i \in DOMAIN s /\ t[i] = s[i] /\ \A j \in DOMAIN t : j < i => j \in DOMAIN s /\ t[j] = s[j]
    BY <1>1, <1>2, <1>4
  <2> QED
    BY <2>1 DEF OuterAt
<1> QED
  BY <1>3, <1>4

\* The first of a list comes before the rest, which keeps its order.
LEMMA BeforeTail ==
    ASSUME NEW s, IsSeq(s), s # <<>>
    PROVE  /\ \A x, y : Before(Tail(s), x, y) => Before(s, x, y)
           /\ \A y \in Range(Tail(s)) : Before(s, Head(s), y)
<1> DEFINE n == Len(s)
           t == Tail(s)
<1>1. n \in Nat /\ n # 0 /\ DOMAIN s = 1..n
  BY SeqDomain, EmptySeq DEF IsSeq
<1>2. DOMAIN t = 1..(n - 1) /\ \A i \in 1..(n - 1) : t[i] = s[i + 1]
  <2>1. s \in Seq(Range(s))
    BY DEF IsSeq
  <2>2. Tail(s) \in Seq(Range(s)) /\ Len(Tail(s)) = n - 1 /\ \A i \in 1..(n - 1) : Tail(s)[i] = s[i + 1]
    BY <2>1, HeadTailProperties
  <2> QED
    BY <2>2, SeqIsSeq, SeqDomain
<1>3. Head(s) = s[1]
  OBVIOUS
<1> HIDE DEF n, t
<1>4. ASSUME NEW x, NEW y, Before(t, x, y) PROVE Before(s, x, y)
  <2>1. PICK i, j \in DOMAIN t : i <= j /\ t[i] = x /\ t[j] = y
    BY <1>4 DEF Before
  <2>2. i + 1 \in DOMAIN s /\ j + 1 \in DOMAIN s /\ i + 1 <= j + 1 /\ s[i + 1] = x /\ s[j + 1] = y
    BY <1>1, <1>2, <2>1
  <2> QED
    BY <2>2 DEF Before
<1>5. ASSUME NEW y \in Range(t) PROVE Before(s, Head(s), y)
  <2>1. PICK j \in DOMAIN t : t[j] = y
    BY DEF Range
  <2>2. 1 \in DOMAIN s /\ j + 1 \in DOMAIN s /\ 1 <= j + 1 /\ s[j + 1] = y
    BY <1>1, <1>2, <2>1
  <2> QED
    BY <1>3, <2>2 DEF Before
<1> QED
  BY <1>4, <1>5 DEF t

\* What a child that groups others is in has nothing left then that a stopped walk looks at.
LEMMA ChildPlaced ==
    ASSUME FrameInv, phase = "walking", Top.todo # <<>>, OuterAt(doc, stack)
    PROVE  /\ Child # "doc"
           /\ Kind(Child) \in Outer => Kind(Top.node) \in Outer /\ Shuts(Tail(Top.todo))
<1> DEFINE n == Top.node
           todo == Top.todo
<1>1. n \in Nodes /\ IsSeq(todo) /\ NextItem \in Range(Todo(doc, n)) /\ IsSeq(doc.kids[n])
  BY TopIs, ChildIs, DocumentIs
<1>2. PICK k \in DOMAIN doc.kids[n], f \in Range(Fields(doc.version, doc.kind[n])) :
          doc.kids[n][k].at = f.at /\ NextItem = Item(doc.kids[n][k], f)
  BY <1>1, TodoIs
<1>3. Child = doc.kids[n][k].node /\ NextItem.field.at = doc.kids[n][k].at
  BY <1>2 DEF Child, Item
<1>4. /\ Kind(Child) \in Outer => Kind(n) \in Holders[Kind(Child)]
      /\ Kind(Child) = "callback" /\ Kind(n) = "operation" => NextItem.field.at = "callbacks"
  <2>1. IsPlaced(doc)
    BY DocumentsAssumption DEF FrameInv
  <2> QED
    BY <1>1, <1>3, <2>1 DEF IsPlaced, Outer, Kind, Nodes
<1>5. Child # "doc"
  <2>1. Kind("doc") = "document"
    BY DocumentIs
  <2> QED
    BY <1>4, <2>1, HoldersAre
<1>6. ASSUME Kind(Child) \in Outer PROVE Kind(n) \in Outer /\ Shuts(Tail(todo))
  <2>1. Kind(n) \in Outer /\ (Kind(n) = "operation" => Kind(Child) = "callback")
    BY <1>4, <1>6, HoldersAre
  <2>2. CASE Kind(n) = "operation"
    <3>1. Orderly(todo)
      BY <2>2, TopIs DEF OuterAt, Kind
    <3>2. \A y \in Range(Tail(todo)) : Before(todo, NextItem, y)
      BY <1>1, BeforeTail DEF NextItem
    <3>3. NextItem.field.at = "callbacks"
      BY <1>4, <2>1, <2>2
    <3> QED
      BY <2>1, <3>1, <3>2, <3>3 DEF Orderly, Shuts
  <2>3. CASE Kind(n) # "operation"
    <3>1. Range(Tail(todo)) \subseteq Range(Todo(doc, n))
      BY TopIs, ChildIs
    <3> QED
      BY <1>1, <2>1, <2>3, <3>1, FrameShut
  <2> QED
    BY <2>2, <2>3
<1> QED
  BY <1>5, <1>6

\* With the first of the top's list gone, all frames around what groups others have
\* nothing left that a stopped walk looks at.
LEMMA AroundIsShut ==
    ASSUME FrameInv, phase = "walking", Top.todo # <<>>, OuterAt(doc, stack), Kind(Child) \in Outer
    PROVE  LET r == Refilled(Tail(Top.todo))
           IN  \A j \in DOMAIN r : Kind(r[j].node) \in Outer /\ Shuts(r[j].todo)
<1> DEFINE t == Tail(Top.todo)
           r == Refilled(t)
           top == Len(stack)
<1>1. Kind(Top.node) \in Outer /\ Shuts(t)
  BY ChildPlaced
<1>2. /\ DOMAIN r = 1..top /\ top \in Nat /\ DOMAIN stack = 1..top /\ Top = stack[top] /\ top \in DOMAIN stack
  BY RefilledIs, SeqDomain, TopIs
<1>3. \A i \in DOMAIN stack : r[i] = [node |-> stack[i].node, depth |-> stack[i].depth, wc |-> stack[i].wc,
                                     todo |-> IF i = top THEN t ELSE stack[i].todo]
  BY RefilledIs
<1> HIDE DEF r, t, top
<1>4. ASSUME NEW j \in DOMAIN r PROVE Kind(r[j].node) \in Outer /\ Shuts(r[j].todo)
  <2> DEFINE rest == IF j = top THEN t ELSE stack[j].todo
  <2>1. r[j] = [node |-> stack[j].node, depth |-> stack[j].depth, wc |-> stack[j].wc, todo |-> rest]
    BY <1>2, <1>3
  <2> HIDE DEF rest
  <2>2. r[j].node = stack[j].node /\ r[j].todo = rest
    BY ONLY <2>1
  <2>3. CASE j = top
    BY <1>1, <1>2, <2>2, <2>3 DEF rest
  <2>4. CASE j # top
    <3>1. j < top /\ j \in DOMAIN stack
      BY <1>2, <2>4
    <3>2. Kind(stack[j].node) \in Outer /\ Shuts(stack[j].todo)
      BY <1>1, <1>2, <3>1 DEF OuterAt, Kind
    <3> QED
      BY <2>2, <2>4, <3>2 DEF rest
  <2> QED
    BY <2>3, <2>4
<1> QED
  BY <1>4 DEF r, t

\* What groups others stays around what it groups.
LEMMA OuterNext ==
    ASSUME Framed, OuterAt(doc, stack), [Next]_vars
    PROVE  OuterAt(doc, stack)'
<1> FrameInv
  BY FrameInvIs
<1>1. \A s : OuterAt(doc, s) /\ stack' = s /\ doc' = doc => OuterAt(doc, stack)'
  OBVIOUS
<1>2. CASE VisitDocument
  <2> DEFINE f == Frame("doc", 0, NoContext)
  <2>1. (stack' = <<f>> \/ stack' = <<>>) /\ doc' = doc
    BY <1>2, VisitDocumentIs
  <2>2. f.node = "doc" /\ Kind("doc") = "document"
    BY DocumentIs DEF Frame
  <2> HIDE DEF f
  <2>3. OuterAt(doc, <<>>) /\ OuterAt(doc, <<f>>)
    BY <2>2 DEF OuterAt, Kind
  <2> QED
    BY <1>1, <2>1, <2>3
<1>3. CASE Visit
  <2> DEFINE t == Tail(Top.todo)
             r == Refilled(t)
             f == Frame(Child, ChildDepth, ChildContext)
  <2>1. /\ phase = "walking" /\ Top.todo # <<>> /\ doc' = doc
        /\ stack' = r \/ stack' = Append(r, f)
    BY <1>3, VisitIs DEF Passes, Enters
  <2>2. IsSeq(Top.todo) /\ Range(t) \subseteq Range(Top.todo) /\ \A x, y : Before(t, x, y) => Before(Top.todo, x, y)
    BY <2>1, TopIs, ChildIs, BeforeTail
  <2>3. OuterAt(doc, r)
    <3> HIDE DEF t
    <3> QED
      BY <2>1, <2>2, OuterRefilled
  <2>4. f.node = Child /\ f.todo = Todo(doc, Child) /\ Child \in Nodes /\ Child # "doc"
    BY <2>1, ChildIs, ChildPlaced DEF Frame
  <2>5. Kind(Child) = "operation" => Orderly(f.todo)
    <3> SUFFICES ASSUME Kind(Child) = "operation", NEW x, NEW y, Before(f.todo, x, y), x.field.at = "callbacks"
                 PROVE  Shut(y.field)
      BY DEF Orderly
    <3>1. IsSeq(doc.kids[Child])
      BY <2>4, DocumentIs
    <3>2. Before(Fields(doc.version, "operation"), x.field, y.field)
      BY <2>4, <3>1, TodoOrder DEF Kind
    <3> QED
      BY <3>2, CallbacksLast
  <2>6. IsSeq(r) /\ r # <<>>
    <3>1. IsSeq(r) /\ Len(r) = Len(stack) /\ Len(stack) \in DOMAIN stack /\ DOMAIN stack = 1..Len(stack) /\ Len(stack) \in Nat
      BY <2>1, RefilledIs
    <3>2. Len(<<>>) = 0 /\ Len(stack) # 0
      BY <3>1
    <3> QED
      BY <3>1, <3>2
  <2>7. Kind(Child) \in Outer => \A j \in DOMAIN r : Kind(r[j].node) \in Outer /\ Shuts(r[j].todo)
    BY <2>1, AroundIsShut
  <2> HIDE DEF r, f, t
  <2>8. OuterAt(doc, Append(r, f))
    BY <2>3, <2>4, <2>5, <2>6, <2>7, OuterPushed DEF Kind
  <2> QED
    BY <1>1, <2>1, <2>3, <2>8
<1>4. CASE Abandon
  <2> DEFINE t == Later(Top.todo)
  <2>1. phase = "walking" /\ Top.todo # <<>> /\ stack' = Refilled(t) /\ doc' = doc
    BY <1>4 DEF Abandon, Refilled
  <2>2. IsSeq(Top.todo)
    BY <2>1, TopIs
  <2>3. Range(t) \subseteq Range(Top.todo) /\ \A x, y : Before(t, x, y) => Before(Top.todo, x, y)
    <3> DEFINE todo == Top.todo
               T == {i \in DOMAIN todo : todo[i].field.scope # Head(todo).field.scope}
    <3>1. t \in {<<>>, Chosen(todo, T)}
      BY DEF Later
    <3> HIDE DEF T, todo, t
    <3>2. Range(<<>>) = {} /\ \A x, y : ~Before(<<>>, x, y)
      BY DEF Range, Before
    <3>3. IsSeq(todo)
      BY <2>2 DEF todo
    <3>4. Range(Chosen(todo, T)) \subseteq Range(todo)
      <4>1. Range(Chosen(todo, T)) = {todo[i] : i \in T \cap DOMAIN todo}
        BY <3>3, ChosenSeq
      <4> QED
        BY <4>1 DEF Range
    <3>5. \A x, y : Before(Chosen(todo, T), x, y) => Before(todo, x, y)
      BY <3>3, BeforeChosen
    <3> QED
      BY <3>1, <3>2, <3>4, <3>5 DEF todo
  <2>4. OuterAt(doc, Refilled(t))
    <3> HIDE DEF t
    <3> QED
      BY <2>1, <2>3, OuterRefilled
  <2> QED
    BY <1>1, <2>1, <2>4
<1>5. CASE Leave
  <2> DEFINE b == Below
             top == Len(stack)
  <2>1. phase = "walking" /\ stack' = b /\ doc' = doc
    BY <1>5 DEF Leave
  <2>2. DOMAIN b = 1..(top - 1) /\ top \in Nat /\ DOMAIN stack = 1..top /\ \A i \in DOMAIN b : b[i] = stack[i]
    BY <2>1, BelowIs
  <2> HIDE DEF b, top
  <2>3. \A i \in DOMAIN b : i \in DOMAIN stack
    BY <2>2
  <2>4. OuterAt(doc, b)
    BY <2>2, <2>3 DEF OuterAt
  <2> QED
    BY <1>1, <2>1, <2>4
<1>6. CASE Done \/ UNCHANGED vars
  BY <1>1, <1>6 DEF Done, vars
<1> QED
  BY <1>2, <1>3, <1>4, <1>5, <1>6 DEF Next

\* What was left when a handler answered Stop.
Ends(d, s, c) ==
    \/ \A i \in DOMAIN s : Shuts(s[i].todo)
    \/ /\ d.kind[c.node] \notin Outer /\ 2 \in DOMAIN c.within
       /\ \A i \in DOMAIN c.within :
              i <= 2 \/ d.kind[c.within[i]] \in Outer => i \in DOMAIN s /\ s[i].node = c.within[i]
Follows(d, b, c) ==
    LET around == ToSet(c.within)
        at     == ToSet(b.within) \cup {b.node}
    IN  /\ {n \in at : d.kind[n] \in {"path", "webhook", "pathItem", "operation", "callback"}} \subseteq around
        /\ (at \ {"doc"}) \cap around # {}
Kept(d, calls) ==
    \A i, j \in DOMAIN calls : calls[i].answer = "Stop" /\ i < j => Follows(d, calls[i], calls[j])
Stops ==
    /\ \A c \in Range(log) : c.answer = "Stop" => stopped /\ Ends(doc, stack, c)
    /\ Kept(doc, log)

\* One more call follows those before it.
LEMMA KeptLogged ==
    ASSUME NEW d, NEW calls, IsSeq(calls), Kept(d, calls), NEW event, NEW n, NEW wc, NEW answer,
           answer # "none" => \A b \in Range(calls) : b.answer = "Stop" => Follows(d, b, Call(event, n, wc, answer))
    PROVE  Kept(d, Logged(calls, event, n, wc, answer))
<1>1. CASE answer = "none"
  BY <1>1 DEF Logged
<1>2. CASE answer # "none"
  <2> DEFINE c == Call(event, n, wc, answer)
             t == Append(calls, c)
             m == Len(calls)
  <2>1. /\ DOMAIN t = 1..(m + 1) /\ (\A i \in 1..m : t[i] = calls[i]) /\ t[m + 1] = c
        /\ m \in Nat /\ DOMAIN calls = 1..m
    BY AppendSeq, SeqDomain
  <2>2. \A b \in Range(calls) : b.answer = "Stop" => Follows(d, b, c)
    BY <1>2
  <2>3. Logged(calls, event, n, wc, answer) = t
    BY <1>2 DEF Logged
  <2> HIDE DEF t, m, c
  <2>4. ASSUME NEW i \in DOMAIN t, NEW j \in DOMAIN t, t[i].answer = "Stop", i < j
        PROVE  Follows(d, t[i], t[j])
    <3>1. i \in 1..m
      BY <2>1, <2>4
    <3>2. t[i] = calls[i] /\ calls[i] \in Range(calls)
      BY <2>1, <3>1 DEF Range
    <3>3. CASE j = m + 1
      BY <2>1, <2>2, <2>4, <3>2, <3>3
    <3>4. CASE j # m + 1
      <4>1. j \in 1..m
        BY <2>1, <3>4
      <4> QED
        BY <2>1, <2>4, <3>1, <4>1 DEF Kept
    <3> QED
      BY <3>3, <3>4
  <2> QED
    BY <2>3, <2>4 DEF Kept
<1> QED
  BY <1>1, <1>2

\* Whatever is still looked at is in what grouped others around the node of the Stop.
LEMMA LaterFollows ==
    ASSUME FrameInv, phase = "walking", Top.todo # <<>>, OuterAt(doc, stack),
           ~(NextItem.field.guarded /\ stopped), stopped, NEW b, Ends(doc, stack, b),
           NEW event, NEW n, NEW wc, NEW answer
    PROVE  Follows(doc, b, Call(event, n, wc, answer))
<1> DEFINE c == Call(event, n, wc, answer)
<1>1. c.within = OnStack
  BY DEF Call
<1>2. ToSet(c.within) = {stack[i].node : i \in DOMAIN stack}
  BY <1>1 DEF OnStack, ToSet
<1> HIDE DEF c
<1>3. \E i \in DOMAIN stack : ~Shuts(stack[i].todo)
  <2>1. NextItem \in Range(Top.todo) /\ ~Shut(NextItem.field)
    BY ChildIs DEF Shut
  <2> QED
    BY <2>1, TopIs DEF Shuts
<1>4. /\ Kind(b.node) \notin Outer /\ 2 \in DOMAIN b.within
      /\ \A i \in DOMAIN b.within :
             i <= 2 \/ Kind(b.within[i]) \in Outer => i \in DOMAIN stack /\ stack[i].node = b.within[i]
  BY <1>3 DEF Ends, Kind
<1> DEFINE around == ToSet(c.within)
           at == ToSet(b.within) \cup {b.node}
<1>5. {x \in at : doc.kind[x] \in {"path", "webhook", "pathItem", "operation", "callback"}} \subseteq around
  <2> SUFFICES ASSUME NEW x \in at, doc.kind[x] \in {"path", "webhook", "pathItem", "operation", "callback"}
               PROVE  x \in around
    OBVIOUS
  <2>1. Kind(x) \in Outer
    BY HoldersAre DEF Kind
  <2>2. PICK i \in DOMAIN b.within : b.within[i] = x
    BY <1>4, <2>1 DEF ToSet
  <2> QED
    BY <1>2, <1>4, <2>1, <2>2
<1>6. (at \ {"doc"}) \cap around # {}
  <2>1. 2 \in DOMAIN stack /\ stack[2].node = b.within[2]
    BY <1>4
  <2>2. stack[2].node # "doc"
    BY <2>1 DEF OuterAt
  <2>3. b.within[2] \in at
    BY <1>4 DEF ToSet
  <2> QED
    BY <1>2, <2>1, <2>2, <2>3
<1> QED
  BY <1>5, <1>6 DEF Follows, c

\* A list that gets shorter changes nothing of what was left.
LEMMA EndsRefilled ==
    ASSUME FrameInv, phase = "walking", NEW t, Range(t) \subseteq Range(Top.todo), NEW b, Ends(doc, stack, b)
    PROVE  Ends(doc, Refilled(t), b)
<1> DEFINE s == Refilled(t)
           top == Len(stack)
<1>1. DOMAIN s = DOMAIN stack /\ Top = stack[top] /\ top \in DOMAIN stack
  BY RefilledIs, SeqDomain, TopIs
<1>2. ASSUME NEW i \in DOMAIN stack
      PROVE  s[i].node = stack[i].node /\ (Shuts(stack[i].todo) => Shuts(s[i].todo))
  <2> DEFINE rest == IF i = top THEN t ELSE stack[i].todo
  <2>1. s[i] = [node |-> stack[i].node, depth |-> stack[i].depth, wc |-> stack[i].wc, todo |-> rest]
    BY RefilledIs
  <2> HIDE DEF rest, s
  <2>2. s[i].node = stack[i].node /\ s[i].todo = rest
    BY ONLY <2>1
  <2>3. Shuts(stack[i].todo) => Shuts(rest)
    BY <1>1 DEF rest, Shuts
  <2> QED
    BY <2>2, <2>3
<1> HIDE DEF s
<1>3. Ends(doc, s, b)
  BY <1>1, <1>2 DEF Ends
<1> QED
  BY <1>3 DEF s

\* After a Stop at a child that groups others, or at one of the document's, nothing
\* more is looked at.
LEMMA StopEnds ==
    ASSUME FrameInv, phase = "walking", Top.todo # <<>>, OuterAt(doc, stack), NEW event, NEW wc, NEW answer
    PROVE  Ends(doc, Refilled(Tail(Top.todo)), Call(event, Child, wc, answer))
<1> DEFINE t == Tail(Top.todo)
           r == Refilled(t)
           c == Call(event, Child, wc, answer)
           top == Len(stack)
<1>1. c.within = OnStack /\ c.node = Child
  BY DEF Call
<1>2. /\ DOMAIN r = 1..top /\ top \in Nat /\ DOMAIN stack = 1..top /\ Top = stack[top] /\ top \in DOMAIN stack
  BY RefilledIs, SeqDomain, TopIs
<1>3. ASSUME NEW i \in DOMAIN stack
      PROVE  r[i].node = stack[i].node /\ (i = top => r[i].todo = t)
  <2> DEFINE rest == IF i = top THEN t ELSE stack[i].todo
  <2>1. r[i] = [node |-> stack[i].node, depth |-> stack[i].depth, wc |-> stack[i].wc, todo |-> rest]
    BY RefilledIs
  <2> HIDE DEF rest, r
  <2>2. r[i].node = stack[i].node /\ r[i].todo = rest
    BY ONLY <2>1
  <2> QED
    BY <2>2 DEF rest
<1>4. CASE Kind(Child) \in Outer
  BY <1>4, AroundIsShut DEF Ends
<1>5. CASE Kind(Child) \notin Outer /\ top # 1
  <2>1. DOMAIN c.within = DOMAIN stack /\ \A i \in DOMAIN stack : c.within[i] = stack[i].node
    BY <1>1 DEF OnStack
  <2> HIDE DEF c, r, t, top
  <2>2. 2 \in DOMAIN stack
    BY <1>2, <1>5
  <2> QED
    BY <1>1, <1>2, <1>3, <1>5, <2>1, <2>2 DEF Ends, Kind, c, r, t
<1>6. CASE top = 1
  <2>1. Top.node = "doc" /\ Kind("doc") = "document" /\ "doc" \in Nodes
    BY <1>2, <1>6, DocumentIs DEF OuterAt
  <2>2. Range(t) \subseteq Range(Todo(doc, "doc"))
    BY <2>1, TopIs, ChildIs
  <2>3. Shuts(t)
    <3> HIDE DEF t
    <3> QED
      BY <2>1, <2>2, HoldersAre, FrameShut
  <2> HIDE DEF c, r, t, top
  <2>4. \A i \in DOMAIN r : Shuts(r[i].todo)
    BY <1>2, <1>3, <1>6, <2>3
  <2> QED
    BY <2>4 DEF Ends, c, r, t
<1> QED
  BY <1>4, <1>5, <1>6

\* Nothing is left when what grouped others around the Stop is.
LEMMA EndsBelow ==
    ASSUME FrameInv, phase = "walking", OuterAt(doc, stack), NEW b, Ends(doc, stack, b)
    PROVE  Ends(doc, Below, b)
<1> DEFINE s == Below
           top == Len(stack)
<1>1. DOMAIN s = 1..(top - 1) /\ top \in Nat /\ top > 0 /\ DOMAIN stack = 1..top /\ \A i \in DOMAIN s : s[i] = stack[i]
  BY BelowIs
<1> HIDE DEF s, top
<1>2. CASE \A i \in DOMAIN stack : Shuts(stack[i].todo)
  BY <1>1, <1>2 DEF Ends, s
<1>3. CASE /\ doc.kind[b.node] \notin Outer /\ 2 \in DOMAIN b.within
           /\ \A i \in DOMAIN b.within :
                  i <= 2 \/ doc.kind[b.within[i]] \in Outer => i \in DOMAIN stack /\ stack[i].node = b.within[i]
  <2>1. CASE \A i \in DOMAIN b.within : i <= 2 \/ doc.kind[b.within[i]] \in Outer => i \in DOMAIN s
    BY <1>1, <1>3, <2>1 DEF Ends, s
  <2>2. ASSUME NEW i \in DOMAIN b.within, i <= 2 \/ doc.kind[b.within[i]] \in Outer, i \notin DOMAIN s
        PROVE  \A j \in DOMAIN s : Shuts(s[j].todo)
    <3>1. i \in DOMAIN stack /\ stack[i].node = b.within[i]
      BY <1>3, <2>2
    <3>2. i = top
      BY <1>1, <2>2, <3>1
    <3>3. CASE doc.kind[b.within[i]] \in Outer
      <4>1. \A j \in DOMAIN s : j \in DOMAIN stack /\ j < i
        BY <1>1, <3>2
      <4> QED
        BY <1>1, <3>1, <3>3, <4>1 DEF OuterAt
    <3>4. CASE i <= 2
      <4> SUFFICES ASSUME NEW j \in DOMAIN s PROVE Shuts(s[j].todo)
        OBVIOUS
      <4>1. j = 1 /\ j \in DOMAIN stack /\ s[j] = stack[j]
        BY <1>1, <3>2, <3>4
      <4>2. stack[j].node = "doc" /\ Kind("doc") = "document" /\ "doc" \in Nodes
        BY <4>1, DocumentIs DEF OuterAt
      <4>3. Range(stack[j].todo) \subseteq Range(Todo(doc, "doc"))
        BY <4>1, <4>2, FrameInvIs DEF Framed, IsFrame
      <4> QED
        BY <4>1, <4>2, <4>3, HoldersAre, FrameShut
    <3> QED
      BY <2>2, <3>3, <3>4
  <2> QED
    BY <2>1, <2>2 DEF Ends, s
<1> QED
  BY <1>2, <1>3 DEF Ends

\* What is heard after a Stop stays around it.
LEMMA StopsNext ==
    ASSUME Framed, OuterAt(doc, stack), Stops, [Next]_vars
    PROVE  Stops'
<1> FrameInv
  BY FrameInvIs
<1>s. IsSeq(log) /\ stopped \in BOOLEAN
  BY DEF Framed
<1>l. \A calls, event, n, wc, answer :
          IsSeq(calls) => /\ IsSeq(Logged(calls, event, n, wc, answer))
                          /\ Range(Logged(calls, event, n, wc, answer))
                               = Range(calls) \cup (IF answer = "none" THEN {} ELSE {Call(event, n, wc, answer)})
  BY LoggedIs
<1>k. \A calls, event, n, wc, answer :
          /\ IsSeq(calls) /\ Kept(doc, calls)
          /\ answer # "none" => \A b \in Range(calls) : b.answer = "Stop" => Follows(doc, b, Call(event, n, wc, answer))
          => Kept(doc, Logged(calls, event, n, wc, answer))
  BY KeptLogged
<1>f. \A event, n, wc, answer : Call(event, n, wc, answer).answer = answer
  BY DEF Call
<1>q. \A halted, s, calls :
          /\ stopped' = halted /\ stack' = s /\ log' = calls /\ doc' = doc /\ Kept(doc, calls)
          /\ \A c \in Range(calls) : c.answer = "Stop" => halted /\ Ends(doc, s, c)
          => Stops'
  BY DEF Stops
<1>1. CASE VisitDocument
  <2>1. PICK typed \in Answers("typedDocument"), generic \in Answers("document") :
           /\ log' = Logged(Logged(<<>>, "visit", "doc", NoContext, typed), "visit", "doc", NoContext,
                            IF typed = "Stop" THEN "none" ELSE generic)
           /\ stopped' = ("Stop" \in {typed, generic})
           /\ IF {typed, generic} \subseteq {"none", "Continue"}
              THEN phase' = "walking" /\ stack' = <<Frame("doc", 0, NoContext)>>
              ELSE phase' = "done" /\ stack' = <<>>
    BY <1>1, VisitDocumentIs
  <2>2. doc' = doc
    BY <1>1, VisitDocumentIs
  <2> DEFINE first == Logged(<<>>, "visit", "doc", NoContext, typed)
             a == IF typed = "Stop" THEN "none" ELSE generic
             all == Logged(first, "visit", "doc", NoContext, a)
  <2>3. IsSeq(<<>>) /\ Range(<<>>) = {} /\ Kept(doc, <<>>)
    BY DEF IsSeq, Range, Kept
  <2>4. /\ IsSeq(first)
        /\ Range(first) = IF typed = "none" THEN {} ELSE {Call("visit", "doc", NoContext, typed)}
        /\ Kept(doc, first)
    <3>1. IsSeq(first) /\ Range(first) = {} \cup (IF typed = "none" THEN {} ELSE {Call("visit", "doc", NoContext, typed)})
      BY <1>l, <2>3
    <3>2. Kept(doc, first)
      BY <1>k, <2>3
    <3> QED
      BY <3>1, <3>2
  <2> HIDE DEF first
  <2>5. a # "none" => \A b \in Range(first) : b.answer # "Stop"
    BY <1>f, <2>4
  <2> HIDE DEF a
  <2>6. /\ Kept(doc, all)
        /\ Range(all) = Range(first) \cup (IF a = "none" THEN {} ELSE {Call("visit", "doc", NoContext, a)})
    BY <1>k, <1>l, <2>4, <2>5
  <2> HIDE DEF all
  <2>7. \A c \in Range(all) : c.answer = "Stop" => "Stop" \in {typed, generic}
    BY <1>f, <2>4, <2>6 DEF a
  <2>8. "Stop" \in {typed, generic} => stack' = <<>>
    BY <2>1
  <2>9. \A c : Ends(doc, <<>>, c)
    BY DEF Ends
  <2>10. log' = all /\ stopped' = ("Stop" \in {typed, generic})
    BY <2>1 DEF all, first, a
  <2>11. \A c \in Range(all) : c.answer = "Stop" => ("Stop" \in {typed, generic}) /\ Ends(doc, stack', c)
    BY <2>7, <2>8, <2>9
  <2> QED
    BY <1>q, <2>2, <2>6, <2>10, <2>11
<1>2. CASE Visit
  <2>1. /\ phase = "walking" /\ Top.todo # <<>> /\ ~(NextItem.field.guarded /\ stopped)
        /\ \E ref \in RefAnswers(Child) :
               (\E event, answer : Passes(ref, event, answer)) \/ (\E answer : Enters(ref, answer))
    BY <1>2, VisitIs
  <2> DEFINE m == Child
             wc == ChildContext
             t == Tail(Top.todo)
             r == Refilled(t)
  <2>2. \A b \in Range(log) : b.answer = "Stop" => \A event, answer : Follows(doc, b, Call(event, m, wc, answer))
    BY <2>1, LaterFollows DEF Stops
  <2>3. \A event, answer : Ends(doc, r, Call(event, m, wc, answer))
    BY <2>1, StopEnds
  <2>4. \A b : Ends(doc, stack, b) => Ends(doc, r, b)
    <3>1. Range(t) \subseteq Range(Top.todo)
      BY <2>1, ChildIs
    <3> HIDE DEF t
    <3> QED
      BY <2>1, <3>1, EndsRefilled
  <2> HIDE DEF m, wc
  <2>5. ASSUME NEW ref, NEW event, NEW answer, ref = "Stop" => answer = "none"
        PROVE  LET calls == Logged(Logged(log, "ref", m, wc, ref), event, m, wc, answer)
               IN  /\ Kept(doc, calls)
                   /\ \A c \in Range(calls) :
                          c.answer = "Stop" => \/ c \in Range(log)
                                               \/ "Stop" \in {ref, answer} /\ Ends(doc, r, c)
    <3> DEFINE first == Logged(log, "ref", m, wc, ref)
               calls == Logged(first, event, m, wc, answer)
    <3>1. IsSeq(first) /\ Range(first) = Range(log) \cup (IF ref = "none" THEN {} ELSE {Call("ref", m, wc, ref)})
      BY <1>l, <1>s
    <3>2. Kept(doc, first)
      BY <1>k, <1>s, <2>2 DEF Stops
    <3> HIDE DEF first
    <3>3. answer # "none" => \A b \in Range(first) : b.answer = "Stop" => Follows(doc, b, Call(event, m, wc, answer))
      BY <1>f, <2>2, <2>5, <3>1
    <3>4. Kept(doc, calls) /\ Range(calls) = Range(first) \cup (IF answer = "none" THEN {} ELSE {Call(event, m, wc, answer)})
      BY <1>k, <1>l, <3>1, <3>2, <3>3
    <3>5. \A c \in Range(calls) :
              c \in Range(log) \/ c \in {Call("ref", m, wc, ref), Call(event, m, wc, answer)}
      BY <3>1, <3>4
    <3>6. \A c \in {Call("ref", m, wc, ref), Call(event, m, wc, answer)} :
              (c.answer = "Stop" => "Stop" \in {ref, answer}) /\ Ends(doc, r, c)
      BY <1>f, <2>3
    <3> HIDE DEF calls
    <3>7. \A c \in Range(calls) :
              c.answer = "Stop" => c \in Range(log) \/ ("Stop" \in {ref, answer} /\ Ends(doc, r, c))
      BY <3>5, <3>6
    <3> QED
      BY <3>4, <3>7 DEF calls, first
  <2>6. ASSUME NEW ref \in RefAnswers(m), NEW event, NEW answer, Passes(ref, event, answer) PROVE Stops'
    <3> DEFINE calls == Logged(Logged(log, "ref", m, wc, ref), event, m, wc, answer)
    <3>1. log' = calls /\ stack' = r /\ doc' = doc /\ (ref = "Stop" => answer = "none")
      BY <2>6 DEF Passes, m, wc
    <3>2. "Stop" \in {ref, answer} => stopped'
      <4>1. \A n, depth : Skipped(n, depth) # "Stop"
        BY DEF Skipped
      <4> QED
        BY <1>s, <2>6, <4>1 DEF Passes
    <3>3. stopped => stopped'
      BY <1>s, <2>6 DEF Passes
    <3>4. Kept(doc, calls) /\ \A c \in Range(calls) :
              c.answer = "Stop" => c \in Range(log) \/ ("Stop" \in {ref, answer} /\ Ends(doc, r, c))
      BY <2>5, <3>1
    <3> HIDE DEF calls, r
    <3>5. \A c \in Range(calls) : c.answer = "Stop" => stopped' /\ Ends(doc, r, c)
      BY <2>4, <3>2, <3>3, <3>4 DEF Stops
    <3> QED
      BY <1>q, <3>1, <3>4, <3>5
  <2>7. ASSUME NEW ref \in RefAnswers(m), NEW answer, Enters(ref, answer) PROVE Stops'
    <3> DEFINE calls == Logged(Logged(log, "ref", m, wc, ref), "visit", m, wc, answer)
               f == Frame(Child, ChildDepth, ChildContext)
               s == Append(r, f)
    <3>1. log' = calls /\ stack' = s /\ doc' = doc /\ stopped' = stopped /\ "Stop" \notin {ref, answer}
      BY <2>7 DEF Enters, GoesOn, m, wc
    <3>2. Kept(doc, calls) /\ \A c \in Range(calls) : c.answer = "Stop" => c \in Range(log)
      BY <2>5, <3>1
    <3>3. IsSeq(r) /\ DOMAIN r = DOMAIN stack /\ \A i \in DOMAIN stack : r[i].node = stack[i].node
      <4>1. IsSeq(r) /\ DOMAIN r = DOMAIN stack
        BY <2>1, RefilledIs, SeqDomain
      <4>2. ASSUME NEW i \in DOMAIN stack PROVE r[i].node = stack[i].node
        <5> DEFINE rest == IF i = Len(stack) THEN t ELSE stack[i].todo
        <5>1. r[i] = [node |-> stack[i].node, depth |-> stack[i].depth, wc |-> stack[i].wc, todo |-> rest]
          BY <2>1, RefilledIs
        <5> HIDE DEF rest, r
        <5> QED
          BY ONLY <5>1
      <4> QED
        BY <4>1, <4>2
    <3> HIDE DEF f, r
    <3>4. \A i \in DOMAIN r : i \in DOMAIN s /\ s[i] = r[i]
      BY <3>3, AppendSeq, SeqDomain
    <3>5. ASSUME NEW c \in Range(log), c.answer = "Stop" PROVE stopped /\ Ends(doc, s, c)
      <4>1. stopped /\ Ends(doc, stack, c)
        BY <3>5 DEF Stops
      <4>2. \E i \in DOMAIN stack : ~Shuts(stack[i].todo)
        <5>1. NextItem \in Range(Top.todo) /\ ~Shut(NextItem.field)
          BY <2>1, <4>1, ChildIs DEF Shut
        <5> QED
          BY <2>1, <5>1, TopIs DEF Shuts
      <4> HIDE DEF s
      <4> QED
        BY <3>3, <3>4, <4>1, <4>2 DEF Ends
    <3> HIDE DEF calls, s
    <3>6. \A c \in Range(calls) : c.answer = "Stop" => stopped' /\ Ends(doc, s, c)
      BY <3>1, <3>2, <3>5
    <3> QED
      BY <1>q, <3>1, <3>2, <3>6
  <2> QED
    BY <2>1, <2>6, <2>7 DEF m
<1>3. CASE Abandon
  <2> DEFINE t == Later(Top.todo)
  <2>1. phase = "walking" /\ Top.todo # <<>> /\ stack' = Refilled(t) /\ doc' = doc /\ log' = log /\ stopped' = stopped
    BY <1>3 DEF Abandon, Refilled
  <2>2. Range(t) \subseteq Range(Top.todo)
    <3> DEFINE todo == Top.todo
               T == {i \in DOMAIN todo : todo[i].field.scope # Head(todo).field.scope}
    <3>1. t \in {<<>>, Chosen(todo, T)}
      BY DEF Later
    <3>2. IsSeq(todo)
      BY <2>1, TopIs
    <3> HIDE DEF T, todo, t
    <3>3. Range(<<>>) = {}
      BY DEF Range
    <3>4. Range(Chosen(todo, T)) = {todo[i] : i \in T \cap DOMAIN todo}
      BY <3>2, ChosenSeq
    <3>5. Range(Chosen(todo, T)) \subseteq Range(todo)
      BY <3>4 DEF Range
    <3> QED
      BY <3>1, <3>3, <3>5 DEF todo
  <2> HIDE DEF t
  <2>3. \A b : Ends(doc, stack, b) => Ends(doc, Refilled(t), b)
    BY <2>1, <2>2, EndsRefilled
  <2>4. \A c \in Range(log) : c.answer = "Stop" => stopped /\ Ends(doc, Refilled(t), c)
    BY <2>3 DEF Stops
  <2> QED
    BY <1>q, <2>1, <2>4 DEF Stops
<1>4. CASE Leave
  <2> DEFINE a == PostAnswer(Top.node)
             n == Top.node
             wc == Top.wc
             calls == Logged(log, "post", n, wc, a)
  <2>1. phase = "walking" /\ stack' = Below /\ doc' = doc /\ stopped' = stopped /\ log' = calls
    BY <1>4, <1>s, LoggedIs DEF Leave
  <2>2. a # "none" => a = "post" /\ ~stopped
    BY DEF PostAnswer
  <2> HIDE DEF a, n, wc
  <2>3. a # "none" => \A b \in Range(log) : b.answer # "Stop"
    BY <2>2 DEF Stops
  <2>4. Kept(doc, calls) /\ Range(calls) = Range(log) \cup (IF a = "none" THEN {} ELSE {Call("post", n, wc, a)})
    BY <1>k, <1>l, <1>s, <2>3 DEF Stops
  <2> HIDE DEF calls
  <2>5. \A c \in Range(calls) : c.answer = "Stop" => c \in Range(log)
    BY <1>f, <2>2, <2>4
  <2>6. \A b : Ends(doc, stack, b) => Ends(doc, Below, b)
    BY <2>1, EndsBelow
  <2>7. \A c \in Range(calls) : c.answer = "Stop" => stopped /\ Ends(doc, Below, c)
    BY <2>5, <2>6 DEF Stops
  <2> QED
    BY <1>q, <2>1, <2>4, <2>7
<1>5. CASE Done \/ UNCHANGED vars
  <2>1. doc' = doc /\ stack' = stack /\ stopped' = stopped /\ log' = log
    BY <1>5 DEF Done, vars
  <2> QED
    BY <1>q, <2>1 DEF Stops
<1> QED
  BY <1>1, <1>2, <1>3, <1>4, <1>5 DEF Next

\* No handler is called outside the operation, path item, callback or component in
\* which one answered Stop.
THEOREM StopAlwaysEndsOuterWalk == Spec => []StopEndsOuterWalk
<1> DEFINE Inv == Framed /\ OuterAt(doc, stack) /\ Stops
<1>1. Init => Inv
  <2> SUFFICES ASSUME Init PROVE Inv
    OBVIOUS
  <2>1. stack = <<>> /\ log = <<>>
    BY DEF Init
  <2>2. Framed
    BY InitFramed
  <2>3. Range(log) = {}
    BY <2>1 DEF Range
  <2> QED
    BY <2>1, <2>2, <2>3 DEF OuterAt, Stops, Kept
<1>2. Inv /\ [Next]_vars => Inv'
  BY FramedNext, OuterNext, StopsNext
<1>3. Inv => StopEndsOuterWalk
  BY DEF Stops, Kept, Follows, StopEndsOuterWalk, Kind
<1> QED
  BY <1>1, <1>2, <1>3, PTL DEF Spec

\* Where the known gaps are all there are, a walk tells its handlers of the whole
\* tree, of each place where it stands (walker/walker.go).
THEOREM WalkAlwaysFollowsTree == ASSUME GapsAreKnown PROVE Spec => []WalkFollowsTree
<1>1. HandlersFollowTree /\ EachNodeWalked => WalkFollowsTree
  BY DEF WalkFollowsTree
<1> QED
  BY <1>1, GapsAreKnown, HandlersAlwaysFollowTree, EachNodeAlwaysWalked, PTL

=============================================================================
