------------------------- MODULE RefResolverProofs -------------------------
(***************************************************************************)
(* The reference resolver, for all documents, limits and orders of         *)
(* traversal.  Its marks are the references on the stack of calls, each of *)
(* which is there once, so that nested resolutions are bounded by the      *)
(* number of distinct references.  Only circular references remain in the  *)
(* end, no map contains itself, and what was inlined is what the files say.*)
(***************************************************************************)
EXTENDS RefResolver, InductionLemmas, SequenceTheorems, FiniteSetTheorems

-----------------------------------------------------------------------------
(* The stack and the marks *)

StackInv ==
    /\ IsSeq(stack)
    /\ \A i \in DOMAIN stack : stack[i] = Frame(stack[i].ref, stack[i].todo)
    /\ MarkedWhileResolving

\* Taking a node off the list of the top frame changes no frame's reference.
LEMMA TakenKeepsRefs ==
    ASSUME StackInv, NEW a, Calls(a)
    PROVE  /\ IsSeq(Taken(a)) /\ Len(Taken(a)) = Len(stack)
           /\ \A i \in DOMAIN stack :
                  /\ Taken(a)[i].ref = stack[i].ref
                  /\ Taken(a)[i] = Frame(Taken(a)[i].ref, Taken(a)[i].todo)
<1> DEFINE t == Taken(a)
<1>1. Len(stack) \in 1..Len(stack) /\ DOMAIN stack = 1..Len(stack)
  BY SeqDomain, EmptySeq DEF StackInv, IsSeq, Calls, Running
<1>2. \A i \in DOMAIN stack : stack[i] = Frame(stack[i].ref, stack[i].todo)
  BY DEF StackInv
<1>3. DOMAIN t = 1..Len(stack) /\ \A i \in DOMAIN stack : i # Len(stack) => t[i] = stack[i]
  BY <1>1 DEF Taken
<1>4. t[Len(stack)] = Frame(stack[Len(stack)].ref, stack[Len(stack)].todo \ {a})
  <2> DEFINE top == stack[Len(stack)]
  <2>1. t[Len(stack)] = [top EXCEPT !.todo = top.todo \ {a}]
    BY <1>1 DEF Taken
  <2>2. top = Frame(top.ref, top.todo)
    BY <1>1, <1>2
  <2> HIDE DEF top, t
  <2>3. [top EXCEPT !.todo = top.todo \ {a}] = Frame(top.ref, top.todo \ {a})
    BY <2>2 DEF Frame
  <2>4. QED
    BY <2>1, <2>3 DEF top
<1>5. \A i \in DOMAIN stack : t[i].ref = stack[i].ref /\ t[i] = Frame(t[i].ref, t[i].todo)
  BY <1>2, <1>3, <1>4 DEF Frame
<1>6. t = [i \in 1..Len(stack) |-> t[i]]
  BY <1>1 DEF Taken
<1> HIDE DEF t
<1>7. t \in [1..Len(stack) -> Range(t)]
  BY <1>1, <1>3, <1>6 DEF Range
<1>8. t \in Seq(Range(t)) /\ Len(t) = Len(stack)
  BY <1>1, <1>7, SeqDef
<1>9. QED
  BY <1>5, <1>8 DEF t, IsSeq

\* Entering a value puts a frame on the stack that marks nothing.
LEMMA DescendStep ==
    ASSUME StackInv, NEW a, Calls(a), NEW todo,
           stack' = Append(Taken(a), Frame(NoRef, todo)), resolving' = resolving
    PROVE  StackInv'
<1> DEFINE t == Taken(a)
<1>1. /\ IsSeq(t) /\ Len(t) = Len(stack) /\ Len(t) \in Nat
      /\ DOMAIN stack = 1..Len(t)
      /\ \A i \in 1..Len(t) : t[i].ref = stack[i].ref /\ t[i] = Frame(t[i].ref, t[i].todo)
  BY TakenKeepsRefs, SeqDomain DEF StackInv
<1> HIDE DEF t
<1>2. /\ IsSeq(stack')
      /\ DOMAIN stack' = 1..(Len(t) + 1)
      /\ \A i \in 1..Len(t) : stack'[i] = t[i]
      /\ stack'[Len(t) + 1] = Frame(NoRef, todo)
  BY <1>1, AppendSeq DEF t
<1>3. /\ stack'[Len(t) + 1].ref = NoRef
      /\ \A i \in 1..Len(t) : stack'[i].ref = stack[i].ref
      /\ \A i \in DOMAIN stack' : stack'[i] = Frame(stack'[i].ref, stack'[i].todo)
  <2>1. stack'[Len(t) + 1].ref = NoRef /\ stack'[Len(t) + 1].todo = todo
    BY <1>2 DEF Frame
  <2>2. \A i \in 1..Len(t) :
            stack'[i].ref = stack[i].ref /\ stack'[i] = Frame(stack'[i].ref, stack'[i].todo)
    BY <1>1, <1>2
  <2>3. QED
    BY <1>1, <1>2, <2>1, <2>2
<1>4. resolving = {stack[i].ref : i \in 1..Len(t)} \ {NoRef}
  BY <1>1 DEF StackInv, MarkedWhileResolving
<1>5. resolving' = {stack'[i].ref : i \in DOMAIN stack'} \ {NoRef}
  <2>1. {stack'[i].ref : i \in 1..(Len(t) + 1)} \ {NoRef} = {stack[i].ref : i \in 1..Len(t)} \ {NoRef}
    <3>1. \A i \in 1..(Len(t) + 1) : i \in 1..Len(t) \/ i = Len(t) + 1
      BY <1>1
    <3>2. \A i \in 1..Len(t) : i \in 1..(Len(t) + 1)
      BY <1>1
    <3>3. QED
      BY <1>3, <3>1, <3>2
  <2>2. QED
    BY <1>2, <1>4, <2>1
<1>6. \A i, j \in DOMAIN stack' : stack'[i].ref = stack'[j].ref /\ stack'[i].ref # NoRef => i = j
  BY <1>1, <1>2, <1>3 DEF StackInv, MarkedWhileResolving
<1>7. QED
  BY <1>2, <1>3, <1>5, <1>6 DEF StackInv, MarkedWhileResolving

\* Entering what a reference stands for marks it and puts it on the stack.
LEMMA InlineStep ==
    ASSUME StackInv, NEW a, Inline(a)
    PROVE  StackInv'
<1> DEFINE t == Taken(a)
           r == heap[a].ref
<1>1. /\ IsSeq(t) /\ Len(t) = Len(stack) /\ Len(t) \in Nat
      /\ DOMAIN stack = 1..Len(t)
      /\ \A i \in 1..Len(t) : t[i].ref = stack[i].ref /\ t[i] = Frame(t[i].ref, t[i].todo)
  BY TakenKeepsRefs, SeqDomain DEF StackInv, Inline
<1>2. /\ r # NoRef /\ r \notin resolving /\ resolving' = resolving \cup {r}
      /\ stack' = Append(t, Frame(r, {a}))
  BY DEF Inline, IsCircular, Mark
<1> HIDE DEF t, r
<1>3. /\ IsSeq(stack')
      /\ DOMAIN stack' = 1..(Len(t) + 1)
      /\ \A i \in 1..Len(t) : stack'[i] = t[i]
      /\ stack'[Len(t) + 1] = Frame(r, {a})
  BY <1>1, <1>2, AppendSeq
<1>4. /\ stack'[Len(t) + 1].ref = r
      /\ \A i \in 1..Len(t) : stack'[i].ref = stack[i].ref
      /\ \A i \in DOMAIN stack' : stack'[i] = Frame(stack'[i].ref, stack'[i].todo)
  <2>1. stack'[Len(t) + 1].ref = r /\ stack'[Len(t) + 1].todo = {a}
    BY <1>3 DEF Frame
  <2>2. \A i \in 1..Len(t) :
            stack'[i].ref = stack[i].ref /\ stack'[i] = Frame(stack'[i].ref, stack'[i].todo)
    BY <1>1, <1>3
  <2>3. \A i \in 1..(Len(t) + 1) : i \in 1..Len(t) \/ i = Len(t) + 1
    BY <1>1
  <2>4. stack'[Len(t) + 1] = Frame(stack'[Len(t) + 1].ref, stack'[Len(t) + 1].todo)
    BY <1>3, <2>1
  <2>5. QED
    BY <1>3, <2>1, <2>2, <2>3, <2>4
<1>5. resolving = {stack[i].ref : i \in 1..Len(t)} \ {NoRef}
  BY <1>1 DEF StackInv, MarkedWhileResolving
<1>6. resolving' = {stack'[i].ref : i \in DOMAIN stack'} \ {NoRef}
  <2>1. {stack'[i].ref : i \in 1..(Len(t) + 1)} \ {NoRef} = ({stack[i].ref : i \in 1..Len(t)} \ {NoRef}) \cup {r}
    <3>1. \A i \in 1..(Len(t) + 1) : i \in 1..Len(t) \/ i = Len(t) + 1
      BY <1>1
    <3>2. (\A i \in 1..Len(t) : i \in 1..(Len(t) + 1)) /\ Len(t) + 1 \in 1..(Len(t) + 1)
      BY <1>1
    <3>3. QED
      BY <1>2, <1>4, <3>1, <3>2
  <2>2. QED
    BY <1>2, <1>3, <1>5, <2>1
\* The new frame's reference was on no frame, for it was not marked.
<1>7. \A i, j \in DOMAIN stack' : stack'[i].ref = stack'[j].ref /\ stack'[i].ref # NoRef => i = j
  <2>1. \A i \in 1..Len(t) : stack[i].ref # r
    BY <1>2, <1>5
  <2>2. QED
    BY <1>1, <1>3, <1>4, <2>1 DEF StackInv, MarkedWhileResolving
<1>8. QED
  BY <1>3, <1>4, <1>6, <1>7 DEF StackInv, MarkedWhileResolving

\* Leaving the topmost frame takes the mark of its reference away.
LEMMA ReturnStep ==
    ASSUME StackInv, Return
    PROVE  StackInv'
<1> DEFINE n == Len(stack)
<1>1. /\ n \in Nat \ {0} /\ DOMAIN stack = 1..n
      /\ IsSeq(stack') /\ DOMAIN stack' = 1..(n - 1)
      /\ \A i \in 1..(n - 1) : stack'[i] = stack[i]
  BY SeqDomain, FrontSeq, EmptySeq DEF StackInv, Return, Running, IsSeq
<1>2. resolving' = resolving \ {stack[n].ref}
  BY DEF Return, Unmark, Top, Last
<1> HIDE DEF n
<1>3. resolving = {stack[i].ref : i \in 1..n} \ {NoRef}
  BY <1>1 DEF StackInv, MarkedWhileResolving
<1>4. \A i \in 1..(n - 1) : stack[i].ref # NoRef => stack[i].ref # stack[n].ref
  BY <1>1 DEF StackInv, MarkedWhileResolving
<1>5. resolving' = {stack'[i].ref : i \in DOMAIN stack'} \ {NoRef}
  BY <1>1, <1>2, <1>3, <1>4
<1>6. QED
  BY <1>1, <1>5 DEF StackInv, MarkedWhileResolving

\* An empty stack fits when nothing is marked.
LEMMA EmptyStack ==
    ASSUME stack' = <<>>, resolving' = {}
    PROVE  StackInv'
BY EmptySeq DEF StackInv, MarkedWhileResolving, IsSeq

\* So does the stack of a walk that begins at the root.
LEMMA StartingStack ==
    /\ stack = Start /\ resolving = {} => StackInv
    /\ stack' = Start /\ resolving' = {} => StackInv'
<1>1. IsSeq(Start) /\ DOMAIN Start = {1} /\ Start[1] = Frame(NoRef, {<<Root>>})
  BY DEF Start, IsSeq, Range
<1> HIDE DEF Start
<1>2. QED
  BY <1>1 DEF StackInv, MarkedWhileResolving, Frame

-----------------------------------------------------------------------------
(* The theorem *)

\* The stack fits the marks when the resolver starts.
LEMMA InitStack == Init => StackInv
BY StartingStack DEF Init

\* Every step keeps the stack fitting the marks.
LEMMA StepStack == StackInv /\ [Next]_vars => StackInv'
<1> SUFFICES ASSUME StackInv, [Next]_vars
             PROVE  StackInv'
  OBVIOUS
<1>1. ASSUME NEW a, LeaveCircular(a)
      PROVE  StackInv'
  <2>1. stack' = Taken(a) /\ resolving' = resolving /\ Calls(a)
    BY <1>1 DEF LeaveCircular
  <2>2. /\ IsSeq(stack') /\ DOMAIN stack' = DOMAIN stack
        /\ \A i \in DOMAIN stack : stack'[i].ref = stack[i].ref /\ stack'[i] = Frame(stack'[i].ref, stack'[i].todo)
    BY <2>1, TakenKeepsRefs, SeqDomain DEF StackInv
  <2>3. QED
    BY <2>1, <2>2 DEF StackInv, MarkedWhileResolving
<1>2. ASSUME NEW a, CannotResolve(a)
      PROVE  StackInv'
  BY <1>2, EmptyStack DEF CannotResolve, Fail
<1>3. ASSUME NEW a, Inline(a)
      PROVE  StackInv'
  BY <1>3, InlineStep
<1>4. ASSUME NEW a, Descend(a)
      PROVE  StackInv'
  BY <1>4, DescendStep DEF Descend
<1>5. CASE TooDeep
  BY <1>5, EmptyStack DEF TooDeep, Fail
<1>6. CASE Return
  BY <1>6, ReturnStep
<1>7. CASE Fallback
  BY <1>7, StartingStack DEF Fallback
<1>8. CASE UNCHANGED vars
  BY <1>8 DEF vars, resolver, StackInv, MarkedWhileResolving
<1>9. QED
  BY <1>1, <1>2, <1>3, <1>4, <1>5, <1>6, <1>7, <1>8 DEF Next, Step, Finished

\* A reference is marked in RefResolver.resolving exactly while a call inlines
\* it, and never twice (parser/resolver.go, resolveRefsRecursive).
THEOREM MarksFollowStack == Spec => []MarkedWhileResolving
<1>1. StackInv => MarkedWhileResolving
  BY DEF StackInv
<1>2. QED
  BY <1>1, InitStack, StepStack, PTL DEF Spec

-----------------------------------------------------------------------------
(* Addresses *)

\* One address is above another when it is how the other begins.
LEMMA BelowIs ==
    ASSUME NEW s \in Address, NEW t \in Address
    PROVE  Below(s, t) <=> Len(s) < Len(t) /\ \A i \in 1..Len(s) : s[i] = t[i]
<1>1. Len(s) \in Nat /\ Len(t) \in Nat
  BY DEF Address
<1>2. /\ SubSeq(s, 1, Len(s)) = s
  BY SubSeqFull DEF Address
<1>3. CASE Len(s) <= Len(t)
  <2> DEFINE u == SubSeq(t, 1, Len(s))
  <2>1. \A i \in 1..Len(s) : t[i] \in Token
    BY <1>1, <1>3, ElementOfSeq DEF Address
  <2>2. /\ u \in Seq(Token)
        /\ Len(u) = IF 1 <= Len(s) THEN Len(s) - 1 + 1 ELSE 0
        /\ \A i \in 1..(Len(s) - 1 + 1) : u[i] = t[1 + i - 1]
    BY <1>1, <2>1, SubSeqProperties
  <2> HIDE DEF u
  <2>3. Len(u) = Len(s) /\ \A i \in 1..Len(s) : u[i] = t[i]
    BY <1>1, <2>2
  <2>4. s = u <=> \A i \in 1..Len(s) : s[i] = t[i]
    BY <2>2, <2>3, SeqEqual DEF Address
  <2>5. Len(s) = Len(t) => (s = t <=> \A i \in 1..Len(s) : s[i] = t[i])
    BY SeqEqual DEF Address
  <2> QED
    BY <1>1, <1>2, <1>3, <2>4, <2>5 DEF Below, IsStrictPrefix, IsPrefix, u
<1>4. CASE ~ (Len(s) <= Len(t))
  BY <1>1, <1>4 DEF Below, IsStrictPrefix, IsPrefix
<1> QED
  BY <1>3, <1>4

\* Nothing is above itself, and what is above is above all that is below.
LEMMA BelowOrders ==
    ASSUME NEW s \in Address, NEW t \in Address, NEW u \in Address
    PROVE  ~Below(s, s) /\ (Below(s, t) /\ Below(t, u) => Below(s, u))
<1>1. Len(s) \in Nat /\ Len(t) \in Nat /\ Len(u) \in Nat
  BY DEF Address
<1> QED
  BY <1>1, BelowIs

\* The value of a key is right below its map.
LEMMA KidIsBelow ==
    ASSUME NEW s \in Address, NEW a \in Address, NEW k \in Token
    PROVE  /\ Append(a, k) \in Address /\ Len(Append(a, k)) = Len(a) + 1
           /\ Below(s, Append(a, k)) <=> s = a \/ Below(s, a)
<1> DEFINE b == Append(a, k)
<1>1. /\ b \in Address /\ Len(b) = Len(a) + 1
      /\ \A i \in 1..Len(a) : b[i] = a[i]
  BY AppendProperties DEF Address
<1>2. Len(s) \in Nat /\ Len(a) \in Nat
  BY DEF Address
<1> HIDE DEF b
<1>3. Below(s, b) <=> Len(s) <= Len(a) /\ \A i \in 1..Len(s) : s[i] = a[i]
  BY <1>1, <1>2, BelowIs
<1>4. Below(s, a) <=> Len(s) < Len(a) /\ \A i \in 1..Len(s) : s[i] = a[i]
  BY BelowIs
<1>5. Len(s) = Len(a) => (s = a <=> \A i \in 1..Len(s) : s[i] = a[i])
  BY SeqEqual DEF Address
<1>6. s = a => Len(s) = Len(a)
  OBVIOUS
<1>7. Below(s, b) <=> s = a \/ Below(s, a)
  BY <1>2, <1>3, <1>4, <1>5, <1>6
<1> QED
  BY <1>1, <1>7 DEF b

\* What lies below t has one place below a, and the other way round.
Moved(a, t, c) == a \o Tail2(t, c)
LEMMA MovedIs ==
    ASSUME NEW a \in Address, NEW t \in Address, NEW c \in Address, Below(t, c)
    PROVE  /\ Moved(a, t, c) \in Address /\ Below(a, Moved(a, t, c))
           /\ Len(Moved(a, t, c)) = Len(a) + Len(c) - Len(t)
           /\ \A i \in 1..Len(a) : Moved(a, t, c)[i] = a[i]
           /\ \A i \in 1..(Len(c) - Len(t)) : Moved(a, t, c)[Len(a) + i] = c[Len(t) + i]
<1> DEFINE u == Tail2(t, c)
           b == a \o u
<1>1. /\ Len(a) \in Nat /\ Len(t) \in Nat /\ Len(c) \in Nat /\ Len(t) < Len(c)
      /\ a \in Seq(Token) /\ c \in Seq(Token)
  BY BelowIs DEF Address
<1>2. \A i \in (Len(t) + 1)..Len(c) : c[i] \in Token
  BY <1>1, ElementOfSeq
<1>3. /\ u \in Seq(Token)
      /\ Len(u) = IF Len(t) + 1 <= Len(c) THEN Len(c) - (Len(t) + 1) + 1 ELSE 0
      /\ \A i \in 1..(Len(c) - (Len(t) + 1) + 1) : u[i] = c[(Len(t) + 1) + i - 1]
  BY <1>1, <1>2, SubSeqProperties DEF Tail2
<1> HIDE DEF u
<1>4. Len(u) = Len(c) - Len(t) /\ \A i \in 1..(Len(c) - Len(t)) : u[i] = c[Len(t) + i]
  BY <1>1, <1>3
<1>5. /\ b \in Seq(Token) /\ Len(b) = Len(a) + Len(u)
      /\ \A i \in 1..(Len(a) + Len(u)) : b[i] = IF i <= Len(a) THEN a[i] ELSE u[i - Len(a)]
  BY <1>1, <1>3, ConcatProperties
<1> HIDE DEF b
<1>6. /\ Len(b) = Len(a) + Len(c) - Len(t)
      /\ \A i \in 1..Len(a) : b[i] = a[i]
  BY <1>1, <1>4, <1>5
<1>7. \A i \in 1..(Len(c) - Len(t)) : b[Len(a) + i] = c[Len(t) + i]
  <2> TAKE i \in 1..(Len(c) - Len(t))
  <2>1. Len(a) + i \in 1..(Len(a) + Len(u)) /\ ~ (Len(a) + i <= Len(a)) /\ (Len(a) + i) - Len(a) = i
    BY <1>1, <1>4
  <2> QED
    BY <1>4, <1>5, <2>1
<1>8. Below(a, b)
  BY <1>1, <1>5, <1>6, BelowIs DEF Address
<1> QED
  BY <1>5, <1>6, <1>7, <1>8 DEF b, u, Moved, Address

\* Back again it is what it was.
LEMMA MovedBack ==
    ASSUME NEW a \in Address, NEW t \in Address, NEW c \in Address, Below(t, c)
    PROVE  Moved(t, a, Moved(a, t, c)) = c
<1> DEFINE b == Moved(a, t, c)
           d == Moved(t, a, b)
<1>1. /\ Len(a) \in Nat /\ Len(t) \in Nat /\ Len(c) \in Nat /\ Len(t) < Len(c)
      /\ \A i \in 1..Len(t) : t[i] = c[i]
  BY BelowIs DEF Address
<1>2. /\ b \in Address /\ Below(a, b)
      /\ Len(b) = Len(a) + Len(c) - Len(t)
      /\ \A i \in 1..(Len(c) - Len(t)) : b[Len(a) + i] = c[Len(t) + i]
  BY MovedIs
<1> HIDE DEF b
<1>3. /\ d \in Address
      /\ Len(d) = Len(t) + Len(b) - Len(a)
      /\ \A i \in 1..Len(t) : d[i] = t[i]
      /\ \A i \in 1..(Len(b) - Len(a)) : d[Len(t) + i] = b[Len(a) + i]
  BY <1>2, MovedIs
<1> HIDE DEF d
<1>4. Len(b) - Len(a) = Len(c) - Len(t) /\ Len(d) = Len(c)
  BY <1>1, <1>2, <1>3
<1>5. ASSUME NEW i \in 1..Len(d) PROVE d[i] = c[i]
  <2>1. CASE i <= Len(t)
    BY <1>1, <1>3, <1>4, <2>1
  <2>2. CASE i > Len(t)
    <3> DEFINE j == i - Len(t)
    <3>1. j \in 1..(Len(c) - Len(t)) /\ i = Len(t) + j
      BY <1>1, <1>4, <2>2
    <3> HIDE DEF j
    <3> QED
      BY <1>2, <1>3, <1>4, <3>1
  <2> QED
    BY <1>1, <2>1, <2>2
<1> QED
  BY <1>3, <1>4, <1>5, SeqEqual DEF Address, d, b

\* A map's keys move with it.
LEMMA KidMoves ==
    ASSUME NEW a \in Address, NEW t \in Address, NEW k \in Token, NEW c \in Address,
           c = t \/ Below(t, c)
    PROVE  Moved(a, t, Append(c, k)) = Append(IF c = t THEN a ELSE Moved(a, t, c), k)
<1> DEFINE e == Append(c, k)
           b == IF c = t THEN a ELSE Moved(a, t, c)
           m == Moved(a, t, e)
<1>1. /\ Len(a) \in Nat /\ Len(t) \in Nat /\ Len(c) \in Nat /\ Len(t) <= Len(c)
  BY BelowIs DEF Address
<1>2. /\ e \in Address /\ Len(e) = Len(c) + 1 /\ Below(t, e)
      /\ \A i \in 1..Len(c) : e[i] = c[i]
      /\ e[Len(c) + 1] = k
  <2>1. /\ e \in Address /\ Len(e) = Len(c) + 1 /\ Below(t, e)
    BY KidIsBelow
  <2>2. /\ \A i \in 1..Len(c) : e[i] = c[i]
        /\ e[Len(c) + 1] = k
    BY AppendProperties DEF Address
  <2> QED
    BY <2>1, <2>2
<1>3. /\ b \in Address /\ Len(b) = Len(a) + Len(c) - Len(t)
      /\ \A i \in 1..Len(a) : b[i] = a[i]
      /\ \A i \in 1..(Len(c) - Len(t)) : b[Len(a) + i] = c[Len(t) + i]
  <2>1. CASE c = t
    BY <1>1, <2>1
  <2>2. CASE c # t
    <3>1. b = Moved(a, t, c) /\ Below(t, c)
      BY <2>2
    <3> HIDE DEF b
    <3>2. /\ Moved(a, t, c) \in Address
          /\ Len(Moved(a, t, c)) = Len(a) + Len(c) - Len(t)
          /\ \A i \in 1..Len(a) : Moved(a, t, c)[i] = a[i]
          /\ \A i \in 1..(Len(c) - Len(t)) : Moved(a, t, c)[Len(a) + i] = c[Len(t) + i]
      BY <3>1, MovedIs, ZenonT(30)
    <3> QED
      BY <3>1, <3>2
  <2> QED
    BY <2>1, <2>2
<1> HIDE DEF e, b
<1>4. /\ m \in Address /\ Len(m) = Len(a) + Len(e) - Len(t)
      /\ \A i \in 1..Len(a) : m[i] = a[i]
      /\ \A i \in 1..(Len(e) - Len(t)) : m[Len(a) + i] = e[Len(t) + i]
  BY <1>2, MovedIs, ZenonT(30)
<1> HIDE DEF m
<1> DEFINE n == Append(b, k)
<1>5. /\ n \in Address /\ Len(n) = Len(b) + 1
      /\ \A i \in 1..Len(b) : n[i] = b[i]
      /\ n[Len(b) + 1] = k
  BY <1>3, AppendProperties DEF Address
<1> HIDE DEF n
<1>6. Len(m) = Len(n) /\ Len(n) = Len(a) + (Len(c) - Len(t)) + 1
  BY <1>1, <1>2, <1>3, <1>4, <1>5
<1>7. ASSUME NEW i \in 1..Len(m) PROVE m[i] = n[i]
  <2>1. CASE i <= Len(a)
    BY <1>1, <1>3, <1>4, <1>5, <1>6, <2>1
  <2>2. CASE i > Len(a)
    <3> DEFINE j == i - Len(a)
    <3>1. j \in 1..(Len(c) - Len(t) + 1) /\ i = Len(a) + j
      BY <1>1, <1>6, <2>2
    <3> HIDE DEF j
    <3>2. m[i] = e[Len(t) + j]
      BY <1>1, <1>2, <1>4, <3>1
    <3>3. CASE j = Len(c) - Len(t) + 1
      <4>1. i = Len(b) + 1 /\ Len(t) + j = Len(c) + 1
        BY <1>1, <1>3, <3>1, <3>3
      <4> QED
        BY <1>2, <1>5, <3>2, <4>1
    <3>4. CASE j # Len(c) - Len(t) + 1
      <4>1. j \in 1..(Len(c) - Len(t)) /\ Len(t) + j \in 1..Len(c) /\ i \in 1..Len(b)
        BY <1>1, <1>3, <3>1, <3>4
      <4> QED
        BY <1>2, <1>3, <1>5, <3>1, <3>2, <4>1
    <3> QED
      BY <3>3, <3>4
  <2> QED
    BY <1>1, <2>1, <2>2
<1> QED
  BY <1>4, <1>5, <1>6, <1>7, SeqEqual DEF Address, m, n, e, b

-----------------------------------------------------------------------------
(* Copying *)

Copies(src, t, keys) == {b \in DOMAIN src : Below(t, b) /\ b[Len(t) + 1] \in keys}

\* What the heap is once values are copied: below a there are the copies, each
\* with the meaning of its original, and elsewhere all is as it was.
IsGraft(h, src, a, t, keys, ref) ==
    /\ DOMAIN h = {b \in DOMAIN heap : ~Below(a, b)} \cup {Moved(a, t, c) : c \in Copies(src, t, keys)}
    /\ \A c \in Copies(src, t, keys) :
           /\ Moved(a, t, c) \in Address /\ Below(a, Moved(a, t, c))
           /\ h[Moved(a, t, c)] = Node(Moved(a, t, c), src[c], DOMAIN src[c].kids, src[c].meant)
    /\ \A b \in DOMAIN heap : ~Below(a, b) /\ b # a => h[b] = heap[b]
    /\ ~Below(a, a) /\ h[a] = Node(a, [ref |-> ref, object |-> TRUE], keys, heap[a].meant)
LEMMA GraftIs ==
    ASSUME DOMAIN heap \subseteq Address, NEW src, DOMAIN src \subseteq Address,
           NEW a \in DOMAIN heap, NEW t \in Address, NEW keys, NEW ref
    PROVE  IsGraft(Grafted(src, a, t, keys, ref), src, a, t, keys, ref)
<1> DEFINE copies == Copies(src, t, keys)
           from   == [b \in {Moved(a, t, c) : c \in copies} |-> Moved(t, a, b)]
           Copy(b) == Node(b, src[from[b]], DOMAIN src[from[b]].kids, src[from[b]].meant)
           kept   == {b \in DOMAIN heap : ~Below(a, b)}
           own    == Node(a, [ref |-> ref, object |-> TRUE], keys, heap[a].meant)
           h      == [b \in kept \cup DOMAIN from |->
                        IF b \in DOMAIN from THEN Copy(b) ELSE IF b = a THEN own ELSE heap[b]]
<1>1. Grafted(src, a, t, keys, ref) = h
  BY DEF Grafted, Copies, Moved
<1>2. ASSUME NEW c \in copies
      PROVE  /\ Moved(a, t, c) \in Address /\ Below(a, Moved(a, t, c))
             /\ Moved(t, a, Moved(a, t, c)) = c
  BY MovedIs, MovedBack DEF Copies
<1>3. \A b \in DOMAIN from : Below(a, b)
  BY <1>2
<1>4. ~Below(a, a)
  BY BelowOrders
<1>5. DOMAIN h = kept \cup {Moved(a, t, c) : c \in copies}
  OBVIOUS
<1>6. ASSUME NEW c \in copies
      PROVE  h[Moved(a, t, c)] = Node(Moved(a, t, c), src[c], DOMAIN src[c].kids, src[c].meant)
  <2>1. Moved(a, t, c) \in DOMAIN from /\ from[Moved(a, t, c)] = c
    BY <1>2
  <2>2. h[Moved(a, t, c)] = Copy(Moved(a, t, c))
    BY <2>1
  <2> QED
    BY <2>1, <2>2
<1>7. \A b \in DOMAIN heap : ~Below(a, b) /\ b # a => h[b] = heap[b]
  BY <1>3
<1>8. h[a] = own
  BY <1>3, <1>4
<1> HIDE DEF h, copies
<1> QED
  BY <1>1, <1>2, <1>4, <1>5, <1>6, <1>7, <1>8 DEF copies, IsGraft

\* An address in memory is not empty.
LEMMA NotEmpty ==
    ASSUME NEW h, Sound(h), NEW a \in DOMAIN h
    PROVE  Len(a) \in Nat /\ Len(a) > 0
<1>1. a \in Seq(Token) /\ a # << >>
  BY DEF Sound, Address
<1>2. Len(a) \in Nat /\ Len(a) # 0
  BY <1>1, EmptySeq
<1> QED
  BY <1>2

\* The keys of a map in a tree lead right below it.
LEMMA KidsAreIn ==
    ASSUME NEW h, Sound(h), Tree(h), NEW a \in DOMAIN h, NEW k \in DOMAIN h[a].kids
    PROVE  k \in Token /\ h[a].kids[k] = Append(a, k) /\ Append(a, k) \in DOMAIN h
<1>1. k \in Token /\ h[a].kids[k] = Append(a, k)
  BY DEF Tree
<1>2. h[a].kids[k] \in DOMAIN h
  BY DEF Sound, Range
<1> QED
  BY <1>1, <1>2

\* A sound tree is one map by map.
InPlace(h, a, n) ==
    /\ n = [ref |-> n.ref, object |-> n.object, kids |-> n.kids, meant |-> n.meant]
    /\ n.meant \in DOMAIN given /\ n.ref \in {NoRef, given[n.meant].ref}
    /\ \A k \in DOMAIN n.kids : k \in Token /\ n.kids[k] = Append(a, k) /\ Append(a, k) \in DOMAIN h
LEMMA SoundTree ==
    ASSUME NEW h
    PROVE  /\ (/\ DOMAIN h \subseteq Address /\ IsFiniteSet(DOMAIN h) /\ <<Root>> \in DOMAIN h /\ << >> \notin DOMAIN h
               /\ \A a \in DOMAIN h : InPlace(h, a, h[a]))
                => Sound(h) /\ Tree(h)
           /\ Sound(h) /\ Tree(h) => \A a \in DOMAIN h : InPlace(h, a, h[a])
<1>1. ASSUME NEW a \in DOMAIN h, InPlace(h, a, h[a])
      PROVE  Range(h[a].kids) \subseteq DOMAIN h
  BY <1>1 DEF InPlace, Range
<1>2. ASSUME Sound(h), Tree(h), NEW a \in DOMAIN h PROVE InPlace(h, a, h[a])
  BY <1>2, KidsAreIn DEF InPlace, Sound
<1>3. ASSUME DOMAIN h \subseteq Address, IsFiniteSet(DOMAIN h), <<Root>> \in DOMAIN h, << >> \notin DOMAIN h,
             \A a \in DOMAIN h : InPlace(h, a, h[a])
      PROVE  Sound(h) /\ Tree(h)
  <2>1. Tree(h)
    BY <1>3 DEF InPlace, Tree
  <2>2. Sound(h)
    BY <1>1, <1>3 DEF InPlace, Sound
  <2> QED
    BY <2>1, <2>2
<1> QED
  BY <1>2, <1>3

\* A node that was made for its place is in place.
LEMMA NodeInPlace ==
    ASSUME NEW h, NEW a, NEW w, NEW keys, NEW meant, meant \in DOMAIN given, w.ref \in {NoRef, given[meant].ref},
           \A k \in keys : k \in Token /\ Append(a, k) \in DOMAIN h
    PROVE  InPlace(h, a, Node(a, w, keys, meant))
<1> DEFINE kids == [k \in keys |-> Append(a, k)]
           n == [ref |-> w.ref, object |-> w.object, kids |-> kids, meant |-> meant]
<1>1. DOMAIN kids = keys /\ \A k \in keys : kids[k] = Append(a, k)
  OBVIOUS
<1> HIDE DEF kids
<1>2. n.ref = w.ref /\ n.object = w.object /\ n.kids = kids /\ n.meant = meant
  OBVIOUS
<1>3. Node(a, w, keys, meant) = n
  BY DEF Node, kids
<1> HIDE DEF n
<1>4. n = [ref |-> n.ref, object |-> n.object, kids |-> n.kids, meant |-> n.meant]
  BY <1>2 DEF n
<1> QED
  BY <1>1, <1>2, <1>3, <1>4 DEF InPlace

\* The values of a copied map are copied, and so are those of the target itself.
LEMMA CopiesHaveKids ==
    ASSUME NEW src, Sound(src), Tree(src), NEW a \in Address, NEW t \in DOMAIN src,
           NEW keys \in SUBSET DOMAIN src[t].kids
    PROVE  /\ \A c \in Copies(src, t, keys) : \A k \in DOMAIN src[c].kids :
                  /\ k \in Token /\ Append(c, k) \in Copies(src, t, keys)
                  /\ Moved(a, t, Append(c, k)) = Append(Moved(a, t, c), k)
           /\ \A k \in keys :
                  /\ k \in Token /\ Append(t, k) \in Copies(src, t, keys)
                  /\ Moved(a, t, Append(t, k)) = Append(a, k)
<1>1. DOMAIN src \subseteq Address /\ t \in Address
  BY DEF Sound
<1>2. ASSUME NEW c \in Copies(src, t, keys), NEW k \in DOMAIN src[c].kids
      PROVE  k \in Token /\ Append(c, k) \in Copies(src, t, keys) /\ Moved(a, t, Append(c, k)) = Append(Moved(a, t, c), k)
  <2>1. c \in DOMAIN src /\ c \in Address /\ Below(t, c) /\ c[Len(t) + 1] \in keys
    BY <1>1 DEF Copies
  <2>2. k \in Token /\ Append(c, k) \in DOMAIN src
    BY <2>1, KidsAreIn
  <2>3. Below(t, Append(c, k)) /\ c # t
    BY <1>1, <2>1, <2>2, KidIsBelow, BelowOrders
  <2>4. Append(c, k)[Len(t) + 1] = c[Len(t) + 1]
    <3>1. Len(t) \in Nat /\ Len(c) \in Nat /\ Len(t) < Len(c)
      BY <1>1, <2>1, BelowIs DEF Address
    <3>2. Len(t) + 1 \in 1..Len(c)
      BY <3>1
    <3> QED
      BY <2>1, <2>2, <3>2, AppendProperties DEF Address
  <2>5. Moved(a, t, Append(c, k)) = Append(Moved(a, t, c), k)
    BY <1>1, <2>1, <2>2, <2>3, KidMoves
  <2> QED
    BY <2>1, <2>2, <2>3, <2>4, <2>5 DEF Copies
<1>3. ASSUME NEW k \in keys
      PROVE  k \in Token /\ Append(t, k) \in Copies(src, t, keys) /\ Moved(a, t, Append(t, k)) = Append(a, k)
  <2>1. k \in Token /\ Append(t, k) \in DOMAIN src
    BY KidsAreIn
  <2>2. Below(t, Append(t, k)) /\ Append(t, k)[Len(t) + 1] = k
    BY <1>1, <2>1, KidIsBelow, AppendProperties DEF Address
  <2>3. Moved(a, t, Append(t, k)) = Append(a, k)
    BY <1>1, <2>1, KidMoves
  <2> QED
    BY <2>1, <2>2, <2>3 DEF Copies
<1> QED
  BY <1>2, <1>3

\* Copies make a sound tree of sound trees.
LEMMA GraftIsSound ==
    ASSUME Sound(heap), Tree(heap), NEW src, Sound(src), Tree(src),
           NEW a \in DOMAIN heap, NEW t \in DOMAIN src, NEW keys \in SUBSET DOMAIN src[t].kids,
           NEW ref \in {NoRef, given[heap[a].meant].ref}
    PROVE  Sound(Grafted(src, a, t, keys, ref)) /\ Tree(Grafted(src, a, t, keys, ref))
<1> DEFINE h == Grafted(src, a, t, keys, ref)
           copies == Copies(src, t, keys)
           kept == {b \in DOMAIN heap : ~Below(a, b)}
           moved == {Moved(a, t, c) : c \in copies}
<1>1. /\ DOMAIN heap \subseteq Address /\ DOMAIN src \subseteq Address /\ t \in Address /\ a \in Address
      /\ IsFiniteSet(DOMAIN heap) /\ IsFiniteSet(DOMAIN src)
  BY DEF Sound
<1>2. /\ DOMAIN h = kept \cup moved
      /\ \A c \in copies :
             /\ Moved(a, t, c) \in Address /\ Below(a, Moved(a, t, c))
             /\ h[Moved(a, t, c)] = Node(Moved(a, t, c), src[c], DOMAIN src[c].kids, src[c].meant)
      /\ \A b \in DOMAIN heap : ~Below(a, b) /\ b # a => h[b] = heap[b]
      /\ ~Below(a, a) /\ h[a] = Node(a, [ref |-> ref, object |-> TRUE], keys, heap[a].meant)
  <2>1. IsGraft(h, src, a, t, keys, ref)
    BY <1>1, GraftIs
  <2> HIDE DEF h
  <2> QED
    BY <2>1 DEF IsGraft
<1> HIDE DEF h
<1>3. DOMAIN h \subseteq Address
  BY <1>1, <1>2
<1>4. IsFiniteSet(DOMAIN h)
  <2>1. IsFiniteSet(copies) /\ IsFiniteSet(kept)
    BY <1>1, FS_Subset DEF Copies
  <2> DEFINE f == [c \in copies |-> Moved(a, t, c)]
  <2>2. f \in Surjection(copies, moved)
    BY DEF Surjection
  <2> HIDE DEF f
  <2>3. IsFiniteSet(moved)
    BY <2>1, <2>2, FS_Surjection
  <2>4. DOMAIN h = kept \cup moved
    BY <1>2
  <2> HIDE DEF kept, moved
  <2>5. IsFiniteSet(kept \cup moved)
    BY <2>1, <2>3, FS_Union
  <2> QED
    BY <2>4, <2>5
<1>5. ASSUME NEW c \in copies, NEW k \in DOMAIN src[c].kids
      PROVE  k \in Token /\ Append(c, k) \in copies /\ Moved(a, t, Append(c, k)) = Append(Moved(a, t, c), k)
  BY <1>1, CopiesHaveKids
<1>6. ASSUME NEW k \in keys
      PROVE  k \in Token /\ Append(t, k) \in copies /\ Moved(a, t, Append(t, k)) = Append(a, k)
  BY <1>1, CopiesHaveKids
<1>7. ASSUME NEW b \in DOMAIN h
      PROVE  InPlace(h, b, h[b])
  <2>1. CASE b = a
    <3> DEFINE w == [ref |-> ref, object |-> TRUE]
    <3>1. h[b] = Node(b, w, keys, heap[a].meant) /\ w.ref = ref
      BY <1>2, <2>1
    <3>2. \A k \in keys : k \in Token /\ Append(b, k) \in DOMAIN h
      BY <1>2, <1>6, <2>1
    <3>3. heap[a].meant \in DOMAIN given
      BY DEF Sound
    <3> HIDE DEF w
    <3> QED
      BY <3>1, <3>2, <3>3, NodeInPlace
  <2>2. CASE b \in moved
    <3>1. PICK c \in copies : b = Moved(a, t, c)
      BY <2>2
    <3>2. h[b] = Node(b, src[c], DOMAIN src[c].kids, src[c].meant)
      BY <1>2, <3>1
    <3>3. \A k \in DOMAIN src[c].kids : k \in Token /\ Append(b, k) \in DOMAIN h
      BY <1>2, <1>5, <3>1
    <3>4. src[c].meant \in DOMAIN given /\ src[c].ref \in {NoRef, given[src[c].meant].ref}
      BY DEF Sound, Copies
    <3> QED
      BY <3>2, <3>3, <3>4, NodeInPlace
  <2>3. CASE b \in kept /\ b # a
    <3>1. h[b] = heap[b] /\ b \in DOMAIN heap /\ ~Below(a, b) /\ b \in Address
      BY <1>1, <1>2, <2>3
    <3>2. InPlace(heap, b, heap[b])
      BY <3>1, SoundTree
    <3>3. \A k \in DOMAIN heap[b].kids : Append(b, k) \in DOMAIN h
      <4> TAKE k \in DOMAIN heap[b].kids
      <4>1. k \in Token /\ Append(b, k) \in DOMAIN heap
        BY <3>2 DEF InPlace
      <4>2. ~Below(a, Append(b, k))
        BY <1>1, <2>3, <3>1, <4>1, KidIsBelow
      <4> QED
        BY <1>2, <4>1, <4>2
    <3> QED
      BY <3>1, <3>2, <3>3 DEF InPlace
  <2> QED
    BY <1>2, <2>1, <2>2, <2>3
<1>8. << >> \notin DOMAIN h /\ <<Root>> \in DOMAIN h
  <2>1. \A b \in Address : Below(a, b) => Len(b) > 1
    BY <1>1, NotEmpty, BelowIs DEF Sound, Address
  <2>2. Len(<<Root>>) = 1 /\ Len(<< >>) = 0 /\ <<Root>> \in Address
    BY MarkersAssumption DEF Address
  <2>3. ~Below(a, <<Root>>)
    BY <2>1, <2>2
  <2>4. <<Root>> \in DOMAIN heap /\ << >> \notin DOMAIN heap
    BY DEF Sound
  <2> QED
    BY <1>2, <2>1, <2>2, <2>3, <2>4
<1>9. Sound(h) /\ Tree(h)
  BY <1>3, <1>4, <1>7, <1>8, SoundTree
<1> QED
  BY <1>9 DEF h

-----------------------------------------------------------------------------
(* The stack of calls *)

\* A call takes its node off the top frame, and nothing else changes.
LEMMA TakenIs ==
    ASSUME StackInv, NEW a, Calls(a)
    PROVE  /\ Len(stack) \in Nat \ {0} /\ DOMAIN stack = 1..Len(stack)
           /\ a \in stack[Len(stack)].todo
           /\ IsSeq(Taken(a)) /\ Len(Taken(a)) = Len(stack) /\ DOMAIN Taken(a) = 1..Len(stack)
           /\ \A i \in 1..Len(stack) :
                  /\ Taken(a)[i].ref = stack[i].ref
                  /\ Taken(a)[i].todo = IF i = Len(stack) THEN stack[i].todo \ {a} ELSE stack[i].todo
<1>1. Len(stack) \in Nat \ {0} /\ DOMAIN stack = 1..Len(stack)
  BY SeqDomain, EmptySeq DEF StackInv, IsSeq, Calls, Running
<1>2. a \in stack[Len(stack)].todo
  BY DEF Calls, Top, Last
<1>3. /\ IsSeq(Taken(a)) /\ Len(Taken(a)) = Len(stack)
      /\ \A i \in DOMAIN stack : Taken(a)[i].ref = stack[i].ref
  BY TakenKeepsRefs
<1>4. DOMAIN Taken(a) = 1..Len(stack)
  BY <1>3, SeqDomain
<1>5. ASSUME NEW i \in 1..Len(stack)
      PROVE  Taken(a)[i].todo = IF i = Len(stack) THEN stack[i].todo \ {a} ELSE stack[i].todo
  <2> DEFINE f == stack[i]
  <2>1. CASE i # Len(stack)
    BY <1>1, <2>1 DEF Taken
  <2>2. CASE i = Len(stack)
    <3>1. Taken(a)[i] = [f EXCEPT !.todo = f.todo \ {a}]
      BY <1>1, <2>2 DEF Taken
    <3>2. f = Frame(f.ref, f.todo)
      BY <1>1 DEF StackInv
    <3> HIDE DEF f
    <3>3. Taken(a)[i].todo = f.todo \ {a}
      BY <3>1, <3>2 DEF Frame
    <3> QED
      BY <2>2, <3>3 DEF f
  <2> QED
    BY <2>1, <2>2
<1> QED
  BY <1>1, <1>2, <1>3, <1>4, <1>5

\* A call that enters nothing leaves the stack like that.
Took(a) ==
    /\ DOMAIN stack' = DOMAIN stack
    /\ \A i \in DOMAIN stack :
           /\ stack'[i].ref = stack[i].ref
           /\ stack'[i].todo = IF i = Len(stack) THEN stack[i].todo \ {a} ELSE stack[i].todo
LEMMA TakeIs ==
    ASSUME StackInv, NEW a, Calls(a), stack' = Taken(a)
    PROVE  Took(a)
<1> DEFINE t == Taken(a)
           n == Len(stack)
<1>1. /\ DOMAIN stack = 1..n /\ DOMAIN t = 1..n
      /\ \A i \in 1..n : /\ t[i].ref = stack[i].ref
                         /\ t[i].todo = IF i = n THEN stack[i].todo \ {a} ELSE stack[i].todo
  BY TakenIs
<1>2. stack' = t
  OBVIOUS
<1> HIDE DEF t
<1> QED
  BY <1>1, <1>2 DEF Took

\* Or a frame is put on top.
Pushed(a, ref, todo) ==
    /\ DOMAIN stack' = 1..(Len(stack) + 1)
    /\ \A i \in 1..Len(stack) :
           /\ stack'[i].ref = stack[i].ref
           /\ stack'[i].todo = IF i = Len(stack) THEN stack[i].todo \ {a} ELSE stack[i].todo
    /\ stack'[Len(stack) + 1].ref = ref /\ stack'[Len(stack) + 1].todo = todo
LEMMA PushIs ==
    ASSUME StackInv, NEW a, Calls(a), NEW ref, NEW todo, stack' = Append(Taken(a), Frame(ref, todo))
    PROVE  Pushed(a, ref, todo)
<1> DEFINE t == Taken(a)
           n == Len(stack)
<1>1. /\ n \in Nat \ {0} /\ IsSeq(t) /\ Len(t) = n
      /\ \A i \in 1..n : /\ t[i].ref = stack[i].ref
                         /\ t[i].todo = IF i = n THEN stack[i].todo \ {a} ELSE stack[i].todo
  BY TakenIs
<1> HIDE DEF t, n
<1>2. /\ DOMAIN stack' = 1..(n + 1)
      /\ \A i \in 1..n : stack'[i] = t[i]
      /\ stack'[n + 1] = Frame(ref, todo)
  BY <1>1, AppendSeq DEF t
<1>3. Frame(ref, todo).ref = ref /\ Frame(ref, todo).todo = todo
  BY DEF Frame
<1> QED
  BY <1>1, <1>2, <1>3 DEF Pushed, n

\* What there is to visit then was there before or is the new frame's.
LEMMA PushedTodos ==
    ASSUME NEW a, NEW ref, NEW todo, Pushed(a, ref, todo), Len(stack) \in Nat, DOMAIN stack = 1..Len(stack), NEW X,
           \A i \in DOMAIN stack : stack[i].todo \subseteq X, todo \subseteq X
    PROVE  \A i \in DOMAIN stack' : stack'[i].todo \subseteq X
<1> SUFFICES ASSUME NEW i \in DOMAIN stack' PROVE stack'[i].todo \subseteq X
  OBVIOUS
<1>1. i \in 1..Len(stack) \/ i = Len(stack) + 1
  <2>1. i \in 1..(Len(stack) + 1)
    BY DEF Pushed
  <2> QED
    BY <2>1
<1>2. CASE i \in 1..Len(stack)
  <2>1. stack'[i].todo \subseteq stack[i].todo
    BY <1>2 DEF Pushed
  <2> QED
    BY <1>2, <2>1
<1>3. CASE i = Len(stack) + 1
  BY <1>3 DEF Pushed
<1> QED
  BY <1>1, <1>2, <1>3

\* Returning takes it away.
LEMMA PopIs ==
    ASSUME StackInv, Return
    PROVE  /\ Len(stack) \in Nat \ {0} /\ DOMAIN stack = 1..Len(stack)
           /\ stack[Len(stack)].todo = {}
           /\ DOMAIN stack' = 1..(Len(stack) - 1) /\ IsSeq(stack')
           /\ \A i \in 1..(Len(stack) - 1) : stack'[i] = stack[i]
<1>1. Len(stack) \in Nat \ {0} /\ DOMAIN stack = 1..Len(stack)
  BY SeqDomain, EmptySeq DEF StackInv, IsSeq, Return, Running
<1> QED
  BY <1>1, FrontSeq DEF StackInv, Return, Running, Top, Last

\* No frame is left when the stack is empty, and one when it starts.
LEMMA EmptyAndStart ==
    /\ DOMAIN << >> = {} /\ Start # << >>
    /\ DOMAIN Start = {1} /\ Start[1].ref = NoRef /\ Start[1].todo = {<<Root>>}
BY DEF Start, Frame

-----------------------------------------------------------------------------
(* The heap is sound *)

\* The files as they are written make a sound tree.
LEMMA FreshIsSound ==
    ASSUME given \in Inputs
    PROVE  Sound(Fresh) /\ Tree(Fresh) /\ <<Root>> \in DOMAIN Fresh
<1>1. /\ DOMAIN given \subseteq Address /\ IsFiniteSet(DOMAIN given) /\ <<Root>> \in DOMAIN given
      /\ << >> \notin DOMAIN given
  BY InputsAssumption
<1>2. DOMAIN Fresh = DOMAIN given /\ \A a \in DOMAIN given : Fresh[a] = Node(a, given[a], Keys(a), a)
  BY DEF Fresh
<1>3. ASSUME NEW a \in DOMAIN given
      PROVE  InPlace(Fresh, a, Fresh[a])
  <2>1. \A k \in Keys(a) : k \in Token /\ Append(a, k) \in DOMAIN Fresh
    BY <1>2 DEF Keys
  <2>2. given[a].ref \in {NoRef, given[a].ref}
    OBVIOUS
  <2>3. InPlace(Fresh, a, Node(a, given[a], Keys(a), a))
    BY <2>1, <2>2, NodeInPlace
  <2> QED
    BY <1>2, <2>3
<1> QED
  BY <1>1, <1>2, <1>3, SoundTree

\* So is what inlining makes, and elsewhere nothing changes.
LEMMA InlinedIsSound ==
    ASSUME Sound(heap), ~shallow => Tree(heap), NEW a \in DOMAIN heap, heap[a].ref # NoRef,
           NEW t \in DOMAIN heap, NEW h, h \in Inlined(a, t)
    PROVE  /\ Sound(h) /\ (~shallow => Tree(h))
           /\ \A b \in DOMAIN heap : b # a /\ (shallow \/ ~Below(a, b)) => b \in DOMAIN h /\ h[b] = heap[b]
           /\ a \in DOMAIN h /\ h[a].ref = NoRef /\ h[a].meant = heap[a].meant
<1>1. /\ DOMAIN heap \subseteq Address /\ IsFiniteSet(DOMAIN heap) /\ a \in Address /\ t \in Address
      /\ heap[a].meant \in DOMAIN given /\ heap[a].ref = given[heap[a].meant].ref
  BY DEF Sound
<1>2. CASE shallow
  <2> DEFINE keys == Copied(a, t)
             kids == [k \in keys |-> heap[t].kids[k]]
             n == [ref |-> NoRef, object |-> TRUE, meant |-> heap[a].meant, kids |-> kids]
  <2>1. h = [heap EXCEPT ![a] = n]
    BY <1>2 DEF Inlined, Shared
  <2>2. keys \subseteq DOMAIN heap[t].kids
    BY DEF Copied
  <2>3. Range(kids) \subseteq Range(heap[t].kids)
    BY <2>2 DEF Range
  <2>4. Range(heap[t].kids) \subseteq DOMAIN heap
    BY DEF Sound
  <2> HIDE DEF kids
  <2>5. /\ n = [ref |-> n.ref, object |-> n.object, kids |-> n.kids, meant |-> n.meant]
        /\ n.ref = NoRef /\ n.meant = heap[a].meant /\ n.kids = kids
    OBVIOUS
  <2> HIDE DEF n
  <2>6. DOMAIN h = DOMAIN heap /\ h[a] = n /\ \A b \in DOMAIN heap : b # a => h[b] = heap[b]
    BY <2>1
  <2>7. Sound(h)
    BY <1>1, <2>3, <2>4, <2>5, <2>6 DEF Sound
  <2> QED
    BY <1>2, <2>5, <2>6, <2>7
<1>3. CASE ~shallow
  <2>1. \E src, keys : /\ Sound(src) /\ Tree(src) /\ t \in DOMAIN src /\ keys \in SUBSET DOMAIN src[t].kids
                       /\ h = Grafted(src, a, t, keys, NoRef)
    <3>1. CASE ~Below(t, a)
      <4>1. h = Grafted(heap, a, t, Copied(a, t), NoRef) /\ Copied(a, t) \in SUBSET DOMAIN heap[t].kids
        BY <1>3, <3>1 DEF Inlined, Deep, Copied
      <4> QED
        BY <1>3, <4>1
    <3>2. CASE Below(t, a)
      <4>1. PICK before \in SUBSET (Copied(a, t) \ {a[Len(t) + 1]}) :
               h = Grafted(Grafted(heap, a, t, before, heap[a].ref), a, t, Copied(a, t), NoRef)
        BY <1>3, <3>2 DEF Inlined, Deep
      <4> DEFINE src == Grafted(heap, a, t, before, heap[a].ref)
      <4>2. Copied(a, t) \subseteq DOMAIN heap[t].kids
        BY DEF Copied
      <4>3. Sound(src) /\ Tree(src)
        BY <1>1, <1>3, <4>2, GraftIsSound
      <4>4. IsGraft(src, heap, a, t, before, heap[a].ref)
        BY <1>1, GraftIs
      <4>5. ~Below(a, t) /\ t # a
        BY <1>1, <3>2, BelowOrders
      <4> HIDE DEF src
      <4>6. t \in DOMAIN src /\ src[t] = heap[t]
        BY <4>4, <4>5 DEF IsGraft
      <4> QED
        BY <4>1, <4>2, <4>3, <4>6 DEF src
    <3> QED
      BY <3>1, <3>2
  <2>2. PICK src, keys : /\ Sound(src) /\ Tree(src) /\ t \in DOMAIN src /\ keys \in SUBSET DOMAIN src[t].kids
                         /\ h = Grafted(src, a, t, keys, NoRef)
    BY <2>1
  <2>3. Sound(h) /\ Tree(h)
    BY <1>3, <2>2, GraftIsSound
  <2>4. IsGraft(h, src, a, t, keys, NoRef)
    BY <1>1, <2>2, GraftIs DEF Sound
  <2>5. h[a].ref = NoRef /\ h[a].meant = heap[a].meant
    BY <2>4 DEF IsGraft, Node
  <2> QED
    BY <1>3, <2>3, <2>4, <2>5 DEF IsGraft
<1> QED
  BY <1>2, <1>3

\* What a call is about is in memory.
LEMMA CallsInHeap ==
    ASSUME HeapInv, StackInv, NEW a, Calls(a)
    PROVE  a \in DOMAIN heap
BY TakenIs DEF HeapInv

\* The heap is sound when the next state has a sound heap for the same files.
LEMMA HeapHolds ==
    ASSUME given' = given, given \in Inputs, Sound(heap'), ~shallow' => Tree(heap'),
           \A i \in DOMAIN stack' : stack'[i].todo \subseteq DOMAIN heap', failed' => stack' = << >>
    PROVE  HeapInv'
BY DEF HeapInv, Sound, Tree

\* The resolver starts with a sound heap.
LEMMA InitHeap == Init => HeapInv
<1> SUFFICES ASSUME Init PROVE HeapInv
  OBVIOUS
<1>1. given \in Inputs /\ heap = Fresh /\ stack = Start /\ ~failed
  BY DEF Init
<1>2. Sound(heap) /\ Tree(heap) /\ <<Root>> \in DOMAIN heap
  BY <1>1, FreshIsSound
<1> QED
  BY <1>1, <1>2, EmptyAndStart DEF HeapInv

\* Every step keeps the heap sound.
LEMMA StepHeap == HeapInv /\ StackInv /\ TreeInv /\ [Next]_vars => HeapInv'
<1> SUFFICES ASSUME HeapInv, StackInv, TreeInv, [Next]_vars
             PROVE  HeapInv'
  OBVIOUS
<1>0. /\ given \in Inputs /\ Sound(heap) /\ (~shallow => Tree(heap))
      /\ \A i \in DOMAIN stack : stack[i].todo \subseteq DOMAIN heap
      /\ failed => stack = << >>
  BY DEF HeapInv
<1>1. ASSUME NEW a, LeaveCircular(a)
      PROVE  HeapInv'
  <2>1. /\ given' = given /\ heap' = heap /\ shallow' = shallow /\ failed' = failed
        /\ stack' = Taken(a) /\ Calls(a) /\ stack # << >>
    BY <1>1 DEF LeaveCircular, Calls, Running
  <2>2. Took(a)
    BY <2>1, TakeIs
  <2>3. \A i \in DOMAIN stack' : stack'[i].todo \subseteq DOMAIN heap'
    BY <1>0, <2>1, <2>2 DEF Took
  <2> QED
    BY <1>0, <2>1, <2>3, HeapHolds
<1>2. ASSUME NEW a, CannotResolve(a)
      PROVE  HeapInv'
  <2>1. /\ given' = given /\ shallow' = shallow /\ stack' = << >> /\ Calls(a)
        /\ heap' = heap \/ heap' = Stripped(a)
    BY <1>2 DEF CannotResolve, Fail
  <2>2. Sound(Stripped(a)) /\ (~shallow => Tree(Stripped(a)))
    <3> DEFINE h == Stripped(a)
               old == heap[a]
    <3>1. a \in DOMAIN heap
      BY <2>1, CallsInHeap
    <3>2. h = [heap EXCEPT ![a] = [old EXCEPT !.kids = << >>]]
      BY DEF Stripped
    <3>3. old = [ref |-> old.ref, object |-> old.object, kids |-> old.kids, meant |-> old.meant]
      BY <1>0, <3>1 DEF Sound
    <3> HIDE DEF h, old
    <3>4. [old EXCEPT !.kids = << >>] = [ref |-> old.ref, object |-> old.object, kids |-> << >>, meant |-> old.meant]
      BY <3>3
    <3>5. /\ DOMAIN h = DOMAIN heap /\ \A b \in DOMAIN heap : b # a => h[b] = heap[b]
          /\ h[a] = [ref |-> old.ref, object |-> old.object, kids |-> << >>, meant |-> old.meant]
      BY <3>1, <3>2, <3>4
    <3>6. Range(<< >>) = {} /\ DOMAIN << >> = {}
      BY DEF Range
    <3>7. Sound(h)
      BY <1>0, <3>1, <3>5, <3>6 DEF Sound, old
    <3>8. ~shallow => Tree(h)
      BY <1>0, <3>5, <3>6 DEF Tree
    <3> QED
      BY <3>7, <3>8 DEF h
  <2>3. Sound(heap') /\ (~shallow => Tree(heap'))
    BY <1>0, <2>1, <2>2
  <2> QED
    BY <1>0, <2>1, <2>3, EmptyAndStart, HeapHolds
<1>3. ASSUME NEW a, Inline(a)
      PROVE  HeapInv'
  <2> DEFINE t == Found(heap[a].ref)
  <2>1. /\ given' = given /\ shallow' = shallow /\ failed' = failed /\ Calls(a) /\ heap[a].ref # NoRef
        /\ t \in DOMAIN heap /\ heap' \in Inlined(a, t)
        /\ stack' = Append(Taken(a), Frame(heap[a].ref, {a}))
    BY <1>3 DEF Inline, Resolves
  <2>2. a \in DOMAIN heap /\ ~failed
    BY <1>0, <2>1, CallsInHeap DEF Calls, Running
  <2> HIDE DEF t
  <2>3. /\ Sound(heap') /\ (~shallow => Tree(heap')) /\ a \in DOMAIN heap'
        /\ \A b \in DOMAIN heap : b # a /\ (shallow \/ ~Below(a, b)) => b \in DOMAIN heap'
    BY <1>0, <2>1, <2>2, InlinedIsSound
  <2>4. Pushed(a, heap[a].ref, {a})
    BY <2>1, PushIs
  <2>5. DOMAIN stack = 1..Len(stack) /\ Len(stack) \in DOMAIN stack /\ a \in stack[Len(stack)].todo /\ Len(stack) \in Nat
    BY <2>1, TakenIs
  <2>6. ~shallow => \A i \in DOMAIN stack : \A p \in stack[i].todo : ~Below(a, p)
    BY <2>2, <2>5 DEF TreeInv, OnceInv
  <2>7. \A i \in DOMAIN stack : stack[i].todo \subseteq DOMAIN heap'
    BY <1>0, <2>3, <2>6
  <2>8. \A i \in DOMAIN stack' : stack'[i].todo \subseteq DOMAIN heap'
    <3>1. {a} \subseteq DOMAIN heap'
      BY <2>3
    <3> QED
      BY <2>4, <2>5, <2>7, <3>1, PushedTodos
  <2> QED
    BY <1>0, <2>1, <2>2, <2>3, <2>8, HeapHolds
<1>4. ASSUME NEW a, Descend(a)
      PROVE  HeapInv'
  <2>1. /\ given' = given /\ heap' = heap /\ shallow' = shallow /\ failed' = failed /\ Calls(a)
        /\ stack' = Append(Taken(a), Frame(NoRef, Range(heap[a].kids)))
    BY <1>4 DEF Descend
  <2>2. a \in DOMAIN heap /\ ~failed
    BY <1>0, <2>1, CallsInHeap DEF Calls, Running
  <2>3. Pushed(a, NoRef, Range(heap[a].kids))
    BY <2>1, PushIs
  <2>4. DOMAIN stack = 1..Len(stack) /\ Len(stack) \in Nat
    BY <2>1, TakenIs
  <2>5. Range(heap[a].kids) \subseteq DOMAIN heap
    BY <1>0, <2>2 DEF Sound
  <2>6. \A i \in DOMAIN stack' : stack'[i].todo \subseteq DOMAIN heap'
    <3>1. \A i \in DOMAIN stack' : stack'[i].todo \subseteq DOMAIN heap
      BY <1>0, <2>3, <2>4, <2>5, PushedTodos
    <3> QED
      BY <2>1, <3>1
  <2> QED
    BY <1>0, <2>1, <2>2, <2>6, HeapHolds
<1>5. CASE TooDeep
  BY <1>0, <1>5, EmptyAndStart, HeapHolds DEF TooDeep, Fail
<1>6. CASE Return
  <2>1. given' = given /\ heap' = heap /\ shallow' = shallow /\ failed' = failed /\ ~failed
    BY <1>0, <1>6 DEF Return, Running
  <2>2. \A i \in DOMAIN stack' : stack'[i].todo \subseteq DOMAIN heap'
    BY <1>0, <1>6, <2>1, PopIs
  <2> QED
    BY <1>0, <2>1, <2>2, HeapHolds
<1>7. CASE Fallback
  <2>1. given' = given /\ heap' = Fresh /\ stack' = Start /\ ~failed'
    BY <1>7 DEF Fallback
  <2>2. Sound(heap') /\ Tree(heap') /\ <<Root>> \in DOMAIN heap'
    BY <1>0, <2>1, FreshIsSound
  <2>3. \A i \in DOMAIN stack' : stack'[i].todo \subseteq DOMAIN heap'
    BY <2>1, <2>2, EmptyAndStart
  <2> QED
    BY <1>0, <2>1, <2>2, <2>3, HeapHolds
<1>8. CASE UNCHANGED vars
  <2>1. given' = given /\ heap' = heap /\ shallow' = shallow /\ failed' = failed /\ stack' = stack
    BY <1>8 DEF vars, resolver
  <2> QED
    BY <1>0, <2>1, HeapHolds
<1>9. QED
  BY <1>1, <1>2, <1>3, <1>4, <1>5, <1>6, <1>7, <1>8 DEF Next, Step, Finished

-----------------------------------------------------------------------------
(* Copying visits every map of the tree *)

\* What TreeInv says once it applies, map by map.
LEMMA TreeInvIs ==
    TreeInv /\ ~shallow /\ ~failed =>
        OnceInv /\ OwnerInv /\ \E B \in SUBSET DOMAIN heap : Seen(B)
BY DEF TreeInv

\* A map is pending when it is on the list of a frame.
LEMMA PendingIs ==
    /\ \A p : p \in Pending <=> \E i \in DOMAIN stack : p \in stack[i].todo
    /\ \A p : p \in Pending' <=> \E i \in DOMAIN stack' : p \in stack'[i].todo
BY DEF Pending

\* A circular reference is left with an excuse: it is being resolved further up.
LEMMA CircularIsExcused ==
    ASSUME HeapInv, StackInv, OwnerInv, NEW a, Calls(a), heap[a].ref # NoRef, IsCircular(heap[a].ref)
    PROVE  Excused(a)
<1>1. CASE ToRoot(heap[a].ref)
  BY <1>1 DEF Excused
<1>2. CASE heap[a].ref \in resolving
  <2>1. PICK i \in DOMAIN stack : stack[i].ref = heap[a].ref
    BY <1>2 DEF StackInv, MarkedWhileResolving
  <2>2. PICK b \in DOMAIN heap :
            /\ heap[b].ref = NoRef /\ given[heap[b].meant].ref = heap[a].ref
            /\ \A j \in DOMAIN stack : i <= j => \A p \in stack[j].todo : p = b \/ Below(b, p)
    BY <2>1 DEF OwnerInv
  <2>3. Len(stack) \in DOMAIN stack /\ i <= Len(stack) /\ a \in stack[Len(stack)].todo
    <3>1. /\ Len(stack) \in Nat \ {0} /\ DOMAIN stack = 1..Len(stack)
          /\ a \in stack[Len(stack)].todo
      BY TakenIs
    <3> QED
      BY <3>1
  <2>4. a = b \/ Below(b, a)
    BY <2>2, <2>3
  <2>5. Below(b, a)
    BY <2>2, <2>4
  <2> QED
    BY <2>2, <2>5 DEF Excused
<1> QED
  BY <1>1, <1>2 DEF IsCircular

\* Leaving a map as it is settles it.
LEMMA TreeLeave ==
    ASSUME HeapInv, StackInv, TreeInv, ~shallow, ~failed, NEW a, LeaveCircular(a)
    PROVE  OnceInv' /\ OwnerInv' /\ (\E B \in SUBSET DOMAIN heap : Seen(B))'
<1>1. /\ given' = given /\ heap' = heap /\ stack' = Taken(a) /\ Calls(a)
      /\ heap[a].ref # NoRef /\ IsCircular(heap[a].ref)
  BY DEF LeaveCircular
<1>2. /\ OnceInv /\ OwnerInv
  BY TreeInvIs
<1>3. PICK B \in SUBSET DOMAIN heap : Seen(B)
  BY TreeInvIs
<1>4. a \in DOMAIN heap /\ Excused(a)
  BY <1>1, <1>2, CallsInHeap, CircularIsExcused
<1>5. /\ Len(stack) \in DOMAIN stack /\ a \in stack[Len(stack)].todo
      /\ DOMAIN stack' = DOMAIN stack
      /\ \A i \in DOMAIN stack :
             /\ stack'[i].ref = stack[i].ref
             /\ stack'[i].todo = IF i = Len(stack) THEN stack[i].todo \ {a} ELSE stack[i].todo
  <2>1. Len(stack) \in Nat \ {0} /\ DOMAIN stack = 1..Len(stack) /\ a \in stack[Len(stack)].todo
    BY <1>1, TakenIs
  <2>2. Took(a)
    BY <1>1, TakeIs
  <2>3. Len(stack) \in DOMAIN stack
    BY <2>1
  <2> QED
    BY <2>1, <2>2, <2>3, Zenon DEF Took
<1>6. \A i \in DOMAIN stack : stack'[i].ref = stack[i].ref /\ stack'[i].todo \subseteq stack[i].todo
  BY <1>5
<1>7. OnceInv'
  BY <1>2, <1>5, <1>6 DEF OnceInv
<1>8. OwnerInv'
  BY <1>1, <1>2, <1>5, <1>6 DEF OwnerInv
<1>9. \A p \in Pending' : p \in Pending
  BY <1>5, <1>6, PendingIs
<1>10. \A p \in Pending : p \in Pending' \/ p = a
  BY <1>5, PendingIs
<1>11. a \in Pending /\ \A p \in Pending : ~Below(p, a)
  BY <1>2, <1>5, PendingIs DEF OnceInv
<1> DEFINE C == B \cup {a}
<1>12. /\ C \subseteq DOMAIN heap' /\ <<Root>> \in C \cup Pending'
  BY <1>1, <1>3, <1>4, <1>10 DEF Seen
<1>13. \A b \in C : IF heap[b].ref = NoRef THEN Range(heap[b].kids) \subseteq C \cup Pending' ELSE Excused(b)
  BY <1>1, <1>3, <1>4, <1>10 DEF Seen
<1>14. \A b \in C, p \in Pending' : ~Below(p, b)
  BY <1>3, <1>9, <1>11 DEF Seen
<1>15. \A b : Excused(b)' <=> Excused(b)
  BY <1>1 DEF Excused
<1> HIDE DEF C
<1>16. Seen(C)'
  BY <1>1, <1>12, <1>13, <1>14, <1>15 DEF Seen
<1> QED
  BY <1>7, <1>8, <1>12, <1>16

\* What a call is about is in no circle with anything else there is to visit.
LEMMA AroundCall ==
    ASSUME HeapInv, StackInv, OnceInv, NEW a, Calls(a)
    PROVE  /\ a \in DOMAIN heap /\ DOMAIN heap \subseteq Address /\ a \in Pending /\ Pending \subseteq DOMAIN heap
           /\ \A p \in Pending : ~Below(p, a) /\ ~Below(a, p)
           /\ Len(stack) \in Nat \ {0} /\ DOMAIN stack = 1..Len(stack) /\ Len(stack) \in DOMAIN stack
           /\ a \in stack[Len(stack)].todo
           /\ \A i \in DOMAIN stack : a \in stack[i].todo => i = Len(stack)
<1>1. a \in DOMAIN heap /\ DOMAIN heap \subseteq Address
  BY CallsInHeap DEF HeapInv, Sound
<1>2. Len(stack) \in Nat \ {0} /\ DOMAIN stack = 1..Len(stack) /\ a \in stack[Len(stack)].todo
  BY TakenIs
<1>3. Len(stack) \in DOMAIN stack
  BY <1>2
<1>4. a \in Pending /\ Pending \subseteq DOMAIN heap
  BY <1>2, <1>3, PendingIs DEF HeapInv
<1>5. \A p \in Pending : ~Below(p, a) /\ ~Below(a, p)
  BY <1>2, <1>3, PendingIs DEF OnceInv
<1>6. \A i \in DOMAIN stack : a \in stack[i].todo => i = Len(stack)
  BY <1>2, <1>3 DEF OnceInv
<1> QED
  BY <1>1, <1>2, <1>3, <1>4, <1>5, <1>6

\* The frames once a call enters something.
LEMMA PushedFrames ==
    ASSUME NEW a, NEW ref, NEW todo, Pushed(a, ref, todo), NEW n, n = Len(stack), n \in Nat, DOMAIN stack = 1..n,
           \A i \in DOMAIN stack : a \in stack[i].todo => i = n
    PROVE  /\ DOMAIN stack' = 1..(n + 1)
           /\ \A i \in DOMAIN stack' : i \in DOMAIN stack \/ i = n + 1
           /\ \A i \in DOMAIN stack : /\ i \in DOMAIN stack' /\ i # n + 1 /\ stack'[i].ref = stack[i].ref
                                      /\ \A p : p \in stack'[i].todo <=> p \in stack[i].todo /\ p # a
           /\ n + 1 \in DOMAIN stack' /\ stack'[n + 1].ref = ref /\ stack'[n + 1].todo = todo
           /\ \A p : p \in Pending' <=> (p \in Pending /\ p # a) \/ p \in todo
<1>1. /\ DOMAIN stack' = 1..(n + 1)
      /\ \A i \in DOMAIN stack : /\ stack'[i].ref = stack[i].ref
                                 /\ stack'[i].todo = IF i = n THEN stack[i].todo \ {a} ELSE stack[i].todo
      /\ stack'[n + 1].ref = ref /\ stack'[n + 1].todo = todo
  BY DEF Pushed
<1>2. \A i \in DOMAIN stack' : i \in DOMAIN stack \/ i = n + 1
  BY <1>1
<1>3. n + 1 \in DOMAIN stack' /\ \A i \in DOMAIN stack : i \in DOMAIN stack' /\ i # n + 1
  BY <1>1
<1>4. \A i \in DOMAIN stack : \A p : p \in stack'[i].todo <=> p \in stack[i].todo /\ p # a
  BY <1>1
<1>5. \A p : p \in Pending' <=> (p \in Pending /\ p # a) \/ p \in todo
  <2> TAKE p
  <2>1. p \in Pending <=> \E i \in DOMAIN stack : p \in stack[i].todo
    BY PendingIs
  <2>2. p \in Pending' <=> \E i \in DOMAIN stack' : p \in stack'[i].todo
    BY PendingIs
  <2> QED
    BY <1>1, <1>2, <1>3, <1>4, <2>1, <2>2
<1> QED
  BY <1>1, <1>2, <1>3, <1>4, <1>5

\* Entering a map settles it and leaves its values to visit.
LEMMA TreeDescend ==
    ASSUME HeapInv, StackInv, TreeInv, ~shallow, ~failed, NEW a, Descend(a)
    PROVE  OnceInv' /\ OwnerInv' /\ (\E B \in SUBSET DOMAIN heap : Seen(B))'
<1> DEFINE n == Len(stack)
           Q == Range(heap[a].kids)
<1>1. /\ given' = given /\ heap' = heap /\ Calls(a) /\ heap[a].ref = NoRef
      /\ stack' = Append(Taken(a), Frame(NoRef, Q))
  BY DEF Descend
<1>2. /\ OnceInv /\ OwnerInv
  BY TreeInvIs
<1>3. PICK B \in SUBSET DOMAIN heap : Seen(B)
  BY TreeInvIs
<1>4. /\ a \in DOMAIN heap /\ DOMAIN heap \subseteq Address /\ a \in Pending /\ Pending \subseteq DOMAIN heap
      /\ \A p \in Pending : ~Below(p, a) /\ ~Below(a, p)
      /\ n \in Nat /\ DOMAIN stack = 1..n /\ n \in DOMAIN stack /\ a \in stack[n].todo
      /\ \A i \in DOMAIN stack : i <= n /\ (a \in stack[i].todo => i = n)
  <2>1. \A i \in 1..n : i <= n
    OBVIOUS
  <2> QED
    BY <1>1, <1>2, <2>1, AroundCall
<1>5. Pushed(a, NoRef, Q)
  BY <1>1, PushIs
<1>6. ASSUME NEW p \in Q
      PROVE  /\ p \in DOMAIN heap /\ Below(a, p) /\ ~Below(p, a)
             /\ \A s \in DOMAIN heap : Below(s, p) <=> s = a \/ Below(s, a)
  <2>1. PICK k \in DOMAIN heap[a].kids : p = heap[a].kids[k]
    BY DEF Range
  <2>2. k \in Token /\ p = Append(a, k) /\ p \in DOMAIN heap
    <3>1. Sound(heap) /\ Tree(heap)
      BY DEF HeapInv
    <3>2. /\ \A b \in DOMAIN heap : \A j \in DOMAIN heap[b].kids :
                 j \in Token /\ heap[b].kids[j] = Append(b, j) /\ Append(b, j) \in DOMAIN heap
      BY <3>1, KidsAreIn
    <3> QED
      BY <1>4, <2>1, <3>2
  <2>3. \A s \in DOMAIN heap : Below(s, p) <=> s = a \/ Below(s, a)
    BY <1>4, <2>2, KidIsBelow
  <2>4. Below(a, p) /\ ~Below(p, a)
    BY <1>4, <2>2, <2>3, BelowOrders
  <2> QED
    BY <2>2, <2>3, <2>4
<1> HIDE DEF n, Q
<1>7. /\ DOMAIN stack' = 1..(n + 1)
      /\ \A i \in DOMAIN stack' : i \in DOMAIN stack \/ i = n + 1
      /\ \A i \in DOMAIN stack : /\ i \in DOMAIN stack' /\ i # n + 1 /\ stack'[i].ref = stack[i].ref
                                 /\ \A p : p \in stack'[i].todo <=> p \in stack[i].todo /\ p # a
      /\ n + 1 \in DOMAIN stack' /\ stack'[n + 1].ref = NoRef /\ stack'[n + 1].todo = Q
      /\ \A p : p \in Pending' <=> (p \in Pending /\ p # a) \/ p \in Q
  BY <1>4, <1>5, PushedFrames DEF n
<1>8. \A i \in DOMAIN stack : \A p \in stack[i].todo : p \in Pending /\ p \in DOMAIN heap
  BY <1>4, PendingIs
<1>9. OnceInv'
  <2> SUFFICES ASSUME NEW i \in DOMAIN stack', NEW j \in DOMAIN stack',
                      NEW p \in stack'[i].todo, NEW q \in stack'[j].todo
               PROVE  ~Below(p, q) /\ (p = q => i = j)
    BY DEF OnceInv
  <2>1. CASE i \in DOMAIN stack /\ j \in DOMAIN stack
    BY <1>2, <1>7, <2>1 DEF OnceInv
  <2>2. CASE i \in DOMAIN stack /\ j = n + 1
    BY <1>4, <1>6, <1>7, <1>8, <2>2
  <2>3. CASE i = n + 1 /\ j \in DOMAIN stack
    <3>1. p \in Q /\ q \in Pending /\ p \in Address /\ q \in Address /\ a \in Address
      BY <1>4, <1>6, <1>7, <1>8, <2>3
    <3>2. Below(a, p) /\ ~Below(a, q)
      BY <1>4, <1>6, <3>1
    <3> QED
      BY <3>1, <3>2, BelowOrders
  <2>4. CASE i = n + 1 /\ j = n + 1
    <3>1. p \in Q /\ q \in Q /\ p \in DOMAIN heap
      BY <1>6, <1>7, <2>4
    <3>2. Below(p, q) <=> p = a \/ Below(p, a)
      BY <1>6, <3>1
    <3>3. Below(a, p) /\ ~Below(p, a) /\ ~Below(a, a)
      BY <1>4, <1>6, <3>1
    <3> QED
      BY <2>4, <3>2, <3>3
  <2> QED
    BY <1>7, <2>1, <2>2, <2>3, <2>4
<1>10. OwnerInv'
  <2> SUFFICES ASSUME NEW i \in DOMAIN stack', stack'[i].ref # NoRef
               PROVE  \E b \in DOMAIN heap :
                        /\ heap[b].ref = NoRef /\ given[heap[b].meant].ref = stack'[i].ref
                        /\ \A j \in DOMAIN stack' : i <= j => \A p \in stack'[j].todo : p = b \/ Below(b, p)
    BY <1>1 DEF OwnerInv
  <2>1. i \in DOMAIN stack /\ stack[i].ref = stack'[i].ref
    BY <1>7
  <2>2. PICK b \in DOMAIN heap :
            /\ heap[b].ref = NoRef /\ given[heap[b].meant].ref = stack[i].ref
            /\ \A j \in DOMAIN stack : i <= j => \A p \in stack[j].todo : p = b \/ Below(b, p)
    BY <1>2, <2>1 DEF OwnerInv
  <2>3. a = b \/ Below(b, a)
    BY <1>4, <2>1, <2>2
  <2>4. ASSUME NEW j \in DOMAIN stack', i <= j, NEW p \in stack'[j].todo
        PROVE  p = b \/ Below(b, p)
    BY <1>6, <1>7, <2>2, <2>3, <2>4
  <2> QED
    BY <2>1, <2>2, <2>4
<1> DEFINE C == B \cup {a}
<1>11. C \in SUBSET DOMAIN heap /\ <<Root>> \in C \cup Pending'
  BY <1>3, <1>4, <1>7 DEF Seen
<1>12. \A b \in C : IF heap[b].ref = NoRef THEN Range(heap[b].kids) \subseteq C \cup Pending' ELSE Excused(b)
  <2>1. \A b \in B : IF heap[b].ref = NoRef THEN Range(heap[b].kids) \subseteq C \cup Pending' ELSE Excused(b)
    BY <1>3, <1>7 DEF Seen
  <2>2. Range(heap[a].kids) \subseteq C \cup Pending'
    BY <1>7 DEF Q
  <2> QED
    BY <1>1, <2>1, <2>2
<1>13. ASSUME NEW b \in C, NEW p \in Pending' PROVE ~Below(p, b)
  <2>1. CASE p \in Pending
    BY <1>3, <1>4, <2>1 DEF Seen
  <2>2. CASE p \in Q /\ b = a
    BY <1>6, <2>2
  <2>3. CASE p \in Q /\ b \in B
    <3>1. ~Below(a, b) /\ Below(a, p) /\ p \in Address /\ a \in Address /\ b \in Address
      BY <1>3, <1>4, <1>6, <2>3 DEF Seen
    <3> QED
      BY <3>1, BelowOrders
  <2> QED
    BY <1>7, <2>1, <2>2, <2>3
<1>14. \A b : Excused(b)' <=> Excused(b)
  BY <1>1 DEF Excused
<1> HIDE DEF C
<1>15. Seen(C)'
  BY <1>1, <1>11, <1>12, <1>13, <1>14 DEF Seen
<1> QED
  BY <1>1, <1>9, <1>10, <1>11, <1>15

\* Inlining copies the target over a map that is still to visit: what has been
\* visited is elsewhere.
LEMMA TreeInline ==
    ASSUME HeapInv, StackInv, TreeInv, ~shallow, ~failed, NEW a, Inline(a)
    PROVE  OnceInv' /\ OwnerInv' /\ (\E B \in SUBSET DOMAIN heap : Seen(B))'
<1> DEFINE n == Len(stack)
           r == heap[a].ref
           t == Found(r)
<1>1. /\ given' = given /\ Calls(a) /\ r # NoRef
      /\ t \in DOMAIN heap /\ heap' \in Inlined(a, t)
      /\ stack' = Append(Taken(a), Frame(r, {a}))
  BY DEF Inline, Resolves
<1>2. /\ OnceInv /\ OwnerInv
  BY TreeInvIs
<1>3. PICK B \in SUBSET DOMAIN heap : Seen(B)
  BY TreeInvIs
<1>4. /\ a \in DOMAIN heap /\ DOMAIN heap \subseteq Address /\ a \in Pending /\ Pending \subseteq DOMAIN heap
      /\ \A p \in Pending : ~Below(p, a) /\ ~Below(a, p)
      /\ n \in Nat /\ DOMAIN stack = 1..n /\ n \in DOMAIN stack /\ a \in stack[n].todo
      /\ \A i \in DOMAIN stack : i <= n /\ (a \in stack[i].todo => i = n)
  <2>1. \A i \in 1..n : i <= n
    OBVIOUS
  <2> QED
    BY <1>1, <1>2, <2>1, AroundCall
<1>5. Pushed(a, r, {a})
  BY <1>1, PushIs
<1> HIDE DEF t
<1>6. /\ Sound(heap) /\ Tree(heap) /\ r = given[heap[a].meant].ref
      /\ \A b \in DOMAIN heap : b # a /\ ~Below(a, b) => b \in DOMAIN heap' /\ heap'[b] = heap[b]
      /\ a \in DOMAIN heap' /\ heap'[a].ref = NoRef /\ heap'[a].meant = heap[a].meant
  <2>1. Sound(heap) /\ Tree(heap)
    BY DEF HeapInv
  <2>2. r = given[heap[a].meant].ref
    BY <1>1, <1>4, <2>1 DEF Sound
  <2> QED
    BY <1>1, <1>4, <2>1, <2>2, InlinedIsSound
<1> HIDE DEF n, r
<1>7. /\ DOMAIN stack' = 1..(n + 1)
      /\ \A i \in DOMAIN stack' : i \in DOMAIN stack \/ i = n + 1
      /\ \A i \in DOMAIN stack : /\ i \in DOMAIN stack' /\ i # n + 1 /\ stack'[i].ref = stack[i].ref
                                 /\ \A p : p \in stack'[i].todo <=> p \in stack[i].todo /\ p # a
      /\ n + 1 \in DOMAIN stack' /\ stack'[n + 1].ref = r /\ stack'[n + 1].todo = {a}
      /\ \A p : p \in Pending' <=> (p \in Pending /\ p # a) \/ p \in {a}
  BY <1>4, <1>5, PushedFrames DEF n
<1>8. \A i \in DOMAIN stack : \A p \in stack[i].todo : p \in Pending /\ p \in DOMAIN heap
  BY <1>4, PendingIs
<1>9. OnceInv'
  <2> SUFFICES ASSUME NEW i \in DOMAIN stack', NEW j \in DOMAIN stack',
                      NEW p \in stack'[i].todo, NEW q \in stack'[j].todo
               PROVE  ~Below(p, q) /\ (p = q => i = j)
    BY DEF OnceInv
  <2>1. CASE i \in DOMAIN stack /\ j \in DOMAIN stack
    BY <1>2, <1>7, <2>1 DEF OnceInv
  <2>2. CASE i \in DOMAIN stack /\ j = n + 1
    BY <1>4, <1>7, <1>8, <2>2
  <2>3. CASE i = n + 1 /\ j \in DOMAIN stack
    BY <1>4, <1>7, <1>8, <2>3
  <2>4. CASE i = n + 1 /\ j = n + 1
    BY <1>4, <1>7, <2>4
  <2> QED
    BY <1>7, <2>1, <2>2, <2>3, <2>4
<1>10. OwnerInv'
  <2> SUFFICES ASSUME NEW i \in DOMAIN stack', stack'[i].ref # NoRef
               PROVE  \E b \in DOMAIN heap' :
                        /\ heap'[b].ref = NoRef /\ given[heap'[b].meant].ref = stack'[i].ref
                        /\ \A j \in DOMAIN stack' : i <= j => \A p \in stack'[j].todo : p = b \/ Below(b, p)
    BY <1>1 DEF OwnerInv
  <2>1. CASE i \in DOMAIN stack
    <3>1. PICK b \in DOMAIN heap :
              /\ heap[b].ref = NoRef /\ given[heap[b].meant].ref = stack[i].ref
              /\ \A j \in DOMAIN stack : i <= j => \A p \in stack[j].todo : p = b \/ Below(b, p)
      BY <1>2, <1>7, <2>1 DEF OwnerInv
    <3>2. b # a /\ Below(b, a)
      BY <1>1, <1>4, <2>1, <3>1 DEF r
    <3>3. ~Below(a, b)
      BY <1>4, <3>2, BelowOrders
    <3>4. b \in DOMAIN heap' /\ heap'[b] = heap[b]
      BY <1>6, <3>2, <3>3
    <3>5. ASSUME NEW j \in DOMAIN stack', i <= j, NEW p \in stack'[j].todo
          PROVE  p = b \/ Below(b, p)
      BY <1>7, <3>1, <3>2, <3>5
    <3> QED
      BY <1>7, <2>1, <3>1, <3>4, <3>5
  <2>2. CASE i = n + 1
    <3>1. \A j \in DOMAIN stack' : i <= j => j = n + 1
      BY <1>4, <1>7, <2>2
    <3>2. \A j \in DOMAIN stack' : i <= j => \A p \in stack'[j].todo : p = a
      BY <1>7, <3>1
    <3>3. given[heap'[a].meant].ref = stack'[i].ref
      BY <1>6, <1>7, <2>2
    <3> QED
      BY <1>6, <3>2, <3>3
  <2> QED
    BY <1>7, <2>1, <2>2
<1> DEFINE C == B \ {a}
<1>11. ASSUME NEW b \in C PROVE b \in DOMAIN heap /\ b # a /\ ~Below(a, b) /\ b \in DOMAIN heap' /\ heap'[b] = heap[b]
  BY <1>3, <1>4, <1>6 DEF Seen
<1>12. C \in SUBSET DOMAIN heap' /\ <<Root>> \in C \cup Pending'
  BY <1>3, <1>7, <1>11 DEF Seen
<1>13. ASSUME NEW b \in C
       PROVE  IF heap'[b].ref = NoRef THEN Range(heap'[b].kids) \subseteq C \cup Pending' ELSE Excused(b)'
  <2>1. CASE heap[b].ref = NoRef
    <3>1. Range(heap[b].kids) \subseteq B \cup Pending
      BY <1>3, <2>1 DEF Seen
    <3> QED
      BY <1>7, <1>11, <2>1, <3>1
  <2>2. CASE heap[b].ref # NoRef
    <3>1. Excused(b)
      BY <1>3, <2>2 DEF Seen
    <3>2. ASSUME NEW c \in DOMAIN heap, Below(c, b)
          PROVE  c \in DOMAIN heap' /\ heap'[c] = heap[c]
      <4>1. c # a /\ ~Below(a, c)
        BY <1>4, <1>11, <3>2, BelowOrders
      <4> QED
        BY <1>6, <4>1
    <3>3. Excused(b)'
      BY <1>1, <1>11, <3>1, <3>2 DEF Excused
    <3> QED
      BY <1>11, <2>2, <3>3
  <2> QED
    BY <2>1, <2>2
<1>14. \A b \in C, p \in Pending' : ~Below(p, b)
  BY <1>3, <1>4, <1>7 DEF Seen
<1> HIDE DEF C
<1>15. Seen(C)'
  BY <1>12, <1>13, <1>14 DEF Seen
<1> QED
  BY <1>9, <1>10, <1>12, <1>15

\* Returning from a map leaves nothing out.
LEMMA TreeReturn ==
    ASSUME HeapInv, StackInv, TreeInv, ~shallow, ~failed, Return
    PROVE  OnceInv' /\ OwnerInv' /\ (\E B \in SUBSET DOMAIN heap : Seen(B))'
<1> DEFINE n == Len(stack)
<1>1. given' = given /\ heap' = heap
  BY DEF Return
<1>2. /\ OnceInv /\ OwnerInv
  BY TreeInvIs
<1>3. PICK B \in SUBSET DOMAIN heap : Seen(B)
  BY TreeInvIs
<1>4. /\ n \in Nat \ {0} /\ DOMAIN stack = 1..n /\ stack[n].todo = {}
      /\ DOMAIN stack' = 1..(n - 1)
      /\ \A i \in 1..(n - 1) : stack'[i] = stack[i]
  BY PopIs
<1> HIDE DEF n
<1>5. /\ \A i \in DOMAIN stack' : i \in DOMAIN stack /\ stack'[i] = stack[i]
      /\ \A i \in DOMAIN stack : i \in DOMAIN stack' \/ stack[i].todo = {}
  BY <1>4
<1>6. \A p : p \in Pending' <=> p \in Pending
  <2> TAKE p
  <2>1. p \in Pending <=> \E i \in DOMAIN stack : p \in stack[i].todo
    BY PendingIs
  <2>2. p \in Pending' <=> \E i \in DOMAIN stack' : p \in stack'[i].todo
    BY PendingIs
  <2> QED
    BY <1>5, <2>1, <2>2
<1>7. OnceInv'
  BY <1>2, <1>5 DEF OnceInv
<1>8. OwnerInv'
  BY <1>1, <1>2, <1>5 DEF OwnerInv
<1>9. \A b : Excused(b)' <=> Excused(b)
  BY <1>1 DEF Excused
<1>10. Seen(B)'
  BY <1>1, <1>3, <1>6, <1>9 DEF Seen
<1> QED
  BY <1>1, <1>7, <1>8, <1>10

\* The second pass has everything before it.
LEMMA TreeFallback ==
    ASSUME HeapInv, Fallback
    PROVE  OnceInv' /\ OwnerInv' /\ (\E B \in SUBSET DOMAIN heap : Seen(B))'
<1>1. heap' = Fresh /\ stack' = Start /\ given \in Inputs
  BY DEF Fallback, HeapInv
<1>2. Sound(Fresh) /\ <<Root>> \in DOMAIN Fresh
  BY <1>1, FreshIsSound
<1>3. DOMAIN stack' = {1} /\ stack'[1].ref = NoRef /\ stack'[1].todo = {<<Root>>}
  BY <1>1, EmptyAndStart
<1>4. ~Below(<<Root>>, <<Root>>)
  BY <1>2, BelowOrders DEF Sound
<1>5. OnceInv'
  BY <1>3, <1>4 DEF OnceInv
<1>6. OwnerInv'
  BY <1>3 DEF OwnerInv
<1>7. <<Root>> \in Pending'
  BY <1>3, PendingIs
<1> DEFINE C == {}
<1>8. Seen(C)'
  BY <1>7 DEF Seen
<1>9. C \in SUBSET DOMAIN heap'
  OBVIOUS
<1> QED
  BY <1>5, <1>6, <1>8, <1>9

\* The sharing pass says nothing of trees.
LEMMA InitTree == Init => TreeInv
BY DEF Init, TreeInv

\* Every step of the copying pass settles what it takes off the lists, or leaves
\* it there.
LEMMA StepTree == HeapInv /\ StackInv /\ TreeInv /\ [Next]_vars => TreeInv'
<1> SUFFICES ASSUME HeapInv, StackInv, TreeInv, [Next]_vars, ~shallow', ~failed'
             PROVE  OnceInv' /\ OwnerInv' /\ (\E B \in SUBSET DOMAIN heap : Seen(B))'
  BY DEF TreeInv
<1>1. ASSUME NEW a, LeaveCircular(a)
      PROVE  OnceInv' /\ OwnerInv' /\ (\E B \in SUBSET DOMAIN heap : Seen(B))'
  <2>1. ~shallow /\ ~failed
    BY <1>1 DEF LeaveCircular
  <2> QED
    BY <1>1, <2>1, TreeLeave
<1>2. ASSUME NEW a, CannotResolve(a)
      PROVE  FALSE
  BY <1>2 DEF CannotResolve, Fail
<1>3. ASSUME NEW a, Inline(a)
      PROVE  OnceInv' /\ OwnerInv' /\ (\E B \in SUBSET DOMAIN heap : Seen(B))'
  <2>1. ~shallow /\ ~failed
    BY <1>3 DEF Inline
  <2> QED
    BY <1>3, <2>1, TreeInline
<1>4. ASSUME NEW a, Descend(a)
      PROVE  OnceInv' /\ OwnerInv' /\ (\E B \in SUBSET DOMAIN heap : Seen(B))'
  <2>1. ~shallow /\ ~failed
    BY <1>4 DEF Descend
  <2> QED
    BY <1>4, <2>1, TreeDescend
<1>5. CASE TooDeep
  BY <1>5 DEF TooDeep, Fail
<1>6. CASE Return
  <2>1. ~shallow /\ ~failed
    BY <1>6 DEF Return
  <2> QED
    BY <1>6, <2>1, TreeReturn
<1>7. CASE Fallback
  BY <1>7, TreeFallback
<1>8. CASE UNCHANGED vars
  <2>1. UNCHANGED <<given, heap, shallow, stack, failed>>
    BY <1>8 DEF vars, resolver
  <2>2. OnceInv /\ OwnerInv /\ \E B \in SUBSET DOMAIN heap : Seen(B)
    BY <2>1, TreeInvIs
  <2>3. OnceInv' /\ OwnerInv'
    BY <2>1, <2>2 DEF OnceInv, OwnerInv
  <2>4. PICK B \in SUBSET DOMAIN heap : Seen(B)
    BY <2>2
  <2>5. Seen(B)'
    BY <2>1, <2>4 DEF Seen, Pending, Excused
  <2> QED
    BY <2>1, <2>3, <2>4, <2>5
<1>9. QED
  BY <1>1, <1>2, <1>3, <1>4, <1>5, <1>6, <1>7, <1>8 DEF Next, Step, Finished

-----------------------------------------------------------------------------
(* Sharing follows every map to its end *)

\* A call puts its map, which holds no reference by then, under the frame it
\* pushes, whose list is what that frame owes.
LEMMA GraphCall ==
    ASSUME HeapInv, StackInv, GraphInv, shallow, ~circular, ~failed, NEW a, Calls(a), NEW ref, NEW todo,
           Pushed(a, ref, todo), IF ref = NoRef THEN Range(heap'[a].kids) \subseteq todo ELSE a \in todo,
           DOMAIN heap' = DOMAIN heap, heap'[a].ref = NoRef,
           \A b \in DOMAIN heap : b # a \/ heap[b].ref = NoRef => heap'[b] = heap[b]
    PROVE  (\E D \in SUBSET DOMAIN heap, own \in [DOMAIN stack -> DOMAIN heap] : DoneWith(D, own))'
<1> DEFINE n == Len(stack)
<1>1. PICK D \in SUBSET DOMAIN heap, own \in [DOMAIN stack -> DOMAIN heap] : DoneWith(D, own)
  BY DEF GraphInv
<1>2. /\ n \in Nat \ {0} /\ DOMAIN stack = 1..n /\ a \in DOMAIN heap
  BY TakenIs, CallsInHeap
<1>3. /\ DOMAIN stack' = 1..(n + 1)
      /\ \A i \in 1..n : /\ stack'[i].ref = stack[i].ref
                         /\ stack'[i].todo = IF i = n THEN stack[i].todo \ {a} ELSE stack[i].todo
      /\ stack'[n + 1].ref = ref /\ stack'[n + 1].todo = todo
  BY DEF Pushed
<1> HIDE DEF n
<1>4. PICK mine \in [DOMAIN stack' -> DOMAIN heap'] : mine[n + 1] = a /\ \A i \in 1..n : mine[i] = own[i]
  <2> DEFINE f == [i \in DOMAIN stack' |-> IF i = n + 1 THEN a ELSE own[i]]
  <2>1. f \in [DOMAIN stack' -> DOMAIN heap'] /\ f[n + 1] = a /\ \A i \in 1..n : f[i] = own[i]
    BY <1>1, <1>2, <1>3
  <2> QED
    BY <2>1
<1>5. /\ \A x \in D : heap[x].ref = NoRef /\ Range(heap[x].kids) \subseteq D /\ x \in DOMAIN heap
      /\ \A S \in SUBSET D : S # {} => \E x \in S : Range(heap[x].kids) \cap S = {}
      /\ \A i \in DOMAIN stack : i # 1 => heap[own[i]].ref = NoRef /\ own[i] \in DOMAIN heap
      /\ \A i \in DOMAIN stack :
             Duty(own, i) \subseteq D \cup stack[i].todo \cup {own[j] : j \in {i + 1} \cap DOMAIN stack}
  BY <1>1 DEF DoneWith
<1>6. \A x \in D : heap'[x] = heap[x]
  BY <1>5
<1>7. \A i \in 1..n : i # 1 => heap'[own[i]] = heap[own[i]]
  BY <1>2, <1>5
<1>8. \A x \in D : heap'[x].ref = NoRef /\ Range(heap'[x].kids) \subseteq D
  BY <1>5, <1>6
<1>9. \A S \in SUBSET D : S # {} => \E x \in S : Range(heap'[x].kids) \cap S = {}
  BY <1>5, <1>6
<1>10. \A i \in DOMAIN stack' : i # 1 => heap'[mine[i]].ref = NoRef
  <2>1. \A i \in DOMAIN stack' : i \in 1..n \/ i = n + 1
    BY <1>2, <1>3
  <2> QED
    BY <1>2, <1>4, <1>5, <1>7, <2>1
<1>11. ASSUME NEW i \in DOMAIN stack'
       PROVE  Duty(mine, i)' \subseteq D \cup stack'[i].todo \cup {mine[j] : j \in {i + 1} \cap DOMAIN stack'}
  <2>1. CASE i \in 1..n
    <3>1. Duty(mine, i)' = Duty(own, i)
      BY <1>2, <1>3, <1>4, <1>7, <2>1 DEF Duty
    <3>2. Duty(own, i) \subseteq D \cup stack[i].todo \cup {own[j] : j \in {i + 1} \cap DOMAIN stack}
      BY <1>2, <1>5, <2>1
    <3>3. mine[i + 1] \in {mine[j] : j \in {i + 1} \cap DOMAIN stack'}
      <4>1. i + 1 \in {i + 1} \cap DOMAIN stack'
        BY <1>2, <1>3, <2>1
      <4> QED
        BY <4>1
    <3>4. CASE i = n
      <4>1. n + 1 \notin DOMAIN stack
        BY <1>2
      <4>2. Duty(own, i) \subseteq D \cup stack[i].todo
        BY <3>2, <3>4, <4>1
      <4>3. stack'[i].todo = stack[i].todo \ {a} /\ mine[i + 1] = a
        BY <1>2, <1>3, <1>4, <2>1, <3>4
      <4> QED
        BY <3>1, <3>3, <4>2, <4>3
    <3>5. CASE i # n
      <4>1. i + 1 \in 1..n
        BY <1>2, <2>1, <3>5
      <4>2. mine[i + 1] = own[i + 1] /\ stack'[i].todo = stack[i].todo
        BY <1>3, <1>4, <2>1, <3>5, <4>1
      <4>3. {own[j] : j \in {i + 1} \cap DOMAIN stack} \subseteq {mine[i + 1]}
        BY <4>2
      <4> QED
        BY <3>1, <3>2, <3>3, <4>2, <4>3
    <3> QED
      BY <3>4, <3>5
  <2>2. CASE i = n + 1
    <3>1. i # 1 /\ mine[i] = a /\ stack'[i].ref = ref /\ stack'[i].todo = todo
      BY <1>2, <1>3, <1>4, <2>2
    <3>2. Duty(mine, i)' \subseteq todo
      BY <3>1 DEF Duty
    <3> QED
      BY <3>1, <3>2
  <2> QED
    BY <1>2, <1>3, <2>1, <2>2
<1>12. stack' # << >>
  BY <1>2, <1>3, EmptyAndStart
<1>13. DoneWith(D, mine)'
  BY <1>8, <1>9, <1>10, <1>11, <1>12 DEF DoneWith
<1>14. D \in SUBSET DOMAIN heap'
  BY <1>1
<1> QED
  BY <1>4, <1>13, <1>14

\* Returning, the frame's map is done with.
LEMMA GraphReturn ==
    ASSUME HeapInv, StackInv, GraphInv, shallow, ~circular, ~failed, Return
    PROVE  (\E D \in SUBSET DOMAIN heap, own \in [DOMAIN stack -> DOMAIN heap] : DoneWith(D, own))'
<1> DEFINE n == Len(stack)
<1>1. PICK D \in SUBSET DOMAIN heap, own \in [DOMAIN stack -> DOMAIN heap] : DoneWith(D, own)
  BY DEF GraphInv
<1>2. /\ n \in Nat \ {0} /\ DOMAIN stack = 1..n /\ stack[n].todo = {}
      /\ DOMAIN stack' = 1..(n - 1)
      /\ \A i \in 1..(n - 1) : stack'[i] = stack[i]
  BY PopIs
<1>3. heap' = heap
  BY DEF Return
<1> HIDE DEF n
<1>4. /\ \A x \in D : heap[x].ref = NoRef /\ Range(heap[x].kids) \subseteq D
      /\ \A S \in SUBSET D : S # {} => \E x \in S : Range(heap[x].kids) \cap S = {}
      /\ \A i \in DOMAIN stack : i # 1 => heap[own[i]].ref = NoRef
      /\ \A i \in DOMAIN stack :
             Duty(own, i) \subseteq D \cup stack[i].todo \cup {own[j] : j \in {i + 1} \cap DOMAIN stack}
  BY <1>1 DEF DoneWith
<1>5. n \in DOMAIN stack /\ n + 1 \notin DOMAIN stack /\ own[n] \in DOMAIN heap
  BY <1>1, <1>2
<1>6. Duty(own, n) \subseteq D
  BY <1>2, <1>4, <1>5
<1>7. PICK E \in SUBSET DOMAIN heap : E = IF n = 1 THEN D ELSE D \cup {own[n]}
  BY <1>1, <1>5
<1>8. PICK mine \in [DOMAIN stack' -> DOMAIN heap] : \A i \in 1..(n - 1) : mine[i] = own[i] /\ i \in DOMAIN stack
  <2> DEFINE f == [i \in DOMAIN stack' |-> own[i]]
  <2>1. f \in [DOMAIN stack' -> DOMAIN heap] /\ \A i \in 1..(n - 1) : f[i] = own[i] /\ i \in DOMAIN stack
    BY <1>1, <1>2
  <2> QED
    BY <2>1
<1>9. n # 1 => heap[own[n]].ref = NoRef /\ (Range(heap[own[n]].kids) \subseteq D \/ own[n] \in D)
  BY <1>4, <1>5, <1>6 DEF Duty
<1>10. \A x \in E : heap[x].ref = NoRef /\ Range(heap[x].kids) \subseteq E
  BY <1>4, <1>7, <1>9
<1>11. ASSUME NEW S \in SUBSET E, S # {}
       PROVE  \E x \in S : Range(heap[x].kids) \cap S = {}
  <2>1. CASE S \cap D = {}
    <3>1. n # 1 /\ S = {own[n]} /\ own[n] \notin D
      BY <1>7, <1>11, <2>1
    <3> QED
      BY <1>9, <2>1, <3>1
  <2>2. CASE S \cap D # {}
    <3> DEFINE T == S \cap D
    <3>1. PICK x \in T : Range(heap[x].kids) \cap T = {}
      BY <1>4, <2>2
    <3>2. Range(heap[x].kids) \subseteq D
      BY <1>4, <3>1
    <3> QED
      BY <3>1, <3>2
  <2> QED
    BY <2>1, <2>2
<1>12. ASSUME NEW i \in DOMAIN stack'
       PROVE  Duty(mine, i)' \subseteq E \cup stack'[i].todo \cup {mine[j] : j \in {i + 1} \cap DOMAIN stack'}
  <2>1. Duty(mine, i)' = Duty(own, i)
    BY <1>2, <1>3, <1>8 DEF Duty
  <2>2. Duty(own, i) \subseteq D \cup stack'[i].todo \cup {own[j] : j \in {i + 1} \cap DOMAIN stack}
    BY <1>2, <1>4, <1>8
  <2>3. i \in 1..(n - 1)
    BY <1>2
  <2>4. CASE i = n - 1
    <3>1. n # 1 /\ i + 1 = n
      BY <1>2, <2>3, <2>4
    <3> QED
      BY <1>7, <2>1, <2>2, <3>1
  <2>5. CASE i # n - 1
    <3>1. i + 1 \in 1..(n - 1)
      BY <1>2, <2>3, <2>5
    <3>2. mine[i + 1] = own[i + 1] /\ i + 1 \in DOMAIN stack'
      BY <1>2, <1>8, <3>1
    <3>3. own[i + 1] \in {mine[j] : j \in {i + 1} \cap DOMAIN stack'}
      BY <3>2
    <3> QED
      BY <1>7, <2>1, <2>2, <3>3
  <2> QED
    BY <2>4, <2>5
<1>13. stack' = << >> => <<Root>> \in E
  <2>1. stack' = << >> => n = 1
    BY <1>2, EmptyAndStart
  <2> QED
    BY <1>6, <1>7, <2>1 DEF Duty
<1>14. \A i \in DOMAIN stack' : i # 1 => heap[mine[i]].ref = NoRef
  BY <1>2, <1>4, <1>8
<1>15. DoneWith(E, mine)'
  BY <1>3, <1>10, <1>11, <1>12, <1>13, <1>14 DEF DoneWith
<1> QED
  BY <1>3, <1>7, <1>8, <1>15

\* Nothing is done with at the start.
LEMMA InitGraph == Init => GraphInv
<1> SUFFICES ASSUME Init
             PROVE  \E D \in SUBSET DOMAIN heap, own \in [DOMAIN stack -> DOMAIN heap] : DoneWith(D, own)
  BY DEF GraphInv
<1>1. heap = Fresh /\ stack = Start /\ given \in Inputs
  BY DEF Init
<1>2. <<Root>> \in DOMAIN heap
  BY <1>1, FreshIsSound
<1>3. DOMAIN stack = {1} /\ stack[1].todo = {<<Root>>} /\ stack # << >>
  BY <1>1, EmptyAndStart
<1> DEFINE D == {}
           own == [i \in {1} |-> <<Root>>]
<1>4. own \in [DOMAIN stack -> DOMAIN heap] /\ D \in SUBSET DOMAIN heap
  BY <1>2, <1>3
<1> HIDE DEF own
<1>5. DoneWith(D, own)
  BY <1>3 DEF DoneWith, Duty
<1> QED
  BY <1>4, <1>5

\* Every step of the sharing pass keeps it so.
LEMMA StepGraph == HeapInv /\ StackInv /\ GraphInv /\ [Next]_vars => GraphInv'
<1> SUFFICES ASSUME HeapInv, StackInv, GraphInv, [Next]_vars, shallow', ~circular', ~failed'
             PROVE  (\E D \in SUBSET DOMAIN heap, own \in [DOMAIN stack -> DOMAIN heap] : DoneWith(D, own))'
  BY DEF GraphInv
<1>1. ASSUME NEW a, LeaveCircular(a)
      PROVE  FALSE
  BY <1>1 DEF LeaveCircular
<1>2. ASSUME NEW a, CannotResolve(a)
      PROVE  FALSE
  BY <1>2 DEF CannotResolve, Fail
<1>3. ASSUME NEW a, Inline(a)
      PROVE  (\E D \in SUBSET DOMAIN heap, own \in [DOMAIN stack -> DOMAIN heap] : DoneWith(D, own))'
  <2> DEFINE t == Found(heap[a].ref)
             r == heap[a].ref
             n == [ref |-> NoRef, object |-> TRUE, meant |-> heap[a].meant,
                   kids |-> [k \in Copied(a, t) |-> heap[t].kids[k]]]
  <2>1. /\ Calls(a) /\ shallow /\ ~circular /\ ~failed /\ r # NoRef /\ heap' \in Inlined(a, t)
        /\ stack' = Append(Taken(a), Frame(r, {a}))
    BY <1>3 DEF Inline
  <2>2. a \in DOMAIN heap
    BY <2>1, CallsInHeap
  <2>3. heap' = [heap EXCEPT ![a] = n]
    BY <2>1 DEF Inlined, Shared
  <2>4. n.ref = NoRef
    OBVIOUS
  <2> HIDE DEF n, t
  <2>5. DOMAIN heap' = DOMAIN heap /\ heap'[a].ref = NoRef /\ \A b \in DOMAIN heap : b # a => heap'[b] = heap[b]
    BY <2>2, <2>3, <2>4
  <2>6. \A b \in DOMAIN heap : b # a \/ heap[b].ref = NoRef => heap'[b] = heap[b]
    BY <2>1, <2>5
  <2>7. Pushed(a, r, {a})
    BY <2>1, PushIs
  <2>8. IF r = NoRef THEN Range(heap'[a].kids) \subseteq {a} ELSE a \in {a}
    BY <2>1
  <2> HIDE DEF r
  <2> QED
    BY <2>1, <2>5, <2>6, <2>7, <2>8, GraphCall
<1>4. ASSUME NEW a, Descend(a)
      PROVE  (\E D \in SUBSET DOMAIN heap, own \in [DOMAIN stack -> DOMAIN heap] : DoneWith(D, own))'
  <2>1. /\ Calls(a) /\ shallow /\ ~circular /\ ~failed /\ heap' = heap /\ heap[a].ref = NoRef
        /\ stack' = Append(Taken(a), Frame(NoRef, Range(heap[a].kids)))
    BY <1>4 DEF Descend
  <2>2. Pushed(a, NoRef, Range(heap[a].kids))
    BY <2>1, PushIs
  <2> QED
    BY <2>1, <2>2, GraphCall
<1>5. CASE TooDeep
  BY <1>5 DEF TooDeep, Fail
<1>6. CASE Return
  <2>1. shallow /\ ~circular /\ ~failed
    BY <1>6 DEF Return
  <2> QED
    BY <1>6, <2>1, GraphReturn
<1>7. CASE Fallback
  BY <1>7 DEF Fallback
<1>8. CASE UNCHANGED vars
  <2>1. UNCHANGED <<heap, shallow, stack, circular, failed>>
    BY <1>8 DEF vars, resolver
  <2>2. PICK D \in SUBSET DOMAIN heap, own \in [DOMAIN stack -> DOMAIN heap] : DoneWith(D, own)
    BY <2>1 DEF GraphInv
  <2>3. DoneWith(D, own)'
    BY <2>1, <2>2 DEF DoneWith, Duty
  <2> QED
    BY <2>1, <2>2, <2>3
<1>9. QED
  BY <1>1, <1>2, <1>3, <1>4, <1>5, <1>6, <1>7, <1>8 DEF Next, Step, Finished

-----------------------------------------------------------------------------
(* What can be reached in the end *)

\* The maps one step further are those that the maps without a reference hold.
Further(X) == UNION {Range(heap[a].kids) : a \in {b \in X : heap[b].ref = NoRef}}
LEMMA Levels ==
    ASSUME Sound(heap)
    PROVE  /\ After(0) = {<<Root>>}
           /\ \A n \in Nat : After(n) \in SUBSET DOMAIN heap /\ After(n + 1) = Further(After(n))
<1> DEFINE level[i \in Nat] ==
              IF i = 0 THEN {<<Root>>}
              ELSE UNION {Range(heap[a].kids) : a \in {b \in level[i - 1] : heap[b].ref = NoRef}}
           F == [p \in Nat \X SUBSET DOMAIN heap |-> Further(p[2])]
<1>1. \A i \in Nat : \A X \in SUBSET DOMAIN heap : F[<<i, X>>] = Further(X)
  OBVIOUS
<1> HIDE DEF F
<1>2. \A X \in SUBSET DOMAIN heap : Further(X) \in SUBSET DOMAIN heap
  BY DEF Further, Sound
<1>3. PICK f \in [Nat -> SUBSET DOMAIN heap] : Recursive(f, {<<Root>>}, F)
  <2> DEFINE Y == SUBSET DOMAIN heap
             first == {<<Root>>}
  <2>1. first \in Y /\ \A i \in Nat : \A X \in Y : F[<<i, X>>] \in Y
    BY <1>1, <1>2 DEF Sound
  <2> HIDE DEF Y, first
  <2>2. \E f \in [Nat -> Y] : Recursive(f, first, F)
    BY <2>1, RecursionIn
  <2> QED
    BY <2>2 DEF Y, first
<1>4. /\ f[0] = {<<Root>>}
      /\ \A i \in Nat : i # 0 => f[i] = F[<<i, f[i - 1]>>]
      /\ f = [i \in Nat |-> f[i]]
  BY <1>3 DEF Recursive
<1>5. \A i \in Nat : f[i] \in SUBSET DOMAIN heap
  BY <1>3
<1>6. \A i \in Nat : i # 0 => f[i] = Further(f[i - 1])
  <2> TAKE i \in Nat
  <2> HAVE i # 0
  <2>1. i - 1 \in Nat
    OBVIOUS
  <2>2. f[i - 1] \in SUBSET DOMAIN heap
    BY <1>5, <2>1
  <2> QED
    BY <1>1, <1>4, <2>2
<1>7. f = [i \in Nat |-> IF i = 0 THEN {<<Root>>}
                         ELSE UNION {Range(heap[a].kids) : a \in {b \in f[i - 1] : heap[b].ref = NoRef}}]
  <2>1. f = [i \in Nat |-> f[i]]
    BY <1>4
  <2>2. \A i \in Nat : f[i] = IF i = 0 THEN {<<Root>>}
                         ELSE UNION {Range(heap[a].kids) : a \in {b \in f[i - 1] : heap[b].ref = NoRef}}
    BY <1>4, <1>6 DEF Further
  <2> QED
    BY <2>1, <2>2
<1>8. level = [i \in Nat |-> IF i = 0 THEN {<<Root>>}
                         ELSE UNION {Range(heap[a].kids) : a \in {b \in level[i - 1] : heap[b].ref = NoRef}}]
  BY <1>7 DEF level
<1>9. \A n : After(n) = level[n]
  BY DEF After
<1> HIDE DEF level
<1>10. \A n \in Nat : level[n] = f[n]
  <2> DEFINE T == {i \in Nat : level[i] = f[i]}
  <2>1. 0 \in T
    BY <1>4, <1>8
  <2>2. ASSUME NEW i \in T PROVE i + 1 \in T
    <3>1. i + 1 \in Nat /\ i + 1 # 0 /\ (i + 1) - 1 = i
      OBVIOUS
    <3>2. level[i + 1] = Further(level[i])
      BY <1>8, <3>1 DEF Further
    <3>3. f[i + 1] = Further(f[i])
      BY <1>6, <3>1
    <3> QED
      BY <3>1, <3>2, <3>3
  <2>3. T \in SUBSET Nat
    OBVIOUS
  <2> HIDE DEF T
  <2>4. T = Nat
    BY <2>1, <2>2, <2>3, Induct
  <2> QED
    BY <2>4 DEF T
<1>11. ASSUME NEW n \in Nat
       PROVE  After(n) \in SUBSET DOMAIN heap /\ After(n + 1) = Further(After(n))
  <2>1. n + 1 \in Nat /\ n + 1 # 0 /\ (n + 1) - 1 = n
    OBVIOUS
  <2>2. f[n + 1] = Further(f[n])
    BY <1>6, <2>1
  <2> QED
    BY <1>5, <1>9, <1>10, <2>1, <2>2
<1>12. After(0) = {<<Root>>}
  BY <1>4, <1>9, <1>10
<1> QED
  BY <1>11, <1>12

\* Whatever has the root, and with a map the maps it leads to, has them all.
LEMMA ReachedIsIn ==
    ASSUME Sound(heap), NEW X, <<Root>> \in X, \A x \in X : heap[x].ref = NoRef => Range(heap[x].kids) \subseteq X
    PROVE  Reached \subseteq X /\ \A n \in Nat : After(n) \subseteq X
<1> DEFINE T == {n \in Nat : After(n) \subseteq X}
<1>1. 0 \in T
  BY Levels
<1>2. ASSUME NEW n \in T PROVE n + 1 \in T
  BY Levels DEF Further
<1>3. T \in SUBSET Nat
  OBVIOUS
<1> HIDE DEF T
<1>4. T = Nat
  BY <1>1, <1>2, <1>3, Induct
<1>5. \A n \in Nat : After(n) \subseteq X
  BY <1>4 DEF T
<1>6. \A n \in 0..Cardinality(DOMAIN heap) : n \in Nat
  BY FS_CardinalityType DEF Sound
<1> QED
  BY <1>5, <1>6 DEF Reached

\* The invariant of the resolver.
ResolverInv == HeapInv /\ StackInv /\ TreeInv /\ GraphInv

\* In the copied tree, what is reached has been visited.
LEMMA DoneIsSeen ==
    ASSUME ResolverInv, stack = << >>, ~shallow, ~failed
    PROVE  \A a \in Left : Excused(a)
<1>1. PICK B \in SUBSET DOMAIN heap : Seen(B)
  BY TreeInvIs DEF ResolverInv
<1>2. Pending = {}
  BY EmptyAndStart DEF Pending
<1>3. Sound(heap)
  BY DEF ResolverInv, HeapInv
<1>4. <<Root>> \in B /\ \A b \in B : IF heap[b].ref = NoRef THEN Range(heap[b].kids) \subseteq B ELSE Excused(b)
  BY <1>1, <1>2 DEF Seen
<1>5. Reached \subseteq B
  BY <1>3, <1>4, ReachedIsIn
<1> QED
  BY <1>4, <1>5 DEF Left

\* In the shared graph that is accepted, what is reached is done with.
LEMMA DoneIsGraph ==
    ASSUME ResolverInv, Accepted
    PROVE  \E D \in SUBSET DOMAIN heap :
             /\ Reached \subseteq D /\ \A n \in Nat : After(n) \subseteq D
             /\ \A x \in D : heap[x].ref = NoRef
             /\ \A S \in SUBSET D : S # {} => \E x \in S : Range(heap[x].kids) \cap S = {}
<1>1. stack = << >> /\ shallow /\ ~circular /\ ~failed
  BY DEF Accepted, NeedsFallback, Running
<1>2. PICK D \in SUBSET DOMAIN heap, own \in [DOMAIN stack -> DOMAIN heap] : DoneWith(D, own)
  BY <1>1 DEF ResolverInv, GraphInv
<1>3. /\ \A x \in D : heap[x].ref = NoRef /\ Range(heap[x].kids) \subseteq D
      /\ \A S \in SUBSET D : S # {} => \E x \in S : Range(heap[x].kids) \cap S = {}
      /\ <<Root>> \in D
  BY <1>1, <1>2 DEF DoneWith
<1>4. Sound(heap)
  BY DEF ResolverInv, HeapInv
<1>5. Reached \subseteq D /\ \A n \in Nat : After(n) \subseteq D
  BY <1>3, <1>4, ReachedIsIn
<1> QED
  BY <1>3, <1>5

\* The invariant holds at the start and is kept by every step.
LEMMA ResolverInvariant == Spec => []ResolverInv
<1>1. Init => ResolverInv
  BY InitHeap, InitStack, InitTree, InitGraph DEF ResolverInv
<1>2. ResolverInv /\ [Next]_vars => ResolverInv'
  BY StepHeap, StepStack, StepTree, StepGraph DEF ResolverInv
<1> QED
  BY <1>1, <1>2, PTL DEF Spec

\* Whatever documents are given: when the resolver has finished without an error,
\* a reference is left only where it is circular, and none when the outcome of the
\* sharing pass is taken (parser/resolver.go, resolveRefsRecursive; parser/parser.go,
\* resolveRefsInMap).
THEOREM OnlyCircularRefsEverRemain == Spec => []OnlyCircularRefsRemain
<1>1. ResolverInv => OnlyCircularRefsRemain
  <2> SUFFICES ASSUME ResolverInv, Done, ~failed, NEW a \in Left
               PROVE  ~shallow /\ Excused(a)
    BY DEF OnlyCircularRefsRemain, Excused
  <2>1. CASE Accepted
    <3>1. PICK D \in SUBSET DOMAIN heap : Reached \subseteq D /\ \A x \in D : heap[x].ref = NoRef
      BY <2>1, DoneIsGraph
    <3> QED
      BY <3>1 DEF Left
  <2>2. CASE ~Running /\ ~shallow
    BY <2>2, DoneIsSeen DEF Running
  <2> QED
    BY <2>1, <2>2 DEF Done
<1> QED
  BY <1>1, ResolverInvariant, PTL

\* What is reached after n steps is reached on a path of n steps.
Path(p, n) ==
    /\ p \in [0..n -> DOMAIN heap] /\ p[0] = <<Root>>
    /\ \A i \in 0..n : p[i] \in After(i)
    /\ \A i \in 0..n : i # n => p[i + 1] \in Range(heap[p[i]].kids)
LEMMA PathTo ==
    ASSUME Sound(heap), NEW n \in Nat, NEW a \in After(n)
    PROVE  \E p : Path(p, n)
<1> DEFINE T == {m \in Nat : \A b \in After(m) : \E p : Path(p, m) /\ p[m] = b}
<1>1. 0 \in T
  <2> SUFFICES ASSUME NEW b \in After(0) PROVE \E p : Path(p, 0) /\ p[0] = b
    OBVIOUS
  <2> DEFINE p == [i \in 0..0 |-> <<Root>>]
  <2>1. p[0] = <<Root>> /\ b = <<Root>> /\ p \in [0..0 -> DOMAIN heap] /\ \A i \in 0..0 : i = 0
    BY Levels DEF Sound
  <2> HIDE DEF p
  <2>2. Path(p, 0) /\ p[0] = b
    BY <2>1 DEF Path
  <2> QED
    BY <2>2
<1>2. ASSUME NEW m \in T PROVE m + 1 \in T
  <2> SUFFICES ASSUME NEW b \in After(m + 1) PROVE \E p : Path(p, m + 1) /\ p[m + 1] = b
    OBVIOUS
  <2>1. After(m) \in SUBSET DOMAIN heap /\ After(m + 1) \in SUBSET DOMAIN heap /\ After(m + 1) = Further(After(m))
    BY Levels
  <2>2. PICK c \in After(m) : b \in Range(heap[c].kids)
    BY <2>1 DEF Further
  <2>3. PICK q : Path(q, m) /\ q[m] = c
    OBVIOUS
  <2> DEFINE p == [i \in 0..(m + 1) |-> IF i = m + 1 THEN b ELSE q[i]]
  <2>4. /\ \A i \in 0..m : p[i] = q[i] /\ q[i] \in DOMAIN heap
        /\ p[m + 1] = b /\ p \in [0..(m + 1) -> DOMAIN heap]
    BY <2>1, <2>3 DEF Path
  <2> HIDE DEF p
  <2>5. \A i \in 0..(m + 1) : i \in 0..m \/ i = m + 1
    OBVIOUS
  <2>6. \A i \in 0..(m + 1) : p[i] \in After(i)
    BY <2>3, <2>4, <2>5 DEF Path
  <2>7. ASSUME NEW i \in 0..(m + 1), i # m + 1 PROVE p[i + 1] \in Range(heap[p[i]].kids)
    <3>1. CASE i = m
      BY <2>2, <2>3, <2>4, <3>1
    <3>2. CASE i # m
      <4>1. i \in 0..m /\ i + 1 \in 0..m
        BY <2>7, <3>2
      <4> QED
        BY <2>3, <2>4, <3>2, <4>1 DEF Path
    <3> QED
      BY <3>1, <3>2
  <2>8. p[0] = <<Root>>
    BY <2>3, <2>4 DEF Path
  <2>9. Path(p, m + 1) /\ p[m + 1] = b
    BY <2>4, <2>6, <2>7, <2>8 DEF Path
  <2> QED
    BY <2>9
<1>3. T \in SUBSET Nat
  OBVIOUS
<1> HIDE DEF T
<1>4. T = Nat
  BY <1>1, <1>2, <1>3, Induct
<1> QED
  BY <1>4 DEF T

\* A path of as many steps as there are maps meets one twice.
LEMMA PathMeets ==
    ASSUME Sound(heap), NEW p, Path(p, Cardinality(DOMAIN heap))
    PROVE  \E x, y \in 0..Cardinality(DOMAIN heap) : x < y /\ p[x] = p[y]
<1> DEFINE n == Cardinality(DOMAIN heap)
<1>1. n \in Nat /\ IsFiniteSet(DOMAIN heap)
  BY FS_CardinalityType DEF Sound
<1>2. p \in [0..n -> DOMAIN heap]
  BY DEF Path
<1>3. IsFiniteSet(0..n) /\ Cardinality(0..n) = n + 1
  <2> HIDE DEF n
  <2>1. 0 \in Int /\ n \in Int /\ ~(0 > n) /\ n - 0 + 1 = n + 1
    BY <1>1
  <2> QED
    BY <2>1, FS_Interval
<1>4. Cardinality(DOMAIN heap) < Cardinality(0..n)
  <2>1. n < n + 1
    BY <1>1
  <2> QED
    BY <1>3, <2>1
<1>5. \E x, y \in 0..n : x # y /\ p[x] = p[y]
  BY <1>1, <1>2, <1>3, <1>4, FS_PigeonHole
<1> HIDE DEF n
<1>6. \E x, y \in 0..n : x < y /\ p[x] = p[y]
  BY <1>1, <1>5
<1> QED
  BY <1>6 DEF n

\* No map contains itself when the resolver has finished, whatever documents are
\* given and whatever went wrong on the way (parser/resolver.go: ShallowCopy,
\* HasCircularRefs; parser/parser.go, resolveRefsInMap).
THEOREM NeverPointerCycles == Spec => []NoPointerCycles
<1>1. ResolverInv => NoPointerCycles
  <2> DEFINE n == Cardinality(DOMAIN heap)
  <2> SUFFICES ASSUME ResolverInv, Done, NEW a \in After(n)
               PROVE  FALSE
    BY DEF NoPointerCycles
  <2>1. Sound(heap)
    BY DEF ResolverInv, HeapInv
  <2>2. n \in Nat
    BY <2>1, FS_CardinalityType DEF Sound
  <2>3. PICK p : Path(p, n)
    BY <2>1, <2>2, PathTo
  <2>4. PICK x \in 0..n, y \in 0..n : x < y /\ p[x] = p[y]
    BY <2>1, <2>3, PathMeets
  <2> HIDE DEF n
  <2>5. CASE shallow
    <3>1. Accepted
      BY <2>5 DEF Done
    <3>2. PICK D \in SUBSET DOMAIN heap :
             /\ \A m \in Nat : After(m) \subseteq D
             /\ \A S \in SUBSET D : S # {} => \E z \in S : Range(heap[z].kids) \cap S = {}
      BY <3>1, DoneIsGraph
    <3> DEFINE S == {p[i] : i \in x..(y - 1)}
    <3>3. \A i \in x..(y - 1) : i \in 0..n /\ i # n /\ i \in Nat
      BY <2>2
    <3>4. S \in SUBSET D
      BY <2>3, <3>2, <3>3 DEF Path
    <3>5. p[x] \in S
      BY <2>4
    <3>6. PICK i \in x..(y - 1) : Range(heap[p[i]].kids) \cap S = {}
      <4> HIDE DEF S
      <4>1. PICK z \in S : Range(heap[z].kids) \cap S = {}
        BY <3>2, <3>4, <3>5
      <4> QED
        BY <4>1 DEF S
    <3>7. p[i + 1] \in Range(heap[p[i]].kids)
      BY <2>3, <3>3 DEF Path
    <3>8. p[i + 1] \in S
      <4>1. CASE i + 1 = y
        BY <2>4, <3>5, <4>1
      <4>2. CASE i + 1 # y
        <5>1. i + 1 \in x..(y - 1)
          BY <2>2, <4>2
        <5> QED
          BY <5>1
      <4> QED
        BY <4>1, <4>2
    <3> QED
      BY <3>6, <3>7, <3>8
  <2>6. CASE ~shallow
    <3>1. Tree(heap)
      BY <2>6 DEF ResolverInv, HeapInv
    <3> DEFINE T == {i \in Nat : i <= n => Len(p[i]) = i + 1}
    <3>2. 0 \in T
      <4>1. Len(<<Root>>) = 1 /\ p[0] = <<Root>>
        BY <2>3 DEF Path
      <4> QED
        BY <4>1
    <3>3. ASSUME NEW i \in T PROVE i + 1 \in T
      <4> SUFFICES ASSUME i + 1 <= n PROVE Len(p[i + 1]) = (i + 1) + 1
        OBVIOUS
      <4>1. i \in 0..n /\ i # n /\ Len(p[i]) = i + 1
        BY <2>2
      <4>2. p[i] \in DOMAIN heap /\ p[i + 1] \in Range(heap[p[i]].kids)
        BY <2>3, <4>1 DEF Path
      <4>3. PICK k \in DOMAIN heap[p[i]].kids : p[i + 1] = heap[p[i]].kids[k]
        BY <4>2 DEF Range
      <4>4. k \in Token /\ p[i + 1] = Append(p[i], k)
        BY <3>1, <4>2, <4>3 DEF Tree
      <4>5. p[i] \in Address
        BY <2>1, <4>2 DEF Sound
      <4>6. Len(Append(p[i], k)) = Len(p[i]) + 1
        BY <4>4, <4>5, KidIsBelow
      <4> QED
        BY <4>1, <4>4, <4>6
    <3>4. T \in SUBSET Nat
      OBVIOUS
    <3> HIDE DEF T
    <3>5. T = Nat
      BY <3>2, <3>3, <3>4, Induct
    <3>6. Len(p[x]) = x + 1 /\ Len(p[y]) = y + 1
      BY <2>2, <3>5 DEF T
    <3> QED
      BY <2>2, <2>4, <3>6
  <2> QED
    BY <2>5, <2>6
<1> QED
  BY <1>1, ResolverInvariant, PTL

-----------------------------------------------------------------------------
(* What was inlined is what was written *)

\* One address begins with another when they agree as far as that goes.
LEMMA PrefixIs ==
    ASSUME NEW s \in Address, NEW t \in Address
    PROVE  IsPrefix(s, t) <=> Len(s) <= Len(t) /\ \A i \in 1..Len(s) : s[i] = t[i]
<1>1. Len(s) \in Nat /\ Len(t) \in Nat
  BY DEF Address
<1>2. IsPrefix(s, t) <=> Below(s, t) \/ s = t
  BY <1>1 DEF Below, IsStrictPrefix, IsPrefix
<1>3. Len(s) = Len(t) => (s = t <=> \A i \in 1..Len(s) : s[i] = t[i])
  BY SeqEqual DEF Address
<1>4. s = t => Len(s) = Len(t)
  OBVIOUS
<1>5. Below(s, t) <=> Len(s) < Len(t) /\ \A i \in 1..Len(s) : s[i] = t[i]
  BY BelowIs
<1> QED
  BY <1>1, <1>2, <1>3, <1>4, <1>5

\* Where references are direct, what one means is a place without references.
LEMMA DirectRefs ==
    ASSUME InputsAreDirect, given \in Inputs, NEW x \in DOMAIN given, given[x].ref # NoRef
    PROVE  /\ given[x].ref.path \in Seq(Token) /\ Base(given[x].ref) \in Address /\ Len(Base(given[x].ref)) = 1
           /\ Means(x) = Base(given[x].ref) \o given[x].ref.path /\ Means(x) \in Address
           /\ \A b \in DOMAIN given : given[b].ref # NoRef => ~IsPrefix(b, Means(x))
<1> DEFINE r == given[x].ref
<1>1. r \in Ref
  BY InputsAssumption DEF Written
<1>2. r.path \in Seq(Token) /\ r.file \in Token \cup {Here}
  BY <1>1 DEF Ref
<1>3. r.file = Here => Head(x) = Root
  BY DEF InputsAreDirect, IsDirect
<1>4. \A b \in DOMAIN given : given[b].ref # NoRef => ~IsPrefix(b, Base(r) \o r.path)
  BY DEF InputsAreDirect, IsDirect
<1> HIDE DEF r
<1>5. Base(r) \in Seq(Token) /\ Len(Base(r)) = 1
  BY <1>2, MarkersAssumption DEF Base
<1>6. Means(x) = Base(r) \o r.path
  BY <1>3 DEF Means, Base, r
<1>7. Base(r) \o r.path \in Seq(Token)
  BY <1>2, <1>5, ConcatProperties
<1> QED
  BY <1>2, <1>4, <1>5, <1>6, <1>7 DEF r, Address

\* A reference is followed once.
LEMMA FollowTwice ==
    ASSUME InputsAreDirect, given \in Inputs, NEW x \in DOMAIN given
    PROVE  Follow(x) \in DOMAIN given /\ Follow(Follow(x)) = Follow(x)
<1>1. CASE given[x].ref # NoRef /\ Means(x) \in DOMAIN given
  <2>1. Follow(x) = Means(x)
    BY <1>1 DEF Follow
  <2>2. Means(x) \in Address
    BY <1>1, DirectRefs
  <2>3. IsPrefix(Means(x), Means(x))
    BY <2>2, PrefixIs DEF Address
  <2>4. given[Means(x)].ref = NoRef
    BY <1>1, <2>3, DirectRefs
  <2>5. Follow(Means(x)) = Means(x)
    BY <2>4 DEF Follow
  <2> QED
    BY <1>1, <2>1, <2>5
<1>2. CASE ~(given[x].ref # NoRef /\ Means(x) \in DOMAIN given)
  <2>1. Follow(x) = x
    BY <1>2 DEF Follow
  <2> QED
    BY <2>1
<1> QED
  BY <1>1, <1>2

\* So it is clear what a map stands for.
LEMMA StandsForIs ==
    ASSUME InputsAreDirect, given \in Inputs, NEW x \in DOMAIN given
    PROVE  StandsFor(x) = Follow(x)
<1> DEFINE after[n \in Nat] == IF n = 0 THEN x ELSE Follow(after[n - 1])
           F == [p \in Nat \X DOMAIN given |-> Follow(p[2])]
<1>1. \A i \in Nat : \A y \in DOMAIN given : F[<<i, y>>] = Follow(y)
  OBVIOUS
<1> HIDE DEF F
<1>2. \A y \in DOMAIN given : Follow(y) \in DOMAIN given
  BY FollowTwice
<1>3. PICK f \in [Nat -> DOMAIN given] : Recursive(f, x, F)
  <2> DEFINE Y == DOMAIN given
  <2>1. x \in Y /\ \A i \in Nat : \A y \in Y : F[<<i, y>>] \in Y
    BY <1>1, <1>2
  <2> HIDE DEF Y
  <2>2. \E f \in [Nat -> Y] : Recursive(f, x, F)
    BY <2>1, RecursionIn
  <2> QED
    BY <2>2 DEF Y
<1>4. /\ f[0] = x /\ f = [i \in Nat |-> f[i]]
      /\ \A i \in Nat : i # 0 => f[i] = F[<<i, f[i - 1]>>]
  BY <1>3 DEF Recursive
<1>5. \A i \in Nat : i # 0 => f[i] = Follow(f[i - 1])
  <2> TAKE i \in Nat
  <2> HAVE i # 0
  <2>1. i - 1 \in Nat /\ f[i - 1] \in DOMAIN given
    BY <1>3
  <2> QED
    BY <1>1, <1>4, <2>1
<1>6. f = [n \in Nat |-> IF n = 0 THEN x ELSE Follow(f[n - 1])]
  BY <1>4, <1>5
<1>7. after = [n \in Nat |-> IF n = 0 THEN x ELSE Follow(after[n - 1])]
  BY <1>6 DEF after
<1>8. StandsFor(x) = after[Cardinality(DOMAIN given)]
  BY DEF StandsFor
<1> HIDE DEF after
<1> DEFINE T == {n \in Nat : after[n + 1] = Follow(x)}
<1>9. 0 \in T
  <2>1. 1 \in Nat /\ 1 # 0 /\ 1 - 1 = 0 /\ 0 + 1 = 1
    OBVIOUS
  <2>2. after[1] = Follow(after[0]) /\ after[0] = x
    BY <1>7, <2>1
  <2> QED
    BY <2>1, <2>2
<1>10. ASSUME NEW n \in T PROVE n + 1 \in T
  <2>1. (n + 1) + 1 \in Nat /\ (n + 1) + 1 # 0 /\ ((n + 1) + 1) - 1 = n + 1
    OBVIOUS
  <2>2. after[(n + 1) + 1] = Follow(after[n + 1])
    BY <1>7, <2>1
  <2> QED
    BY <2>1, <2>2, FollowTwice
<1>11. T \in SUBSET Nat
  OBVIOUS
<1> HIDE DEF T
<1>12. T = Nat
  BY <1>9, <1>10, <1>11, Induct
<1> DEFINE n == Cardinality(DOMAIN given)
<1>13. n \in Nat /\ n # 0
  <2>1. IsFiniteSet(DOMAIN given)
    BY InputsAssumption
  <2> QED
    BY <2>1, FS_CardinalityType, FS_EmptySet
<1> HIDE DEF n
<1>14. (n - 1) + 1 = n /\ n - 1 \in T
  BY <1>12, <1>13
<1> QED
  BY <1>8, <1>14 DEF T, n

\* The map that a reference finds was written where the reference means.
LEMMA FoundMeans ==
    ASSUME InputsAreDirect, given \in Inputs, Sound(heap), WrittenInv,
           NEW a \in DOMAIN heap, heap[a].ref # NoRef, Found(heap[a].ref) \in DOMAIN heap
    PROVE  /\ heap[Found(heap[a].ref)].meant = Follow(heap[a].meant)
           /\ heap[Found(heap[a].ref)].ref = NoRef
<1> DEFINE x == heap[a].meant
           r == heap[a].ref
           at[i \in Nat] == IF i = 0 THEN Base(r) ELSE Child(at[i - 1], r.path[i])
           F == [p \in Nat \X (DOMAIN heap \cup {Nowhere, Base(r)}) |-> Child(p[2], r.path[p[1]])]
           Y == DOMAIN heap \cup {Nowhere, Base(r)}
           n == Len(r.path)
           G == Means(x)
<1>1. x \in DOMAIN given /\ r = given[x].ref
  BY DEF Sound
<1>2. /\ r.path \in Seq(Token) /\ Base(r) \in Address /\ Len(Base(r)) = 1
      /\ G = Base(r) \o r.path /\ G \in Address
      /\ \A b \in DOMAIN given : given[b].ref # NoRef => ~IsPrefix(b, G)
  BY <1>1, DirectRefs
<1>3. \A i \in Nat : \A y \in Y : F[<<i, y>>] = Child(y, r.path[i])
  OBVIOUS
<1>4. \A y, k : Child(y, k) \in Y /\ Base(r) \in Y
  BY DEF Child, Sound, Range
<1> HIDE DEF F, Y
<1>5. PICK f \in [Nat -> Y] : Recursive(f, Base(r), F)
  <2>1. Base(r) \in Y /\ \A i \in Nat : \A y \in Y : F[<<i, y>>] \in Y
    BY <1>3, <1>4
  <2> QED
    BY <2>1, RecursionIn
<1>6. /\ f[0] = Base(r) /\ f = [i \in Nat |-> f[i]]
      /\ \A i \in Nat : i # 0 => f[i] = F[<<i, f[i - 1]>>]
  BY <1>5 DEF Recursive
<1>7. \A i \in Nat : i # 0 => f[i] = Child(f[i - 1], r.path[i])
  <2> TAKE i \in Nat
  <2> HAVE i # 0
  <2>1. i - 1 \in Nat /\ f[i - 1] \in Y
    BY <1>5
  <2> QED
    BY <1>3, <1>6, <2>1
<1>8. f = [i \in Nat |-> IF i = 0 THEN Base(r) ELSE Child(f[i - 1], r.path[i])]
  BY <1>6, <1>7
<1>9. at = [i \in Nat |-> IF i = 0 THEN Base(r) ELSE Child(at[i - 1], r.path[i])]
  BY <1>8 DEF at
<1>10. Found(r) = at[n]
  BY DEF Found
<1> HIDE DEF at, x, r, G
<1>11. n \in Nat /\ Len(G) = 1 + n /\ Len(G) \in Nat
  <2>1. Len(G) = Len(Base(r)) + n
    BY <1>2, ConcatProperties DEF Address
  <2>2. n \in Nat
    BY <1>2
  <2> QED
    BY <1>2, <2>1, <2>2
<1>12. \A j \in 1..(1 + n) : G[j] = IF j <= 1 THEN Base(r)[j] ELSE r.path[j - 1]
  BY <1>2, <1>11, ConcatProperties DEF Address
<1> HIDE DEF n
\* As far as the walk gets it follows what is written.
<1> DEFINE On(m, i) == m \in DOMAIN given /\ Len(m) = i + 1 /\ \A j \in 1..(i + 1) : m[j] = G[j]
           T == {i \in Nat : i <= n /\ at[i] \in DOMAIN heap => On(heap[at[i]].meant, i)}
<1>13. ASSUME NEW m, NEW i \in Nat, i <= n, On(m, i)
       PROVE  given[m].ref = NoRef /\ Follow(m) = m
  <2>1. m \in Address /\ Len(m) <= Len(G)
    BY <1>11, <1>13, InputsAssumption
  <2>2. IsPrefix(m, G)
    BY <1>2, <1>13, <2>1, PrefixIs
  <2>3. given[m].ref = NoRef
    BY <1>2, <1>13, <2>2
  <2> QED
    BY <2>3 DEF Follow
<1>14. ASSUME NEW i \in Nat, i <= n, at[i] \in DOMAIN heap, On(heap[at[i]].meant, i)
       PROVE  /\ heap[at[i]].ref = NoRef
              /\ \A k \in DOMAIN heap[at[i]].kids : heap[heap[at[i]].kids[k]].meant = Append(heap[at[i]].meant, k)
  <2>1. given[heap[at[i]].meant].ref = NoRef /\ Follow(heap[at[i]].meant) = heap[at[i]].meant
    BY <1>13, <1>14
  <2>2. heap[at[i]].ref = NoRef
    BY <1>14, <2>1 DEF Sound
  <2> QED
    BY SMTT(30), <1>14, <2>1, <2>2 DEF WrittenInv, Faithful, AsWritten
<1>15. 0 \in T
  <2> SUFFICES ASSUME at[0] \in DOMAIN heap PROVE On(heap[at[0]].meant, 0)
    OBVIOUS
  <2>1. at[0] = Base(r)
    BY <1>9
  <2>2. heap[at[0]].meant = Base(r)
    BY <1>2, <2>1 DEF WrittenInv, Faithful
  <2>3. Base(r) \in DOMAIN given
    BY <2>2 DEF Sound
  <2>4. Base(r)[1] = G[1]
    BY <1>11, <1>12
  <2>5. \A j \in 1..(0 + 1) : j = 1
    OBVIOUS
  <2> DEFINE m == heap[at[0]].meant
  <2>6. m = Base(r)
    BY <2>2
  <2> HIDE DEF m
  <2>7. On(m, 0)
    <3>1. m \in DOMAIN given /\ Len(m) = 0 + 1
      BY <1>2, <2>3, <2>6
    <3>2. m[1] = G[1]
      BY <2>4, <2>6
    <3>3. \A j \in 1..(0 + 1) : m[j] = G[j]
      BY <2>5, <3>2
    <3> QED
      BY <3>1, <3>3
  <2> QED
    BY <2>7 DEF m
<1>16. ASSUME NEW i \in T PROVE i + 1 \in T
  <2> SUFFICES ASSUME i + 1 <= n, at[i + 1] \in DOMAIN heap PROVE On(heap[at[i + 1]].meant, i + 1)
    OBVIOUS
  <2>1. i + 1 \in Nat /\ i + 1 # 0 /\ (i + 1) - 1 = i /\ i <= n
    BY <1>11
  <2> DEFINE k == r.path[i + 1]
             m == heap[at[i]].meant
  <2>2. at[i + 1] = Child(at[i], k)
    BY <1>9, <2>1
  <2>3. Nowhere \notin DOMAIN heap
    BY DEF Nowhere, Sound
  <2>4. at[i] \in DOMAIN heap /\ k \in DOMAIN heap[at[i]].kids /\ at[i + 1] = heap[at[i]].kids[k]
    BY <2>2, <2>3 DEF Child
  <2>5. On(m, i)
    BY <2>1, <2>4
  <2>6. heap[at[i + 1]].meant = Append(m, k)
    BY <1>14, <2>1, <2>4, <2>5
  <2>7. Append(m, k) \in DOMAIN given
    BY <2>6 DEF Sound
  <2>8. k \in Token
    BY <1>2, <1>11, <2>1, ElementOfSeq DEF n
  <2>9. m \in Seq(Token)
    BY <2>5, InputsAssumption DEF Address
  <2> HIDE DEF m, k
  <2>10. Len(Append(m, k)) = Len(m) + 1 /\ Append(m, k)[Len(m) + 1] = k /\ \A j \in 1..Len(m) : Append(m, k)[j] = m[j]
    BY <2>8, <2>9, AppendProperties
  <2>11. G[(i + 1) + 1] = k
    BY <1>11, <1>12, <2>1 DEF k
  <2>12. \A j \in 1..((i + 1) + 1) : Append(m, k)[j] = G[j]
    BY <2>5, <2>10, <2>11
  <2> QED
    BY <2>5, <2>6, <2>7, <2>10, <2>12
<1>17. T \in SUBSET Nat
  OBVIOUS
<1> HIDE DEF T
<1>18. T = Nat
  BY <1>15, <1>16, <1>17, Induct
<1> HIDE DEF On
<1>19. at[n] \in DOMAIN heap /\ On(heap[at[n]].meant, n)
  BY <1>10, <1>11, <1>18 DEF T, r
<1>20. heap[at[n]].meant = G
  <2> DEFINE m == heap[at[n]].meant
  <2>1. m \in DOMAIN given /\ Len(m) = n + 1 /\ \A j \in 1..(n + 1) : m[j] = G[j]
    BY <1>19 DEF On
  <2>2. m \in Seq(Token)
    BY <2>1, InputsAssumption DEF Address
  <2> HIDE DEF m
  <2>3. Len(m) = Len(G) /\ \A j \in 1..Len(m) : m[j] = G[j]
    BY <1>11, <2>1
  <2>4. m = G
    BY <1>2, <2>2, <2>3, SeqEqual DEF Address
  <2> QED
    BY <2>4 DEF m
<1>21. heap[at[n]].ref = NoRef
  BY <1>11, <1>14, <1>19 DEF On
<1>22. Follow(x) = G
  BY <1>1, <1>19, <1>20 DEF Follow, On, G, r
<1> QED
  BY <1>10, <1>20, <1>21, <1>22 DEF r, x

\* A node has what it was made of.
LEMMA NodeHas ==
    ASSUME NEW a, NEW w, NEW keys, NEW meant
    PROVE  /\ Node(a, w, keys, meant).ref = w.ref /\ Node(a, w, keys, meant).object = w.object
           /\ Node(a, w, keys, meant).meant = meant
           /\ DOMAIN Node(a, w, keys, meant).kids = keys
           /\ \A k \in keys : Node(a, w, keys, meant).kids[k] = Append(a, k)
<1> DEFINE kids == [k \in keys |-> Append(a, k)]
<1>1. DOMAIN kids = keys /\ \A k \in keys : kids[k] = Append(a, k)
  OBVIOUS
<1> HIDE DEF kids
<1> DEFINE n == [ref |-> w.ref, object |-> w.object, kids |-> kids, meant |-> meant]
<1>2. n.ref = w.ref /\ n.object = w.object /\ n.kids = kids /\ n.meant = meant
  OBVIOUS
<1>3. Node(a, w, keys, meant) = n
  BY DEF Node, kids
<1> HIDE DEF n
<1> QED
  BY <1>1, <1>2, <1>3

\* Copies of what is as it was written are as it was written.
LEMMA GraftIsFaithful ==
    ASSUME Sound(heap), Tree(heap), Faithful(heap), NEW src, Sound(src), Tree(src), Faithful(src),
           NEW a \in DOMAIN heap, NEW t \in DOMAIN src, NEW keys \in SUBSET DOMAIN src[t].kids, NEW ref,
           ref = NoRef =>
               /\ given[Follow(heap[a].meant)].object = TRUE /\ keys = Keys(Follow(heap[a].meant))
               /\ \A k \in keys : src[Append(t, k)].meant = Append(Follow(heap[a].meant), k)
    PROVE  Faithful(Grafted(src, a, t, keys, ref))
<1> DEFINE h == Grafted(src, a, t, keys, ref)
           copies == Copies(src, t, keys)
           w == [ref |-> ref, object |-> TRUE]
<1>1. DOMAIN heap \subseteq Address /\ DOMAIN src \subseteq Address /\ a \in Address /\ t \in Address
  BY DEF Sound
<1>2. IsGraft(h, src, a, t, keys, ref)
  BY <1>1, GraftIs
<1> HIDE DEF h
<1>3. /\ DOMAIN h = {b \in DOMAIN heap : ~Below(a, b)} \cup {Moved(a, t, c) : c \in copies}
      /\ \A c \in copies :
             /\ Moved(a, t, c) \in Address /\ Below(a, Moved(a, t, c))
             /\ h[Moved(a, t, c)] = Node(Moved(a, t, c), src[c], DOMAIN src[c].kids, src[c].meant)
      /\ \A b \in DOMAIN heap : ~Below(a, b) /\ b # a => h[b] = heap[b]
      /\ h[a] = Node(a, w, keys, heap[a].meant)
  BY <1>2 DEF IsGraft
<1>4. /\ \A c \in copies : \A k \in DOMAIN src[c].kids :
             /\ k \in Token /\ Append(c, k) \in copies
             /\ Moved(a, t, Append(c, k)) = Append(Moved(a, t, c), k)
      /\ \A k \in keys :
             /\ k \in Token /\ Append(t, k) \in copies
             /\ Moved(a, t, Append(t, k)) = Append(a, k)
  <2>1. ASSUME NEW c \in copies, NEW k \in DOMAIN src[c].kids
        PROVE  k \in Token /\ Append(c, k) \in copies /\ Moved(a, t, Append(c, k)) = Append(Moved(a, t, c), k)
    BY <1>1, CopiesHaveKids
  <2>2. ASSUME NEW k \in keys
        PROVE  k \in Token /\ Append(t, k) \in copies /\ Moved(a, t, Append(t, k)) = Append(a, k)
    BY <1>1, CopiesHaveKids
  <2> QED
    BY <2>1, <2>2
<1>5. \A c \in copies : c \in DOMAIN src /\ h[Moved(a, t, c)].meant = src[c].meant
  BY <1>3, NodeHas DEF Copies
<1>6. w.ref = ref /\ w.object = TRUE
  OBVIOUS
<1> HIDE DEF copies, w
<1>7. \A b \in DOMAIN heap : ~Below(a, b) => h[b].meant = heap[b].meant
  BY <1>3, NodeHas
<1>8. AsWritten(h, a)
  <2> SUFFICES ASSUME h[a].ref = NoRef
               PROVE  LET m == Follow(h[a].meant)
                      IN  /\ h[a].object = given[m].object /\ DOMAIN h[a].kids = Keys(m)
                          /\ \A k \in DOMAIN h[a].kids : h[h[a].kids[k]].meant = Append(m, k)
    BY DEF AsWritten
  <2> DEFINE m == Follow(heap[a].meant)
  <2>1. /\ h[a].ref = ref /\ h[a].object = TRUE /\ h[a].meant = heap[a].meant /\ DOMAIN h[a].kids = keys
        /\ \A k \in keys : h[a].kids[k] = Append(a, k)
    BY <1>3, <1>6, NodeHas
  <2>2. /\ given[m].object = TRUE /\ keys = Keys(m)
        /\ \A k \in keys : src[Append(t, k)].meant = Append(m, k)
    BY <2>1
  <2>3. \A k \in keys : h[Append(a, k)].meant = src[Append(t, k)].meant
    BY <1>4, <1>5
  <2> QED
    BY <2>1, <2>2, <2>3
<1>9. ASSUME NEW c \in copies
      PROVE  AsWritten(h, Moved(a, t, c))
  <2> DEFINE b == Moved(a, t, c)
             m == Follow(src[c].meant)
  <2>1. /\ h[b].ref = src[c].ref /\ h[b].object = src[c].object /\ h[b].meant = src[c].meant
        /\ DOMAIN h[b].kids = DOMAIN src[c].kids
        /\ \A k \in DOMAIN src[c].kids : h[b].kids[k] = Append(b, k)
    BY <1>3, NodeHas
  <2>2. c \in DOMAIN src
    BY <1>5
  <2>3. \A k \in DOMAIN src[c].kids : src[c].kids[k] = Append(c, k)
    BY <2>2 DEF Tree
  <2>4. \A k \in DOMAIN src[c].kids : h[Append(b, k)].meant = src[Append(c, k)].meant
    BY <1>4, <1>5
  <2>5. AsWritten(src, c)
    BY <2>2 DEF Faithful
  <2> HIDE DEF b
  <2>6. AsWritten(h, b)
    BY <2>1, <2>3, <2>4, <2>5 DEF AsWritten
  <2> QED
    BY <2>6 DEF b
<1>10. ASSUME NEW b \in DOMAIN heap, ~Below(a, b), b # a
       PROVE  AsWritten(h, b)
  <2>1. h[b] = heap[b]
    BY <1>3, <1>10
  <2>2. ASSUME NEW k \in DOMAIN heap[b].kids
        PROVE  h[heap[b].kids[k]].meant = heap[heap[b].kids[k]].meant
    <3>1. k \in Token /\ heap[b].kids[k] = Append(b, k) /\ Append(b, k) \in DOMAIN heap
      BY KidsAreIn
    <3>2. b \in Address
      BY <1>1
    <3>3. ~Below(a, Append(b, k))
      BY <1>1, <1>10, <3>1, <3>2, KidIsBelow
    <3> QED
      BY <1>7, <3>1, <3>3
  <2>3. AsWritten(heap, b)
    BY DEF Faithful
  <2> QED
    BY <2>1, <2>2, <2>3 DEF AsWritten
<1>11. \A b \in DOMAIN h : AsWritten(h, b)
  BY <1>3, <1>8, <1>9, <1>10
<1>12. ASSUME NEW b \in DOMAIN h, Len(b) = 1
       PROVE  h[b].meant = b
  <2>1. Len(a) \in Nat /\ Len(a) > 0
    BY NotEmpty
  <2>2. \A c \in copies : Len(Moved(a, t, c)) # 1
    <3> TAKE c \in copies
    <3>1. Moved(a, t, c) \in Address /\ Below(a, Moved(a, t, c))
      BY <1>3
    <3> DEFINE l == Len(a)
               n == Len(Moved(a, t, c))
    <3>2. l < n /\ n \in Nat /\ l \in Nat /\ l > 0
      BY <1>1, <2>1, <3>1, BelowIs DEF Address
    <3> HIDE DEF l, n
    <3>3. n # 1
      BY <3>2
    <3> QED
      BY <3>3 DEF n
  <2>3. \A c \in copies : b # Moved(a, t, c)
    <3> TAKE c \in copies
    <3>1. Len(Moved(a, t, c)) # 1
      BY <2>2
    <3> QED
      BY <1>12, <3>1
  <2>4. b \in DOMAIN heap /\ ~Below(a, b)
    BY <1>3, <2>3
  <2> QED
    BY <1>7, <1>12, <2>4 DEF Faithful
<1>13. Faithful(h)
  BY <1>11, <1>12 DEF Faithful
<1> QED
  BY <1>13 DEF h

\* Inlining what a reference finds makes the map what the reference means.
LEMMA InlinedIsFaithful ==
    ASSUME InputsAreDirect, given \in Inputs, Sound(heap), ~shallow => Tree(heap), WrittenInv,
           NEW a \in DOMAIN heap, heap[a].ref # NoRef, NEW t \in DOMAIN heap, t = Found(heap[a].ref),
           heap[t].object, NEW h, h \in Inlined(a, t)
    PROVE  Faithful(h)
<1> DEFINE m == Follow(heap[a].meant)
           keys == Copied(a, t)
<1>1. heap[t].meant = m /\ heap[t].ref = NoRef
  BY FoundMeans
<1>2. heap[a].meant \in DOMAIN given
  BY DEF Sound
<1>3. Follow(m) = m /\ m \in DOMAIN given
  BY <1>2, FollowTwice
<1>4. /\ heap[t].object = given[m].object /\ DOMAIN heap[t].kids = Keys(m)
      /\ \A k \in DOMAIN heap[t].kids : heap[heap[t].kids[k]].meant = Append(m, k)
  <2>1. AsWritten(heap, t)
    BY DEF WrittenInv, Faithful
  <2> HIDE DEF m
  <2> QED
    BY <1>1, <1>3, <2>1 DEF AsWritten
<1>5. given[m].object = TRUE
  <2>1. given[m].object \in BOOLEAN
    BY <1>3, InputsAssumption DEF Written
  <2> HIDE DEF m
  <2> QED
    BY <1>4, <2>1
<1>6. keys = DOMAIN heap[t].kids /\ t # a
  BY <1>1 DEF Copied
<1>7. Faithful(heap)
  BY DEF WrittenInv
<1>8. CASE shallow
  <2> DEFINE kids == [k \in keys |-> heap[t].kids[k]]
             n == [ref |-> NoRef, object |-> TRUE, meant |-> heap[a].meant, kids |-> kids]
  <2>1. h = [heap EXCEPT ![a] = n]
    BY <1>8 DEF Inlined, Shared
  <2>2. DOMAIN kids = keys /\ \A k \in keys : kids[k] = heap[t].kids[k]
    OBVIOUS
  <2> HIDE DEF kids
  <2>3. n.ref = NoRef /\ n.object = TRUE /\ n.meant = heap[a].meant /\ n.kids = kids
    OBVIOUS
  <2> HIDE DEF n, m, keys
  <2>4. DOMAIN h = DOMAIN heap /\ h[a] = n /\ \A b \in DOMAIN heap : b # a => h[b] = heap[b]
    BY <2>1
  <2>5. \A b \in DOMAIN heap : h[b].meant = heap[b].meant
    BY <2>3, <2>4
  <2>6. \A b \in DOMAIN heap : \A k \in DOMAIN heap[b].kids : heap[b].kids[k] \in DOMAIN heap
    BY DEF Sound, Range
  <2>7. AsWritten(h, a)
    <3>1. \A k \in DOMAIN n.kids : h[n.kids[k]].meant = Append(m, k)
      BY <1>4, <1>6, <2>2, <2>3, <2>5, <2>6
    <3>2. n.object = given[m].object /\ DOMAIN n.kids = Keys(m) /\ m = Follow(n.meant)
      BY <1>4, <1>5, <1>6, <2>2, <2>3 DEF m
    <3> QED
      BY <2>4, <3>1, <3>2 DEF AsWritten
  <2>8. ASSUME NEW b \in DOMAIN heap, b # a
        PROVE  AsWritten(h, b)
    <3>1. AsWritten(heap, b) /\ h[b] = heap[b]
      BY <1>7, <2>4, <2>8 DEF Faithful
    <3>2. \A k \in DOMAIN heap[b].kids : h[heap[b].kids[k]].meant = heap[heap[b].kids[k]].meant
      BY <2>5, <2>6
    <3> QED
      BY <3>1, <3>2 DEF AsWritten
  <2>9. \A b \in DOMAIN h : Len(b) = 1 => h[b].meant = b
    BY <1>7, <2>4, <2>5 DEF Faithful
  <2> QED
    BY <2>4, <2>7, <2>8, <2>9 DEF Faithful
<1>9. CASE ~shallow
  <2>1. Tree(heap)
    BY <1>9
  <2>2. \A k \in keys : heap[Append(t, k)].meant = Append(m, k) /\ k \in Token /\ Append(t, k) \in DOMAIN heap
    <3> TAKE k \in keys
    <3>1. k \in Token /\ heap[t].kids[k] = Append(t, k) /\ Append(t, k) \in DOMAIN heap
      BY <1>6, <2>1, KidsAreIn
    <3> QED
      BY <1>4, <1>6, <3>1
  <2>3. CASE ~Below(t, a)
    <3>1. h = Grafted(heap, a, t, keys, NoRef)
      BY <1>9, <2>3 DEF Inlined, Deep
    <3>2. keys \in SUBSET DOMAIN heap[t].kids /\ keys = Keys(m)
      BY <1>4, <1>6
    <3> QED
      BY <1>5, <1>7, <2>1, <2>2, <3>1, <3>2, GraftIsFaithful
  <2>4. CASE Below(t, a)
    <3>1. PICK before \in SUBSET (keys \ {a[Len(t) + 1]}) :
             h = Grafted(Grafted(heap, a, t, before, heap[a].ref), a, t, keys, NoRef)
      BY <1>9, <2>4 DEF Inlined, Deep
    <3> DEFINE src == Grafted(heap, a, t, before, heap[a].ref)
    <3>2. before \in SUBSET DOMAIN heap[t].kids /\ heap[a].ref \in {NoRef, given[heap[a].meant].ref}
      BY <1>6 DEF Sound
    <3>3. Sound(src) /\ Tree(src)
      BY <2>1, <3>2, GraftIsSound
    <3>4. Faithful(src)
      BY <1>7, <2>1, <3>2, GraftIsFaithful
    <3>5. DOMAIN heap \subseteq Address /\ a \in Address /\ t \in Address
      BY DEF Sound
    <3>6. IsGraft(src, heap, a, t, before, heap[a].ref)
      BY <3>5, GraftIs
    <3>7. ~Below(a, t)
      BY <2>4, <3>5, BelowOrders
    <3> HIDE DEF src
    <3>8. t \in DOMAIN src /\ src[t] = heap[t]
      BY <1>6, <3>6, <3>7 DEF IsGraft
    <3>9. \A k \in keys : src[Append(t, k)].meant = Append(m, k)
      <4> TAKE k \in keys
      <4>1. k \in Token /\ Append(t, k) \in DOMAIN heap
        BY <2>2
      <4>2. ~Below(a, Append(t, k))
        BY <1>6, <3>5, <3>7, <4>1, KidIsBelow
      <4>3. src[Append(t, k)].meant = heap[Append(t, k)].meant
        BY <3>6, <4>1, <4>2, NodeHas DEF IsGraft
      <4> QED
        BY <2>2, <4>3
    <3>10. keys \in SUBSET DOMAIN src[t].kids /\ keys = Keys(m)
      BY <1>4, <1>6, <3>8
    <3>11. Faithful(Grafted(src, a, t, keys, NoRef))
      BY <1>5, <1>7, <2>1, <3>3, <3>4, <3>8, <3>9, <3>10, GraftIsFaithful
    <3> QED
      BY <3>1, <3>11 DEF src
  <2> QED
    BY <2>3, <2>4
<1> QED
  BY <1>8, <1>9

\* The files themselves are as they are written.
LEMMA FreshIsFaithful ==
    ASSUME given \in Inputs
    PROVE  Faithful(Fresh)
<1>1. DOMAIN Fresh = DOMAIN given /\ \A a \in DOMAIN given : Fresh[a] = Node(a, given[a], Keys(a), a)
  BY DEF Fresh
<1>2. ASSUME NEW a \in DOMAIN given
      PROVE  /\ Fresh[a].ref = given[a].ref /\ Fresh[a].object = given[a].object /\ Fresh[a].meant = a
             /\ DOMAIN Fresh[a].kids = Keys(a) /\ \A k \in Keys(a) : Fresh[a].kids[k] = Append(a, k)
  BY <1>1, NodeHas
<1>3. ASSUME NEW a \in DOMAIN given
      PROVE  AsWritten(Fresh, a)
  <2>1. given[a].ref = NoRef => Follow(a) = a
    BY DEF Follow
  <2>2. \A k \in Keys(a) : Append(a, k) \in DOMAIN given
    BY DEF Keys
  <2>3. \A k \in Keys(a) : Fresh[Append(a, k)].meant = Append(a, k)
    BY <1>2, <2>2
  <2> QED
    BY <1>2, <2>1, <2>3 DEF AsWritten
<1> QED
  BY <1>1, <1>2, <1>3 DEF Faithful

\* The next heap is as it was written when it is by the same files.
LEMMA WrittenHolds ==
    ASSUME given' = given, Faithful(heap')
    PROVE  WrittenInv'
BY DEF WrittenInv, Faithful, AsWritten, Follow, Means, Keys

\* Every step keeps what was inlined as it was written.
LEMMA StepWritten ==
    ASSUME InputsAreDirect, HeapInv, StackInv, WrittenInv, [Next]_vars
    PROVE  WrittenInv'
<1>0. given \in Inputs /\ Sound(heap) /\ (~shallow => Tree(heap)) /\ Faithful(heap)
  BY DEF HeapInv, WrittenInv
<1>1. ASSUME given' = given, heap' = heap
      PROVE  WrittenInv'
  BY <1>0, <1>1, WrittenHolds
<1>2. ASSUME NEW a, LeaveCircular(a)
      PROVE  WrittenInv'
  BY <1>1, <1>2 DEF LeaveCircular
<1>3. ASSUME NEW a, CannotResolve(a)
      PROVE  WrittenInv'
  <2>1. given' = given /\ Calls(a) /\ heap[a].ref # NoRef /\ (heap' = heap \/ heap' = Stripped(a))
    BY <1>3 DEF CannotResolve, Fail
  <2>2. CASE heap' = Stripped(a)
    <3> DEFINE h == Stripped(a)
               old == heap[a]
    <3>1. a \in DOMAIN heap
      BY <2>1, CallsInHeap
    <3>2. h = [heap EXCEPT ![a] = [old EXCEPT !.kids = << >>]]
      BY DEF Stripped
    <3>3. old = [ref |-> old.ref, object |-> old.object, kids |-> old.kids, meant |-> old.meant]
      BY <1>0, <3>1 DEF Sound
    <3> HIDE DEF h, old
    <3>4. [old EXCEPT !.kids = << >>].ref = old.ref /\ [old EXCEPT !.kids = << >>].meant = old.meant
      BY <3>3
    <3>5. /\ DOMAIN h = DOMAIN heap /\ \A b \in DOMAIN heap : b # a => h[b] = heap[b]
          /\ h[a].ref = heap[a].ref /\ h[a].meant = heap[a].meant
      BY <3>1, <3>2, <3>4 DEF old
    <3>6. \A b \in DOMAIN heap : h[b].meant = heap[b].meant
      BY <3>5
    <3>7. ASSUME NEW b \in DOMAIN heap PROVE AsWritten(h, b)
      <4>1. CASE b = a
        BY <2>1, <3>5, <4>1 DEF AsWritten
      <4>2. CASE b # a
        <5>1. AsWritten(heap, b) /\ h[b] = heap[b]
          BY <1>0, <3>5, <4>2 DEF Faithful
        <5>2. \A k \in DOMAIN heap[b].kids : heap[b].kids[k] \in DOMAIN heap
          BY <1>0 DEF Sound, Range
        <5>3. \A k \in DOMAIN heap[b].kids : h[heap[b].kids[k]].meant = heap[heap[b].kids[k]].meant
          BY <3>6, <5>2
        <5> QED
          BY <5>1, <5>3 DEF AsWritten
      <4> QED
        BY <4>1, <4>2
    <3>8. Faithful(h)
      BY <1>0, <3>5, <3>6, <3>7 DEF Faithful
    <3>9. heap' = h
      BY <2>2 DEF h
    <3> QED
      BY <2>1, <3>8, <3>9, WrittenHolds
  <2> QED
    BY <1>1, <2>1, <2>2
<1>4. ASSUME NEW a, Inline(a)
      PROVE  WrittenInv'
  <2> DEFINE t == Found(heap[a].ref)
  <2>1. /\ given' = given /\ Calls(a) /\ heap[a].ref # NoRef
        /\ t \in DOMAIN heap /\ heap[t].object /\ heap' \in Inlined(a, t)
    BY <1>4 DEF Inline, Resolves
  <2>2. a \in DOMAIN heap
    BY <2>1, CallsInHeap
  <2>3. Faithful(heap')
    BY <1>0, <2>1, <2>2, InlinedIsFaithful
  <2> QED
    BY <2>1, <2>3, WrittenHolds
<1>5. ASSUME NEW a, Descend(a)
      PROVE  WrittenInv'
  BY <1>1, <1>5 DEF Descend
<1>6. CASE TooDeep
  BY <1>1, <1>6 DEF TooDeep, Fail
<1>7. CASE Return
  BY <1>1, <1>7 DEF Return
<1>8. CASE Fallback
  <2>1. given' = given /\ heap' = Fresh
    BY <1>8 DEF Fallback
  <2> QED
    BY <1>0, <2>1, FreshIsFaithful, WrittenHolds
<1>9. CASE UNCHANGED vars
  BY <1>1, <1>9 DEF vars
<1>10. QED
  BY <1>2, <1>3, <1>4, <1>5, <1>6, <1>7, <1>8, <1>9 DEF Next, Step, Finished

\* Where no reference leads to another reference or past one, and those within a file
\* are in the document itself, a map at any moment either still has the reference it
\* was written with or has the content of the map that reference leads to
\* (parser/resolver.go, resolveRefsRecursive; parser/parser.go, resolveRefsInMap).
\* Without the first condition this is false: MCRefResolver has a document, Alias.
THEOREM AlwaysInlinedAsWritten ==
    ASSUME InputsAreDirect
    PROVE  Spec => []InlinedAsWritten
<1> DEFINE Inv == ResolverInv /\ WrittenInv
<1>1. Init => Inv
  <2> SUFFICES ASSUME Init PROVE Inv
    OBVIOUS
  <2>1. ResolverInv
    BY InitHeap, InitStack, InitTree, InitGraph DEF ResolverInv
  <2>2. WrittenInv
    BY FreshIsFaithful DEF Init, WrittenInv
  <2> QED
    BY <2>1, <2>2
<1>2. Inv /\ [Next]_vars => Inv'
  <2> SUFFICES ASSUME Inv, [Next]_vars PROVE Inv'
    OBVIOUS
  <2>1. ResolverInv'
    BY StepHeap, StepStack, StepTree, StepGraph DEF ResolverInv
  <2>2. WrittenInv'
    BY StepWritten DEF ResolverInv
  <2> QED
    BY <2>1, <2>2
<1>3. Inv => InlinedAsWritten
  <2> SUFFICES ASSUME Inv, NEW a \in DOMAIN heap
               PROVE  LET n == heap[a]
                          m == StandsFor(n.meant)
                      IN  IF n.ref # NoRef THEN n.ref = given[n.meant].ref
                          ELSE /\ n.object = given[m].object
                               /\ DOMAIN n.kids = Keys(m)
                               /\ \A k \in DOMAIN n.kids : heap[n.kids[k]].meant = Append(m, k)
    BY DEF InlinedAsWritten
  <2>1. given \in Inputs /\ heap[a].meant \in DOMAIN given /\ heap[a].ref \in {NoRef, given[heap[a].meant].ref}
    BY DEF ResolverInv, HeapInv, Sound
  <2>2. StandsFor(heap[a].meant) = Follow(heap[a].meant)
    BY <2>1, StandsForIs
  <2>3. AsWritten(heap, a)
    BY DEF WrittenInv, Faithful
  <2> QED
    BY <2>1, <2>2, <2>3 DEF AsWritten
<1> QED
  BY <1>1, <1>2, <1>3, PTL DEF Spec

\* Where no reference leads to another or past one, resolving inlines what was
\* written and leaves only circular references (parser/resolver.go).
THEOREM AlwaysResolvedAsDocumented ==
    ASSUME InputsAreDirect
    PROVE  Spec => []ResolvedAsDocumented
<1>1. InlinedAsWritten /\ OnlyCircularRefsRemain => ResolvedAsDocumented
  BY DEF ResolvedAsDocumented
<1> QED
  BY <1>1, InputsAreDirect, AlwaysInlinedAsWritten, OnlyCircularRefsEverRemain, PTL

=============================================================================
