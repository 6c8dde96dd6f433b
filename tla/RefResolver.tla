---------------------------- MODULE RefResolver ----------------------------
(***************************************************************************)
(* How the parser inlines $ref references (RefResolver in                  *)
(* parser/resolver.go, driven by resolveRefsInMap in parser/parser.go).    *)
(*                                                                         *)
(* The document is a tree of maps that is rewritten in place while it is   *)
(* traversed, and what a reference finds is whatever its target holds at   *)
(* that moment.  A first pass shares the maps it inlines; if it met a      *)
(* circular reference or failed, its outcome is thrown away and a second   *)
(* pass over a fresh tree copies them.                                     *)
(*                                                                         *)
(* A node's address is the path it was read or copied to: the file it is   *)
(* in and the keys that lead to it.  Maps are traversed in no order, and   *)
(* so are arrays here.  Of a value that is no map only that is kept.       *)
(***************************************************************************)
EXTENDS Naturals, Sequences, FiniteSets, SequencesExt

CONSTANTS
    Token,              \* map keys and file names
    Root,               \* stands for the document that is parsed
    Here,               \* the file part of a reference "#..."
    NoRef,              \* the value of "$ref" in a map without it
    Inputs,             \* what the parser may be given
    MaxRefDepth, MaxCachedDocuments

Address == Seq(Token)
Ref     == [file : Token \cup {Here}, path : Seq(Token)]
Written == [ref : Ref \cup {NoRef}, object : BOOLEAN]

ASSUME MarkersAssumption == Root \in Token /\ Here \notin Token /\ NoRef \notin Ref
ASSUME InputsAssumption ==
    \A input \in Inputs :
        /\ input \in [DOMAIN input -> Written]
        /\ DOMAIN input \subseteq Address /\ IsFiniteSet(DOMAIN input)
        /\ <<Root>> \in DOMAIN input /\ input[<<Root>>].object
        /\ \A a \in DOMAIN input :
               /\ a # <<>>
               /\ Len(a) > 1 => Front(a) \in DOMAIN input
               /\ input[a].ref # NoRef => input[a].object /\ input[a].ref.file # Root
ASSUME LimitsAssumption == MaxRefDepth \in Nat /\ MaxCachedDocuments \in Nat

VARIABLES
    given,      \* the files as they are written: address -> Written
    heap,       \* the maps in memory: address -> node
    shallow,    \* RefResolver.ShallowCopy
    stack,      \* the calls of resolveRefsRecursive that have not returned
    resolving,  \* RefResolver.resolving
    documents,  \* the keys of RefResolver.documents
    circular,   \* RefResolver.hasCircularRefs
    failed      \* ResolveAllRefs returned an error

resolver == <<stack, resolving, documents, circular, failed>>
vars     == <<given, heap, shallow, resolver>>

\* meant is history: the address where the node was written.
Node(a, w, keys, meant) ==
    [ref |-> w.ref, object |-> w.object, kids |-> [k \in keys |-> Append(a, k)], meant |-> meant]
Keys(a) == {k \in Token : Append(a, k) \in DOMAIN given}
Fresh   == [a \in DOMAIN given |-> Node(a, given[a], Keys(a), a)]

\* A frame holds the nodes its loop has still to call itself with.  The frame
\* of a reference has its own map there, which by then holds the target.
Frame(ref, todo) == [ref |-> ref, todo |-> todo]
Start == <<Frame(NoRef, {<<Root>>})>>

Init ==
    /\ given \in Inputs
    /\ heap = Fresh
    /\ shallow = TRUE
    /\ stack = Start
    /\ resolving = {} /\ documents = {}
    /\ circular = FALSE /\ failed = FALSE

-----------------------------------------------------------------------------
(* What a reference finds *)

ToRoot(r) == r.file = Here /\ r.path = <<>>

Nowhere == <<>>
Base(r) == IF r.file = Here THEN <<Root>> ELSE <<r.file>>

\* ResolveLocal: follow the keys from the root of a document.
Child(a, k) == IF a \in DOMAIN heap /\ k \in DOMAIN heap[a].kids THEN heap[a].kids[k] ELSE Nowhere
Found(r) ==
    LET at[i \in Nat] == IF i = 0 THEN Base(r) ELSE Child(at[i - 1], r.path[i])
    IN  at[Len(r.path)]

Needed(r) == IF r.file = Here THEN {} ELSE {r.file} \ documents
Loads(r)  == Needed(r) = {} \/ (Cardinality(documents) < MaxCachedDocuments /\ Base(r) \in DOMAIN given)
Resolves(r) == Loads(r) /\ Found(r) \in DOMAIN heap /\ heap[Found(r)].object

-----------------------------------------------------------------------------
(* Inlining: the map at a becomes what the map at t holds *)

Below(a, b) == IsStrictPrefix(a, b)
Tail2(a, b) == SubSeq(b, Len(a) + 1, Len(b))

\* The keys the loop copies from t.  Those of a itself are deleted before.
Copied(a, t) == IF t = a THEN {} ELSE DOMAIN heap[t].kids

\* Mutant: the siblings of the "$ref" stay.
SharedOver(a, t) ==
    [heap EXCEPT ![a] = [@ EXCEPT !.ref = NoRef, !.kids = [k \in Copied(a, t) |-> heap[t].kids[k]] @@ @]]

\* ShallowCopy: the values are shared.
Shared(a, t) ==
    [heap EXCEPT ![a] = [ref |-> NoRef, object |-> TRUE, meant |-> heap[a].meant,
                         kids |-> [k \in Copied(a, t) |-> heap[t].kids[k]]]]

\* The heap once the values that src holds under these keys of t are copied.
Grafted(src, a, t, keys, ref) ==
    LET copies == {b \in DOMAIN src : Below(t, b) /\ b[Len(t) + 1] \in keys}
        from   == [b \in {a \o Tail2(t, c) : c \in copies} |-> t \o Tail2(a, b)]
        Copy(b) == Node(b, src[from[b]], DOMAIN src[from[b]].kids, src[from[b]].meant)
        kept   == {b \in DOMAIN heap : ~Below(a, b)}
    IN  [b \in kept \cup DOMAIN from |->
            IF b \in DOMAIN from THEN Copy(b)
            ELSE IF b = a THEN Node(a, [ref |-> ref, object |-> TRUE], keys, heap[a].meant)
            ELSE heap[b]]

\* deepCopyJSONValue of each value.  If a lies in the target, the value that
\* a is part of is copied with a as it is then: with the "$ref", and with the
\* keys that the loop happens to have copied before.
Deep(a, t) ==
    IF Below(t, a)
    THEN {Grafted(Grafted(heap, a, t, before, heap[a].ref), a, t, Copied(a, t), NoRef) :
             before \in SUBSET (Copied(a, t) \ {a[Len(t) + 1]})}
    ELSE {Grafted(heap, a, t, Copied(a, t), NoRef)}

Inlined(a, t) == IF shallow THEN {Shared(a, t)} ELSE Deep(a, t)

-----------------------------------------------------------------------------
(* resolveRefsRecursive *)

Running == stack # <<>>
Top     == Last(stack)
Taken(a) == [stack EXCEPT ![Len(stack)].todo = @ \ {a}]

\* Every error unwinds all calls, and each gives up its mark.
Fail == stack' = <<>> /\ resolving' = {} /\ failed' = TRUE /\ UNCHANGED <<given, shallow, circular>>

\* The call with a may proceed.
Calls(a) == Running /\ a \in Top.todo /\ Len(stack) - 1 <= MaxRefDepth

TooDeep ==
    /\ Running /\ Top.todo # {} /\ Len(stack) - 1 > MaxRefDepth
    /\ Fail
    /\ UNCHANGED <<heap, documents>>

Mark(r)   == resolving \cup {r}
Unmark(r) == resolving \ {r}

IsCircular(r) == ToRoot(r) \/ r \in resolving

LeaveCircular(a) ==
    /\ Calls(a) /\ heap[a].ref # NoRef /\ IsCircular(heap[a].ref)
    /\ circular' = TRUE
    /\ stack' = Taken(a)
    /\ UNCHANGED <<given, heap, shallow, resolving, documents, failed>>

\* A target that is no map is noticed when the siblings of the "$ref" are gone.
Stripped(a) == [heap EXCEPT ![a].kids = <<>>]
CannotResolve(a) ==
    LET r == heap[a].ref IN
    /\ Calls(a) /\ r # NoRef /\ ~IsCircular(r) /\ ~Resolves(r)
    /\ Fail
    /\ documents' = IF Loads(r) THEN documents \cup Needed(r) ELSE documents
    /\ heap' = IF Loads(r) /\ Found(r) \in DOMAIN heap THEN Stripped(a) ELSE heap

Inline(a) ==
    LET r == heap[a].ref IN
    /\ Calls(a) /\ r # NoRef /\ ~IsCircular(r) /\ Resolves(r)
    /\ heap' \in Inlined(a, Found(r))
    /\ documents' = documents \cup Needed(r)
    /\ resolving' = Mark(r)
    /\ stack' = Append(Taken(a), Frame(r, {a}))
    /\ UNCHANGED <<given, shallow, circular, failed>>

Descend(a) ==
    /\ Calls(a) /\ heap[a].ref = NoRef
    /\ stack' = Append(Taken(a), Frame(NoRef, Range(heap[a].kids)))
    /\ UNCHANGED <<given, heap, shallow, resolving, documents, circular, failed>>

Return ==
    /\ Running /\ Top.todo = {}
    /\ stack' = Front(stack)
    /\ resolving' = Unmark(Top.ref)
    /\ UNCHANGED <<given, heap, shallow, documents, circular, failed>>

-----------------------------------------------------------------------------
(* resolveRefsInMap *)

\* Mutant: only a circular reference calls for the second pass.
NeedsFallbackIfCircular == circular

NeedsFallback == circular \/ failed
Accepted == ~Running /\ shallow /\ ~NeedsFallback
Done     == Accepted \/ (~Running /\ ~shallow)

\* The bytes are parsed again and resolved by a fresh resolver.
Fallback ==
    /\ ~Running /\ shallow /\ NeedsFallback
    /\ shallow' = FALSE
    /\ heap' = Fresh
    /\ stack' = Start
    /\ resolving' = {} /\ documents' = {}
    /\ circular' = FALSE /\ failed' = FALSE
    /\ UNCHANGED given

Finished == Done /\ UNCHANGED vars

Step(a) == LeaveCircular(a) \/ CannotResolve(a) \/ Inline(a) \/ Descend(a)
Next ==
    \/ \E a \in IF Running THEN Top.todo ELSE {} : Step(a)
    \/ TooDeep
    \/ Return
    \/ Fallback
    \/ Finished

Spec == Init /\ [][Next]_vars
-----------------------------------------------------------------------------
(* What the references mean, as the files are written *)

\* A reference "#..." means a place in the file that holds it.
Means(a) == LET r == given[a].ref IN (IF r.file = Here THEN <<Head(a)>> ELSE <<r.file>>) \o r.path
Follow(a) == IF given[a].ref # NoRef /\ Means(a) \in DOMAIN given THEN Means(a) ELSE a

\* The map that the map at a stands for, however many references away.
StandsFor(a) ==
    LET after[n \in Nat] == IF n = 0 THEN a ELSE Follow(after[n - 1])
    IN  after[Cardinality(DOMAIN given)]

\* Every reference leads to a map, by way of no other reference, and few
\* enough files are referred to.
Refers(a) == given[a].ref # NoRef /\ ~ToRoot(given[a].ref)
Files     == {given[a].ref.file : a \in {b \in DOMAIN given : Refers(b)}} \ {Here}
Closed ==
    /\ \A a \in DOMAIN given : Refers(a) =>
           /\ Means(a) \in DOMAIN given /\ given[Means(a)].object
           /\ \A b \in DOMAIN given : Below(b, Means(a)) => given[b].ref = NoRef
    /\ Cardinality(Files) <= MaxCachedDocuments

\* The nodes n steps from the root, not looking inside a map that still has a
\* reference.
After(n) ==
    LET level[i \in Nat] ==
            IF i = 0 THEN {<<Root>>}
            ELSE UNION {Range(heap[a].kids) : a \in {b \in level[i - 1] : heap[b].ref = NoRef}}
    IN  level[n]
Reached == UNION {After(n) : n \in 0..Cardinality(DOMAIN heap)}
Left    == {a \in Reached : heap[a].ref # NoRef}

-----------------------------------------------------------------------------
(* Properties *)

\* The maps in memory form a graph without loose ends, and the only references
\* are those that were written (parser/resolver.go: the fields of RefResolver).
TypeOK ==
    /\ \A a \in DOMAIN heap :
           /\ heap[a].ref \in Ref \cup {NoRef} /\ heap[a].object \in BOOLEAN
           /\ heap[a].meant \in DOMAIN given
           /\ Range(heap[a].kids) \subseteq DOMAIN heap
    /\ \A i \in DOMAIN stack : stack[i].todo \subseteq DOMAIN heap
    /\ resolving \subseteq {given[a].ref : a \in DOMAIN given}
    /\ documents \subseteq Files
    /\ shallow \in BOOLEAN /\ circular \in BOOLEAN /\ failed \in BOOLEAN

\* A reference is resolved at most once along a path, and is marked in
\* resolving for exactly as long: what ends the recursion on circular schemas.
MarkedWhileResolving ==
    /\ resolving = {stack[i].ref : i \in DOMAIN stack} \ {NoRef}
    /\ \A i, j \in DOMAIN stack : stack[i].ref = stack[j].ref /\ stack[i].ref # NoRef => i = j

\* At any moment, and whatever was inlined into what before, a map in memory
\* either holds the reference it was written with or has exactly the content of
\* the map that reference leads to in the files (parser/doc.go: references are
\* resolved normally, others fully inlined).
InlinedAsWritten ==
    \A a \in DOMAIN heap :
        LET n == heap[a]
            m == StandsFor(n.meant)
        IN  IF n.ref # NoRef THEN n.ref = given[n.meant].ref
            ELSE /\ n.object = given[m].object
                 /\ DOMAIN n.kids = Keys(m)
                 /\ \A k \in DOMAIN n.kids : heap[n.kids[k]].meant = Append(m, k)

\* References that remain are circular: the resolver has inlined the same
\* reference further up, or it leads to the whole document.  An outcome
\* accepted from the sharing pass has none at all.
OnlyCircularRefsRemain ==
    Done /\ ~failed =>
        \A a \in Left :
            /\ ~shallow
            /\ \/ ToRoot(heap[a].ref)
               \/ \E b \in DOMAIN heap : Below(b, a) /\ given[heap[b].meant].ref = heap[a].ref

\* What resolving promises (parser/doc.go): references are inlined with what
\* they lead to, and only circular ones are left.
ResolvedAsDocumented == InlinedAsWritten /\ OnlyCircularRefsRemain

\* No map contains itself, so that the outcome can be marshalled, whatever
\* went wrong on the way (the comment of HasCircularRefs).
NoPointerCycles == Done => After(Cardinality(DOMAIN heap)) = {}

\* When every reference leads somewhere, and the limit has room for every
\* reference inlined once inside the other, resolution succeeds
\* (parser/doc.go: references are resolved normally even when the document has
\* circular ones).  The code does not keep it, so no run lists it: what has been
\* inlined is traversed again wherever it is shared, one inside the other, and a
\* reference inside an external file is looked up in the document.
WrittenRefs == {given[a].ref : a \in {b \in DOMAIN given : Refers(b)}}
Height    == Max({Len(a) : a \in DOMAIN given})
RoomEnough == MaxRefDepth >= (Cardinality(WrittenRefs) + 1) * (Height + 1)
ClosedInputsResolve == Done /\ Closed /\ RoomEnough => ~failed
-----------------------------------------------------------------------------
(* What the theorems rest on *)

\* The maps in memory are what was written, or what was inlined.
Sound(h) ==
    /\ DOMAIN h \subseteq Address /\ IsFiniteSet(DOMAIN h)
    /\ <<Root>> \in DOMAIN h /\ <<>> \notin DOMAIN h
    /\ \A a \in DOMAIN h :
           /\ h[a] = [ref |-> h[a].ref, object |-> h[a].object, kids |-> h[a].kids, meant |-> h[a].meant]
           /\ h[a].meant \in DOMAIN given /\ h[a].ref \in {NoRef, given[h[a].meant].ref}
           /\ Range(h[a].kids) \subseteq DOMAIN h

\* Where copies are made nothing is shared: each map is in one place.
Tree(h) == \A a \in DOMAIN h : \A k \in DOMAIN h[a].kids : k \in Token /\ h[a].kids[k] = Append(a, k)

HeapInv ==
    /\ given \in Inputs /\ Sound(heap)
    /\ ~shallow => Tree(heap)
    /\ \A i \in DOMAIN stack : stack[i].todo \subseteq DOMAIN heap
    /\ failed => stack = <<>>

\* What is still to be visited, with all that is below it.
Pending == UNION {stack[i].todo : i \in DOMAIN stack}

\* In a tree nothing is to be visited twice.
OnceInv ==
    \A i, j \in DOMAIN stack : \A p \in stack[i].todo, q \in stack[j].todo :
        ~Below(p, q) /\ (p = q => i = j)

\* Calls are made from inside what the references of the frames were resolved to.
OwnerInv ==
    \A i \in DOMAIN stack : stack[i].ref # NoRef =>
        \E b \in DOMAIN heap :
            /\ heap[b].ref = NoRef /\ given[heap[b].meant].ref = stack[i].ref
            /\ \A j \in DOMAIN stack : i <= j => \A p \in stack[j].todo : p = b \/ Below(b, p)

\* In a tree the maps of B have been visited, and where one was left as it was,
\* that is because its reference is circular.
Excused(a) ==
    \/ ToRoot(heap[a].ref)
    \/ \E b \in DOMAIN heap : Below(b, a) /\ given[heap[b].meant].ref = heap[a].ref
Seen(B) ==
    /\ B \subseteq DOMAIN heap /\ <<Root>> \in B \cup Pending
    /\ \A b \in B : IF heap[b].ref = NoRef THEN Range(heap[b].kids) \subseteq B \cup Pending ELSE Excused(b)
    /\ \A b \in B, p \in Pending : ~Below(p, b)
TreeInv == ~shallow /\ ~failed => OnceInv /\ OwnerInv /\ \E B \in SUBSET DOMAIN heap : Seen(B)

\* Where maps are shared, own names the map each frame is about, and the maps of
\* D are done with: they lead nowhere but to each other, and in no circle.
Duty(own, i) ==
    IF i = 1 THEN {<<Root>>} ELSE IF stack[i].ref = NoRef THEN Range(heap[own[i]].kids) ELSE {own[i]}
DoneWith(D, own) ==
    /\ \A x \in D : heap[x].ref = NoRef /\ Range(heap[x].kids) \subseteq D
    /\ \A S \in SUBSET D : S # {} => \E x \in S : Range(heap[x].kids) \cap S = {}
    /\ \A i \in DOMAIN stack : i # 1 => heap[own[i]].ref = NoRef
    /\ \A i \in DOMAIN stack :
           Duty(own, i) \subseteq D \cup stack[i].todo \cup {own[j] : j \in {i + 1} \cap DOMAIN stack}
    /\ stack = <<>> => <<Root>> \in D
GraphInv ==
    shallow /\ ~circular /\ ~failed =>
        \E D \in SUBSET DOMAIN heap, own \in [DOMAIN stack -> DOMAIN heap] : DoneWith(D, own)

\* A map without a reference is the one that it stands for in the files, value by
\* value, and a document is still at its place.
AsWritten(h, a) ==
    LET m == Follow(h[a].meant) IN
    h[a].ref = NoRef =>
        /\ h[a].object = given[m].object
        /\ DOMAIN h[a].kids = Keys(m)
        /\ \A k \in DOMAIN h[a].kids : h[h[a].kids[k]].meant = Append(m, k)
Faithful(h) ==
    /\ \A a \in DOMAIN h : AsWritten(h, a)
    /\ \A a \in DOMAIN h : Len(a) = 1 => h[a].meant = a
WrittenInv == Faithful(heap)

\* No reference leads to a reference, or past one, and those within a file are in
\* the document.
IsDirect(input) ==
    \A a, b \in DOMAIN input :
        input[a].ref # NoRef =>
            /\ input[a].ref.file = Here => Head(a) = Root
            /\ input[b].ref # NoRef => ~IsPrefix(b, Base(input[a].ref) \o input[a].ref.path)
InputsAreDirect == \A input \in Inputs : IsDirect(input)
=============================================================================
