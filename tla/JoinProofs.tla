------------------------------ MODULE JoinProofs ------------------------------
(***************************************************************************)
(* Theorems about SchemaJoin, for any number of documents, any schemas and *)
(* any templates, prefixes and notion of equivalence: where the renames    *)
(* lead, and what becomes of references from the end of the merge to the   *)
(* joined document.                                                        *)
(*                                                                         *)
(* Then about DocumentJoin.  What is proved of the merge of schemas holds  *)
(* of a whole join: whatever the other sections, the handler, the overlays *)
(* and the refusals do, the schemas go through steps of SchemaJoin and     *)
(* nothing else touches them.  And what is proved of the entries of the    *)
(* other sections, of what the caller is told, and of the lists.           *)
(***************************************************************************)
EXTENDS DocumentJoin, InductionLemmas, FiniteSetTheorems

-----------------------------------------------------------------------------
\* The operators of the model.

\* uniqueSchemaName returns a name that is free.
LEMMA UniqueIsFree ==
    ASSUME NEW candidate, NEW k \in Unique(candidate)
    PROVE  k \notin DOMAIN target
BY DEF Unique

\* Two schemas of a document are never stored under the same name.
LEMMA KeysDiffer ==
    ASSUME NEW n \in Name, NEW m \in Name, Key(n) = Key(m)
    PROVE  n = m
<1>1. CASE AlwaysApplyPrefix /\ Prefix[doc] # NoPrefix
  <2> DEFINE S == Token \cup {Prefix[doc]}
             P == <<Prefix[doc]>>
  <2>1. P \in Seq(S) /\ n \in Seq(S) /\ m \in Seq(S)
    BY DEF Name
  <2>2. P \o n = P \o m
    BY <1>1 DEF Key, Effective, Prefixed
  <2> HIDE DEF S, P
  <2>3. QED
    BY <2>1, <2>2, ConcatSimplifications
<1>2. CASE ~(AlwaysApplyPrefix /\ Prefix[doc] # NoPrefix)
  BY <1>2 DEF Key, Effective, Prefixed
<1>3. QED
  BY <1>1, <1>2

\* In f the current document has learnt where n is found, and nothing else.
Records(f, n, k) ==
    /\ DOMAIN f = Doc
    /\ \A e \in Doc : e # doc => f[e] = renames[e]
    /\ \A s : s # n => Lookup(f[doc], s) = Lookup(renames[doc], s)
    /\ DOMAIN f[doc] \subseteq DOMAIN renames[doc] \cup {n}
    /\ Lookup(f[doc], n) = k

\* Renaming an incoming schema records where it went.
LEMMA RightRecords ==
    ASSUME StoreInv, pc = "merge", NEW n, NEW k
    PROVE  Records(RegisterRight(n, k), n, k)
<1>1. doc \in Doc /\ DOMAIN renames = Doc
  BY DEF StoreInv
<1>2. /\ RegisterRight(n, k)[doc] = Put(renames[doc], n, k)
      /\ DOMAIN RegisterRight(n, k) = Doc
      /\ \A e \in Doc : e # doc => RegisterRight(n, k)[e] = renames[e]
  BY <1>1 DEF RegisterRight
<1>3. Lookup(RegisterRight(n, k)[doc], n) = k
  BY <1>2 DEF Put, Lookup
<1>4. \A x : x # n => Lookup(RegisterRight(n, k)[doc], x) = Lookup(renames[doc], x)
  BY <1>2 DEF Put, Lookup
<1>5. DOMAIN RegisterRight(n, k)[doc] \subseteq DOMAIN renames[doc] \cup {n}
  BY <1>2 DEF Put
<1>6. QED
  BY <1>2, <1>3, <1>4, <1>5 DEF Records

\* So does registering the prefix of a document, if it has one.
LEMMA PrefixRecords ==
    ASSUME StoreInv, pc = "merge", NEW n \in todo
    PROVE  Records(WithPrefix(n), n, Key(n))
<1>1. CASE AlwaysApplyPrefix /\ Prefix[doc] # NoPrefix
  <2>1. WithPrefix(n) = RegisterRight(n, Key(n))
    BY <1>1 DEF WithPrefix, RegisterRight, Key
  <2>2. QED
    BY <2>1, RightRecords
<1>2. CASE ~(AlwaysApplyPrefix /\ Prefix[doc] # NoPrefix)
  <2>1. doc \in Doc /\ DOMAIN renames = Doc /\ n \notin DOMAIN renames[doc]
    BY DEF StoreInv
  <2>2. WithPrefix(n) = renames /\ Key(n) = n
    BY <1>2 DEF WithPrefix, Key, Effective, Prefixed
  <2>3. QED
    BY <2>1, <2>2 DEF Records, Lookup
<1>3. QED
  BY <1>1, <1>2

-----------------------------------------------------------------------------
\* Merging one schema.

\* What was merged stays merged, and so is the schema being taken.
LEMMA MergedNow ==
    ASSUME StoreInv, pc = "merge", NEW n, Taking(n), UNCHANGED <<given, pc, doc>>
    PROVE  /\ doc \in Doc /\ n \in Spelled(doc) /\ n \in todo
           /\ todo' \subseteq Spelled(doc)'
           /\ \A o : Merged(o) => Merged(o)'
           /\ \A o : o.doc = doc /\ o.name = n => Merged(o)' /\ ~Merged(o)
           /\ Right(n) \notin DOMAIN meant
           /\ Right(n).doc = doc /\ Right(n).name = n /\ ~Right(n).custom
           /\ Right(n) = Obj(Right(n).doc, Right(n).name)
<1>1. doc \in Doc /\ n \in Spelled(doc) /\ n \in todo /\ n \notin todo' /\ todo' \subseteq todo
  BY DEF StoreInv, Taking
<1>2. docs' = docs /\ doc' = doc /\ pc' = pc
  BY DEF given
<1>3. doc \in Nat
  BY <1>1, DocumentsAssumption DEF Doc
<1>4. \A o : o.doc = doc /\ o.name = n => Merged(o)' /\ ~Merged(o)
  BY <1>1, <1>2, <1>3 DEF Merged, Spelled
<1>5. Right(n).doc = doc /\ Right(n).name = n /\ ~Right(n).custom
  BY DEF Right, Obj
<1>6. Right(n) \notin DOMAIN meant
  BY <1>4, <1>5 DEF StoreInv
<1>7. \A o : Merged(o) => Merged(o)'
  BY <1>1, <1>2 DEF Merged, Spelled
<1>8. QED
  BY <1>1, <1>2, <1>4, <1>5, <1>6, <1>7 DEF StoreInv, Spelled, Right, Obj

\* The clauses about renames that every merging step keeps.
LEMMA RecordsKeepShape ==
    ASSUME StoreInv, pc = "merge", NEW n, NEW k, Taking(n), UNCHANGED <<given, pc, doc>>, Records(renames', n, k)
    PROVE  /\ DOMAIN renames' = Doc
           /\ \A s \in todo' : s \notin DOMAIN renames'[doc]
           /\ \A d \in Doc : d > doc => DOMAIN renames'[d] = {}
<1>1. doc \in Nat /\ Doc \subseteq Nat
  BY DocumentsAssumption DEF StoreInv, Doc
<1>2. QED
  BY <1>1 DEF StoreInv, Taking, Records

\* The current document's schema n, or one made from it, is stored under k and
\* stands for whatever k meant before.
LEMMA StoreStep ==
    ASSUME StoreInv, RenamesFollowSchemas, pc = "merge",
           NEW n, NEW k, NEW o, Taking(n), UNCHANGED <<given, pc, doc>>, Records(renames', n, k),
           o.doc = doc, o.name = n,
           target' = Put(target, k, o),
           DOMAIN meant' = DOMAIN meant \cup {Right(n)}, meant'[Right(n)] = o,
           \A x \in DOMAIN meant :
               meant'[x] = IF k \in DOMAIN target /\ meant[x] = target[k] THEN o ELSE meant[x]
    PROVE  StoreInv' /\ RenamesFollowSchemas'
<1>1. /\ DOMAIN target' = DOMAIN target \cup {k} /\ target'[k] = o
      /\ \A l \in DOMAIN target : l # k => target'[l] = target[l]
  BY DEF Put
<1>2. /\ \A x \in DOMAIN meant : x = Obj(x.doc, x.name) /\ Merged(x)
      /\ \A l \in DOMAIN target : Merged(target[l])
      /\ \A l, m \in DOMAIN target : target[l] = target[m] => l = m
  BY DEF StoreInv
<1>3. \A l \in DOMAIN target : target[l] # o
  BY <1>2, MergedNow
<1>4. \A x \in DOMAIN meant' : x = Obj(x.doc, x.name) /\ Merged(x)'
  BY <1>2, MergedNow
<1>5. (\A l \in DOMAIN target : Merged(target[l]))'
  BY <1>1, <1>2, MergedNow DEF Merged
<1>6. \A l, m \in DOMAIN target' : target'[l] = target'[m] => l = m
  BY <1>1, <1>2, <1>3
<1>7. StoreInv'
  BY <1>4, <1>5, <1>6, MergedNow, RecordsKeepShape DEF StoreInv, given, Merged
<1>8. ASSUME NEW x \in DOMAIN meant'
      PROVE  Finds(Lookup(renames[x.doc], x.name), meant[x])'
  <2>1. CASE x = Right(n)
    <3>1. Lookup(renames'[doc], n) = k
      BY DEF Records
    <3>2. QED
      BY <1>1, <2>1, <3>1, MergedNow DEF Finds
  <2>2. CASE x # Right(n)
    <3> DEFINE l == Lookup(renames[x.doc], x.name)
    <3>1. x \in DOMAIN meant /\ l \in DOMAIN target /\ target[l] = meant[x]
      BY <2>2 DEF RenamesFollowSchemas, Finds
    <3>2. x.doc \in Doc /\ ~(x.doc = doc /\ x.name = n)
      BY <1>2, <2>2, <3>1, MergedNow DEF Merged, Right, Obj
    <3>3. Lookup(renames'[x.doc], x.name) = l
      BY <3>2 DEF Records
    <3>4. l # k => meant'[x] = meant[x]
      BY <1>2, <3>1
    <3>5. l = k => meant'[x] = o
      BY <3>1
    <3> HIDE DEF l
    <3>6. QED
      BY <1>1, <3>1, <3>3, <3>4, <3>5 DEF Finds
  <2>3. QED
    BY <2>1, <2>2
<1>9. QED
  BY <1>7, <1>8 DEF RenamesFollowSchemas

\* The schema stored under n's own name stands for it.
LEMMA KeepLeftStep ==
    ASSUME StoreInv, RenamesFollowSchemas, pc = "merge",
           NEW n, KeepLeft(n), Clashes(n)
    PROVE  StoreInv' /\ RenamesFollowSchemas' /\ Records(renames', n, Key(n))
<1> USE DEF KeepLeft
<1>1. Records(renames', n, Key(n))
  <2>1. renames' = WithPrefix(n) /\ n \in todo
    BY DEF Taking
  <2>2. QED
    BY <2>1, PrefixRecords
<1>2. DOMAIN meant' = DOMAIN meant \cup {Right(n)}
  BY DEF Put
<1>3. \A x \in DOMAIN meant : x = Obj(x.doc, x.name) /\ Merged(x)
  BY DEF StoreInv
<1>4. \A x \in DOMAIN meant' : x = Obj(x.doc, x.name) /\ Merged(x)'
  BY <1>2, <1>3, MergedNow
<1>5. (\A l \in DOMAIN target : Merged(target[l]))'
  BY MergedNow DEF StoreInv, Merged
<1>6. \A l, m \in DOMAIN target' : target'[l] = target'[m] => l = m
  BY DEF StoreInv
<1>7. StoreInv'
  BY <1>1, <1>4, <1>5, <1>6, MergedNow, RecordsKeepShape DEF StoreInv, given, Merged
<1>8. ASSUME NEW x \in DOMAIN meant'
      PROVE  Finds(Lookup(renames[x.doc], x.name), meant[x])'
  <2>1. CASE x = Right(n)
    <3>1. Lookup(renames'[doc], n) = Key(n)
      BY <1>1 DEF Records
    <3>2. meant'[x] = target[Key(n)]
      BY <2>1 DEF Put, Left
    <3>3. QED
      BY <2>1, <3>1, <3>2, MergedNow DEF Finds, Clashes
  <2>2. CASE x # Right(n)
    <3>1. x \in DOMAIN meant /\ meant'[x] = meant[x]
      BY <2>2 DEF Put
    <3>2. x.doc \in Doc /\ ~(x.doc = doc /\ x.name = n)
      BY <1>3, <2>2, <3>1, MergedNow DEF Merged, Right, Obj
    <3>3. Lookup(renames'[x.doc], x.name) = Lookup(renames[x.doc], x.name)
      BY <1>1, <3>2 DEF Records
    <3>4. QED
      BY <3>1, <3>3 DEF RenamesFollowSchemas, Finds
  <2>3. QED
    BY <2>1, <2>2
<1>9. QED
  BY <1>1, <1>7, <1>8 DEF RenamesFollowSchemas

\* rename-left: earlier documents that found k find what it held under its new
\* name, and no document since has anything under k.
LEMMA RenameLeftStep ==
    ASSUME StoreInv, LeftInv, RenamesFollowSchemas, pc = "merge", strategy = "rename-left",
           NEW n, RenameLeft(n), Clashes(n)
    PROVE  StoreInv' /\ LeftInv' /\ RenamesFollowSchemas'
<1> DEFINE k == Key(n)
           f == WithPrefix(n)
<1>1. PICK newName \in Unique(LeftCandidate(Left(n).doc, k)) :
        /\ target' = Put(Put(target, newName, target[k]), k, Right(n))
        /\ renames' = RegisterLeft(f, k, newName)
  BY DEF RenameLeft, Left
<1>2. /\ Taking(n) /\ UNCHANGED <<given, pc, doc>>
      /\ meant' = Put(meant, Right(n), Right(n))
  BY DEF RenameLeft
<1>3. k \in DOMAIN target /\ newName \notin DOMAIN target /\ n \in todo /\ doc \in Doc /\ doc \in Nat
  BY <1>1, <1>2, UniqueIsFree, DocumentsAssumption DEF Clashes, Taking, StoreInv, Doc
<1>4. /\ DOMAIN target' = DOMAIN target \cup {newName}
      /\ target'[k] = Right(n) /\ target'[newName] = target[k]
      /\ \A l \in DOMAIN target : l # k => target'[l] = target[l]
  BY <1>1, <1>3 DEF Put
<1>5. /\ DOMAIN meant' = DOMAIN meant \cup {Right(n)}
      /\ meant'[Right(n)] = Right(n)
      /\ \A x \in DOMAIN meant : meant'[x] = meant[x]
  BY <1>2, MergedNow DEF Put
<1>6. Records(f, n, k)
  BY <1>3, PrefixRecords
<1>7. /\ DOMAIN renames' = Doc /\ renames'[doc] = f[doc]
      /\ \A e \in Doc : e > doc => renames'[e] = renames[e]
  BY <1>1, <1>3, <1>6 DEF RegisterLeft, Records
<1>8. \A e \in Doc : e < doc => \A s :
        Lookup(renames'[e], s) = IF Lookup(renames[e], s) = k THEN newName ELSE Lookup(renames[e], s)
  <2> HIDE DEF f, k
  <2>1. ASSUME NEW e \in Doc, e < doc
        PROVE  f[e] = renames[e] /\ DOMAIN f = Doc
    <3>1. DOMAIN f = Doc /\ (e # doc => f[e] = renames[e])
      BY <1>6 DEF Records
    <3>2. e # doc
      BY <1>3, <2>1
    <3>3. QED
      BY <3>1, <3>2
  <2>2. ASSUME NEW e \in Doc, e < doc, NEW s
        PROVE  Lookup(renames'[e], s) = IF Lookup(renames[e], s) = k THEN newName ELSE Lookup(renames[e], s)
    <3> DEFINE followed == [t \in DOMAIN renames[e] |-> IF renames[e][t] = k THEN newName ELSE renames[e][t]]
    <3>1. renames'[e] = IF k \in DOMAIN followed THEN followed ELSE Put(followed, k, newName)
      BY <1>1, <1>3, <2>1, <2>2, DocumentsAssumption DEF RegisterLeft, Doc
    <3>2. CASE s \in DOMAIN renames[e]
      BY <3>1, <3>2 DEF Put, Lookup
    <3>3. CASE s \notin DOMAIN renames[e]
      BY <3>1, <3>3 DEF Put, Lookup
    <3>4. QED
      BY <3>2, <3>3
  <2>3. QED
    BY <2>2
<1> HIDE DEF f
<1>9. /\ \A x \in DOMAIN meant : x = Obj(x.doc, x.name) /\ Merged(x)
      /\ \A l \in DOMAIN target : Merged(target[l])
      /\ \A l, m \in DOMAIN target : target[l] = target[m] => l = m
  BY DEF StoreInv
<1>10. /\ \A x \in DOMAIN meant' : x = Obj(x.doc, x.name) /\ Merged(x)'
  BY <1>2, <1>5, <1>9, MergedNow
<1>11. (\A l \in DOMAIN target : Merged(target[l]))'
  BY <1>2, <1>3, <1>4, <1>9, MergedNow DEF Merged
<1>12. \A l \in DOMAIN target : target[l] # Right(n)
  BY <1>2, <1>9, MergedNow
<1>13. \A l, m \in DOMAIN target' : target'[l] = target'[m] => l = m
  BY <1>3, <1>4, <1>9, <1>12
<1>14. StoreInv'
  <2>1. \A s \in todo' : s \notin DOMAIN renames'[doc]
    BY <1>2, <1>3, <1>6, <1>7 DEF StoreInv, Taking, Records
  <2>2. \A d \in Doc : d > doc => DOMAIN renames'[d] = {}
    BY <1>7 DEF StoreInv
  <2>3. QED
    BY <1>2, <1>7, <1>10, <1>11, <1>13, <2>1, <2>2, MergedNow DEF StoreInv, given, Merged
<1>15. \A x \in DOMAIN meant : x.doc = doc => x.name # n
  BY <1>2, <1>9, MergedNow
<1>16. \A x \in DOMAIN meant : x.doc = doc =>
         Lookup(renames'[doc], x.name) = Key(x.name) /\ Key(x.name) # k /\ Lookup(renames[doc], x.name) = Key(x.name)
  <2>1. ASSUME NEW x \in DOMAIN meant, x.doc = doc
        PROVE  Key(x.name) # k /\ Lookup(renames[doc], x.name) = Key(x.name)
    <3>1. x.name \in Name /\ n \in Name
      BY <1>2, <1>3, <1>9, <2>1, MergedNow, InputsAssumption DEF StoreInv, Merged, Spelled
    <3>2. QED
      BY <1>15, <2>1, <3>1, KeysDiffer DEF LeftInv
  <2>2. QED
    BY <1>6, <1>7, <1>15, <2>1 DEF Records
<1>17. LeftInv'
  <2>1. ASSUME NEW x \in DOMAIN meant', x.doc = doc
        PROVE  Lookup(renames'[doc], x.name) = Key(x.name)
    <3>1. CASE x = Right(n)
      BY <1>2, <1>6, <1>7, <3>1, MergedNow DEF Records
    <3>2. CASE x # Right(n)
      BY <1>5, <1>16, <2>1, <3>2
    <3>3. QED
      BY <3>1, <3>2
  <2>2. QED
    BY <1>2, <2>1 DEF LeftInv, Key, given
<1>18. ASSUME NEW x \in DOMAIN meant'
       PROVE  Finds(Lookup(renames[x.doc], x.name), meant[x])'
  <2>1. CASE x = Right(n)
    <3>1. Lookup(renames'[doc], n) = k
      BY <1>6, <1>7 DEF Records
    <3>2. QED
      BY <1>2, <1>3, <1>4, <1>5, <2>1, <3>1, MergedNow DEF Finds
  <2>2. CASE x # Right(n)
    <3> DEFINE l == Lookup(renames[x.doc], x.name)
    <3>1. x \in DOMAIN meant /\ l \in DOMAIN target /\ target[l] = meant[x] /\ meant'[x] = meant[x]
      BY <1>5, <2>2 DEF RenamesFollowSchemas, Finds
    <3>2. x.doc \in Doc /\ x.doc =< doc /\ x.doc \in Nat
      BY <1>9, <3>1, DocumentsAssumption DEF Merged, Doc
    <3> HIDE DEF k
    <3>3. CASE x.doc = doc
      <4>1. l # k /\ Lookup(renames'[x.doc], x.name) = l
        BY <1>16, <3>1, <3>3
      <4> HIDE DEF l
      <4>2. QED
        BY <1>4, <3>1, <4>1 DEF Finds
    <3>4. CASE x.doc < doc
      <4>1. Lookup(renames'[x.doc], x.name) = IF l = k THEN newName ELSE l
        BY <1>8, <3>2, <3>4
      <4> HIDE DEF l
      <4>2. QED
        BY <1>4, <3>1, <4>1 DEF Finds
    <3>5. QED
      BY <1>3, <3>2, <3>3, <3>4
  <2>3. QED
    BY <2>1, <2>2
<1>19. QED
  BY <1>14, <1>17, <1>18 DEF RenamesFollowSchemas

\* Under rename-left the current document finds its schemas where it put them.
LEMMA LeftInvStep ==
    ASSUME StoreInv, LeftInv, pc = "merge", NEW n, Taking(n), UNCHANGED <<given, pc, doc>>,
           strategy = "rename-left" => Records(renames', n, Key(n)),
           DOMAIN meant' = DOMAIN meant \cup {Right(n)}
    PROVE  LeftInv'
<1> SUFFICES ASSUME strategy = "rename-left", NEW x \in DOMAIN meant', x.doc = doc
             PROVE  Lookup(renames'[doc], x.name) = Key(x.name)
  BY DEF LeftInv, given, Key
<1>1. CASE x = Right(n)
  BY <1>1, MergedNow DEF Records
<1>2. CASE x # Right(n)
  <2>1. x \in DOMAIN meant /\ x.name # n
    BY <1>2, MergedNow DEF StoreInv
  <2>2. QED
    BY <2>1 DEF LeftInv, Records
<1>3. QED
  BY <1>1, <1>2

\* Under deduplicate-or-rename a document's schema is only ever replaced by
\* one of the handler's own.
LEMMA DeferStep ==
    ASSUME StoreInv, DeferInv, pc = "merge", strategy = "deduplicate-or-rename",
           NEW n, NEW k, NEW o, Taking(n), UNCHANGED <<given, pc, doc>>, Records(renames', n, k),
           o.doc = doc, o.name = n, o = Right(n) \/ o.custom, k \in DOMAIN target => o.custom,
           target' = Put(target, k, o),
           DOMAIN meant' = DOMAIN meant \cup {Right(n)}, meant'[Right(n)] = o,
           \A x \in DOMAIN meant :
               meant'[x] = IF k \in DOMAIN target /\ meant[x] = target[k] THEN o ELSE meant[x]
    PROVE  DeferInv'
<1>1. /\ \A x \in DOMAIN meant : meant[x] = x \/ meant[x].custom
      /\ RenamesAreMerged
      /\ \A l \in DOMAIN target : Settled(l) => StandsForItself(l)
  BY DEF DeferInv
<1>2. \A x \in DOMAIN meant' : meant'[x] = x \/ meant'[x].custom
  BY <1>1
<1>3. RenamesAreMerged'
  <2>1. ASSUME NEW d \in Doc, NEW s \in DOMAIN renames'[d]
        PROVE  Obj(d, s) \in DOMAIN meant'
    <3>1. CASE d = doc /\ s = n
      BY <3>1 DEF Right
    <3>2. CASE ~(d = doc /\ s = n)
      <4>1. s \in DOMAIN renames[d]
        BY <2>1, <3>2 DEF Records
      <4>2. QED
        BY <1>1, <4>1 DEF RenamesAreMerged
    <3>3. QED
      BY <3>1, <3>2
  <2>2. QED
    BY <2>1 DEF RenamesAreMerged
<1>4. ASSUME NEW l \in DOMAIN target', Settled(l)'
      PROVE  StandsForItself(l)'
  <2>1. /\ target'[k] = o
        /\ \A m \in DOMAIN target : m # k => target'[m] = target[m]
        /\ DOMAIN target' = DOMAIN target \cup {k}
    BY DEF Put
  <2>2. ~target'[l].custom
    BY <1>4 DEF Settled
  <2>3. CASE l = k
    BY <2>1, <2>2, <2>3, MergedNow DEF StandsForItself
  <2>4. CASE l # k
    <3>1. l \in DOMAIN target /\ Settled(l) /\ target'[l] = target[l]
      BY <2>1, <2>2, <2>4 DEF Settled
    <3>2. target[l] \in DOMAIN meant /\ meant[target[l]] = target[l]
      BY <1>1, <3>1 DEF StandsForItself
    <3>3. k \in DOMAIN target => target[k] # target[l]
      BY <2>4, <3>1 DEF StoreInv
    <3>4. QED
      BY <3>1, <3>2, <3>3 DEF StandsForItself
  <2>5. QED
    BY <2>3, <2>4
<1>5. QED
  BY <1>2, <1>3, <1>4 DEF DeferInv, given

-----------------------------------------------------------------------------
\* The collapse.

\* Names in Best(K, made) are names of K.
LEMMA AliasMapsLead ==
    ASSUME NEW classes, NEW made, NEW f \in AliasMaps(classes, made),
           NEW a \in DOMAIN f
    PROVE  a \in UNION classes /\ f[a] \in UNION classes /\ f[a] \notin DOMAIN f
<1> DEFINE several == {K \in classes : \E x, y \in K : x # y}
           names   == UNION several
           keeps   == {c \in [several -> names] : \A K \in several : c[K] \in Best(K, made)}
           kept(c, x) == c[CHOOSE K \in several : x \in K]
<1>1. PICK c \in keeps : f = [x \in names \ Image(c) |-> kept(c, x)]
  BY DEF AliasMaps
<1>2. a \in names /\ f[a] = kept(c, a) /\ DOMAIN f = names \ Image(c)
  BY <1>1
<1>3. (CHOOSE K \in several : a \in K) \in several
  BY <1>2
<1>4. c \in [several -> names]
  OBVIOUS
<1> HIDE DEF several
<1>5. f[a] \in names /\ f[a] \in Image(c)
  BY <1>2, <1>3, <1>4 DEF Image
<1>6. names \subseteq UNION classes
  BY DEF several
<1>7. QED
  BY <1>2, <1>5, <1>6

\* The collapse starts with every document's renames leading to its schemas.
LEMMA EndMergeStep ==
    ASSUME StoreInv, DeferInv, RenamesFollowSchemas, EndMerge, pc' = "collapse"
    PROVE  StoreInv' /\ LeftInv' /\ DeferInv' /\ DropInv' /\ RenamesFollowSchemas'
<1>1. /\ pc = "merge" /\ todo = {} /\ UNCHANGED <<given, doc, todo, stores, renames>>
      /\ alias' \in IF deferred = {} THEN {<<>>} ELSE AliasMaps(Classes, GeneratedNames)
  BY DEF EndMerge
<1>2. docs' = docs /\ strategy' = strategy /\ target' = target /\ meant' = meant
  BY <1>1 DEF given, stores
<1>3. \A o : Merged(o) => Merged(o)'
  BY <1>1, <1>2 DEF Merged, Spelled
<1>4. (\A k \in DOMAIN target : Merged(target[k]))'
  BY <1>2, <1>3 DEF StoreInv, Merged
<1>5. StoreInv'
  BY <1>1, <1>2, <1>3, <1>4 DEF StoreInv
<1>6. ASSUME Undropped' # {}
      PROVE  DropInv'
  <2>1. deferred # {}
    BY <1>1, <1>6 DEF Undropped
  <2>2. /\ \A x \in DOMAIN meant : meant[x] = x \/ meant[x].custom
        /\ RenamesAreMerged
        /\ \A k \in DOMAIN target : Settled(k) => StandsForItself(k)
    BY <1>1, <2>1 DEF DeferInv
  <2>3. UNION Classes \subseteq Members
    BY DEF Classes, Group
  <2>4. \A k \in Members : Settled(k) /\ k \in DOMAIN target
    BY DEF Members, Pairs, Settled
  <2>5. alias' \in AliasMaps(Classes, GeneratedNames)
    BY <1>1, <2>1
  <2>6. \A a \in DOMAIN alias' : Settled(a) /\ a \in DOMAIN target
    BY <2>3, <2>4, <2>5, AliasMapsLead
  <2>7. \A a \in DOMAIN alias' : alias'[a] \in DOMAIN target \ DOMAIN alias'
    BY <2>3, <2>4, <2>5, AliasMapsLead
  <2>8. \A a \in DOMAIN alias' :
          /\ target[a] \in DOMAIN meant /\ meant[target[a]] = target[a]
          /\ \A x \in DOMAIN meant : meant[x] = target[a] => x = target[a]
    BY <2>2, <2>6 DEF StandsForItself, Settled
  <2>9. QED
    BY <1>1, <1>2, <2>2, <2>7, <2>8 DEF DropInv, Undropped, StandsForItself, RenamesAreMerged
<1>7. RenamesFollowSchemas'
  BY <1>1, <1>2 DEF RenamesFollowSchemas, Finds
<1>8. QED
  BY <1>5, <1>6, <1>7 DEF LeftInv, DeferInv, DropInv

\* Only the owner's own name for the removed schema leads to its key.
LEMMA RedirectMeetsOne ==
    ASSUME StoreInv, DropInv, RenamesFollowSchemas, pc = "collapse", NEW a \in Undropped
    PROVE  LET x == target[a] IN
           /\ x.doc \in Doc /\ x = Obj(x.doc, x.name) /\ x \in DOMAIN meant
           /\ Lookup(renames[x.doc], x.name) = a
           /\ \A y \in DOMAIN meant : meant[y] = x => y = x
           /\ \A s \in DOMAIN renames[x.doc] : renames[x.doc][s] = a => s = x.name
<1> DEFINE x == target[a]
<1>1. /\ a \in DOMAIN target /\ x \in DOMAIN meant /\ meant[x] = x
      /\ \A y \in DOMAIN meant : meant[y] = x => y = x
      /\ RenamesAreMerged
  BY DEF DropInv, StandsForItself, Undropped
<1>2. x.doc \in Doc /\ x = Obj(x.doc, x.name)
  BY <1>1 DEF StoreInv, Merged
<1>3. Lookup(renames[x.doc], x.name) = a
  <2>1. /\ Lookup(renames[x.doc], x.name) \in DOMAIN target
        /\ target[Lookup(renames[x.doc], x.name)] = target[a]
    BY <1>1 DEF RenamesFollowSchemas, Finds
  <2>2. QED
    BY <1>1, <2>1 DEF StoreInv
<1>4. ASSUME NEW s \in DOMAIN renames[x.doc], renames[x.doc][s] = a
      PROVE  s = x.name
  <2> DEFINE y == Obj(x.doc, s)
  <2>1. y \in DOMAIN meant /\ y.doc = x.doc /\ y.name = s
    BY <1>1, <1>2 DEF RenamesAreMerged, Obj
  <2>2. Lookup(renames[y.doc], y.name) = a
    BY <1>4, <2>1 DEF Lookup
  <2>3. meant[y] = x
    BY <2>1, <2>2 DEF RenamesFollowSchemas, Finds
  <2>4. QED
    BY <1>1, <2>1, <2>3
<1>5. QED
  BY <1>1, <1>2, <1>3, <1>4

\* Removing a name and redirecting the renames onto it loses no schema.
LEMMA DropStep ==
    ASSUME StoreInv, DropInv, RenamesFollowSchemas, NEW a \in DOMAIN alias, Drop(a)
    PROVE  StoreInv' /\ DropInv' /\ RenamesFollowSchemas'
<1> DEFINE x == target[a]
           d == x.doc
           b == alias[a]
<1>1. /\ pc = "collapse" /\ a \in Undropped /\ a \in DOMAIN target
      /\ UNCHANGED <<given, pc, doc, todo, alias>>
      /\ renames' \in Redirected(d, a, b)
      /\ meant' = StandsFor(meant, x, target[b])
  BY DEF Drop, Undropped
<1>2. /\ DOMAIN target' = DOMAIN target \ {a}
      /\ \A l \in DOMAIN target' : target'[l] = target[l]
  BY DEF Drop, Without
<1>3. /\ \A c \in DOMAIN alias : alias[c] \in DOMAIN target \ DOMAIN alias
      /\ \A c \in Undropped :
           /\ target[c] \in DOMAIN meant /\ meant[target[c]] = target[c]
           /\ \A y \in DOMAIN meant : meant[y] = target[c] => y = target[c]
      /\ RenamesAreMerged
  BY <1>1 DEF DropInv, StandsForItself
<1>4. b \in DOMAIN target /\ b \notin DOMAIN alias /\ b # a /\ b \in DOMAIN target'
  BY <1>2, <1>3
<1>5. /\ d \in Doc /\ x = Obj(d, x.name) /\ x \in DOMAIN meant
      /\ Lookup(renames[d], x.name) = a
      /\ \A y \in DOMAIN meant : meant[y] = x => y = x
      /\ \A s \in DOMAIN renames[d] : renames[d][s] = a => s = x.name
  BY <1>1, RedirectMeetsOne
<1>6. /\ \A l, m \in DOMAIN target : target[l] = target[m] => l = m
      /\ \A y \in DOMAIN meant : y = Obj(y.doc, y.name) /\ Merged(y)
      /\ \A l \in DOMAIN target : Merged(target[l])
      /\ DOMAIN renames = Doc
  BY DEF StoreInv
<1>7. /\ DOMAIN meant' = DOMAIN meant /\ meant'[x] = target[b]
      /\ \A y \in DOMAIN meant : y # x => meant'[y] = meant[y]
  BY <1>1, <1>3, <1>5 DEF StandsFor

\* The redirect moves the owner's name for the schema from a to b.
<1>8. /\ DOMAIN renames' = Doc
      /\ \A e \in Doc : e # d => renames'[e] = renames[e]
      /\ Lookup(renames'[d], x.name) = b
      /\ \A s : s # x.name => Lookup(renames'[d], s) = Lookup(renames[d], s)
      /\ DOMAIN renames'[d] \subseteq DOMAIN renames[d] \cup {x.name}
  <2> DEFINE onto == {s \in DOMAIN renames[d] : renames[d][s] = a}
  <2> HIDE DEF x, d, b
  <2>1. CASE onto = {}
    <3>1. x.name = a
      BY <1>5, <2>1 DEF Lookup
    <3>2. renames' = [renames EXCEPT ![d] = Put(@, x.name, b)]
      BY <1>1, <2>1, <3>1 DEF Redirected
    <3>3. renames'[d] = Put(renames[d], x.name, b)
      BY <1>5, <1>6, <3>2
    <3>4. QED
      BY <1>5, <1>6, <3>2, <3>3 DEF Put, Lookup
  <2>2. CASE onto # {}
    <3>1. onto = {x.name}
      BY <1>5, <2>2
    <3>2. renames' = [renames EXCEPT ![d] = IF x.name = b THEN Without(@, {x.name}) ELSE Put(@, x.name, b)]
      BY <1>1, <2>2, <3>1 DEF Redirected
    <3>3. renames'[d] = IF x.name = b THEN Without(renames[d], {x.name}) ELSE Put(renames[d], x.name, b)
      BY <1>5, <1>6, <3>2
    <3>4. CASE x.name = b
      BY <1>5, <1>6, <3>2, <3>3, <3>4 DEF Without, Lookup
    <3>5. CASE x.name # b
      BY <1>5, <1>6, <3>2, <3>3, <3>5 DEF Put, Lookup
    <3>6. QED
      BY <3>4, <3>5
  <2>3. QED
    BY <2>1, <2>2
<1> HIDE DEF x, d, b
<1>9. \A o : Merged(o) => Merged(o)'
  BY <1>1 DEF Merged, Spelled, given
<1>10. (\A l \in DOMAIN target : Merged(target[l]))'
  BY <1>2, <1>6, <1>9 DEF Merged
<1>11. \A y \in DOMAIN meant' : y = Obj(y.doc, y.name) /\ Merged(y)'
  BY <1>6, <1>7, <1>9
<1>12. StoreInv'
  BY <1>1, <1>2, <1>6, <1>8, <1>10, <1>11 DEF StoreInv, given
<1>13. RenamesAreMerged'
  <2>1. ASSUME NEW e \in Doc, NEW s \in DOMAIN renames'[e]
        PROVE  Obj(e, s) \in DOMAIN meant'
    BY <1>3, <1>5, <1>7, <1>8 DEF RenamesAreMerged
  <2>2. QED
    BY <2>1 DEF RenamesAreMerged
<1>14. ASSUME NEW c \in Undropped'
       PROVE  /\ target'[c] \in DOMAIN meant' /\ meant'[target'[c]] = target'[c]
              /\ \A y \in DOMAIN meant' : meant'[y] = target'[c] => y = target'[c]
  <2>1. c \in Undropped /\ c \in DOMAIN alias /\ c \in DOMAIN target /\ c # a /\ target'[c] = target[c] /\ c # b
    BY <1>1, <1>2, <1>4 DEF Undropped
  <2>2. target[c] # x /\ target[c] # target[b]
    BY <1>1, <1>4, <1>6, <2>1 DEF x
  <2>3. QED
    BY <1>3, <1>7, <2>1, <2>2
<1>15. DropInv'
  <2>1. \A c \in DOMAIN alias' : alias'[c] \in DOMAIN target' \ DOMAIN alias'
    BY <1>1, <1>2, <1>3
  <2>2. QED
    BY <1>13, <1>14, <2>1 DEF DropInv, StandsForItself
<1>16. ASSUME NEW y \in DOMAIN meant'
       PROVE  Finds(Lookup(renames[y.doc], y.name), meant[y])'
  <2>1. CASE y = x
    <3>1. Lookup(renames'[y.doc], y.name) = b
      BY <1>8, <2>1 DEF d
    <3>2. meant'[y] = target'[b]
      BY <1>2, <1>4, <1>7, <2>1
    <3>3. QED
      BY <1>4, <3>1, <3>2 DEF Finds
  <2>2. CASE y # x
    <3> DEFINE l == Lookup(renames[y.doc], y.name)
    <3>1. y \in DOMAIN meant /\ l \in DOMAIN target /\ target[l] = meant[y] /\ meant'[y] = meant[y]
      BY <1>1, <1>7, <2>2 DEF RenamesFollowSchemas, Finds
    <3>2. l # a
      BY <1>5, <2>2, <3>1 DEF x
    <3>3. y.doc \in Doc /\ ~(y.doc = d /\ y.name = x.name)
      BY <1>5, <1>6, <2>2, <3>1 DEF Merged
    <3>4. Lookup(renames'[y.doc], y.name) = l
      BY <1>8, <3>3
    <3> HIDE DEF l
    <3>5. QED
      BY <1>2, <3>1, <3>2, <3>4 DEF Finds
  <2>3. QED
    BY <2>1, <2>2
<1>17. QED
  BY <1>12, <1>15, <1>16 DEF RenamesFollowSchemas

-----------------------------------------------------------------------------
\* One step of the merge.

\* Insert, KeepRight, KeepCustom, RenameRight and RenameAndDefer store an
\* object made from n under k.
Stores(n, k, o) ==
    /\ Taking(n) /\ UNCHANGED <<given, pc, doc>> /\ Records(renames', n, k)
    /\ o.doc = doc /\ o.name = n
    /\ target' = Put(target, k, o)
    /\ DOMAIN meant' = DOMAIN meant \cup {Right(n)} /\ meant'[Right(n)] = o
    /\ \A x \in DOMAIN meant :
         meant'[x] = IF k \in DOMAIN target /\ meant[x] = target[k] THEN o ELSE meant[x]

\* A schema under a free name is stored there.
LEMMA InsertStores ==
    ASSUME StoreInv, pc = "merge", NEW n, Insert(n)
    PROVE  Stores(n, Key(n), Right(n)) /\ UNCHANGED deferred
<1>1. /\ Taking(n) /\ UNCHANGED <<given, pc, doc, deferred>> /\ Key(n) \notin DOMAIN target
      /\ target' = Put(target, Key(n), Right(n))
      /\ meant' = Put(meant, Right(n), Right(n))
      /\ renames' = WithPrefix(n)
  BY DEF Insert, Clashes, Store
<1>2. Records(renames', n, Key(n))
  <2>1. n \in todo
    BY <1>1 DEF Taking
  <2>2. QED
    BY <1>1, <2>1, PrefixRecords
<1>3. /\ DOMAIN meant' = DOMAIN meant \cup {Right(n)} /\ meant'[Right(n)] = Right(n)
      /\ \A x \in DOMAIN meant : meant'[x] = meant[x]
  BY <1>1, MergedNow DEF Put
<1>4. QED
  BY <1>1, <1>2, <1>3, MergedNow DEF Stores

\* So is one that replaces what the name held.
LEMMA ReplaceStores ==
    ASSUME StoreInv, pc = "merge", NEW n, NEW o, NEW r, Replace(n, o, r), Clashes(n),
           o.doc = doc, o.name = n
    PROVE  Stores(n, Key(n), o) /\ UNCHANGED deferred
<1>1. /\ Taking(n) /\ UNCHANGED <<given, pc, doc, deferred>> /\ Key(n) \in DOMAIN target
      /\ target' = Put(target, Key(n), o)
      /\ meant' = Put(StandsFor(meant, target[Key(n)], o), Right(n), o)
      /\ renames' = WithPrefix(n)
  BY DEF Replace, Clashes, Store, Left
<1>2. Records(renames', n, Key(n))
  <2>1. n \in todo
    BY <1>1 DEF Taking
  <2>2. QED
    BY <1>1, <2>1, PrefixRecords
<1>3. /\ DOMAIN meant' = DOMAIN meant \cup {Right(n)} /\ meant'[Right(n)] = o
      /\ \A x \in DOMAIN meant : meant'[x] = IF meant[x] = target[Key(n)] THEN o ELSE meant[x]
  BY <1>1, MergedNow DEF Put, StandsFor
<1>4. QED
  BY <1>1, <1>2, <1>3 DEF Stores

\* RenameRight and RenameAndDefer, for a name uniqueSchemaName chose.
LEMMA RenameStores ==
    ASSUME StoreInv, pc = "merge", NEW n, NEW candidate, NEW k \in Unique(candidate),
           Taking(n), UNCHANGED <<given, pc, doc>>,
           target' = Put(target, k, Right(n)),
           meant' = Put(meant, Right(n), Right(n)),
           renames' = RegisterRight(n, k)
    PROVE  Stores(n, k, Right(n)) /\ k \notin DOMAIN target
<1>1. k \notin DOMAIN target
  BY UniqueIsFree
<1>2. Records(renames', n, k)
  <2>1. Records(RegisterRight(n, k), n, k)
    BY RightRecords
  <2>2. QED
    BY <2>1
<1>3. /\ DOMAIN meant' = DOMAIN meant \cup {Right(n)} /\ meant'[Right(n)] = Right(n)
      /\ \A x \in DOMAIN meant : meant'[x] = meant[x]
  BY MergedNow DEF Put
<1>4. QED
  BY <1>1, <1>2, <1>3, MergedNow DEF Stores

Holds == StoreInv /\ LeftInv /\ DeferInv /\ DropInv /\ RenamesFollowSchemas

\* Storing a schema and recording where keeps the invariant.
LEMMA StoresStep ==
    ASSUME Holds, pc = "merge", NEW n, NEW k, NEW o, Stores(n, k, o),
           strategy = "rename-left" => k = Key(n),
           strategy = "deduplicate-or-rename" => o = Right(n) \/ o.custom,
           strategy = "deduplicate-or-rename" /\ k \in DOMAIN target => o.custom,
           strategy # "deduplicate-or-rename" => UNCHANGED deferred
    PROVE  Holds'
<1> USE DEF Stores
<1>1. StoreInv' /\ RenamesFollowSchemas'
  BY StoreStep DEF Holds
<1>2. LeftInv'
  BY LeftInvStep DEF Holds
<1>3. DeferInv'
  <2>1. CASE strategy = "deduplicate-or-rename"
    BY <2>1, DeferStep DEF Holds
  <2>2. CASE strategy # "deduplicate-or-rename"
    BY <2>2 DEF DeferInv, given, Holds
  <2>3. QED
    BY <2>1, <2>2
<1>4. DropInv'
  BY DEF DropInv, given
<1>5. QED
  BY <1>1, <1>2, <1>3, <1>4 DEF Holds

\* Keeping the schema that is there keeps it too.
LEMMA KeepLeftHolds ==
    ASSUME Holds, pc = "merge", NEW n, KeepLeft(n), Clashes(n), strategy # "deduplicate-or-rename"
    PROVE  Holds'
<1>1. StoreInv' /\ RenamesFollowSchemas' /\ Records(renames', n, Key(n))
  BY KeepLeftStep DEF Holds
<1>2. Taking(n) /\ UNCHANGED <<given, pc, doc, deferred>> /\ DOMAIN meant' = DOMAIN meant \cup {Right(n)}
  BY DEF KeepLeft, Put
<1>3. LeftInv'
  BY <1>1, <1>2, LeftInvStep DEF Holds
<1>4. DeferInv' /\ DropInv'
  BY <1>2 DEF DeferInv, DropInv, given, Holds
<1>5. QED
  BY <1>1, <1>3, <1>4 DEF Holds

\* However a schema of the current document is treated, the invariant holds.
LEMMA MergeStep ==
    ASSUME HandlersRespectStrategy, Holds, pc = "merge", NEW n \in todo,
           Insert(n) \/ Collide(n), pc' = pc
    PROVE  Holds'
<1> USE DEF Holds
<1>1. strategy \in Strategies
  BY DEF StoreInv
<1>2. CASE Insert(n)
  <2>1. Stores(n, Key(n), Right(n)) /\ UNCHANGED deferred /\ Key(n) \notin DOMAIN target
    BY <1>2, InsertStores DEF Insert, Clashes
  <2>2. QED
    BY <2>1, StoresStep
<1>3. ASSUME KeepRight(n), Clashes(n), strategy # "deduplicate-or-rename"
      PROVE  Holds'
  <2>1. Right(n).doc = doc /\ Right(n).name = n
    BY DEF Right, Obj
  <2>2. Stores(n, Key(n), Right(n)) /\ UNCHANGED deferred
    BY <1>3, <2>1, ReplaceStores DEF KeepRight
  <2>3. QED
    BY <1>3, <2>2, StoresStep
<1>4. ASSUME KeepCustom(n), Clashes(n)
      PROVE  Holds'
  <2> DEFINE o == [Right(n) EXCEPT !.custom = TRUE]
  <2>1. o.doc = doc /\ o.name = n /\ o.custom
    BY DEF Right, Obj
  <2>2. Replace(n, o, Written(Right(n)).refs)
    BY <1>4 DEF KeepCustom
  <2> HIDE DEF o
  <2>3. Stores(n, Key(n), o) /\ UNCHANGED deferred
    BY <1>4, <2>1, <2>2, ReplaceStores
  <2>4. QED
    BY <2>1, <2>3, StoresStep
<1>5. ASSUME NEW candidate, RenameRight(n, candidate), strategy # "rename-left"
      PROVE  Holds'
  <2>1. PICK k \in Unique(candidate) :
          target' = Put(target, k, Right(n)) /\ renames' = RegisterRight(n, k)
    BY <1>5 DEF RenameRight, Store
  <2>2. /\ Taking(n) /\ UNCHANGED <<given, pc, doc, deferred>>
        /\ meant' = Put(meant, Right(n), Right(n))
    BY <1>5 DEF RenameRight
  <2>3. Stores(n, k, Right(n)) /\ k \notin DOMAIN target
    BY <2>1, <2>2, RenameStores
  <2>4. QED
    BY <1>5, <2>2, <2>3, StoresStep
<1>6. ASSUME RenameAndDefer(n), strategy = "deduplicate-or-rename"
      PROVE  Holds'
  <2>1. PICK k \in Unique(RightCandidate(doc, n)) :
          target' = Put(target, k, Right(n)) /\ renames' = RegisterRight(n, k)
    BY <1>6 DEF RenameAndDefer, Store
  <2>2. /\ Taking(n) /\ UNCHANGED <<given, pc, doc>>
        /\ meant' = Put(meant, Right(n), Right(n))
    BY <1>6 DEF RenameAndDefer
  <2>3. Stores(n, k, Right(n)) /\ k \notin DOMAIN target
    BY <2>1, <2>2, RenameStores
  <2>4. QED
    BY <1>6, <2>3, StoresStep
<1>7. ASSUME RenameLeft(n), Clashes(n), strategy = "rename-left"
      PROVE  Holds'
  <2>1. StoreInv' /\ LeftInv' /\ RenamesFollowSchemas'
    BY <1>7, RenameLeftStep
  <2>2. UNCHANGED <<given, pc, deferred>>
    BY <1>7 DEF RenameLeft
  <2>3. DeferInv' /\ DropInv'
    BY <1>7, <2>2 DEF DeferInv, DropInv, given
  <2>4. QED
    BY <2>1, <2>3
<1>8. ~Refuse(n)
  BY DEF Refuse
<1>9. CASE Clashes(n) /\ ByStrategy(n)
  BY <1>3, <1>5, <1>6, <1>7, <1>8, <1>9, KeepLeftHolds DEF ByStrategy
<1>10. CASE Clashes(n) /\ ByHandler(n)
  <2>1. strategy = "rename-left" => "rename" \notin HandlerAnswers[strategy]
    BY <1>1 DEF HandlersRespectStrategy
  <2>2. strategy = "deduplicate-or-rename" =>
          HandlerAnswers[strategy] \cap {"accept-left", "accept-right", "deduplicate"} = {}
    BY <1>1 DEF HandlersRespectStrategy
  <2>3. CASE "rename" \in HandlerAnswers[strategy] /\ RenameRight(n, FromTemplate(doc, Key(n)))
    BY <1>5, <2>1, <2>3
  <2>4. CASE "custom" \in HandlerAnswers[strategy] /\ KeepCustom(n)
    BY <1>4, <1>10, <2>4
  <2>5. CASE "accept-right" \in HandlerAnswers[strategy] /\ KeepRight(n)
    BY <1>3, <1>10, <2>2, <2>5
  <2>6. CASE HandlerAnswers[strategy] \cap {"accept-left", "deduplicate"} # {} /\ KeepLeft(n)
    BY <1>10, <2>2, <2>6, KeepLeftHolds
  <2>7. QED
    BY <1>8, <1>10, <2>3, <2>4, <2>5, <2>6 DEF ByHandler
<1>11. QED
  BY <1>2, <1>9, <1>10 DEF Collide

\* It holds when the next document's turn comes.
LEMMA NextDocumentStep ==
    ASSUME Holds, NextDocument
    PROVE  Holds'
<1> USE DEF Holds
<1>1. /\ pc = "merge" /\ todo = {} /\ doc < N /\ doc' = doc + 1 /\ todo' = Spelled(doc + 1)
      /\ UNCHANGED <<given, pc, stores, renames, deferred>>
  BY DEF NextDocument
<1>2. docs' = docs /\ strategy' = strategy /\ target' = target /\ meant' = meant
  BY <1>1 DEF given, stores
<1>3. doc \in Doc /\ doc \in Nat /\ doc' \in Doc /\ Doc \subseteq Nat
  BY <1>1, DocumentsAssumption DEF StoreInv, Doc
<1>4. \A o : Merged(o) => Merged(o)' /\ o.doc # doc'
  <2> SUFFICES ASSUME NEW o, Merged(o)
               PROVE  Merged(o)' /\ o.doc # doc'
    OBVIOUS
  <2>1. o.doc \in Doc /\ o.doc =< doc /\ o.doc \in Nat /\ o.name \in Spelled(o.doc)
    BY <1>1, <1>3 DEF Merged
  <2>2. o.doc =< doc' /\ o.doc # doc'
    BY <1>1, <1>3, <2>1
  <2>3. QED
    BY <1>2, <2>1, <2>2 DEF Merged, Spelled
<1>5. (\A k \in DOMAIN target : Merged(target[k]))'
  BY <1>2, <1>4 DEF StoreInv, Merged
<1>6. (\A x \in DOMAIN meant : x = Obj(x.doc, x.name) /\ Merged(x))'
  BY <1>2, <1>4 DEF StoreInv, Obj
<1>7. /\ \A s \in todo' : s \notin DOMAIN renames'[doc']
      /\ \A d \in Doc : d > doc' => DOMAIN renames'[d] = {}
  BY <1>1, <1>3 DEF StoreInv
<1>8. StoreInv'
  BY <1>1, <1>2, <1>3, <1>5, <1>6, <1>7 DEF StoreInv, Spelled
<1>9. LeftInv'
  BY <1>2, <1>4 DEF LeftInv, StoreInv
<1>10. DeferInv' /\ DropInv'
  BY <1>1, <1>2 DEF DeferInv, DropInv, RenamesAreMerged, StandsForItself, Settled
<1>11. RenamesFollowSchemas'
  BY <1>1, <1>2 DEF RenamesFollowSchemas, Finds
<1>12. QED
  BY <1>8, <1>9, <1>10, <1>11

\* At each step of the merge and the collapse, the renames recorded so far
\* would lead every reference to the right schema.
THEOREM JoinInvariant ==
    ASSUME HandlersRespectStrategy
    PROVE  Spec => []JoinInv
<1>1. Init => JoinInv
  <2> SUFFICES ASSUME Init PROVE JoinInv
    OBVIOUS
  <2>1. /\ docs \in Inputs /\ strategy \in Strategies /\ pc = "merge" /\ doc = 1 /\ todo = Spelled(1)
        /\ DOMAIN target = {} /\ DOMAIN meant = {} /\ deferred = {}
        /\ DOMAIN renames = Doc /\ \A d \in Doc : DOMAIN renames[d] = {}
    BY DEF Init
  <2>2. 1 \in Doc
    BY DocumentsAssumption DEF Doc
  <2>3. StoreInv
    BY <2>1, <2>2 DEF StoreInv
  <2>4. LeftInv /\ DeferInv /\ DropInv /\ RenamesFollowSchemas
    BY <2>1 DEF LeftInv, DeferInv, DropInv, RenamesAreMerged, RenamesFollowSchemas
  <2>5. QED
    BY <2>3, <2>4 DEF JoinInv
<1>2. JoinInv /\ [Next]_vars => JoinInv'
  <2> SUFFICES ASSUME JoinInv, [Next]_vars, pc' \in {"merge", "collapse"}
               PROVE  Holds'
    BY DEF JoinInv, Holds
  <2>1. ASSUME NEW n \in todo, Insert(n) \/ Collide(n)
        PROVE  Holds'
    <3>1. pc = "merge" /\ pc' = pc
      BY <2>1 DEF Insert, Collide, ByStrategy, ByHandler, KeepLeft, KeepRight, KeepCustom, Replace,
                  RenameRight, RenameAndDefer, RenameLeft, Refuse, Taking
    <3>2. QED
      BY <2>1, <3>1, MergeStep DEF JoinInv, Holds
  <2>2. CASE NextDocument
    <3>1. pc = "merge"
      BY <2>2 DEF NextDocument
    <3>2. QED
      BY <2>2, <3>1, NextDocumentStep DEF JoinInv, Holds
  <2>3. CASE EndMerge
    <3>1. pc = "merge" /\ pc' = "collapse"
      BY <2>3 DEF EndMerge
    <3>2. QED
      BY <2>3, <3>1, EndMergeStep DEF JoinInv, Holds
  <2>4. ASSUME NEW a \in DOMAIN alias, Drop(a)
        PROVE  Holds'
    <3>1. pc = "collapse" /\ pc' = "collapse"
      BY <2>4 DEF Drop
    <3>2. StoreInv' /\ DropInv' /\ RenamesFollowSchemas'
      BY <2>4, <3>1, DropStep DEF JoinInv
    <3>3. QED
      BY <3>1, <3>2 DEF Holds, LeftInv, DeferInv
  <2>5. CASE UNCHANGED vars
    BY <2>5 DEF vars, given, stores, JoinInv, Holds, StoreInv, LeftInv, DeferInv, DropInv, RenamesFollowSchemas,
                Merged, Spelled, RenamesAreMerged, StandsForItself, Settled, Finds, Undropped, Key
  <2>6. ~(EndCollapse \/ RewriteDocument \/ RewriteUnowned \/ Deduplicate)
    BY DEF EndCollapse, RewriteDocument, RewriteUnowned, Deduplicate
  <2>7. QED
    BY <2>1, <2>2, <2>3, <2>4, <2>5, <2>6 DEF Next, Finished
<1>3. QED
  BY <1>1, <1>2, PTL DEF Spec

\* The renames lead each name a document spells to the schema that stands for
\* its own, whatever was moved, replaced or collapsed since.
THEOREM RenamesAlwaysFollow ==
    ASSUME HandlersRespectStrategy
    PROVE  Spec => []RenamesFollowSchemas
<1>1. JoinInv => RenamesFollowSchemas
  BY DEF JoinInv, RenamesFollowSchemas
<1>2. QED
  BY <1>1, JoinInvariant, PTL

\* redirect stops at the first rename that leads to the removed name, and there
\* is never another.
THEOREM RedirectAlwaysUnambiguous ==
    ASSUME HandlersRespectStrategy
    PROVE  Spec => []RedirectIsUnambiguous
<1>1. JoinInv => RedirectIsUnambiguous
  <2> SUFFICES ASSUME JoinInv, pc = "collapse", NEW a \in Undropped
               PROVE  Cardinality({s \in DOMAIN renames[target[a].doc] : renames[target[a].doc][s] = a}) =< 1
    BY DEF RedirectIsUnambiguous
  <2> DEFINE onto == {s \in DOMAIN renames[target[a].doc] : renames[target[a].doc][s] = a}
  <2>1. onto \subseteq {target[a].name}
    BY RedirectMeetsOne DEF JoinInv
  <2> HIDE DEF onto
  <2>2. onto = {} => Cardinality(onto) =< 1
    BY FS_EmptySet
  <2>3. onto = {target[a].name} => Cardinality(onto) =< 1
    <3>1. Cardinality({target[a].name}) = 1
      BY FS_Singleton
    <3>2. QED
      BY <3>1
  <2>4. QED
    BY <2>1, <2>2, <2>3 DEF onto
<1>2. QED
  BY <1>1, JoinInvariant, PTL

-----------------------------------------------------------------------------
\* The operators of the model.

\* A name that a class loses gives way to a name of the same class.
LEMMA AliasMapsStayInClass ==
    ASSUME NEW classes, NEW made, NEW f \in AliasMaps(classes, made),
           NEW a \in DOMAIN f
    PROVE  \E K \in classes : a \in K /\ f[a] \in K
<1> DEFINE several == {K \in classes : \E x, y \in K : x # y}
           names   == UNION several
           keeps   == {c \in [several -> names] : \A K \in several : c[K] \in Best(K, made)}
           kept(c, x) == c[CHOOSE K \in several : x \in K]
<1>1. PICK c \in keeps : f = [x \in names \ Image(c) |-> kept(c, x)]
  BY DEF AliasMaps
<1>2. a \in names /\ f[a] = kept(c, a)
  BY <1>1
<1>3. \A L \in several : c[L] \in L /\ L \in classes
  BY DEF Best
<1>4. /\ (CHOOSE L \in several : a \in L) \in several
      /\ a \in (CHOOSE L \in several : a \in L)
  BY <1>2
<1>5. f[a] \in (CHOOSE L \in several : a \in L)
  BY <1>2, <1>3, <1>4
<1>6. QED
  BY <1>3, <1>4, <1>5

\* What a document wrote refers to its own schemas.
LEMMA WrittenRefers ==
    ASSUME DocumentsAreClosed, docs \in Inputs, NEW o, o.doc \in Doc, o.name \in Spelled(o.doc)
    PROVE  /\ Written(o).refs \in Seq(Spelled(o.doc))
           /\ \A i \in DOMAIN Written(o).refs : Written(o).refs[i] \in Spelled(o.doc)
           /\ DOMAIN Written(o).refs = 1..Len(Written(o).refs)
<1>1. Written(o).refs \in Seq(Spelled(o.doc))
  BY DEF DocumentsAreClosed, Written, Spelled
<1> DEFINE r == Written(o).refs
<1> HIDE DEF r
<1>2. r \in Seq(Spelled(o.doc))
  BY <1>1 DEF r
<1>3. \A i \in DOMAIN r : r[i] \in Spelled(o.doc)
  BY <1>2
<1>4. DOMAIN r = 1..Len(r)
  BY <1>2
<1>5. QED
  BY <1>2, <1>3, <1>4 DEF r

-----------------------------------------------------------------------------
\* The merge and the collapse.

\* The merge takes n: what is stored is what was, or an object o made from n,
\* with the references n was written with.
Takes(n, o) ==
    /\ Taking(n) /\ UNCHANGED <<given, pc, doc, uses>>
    /\ o = Right(n) \/ (o.doc = doc /\ o.name = n /\ o.custom)
    /\ Image(target') \subseteq Image(target) \cup {o}
    /\ refs' = Put(refs, o, Written(Right(n)).refs) \/ (refs' = refs /\ Image(target') \subseteq Image(target))
    /\ DOMAIN meant' = DOMAIN meant \cup {Right(n)}

\* Putting a value into a function adds it to the values, and its key to the domain.
LEMMA PutImage ==
    ASSUME NEW f, NEW k, NEW v
    PROVE  /\ Image(Put(f, k, v)) \subseteq Image(f) \cup {v}
           /\ DOMAIN Put(f, k, v) = DOMAIN f \cup {k}
BY DEF Image, Put

\* However a schema of the current document is treated, the merge takes it.
LEMMA TakingTakes ==
    ASSUME pc = "merge", NEW n \in todo, Insert(n) \/ Collide(n), pc' = pc
    PROVE  \E o : Takes(n, o)
<1>1. CASE Insert(n)
  <2>1. Takes(n, Right(n))
    BY <1>1, PutImage DEF Insert, Store, Takes
  <2>2. QED
    BY <2>1
<1>2. ASSUME KeepLeft(n)
      PROVE  Takes(n, Right(n))
  BY <1>2, PutImage DEF KeepLeft, Takes
<1>3. ASSUME NEW o, Replace(n, o, Written(Right(n)).refs), o = Right(n) \/ (o.doc = doc /\ o.name = n /\ o.custom)
      PROVE  Takes(n, o)
  <2>1. DOMAIN StandsFor(meant, Left(n), o) = DOMAIN meant
    BY DEF StandsFor
  <2>2. target' = Put(target, Key(n), o) /\ meant' = Put(StandsFor(meant, Left(n), o), Right(n), o)
    BY <1>3 DEF Replace, Store
  <2>3. Image(target') \subseteq Image(target) \cup {o} /\ DOMAIN meant' = DOMAIN meant \cup {Right(n)}
    BY <2>1, <2>2 DEF Put, Image
  <2>4. QED
    BY <1>3, <2>3 DEF Replace, Store, Takes
<1>4. ASSUME KeepRight(n)
      PROVE  Takes(n, Right(n))
  BY <1>3, <1>4 DEF KeepRight
<1>5. ASSUME KeepCustom(n)
      PROVE  Takes(n, [Right(n) EXCEPT !.custom = TRUE])
  <2> DEFINE o == [Right(n) EXCEPT !.custom = TRUE]
  <2>1. o.doc = doc /\ o.name = n /\ o.custom
    BY DEF Right, Obj
  <2> HIDE DEF o
  <2>2. QED
    BY <1>3, <1>5, <2>1 DEF KeepCustom, o
<1>6. ASSUME NEW c, RenameRight(n, c)
      PROVE  Takes(n, Right(n))
  BY <1>6, PutImage DEF RenameRight, Store, Takes
<1>7. ASSUME RenameAndDefer(n)
      PROVE  Takes(n, Right(n))
  BY <1>7, PutImage DEF RenameAndDefer, Store, Takes
<1>8. ASSUME RenameLeft(n), Clashes(n)
      PROVE  Takes(n, Right(n))
  <2>1. PICK k : target' = Put(Put(target, k, Left(n)), Key(n), Right(n))
    BY <1>8 DEF RenameLeft
  <2>2. Left(n) \in Image(target)
    BY <1>8 DEF Left, Clashes, Image
  <2>3. Image(target') \subseteq Image(target) \cup {Right(n)}
    BY <2>1, <2>2 DEF Put, Image
  <2>4. DOMAIN meant' = DOMAIN meant \cup {Right(n)}
    BY <1>8, PutImage DEF RenameLeft
  <2>5. QED
    BY <1>8, <2>3, <2>4 DEF RenameLeft, Takes
<1>9. ~Refuse(n)
  BY DEF Refuse
<1>10. CASE Collide(n)
  BY <1>2, <1>4, <1>5, <1>6, <1>7, <1>8, <1>9, <1>10 DEF Collide, ByStrategy, ByHandler
<1>11. QED
  BY <1>1, <1>10

-----------------------------------------------------------------------------
\* The invariant of references, step by step.

\* All that is known of references.
RestInv == AccountInv /\ SpellingInv /\ FollowInv /\ FoundInv

\* Taking a schema keeps every reference as its document wrote it.
LEMMA TakeKeepsReferences ==
    ASSUME StoreInv, RestInv, pc = "merge", NEW n, NEW o, Takes(n, o)
    PROVE  RestInv'
<1> USE DEF RestInv
<1>1. /\ Taking(n) /\ UNCHANGED <<given, pc, doc>> /\ docs' = docs /\ uses' = uses /\ doc' = doc /\ pc' = pc
      /\ o = Right(n) \/ (o.doc = doc /\ o.name = n /\ o.custom)
      /\ DOMAIN meant' = DOMAIN meant \cup {Right(n)}
  BY DEF Takes, given
<1>2. o.doc = doc /\ o.name = n /\ Right(n).doc = doc /\ Right(n).name = n
  BY <1>1, MergedNow
<1>3. \A p : Merged(p) => Merged(p)'
  BY <1>1, MergedNow
<1>4. Merged(o)'
  BY <1>1, <1>2, MergedNow
<1>5. ASSUME NEW k \in DOMAIN target'
      PROVE  /\ target'[k] \in DOMAIN refs' /\ Merged(target[k])'
             /\ ~target'[k].custom => refs'[target'[k]] = Written(target'[k]).refs
  <2> DEFINE t == target'[k]
  <2>1. t \in Image(target')
    BY DEF Image
  <2>2. ASSUME NEW p \in Image(target)
        PROVE  p \in DOMAIN refs /\ Merged(p) /\ (~p.custom => refs[p] = Written(p).refs)
    BY <2>2 DEF Image, AccountInv, SpellingInv, Spelling, Rewrote
  <2> HIDE DEF t
  <2>3. CASE t = o /\ refs' = Put(refs, o, Written(Right(n)).refs)
    <3>1. o \in DOMAIN refs' /\ refs'[o] = Written(Right(n)).refs
      BY <2>3 DEF Put
    <3>2. ~o.custom => o = Right(n)
      BY <1>1
    <3>3. QED
      BY <1>4, <2>3, <3>1, <3>2 DEF t, Merged
  <2>4. CASE t # o /\ refs' = Put(refs, o, Written(Right(n)).refs)
    <3>1. t \in Image(target)
      BY <2>1, <2>4 DEF Takes
    <3>2. t \in DOMAIN refs' /\ refs'[t] = refs[t]
      BY <2>2, <2>4, <3>1 DEF Put
    <3>3. QED
      BY <1>3, <2>2, <3>1, <3>2 DEF t, Merged
  <2>5. CASE refs' = refs /\ Image(target') \subseteq Image(target)
    <3>1. t \in Image(target)
      BY <2>1, <2>5
    <3>2. QED
      BY <1>3, <2>2, <2>5, <3>1 DEF t, Merged
  <2>6. QED
    BY <2>3, <2>4, <2>5 DEF Takes
<1>6. ASSUME NEW d \in Doc, NEW m \in Spelled(d), Merged(Obj(d, m))'
      PROVE  Obj(d, m) \in DOMAIN meant'
  <2>1. CASE d = doc /\ m = n
    BY <1>1, <2>1 DEF Right
  <2>2. CASE ~(d = doc /\ m = n)
    <3>1. Merged(Obj(d, m))
      BY <1>1, <1>6, <2>2 DEF Merged, Taking, Obj
    <3>2. QED
      BY <1>1, <3>1 DEF AccountInv
  <2>3. QED
    BY <2>1, <2>2
<1>7. AccountInv'
  BY <1>1, <1>5, <1>6 DEF AccountInv, Spelled, Merged
<1>8. SpellingInv'
  BY <1>1, <1>5 DEF SpellingInv, Spelling, Rewrote, Spelled, Written
<1>9. QED
  BY <1>1, <1>7, <1>8 DEF FollowInv, FoundInv

\* What a document's renames lead to, and what an object's references do.
Led == \A x \in DOMAIN meant : Finds(Lookup(renames[x.doc], x.name), meant[x])

\* The renames of a document lead its names to what stands for its own schemas.
LEMMA LeadsOwnSchemas ==
    ASSUME AccountInv, Led, NEW d \in Doc, NEW n \in Spelled(d), Merged(Obj(d, n))
    PROVE  Finds(Lookup(renames[d], n), Means(d, n))
<1>1. Obj(d, n) \in DOMAIN meant
  BY DEF AccountInv
<1>2. Obj(d, n).doc = d /\ Obj(d, n).name = n
  BY DEF Obj
<1>3. QED
  BY <1>1, <1>2 DEF Led, Means

\* Going on to the next document changes no reference.
LEMMA NextDocumentKeepsReferences ==
    ASSUME StoreInv, RestInv, NextDocument
    PROVE  RestInv'
<1> USE DEF RestInv
<1>1. /\ pc = "merge" /\ todo = {} /\ doc' = doc + 1 /\ todo' = Spelled(doc + 1) /\ pc' = pc /\ doc \in Nat
      /\ docs' = docs /\ uses' = uses /\ target' = target /\ refs' = refs /\ meant' = meant
  BY DEF NextDocument, given, stores, AccountInv
<1>2. Doc \subseteq Nat
  BY DocumentsAssumption DEF Doc
<1>3. \A o : Merged(o) <=> Merged(o)'
  <2>1. ASSUME NEW o, o.doc \in Doc, o.name \in Spelled(o.doc)
        PROVE  (o.doc =< doc' /\ (o.doc = doc' => o.name \notin todo')) <=> o.doc =< doc
    <3>1. o.doc \in Nat /\ (o.doc = doc' => o.name \in todo')
      BY <1>1, <1>2, <2>1
    <3>2. o.doc =< doc' <=> (o.doc =< doc \/ o.doc = doc')
      BY <1>1, <3>1
    <3>3. o.doc =< doc => o.doc # doc'
      BY <1>1, <3>1
    <3>4. QED
      BY <3>1, <3>2, <3>3
  <2>2. QED
    BY <1>1, <2>1 DEF Merged, Spelled
<1>4. AccountInv'
  BY <1>1, <1>3 DEF AccountInv, Spelled, Merged
<1>5. SpellingInv'
  BY <1>1 DEF SpellingInv, Spelling, Rewrote, Spelled, Written
<1>6. QED
  BY <1>1, <1>4, <1>5 DEF FollowInv, FoundInv

\* After the merge every schema of every document stands somewhere; without renames all are
\* spelled as they were.
LEMMA EndMergeKeepsReferences ==
    ASSUME DocumentsAreClosed, StoreInv, RenamesFollowSchemas, RestInv, EndMerge
    PROVE  RestInv'
<1> USE DEF RestInv
<1>1. /\ pc = "merge" /\ todo = {} /\ doc = N /\ pc' = IF NoRenames THEN "dedupe" ELSE "collapse"
      /\ docs' = docs /\ doc' = doc /\ uses' = uses /\ target' = target /\ refs' = refs /\ meant' = meant
      /\ doc \in Nat
  BY DEF EndMerge, given, stores, AccountInv
<1>2. \A o : Merged(o) <=> o.doc \in Doc /\ o.name \in Spelled(o.doc)
  BY <1>1, DocumentsAssumption DEF Merged, Doc
<1>3. \A o : Merged(o) <=> Merged(o)'
  BY <1>1, <1>2 DEF Merged, Spelled
<1>4. AccountInv'
  BY <1>1, <1>3 DEF AccountInv, Spelled, Merged
<1>5. CASE pc' = "collapse"
  BY <1>1, <1>4, <1>5 DEF SpellingInv, Spelling, Rewrote, Spelled, Written, FollowInv, FoundInv
<1>6. CASE pc' = "dedupe"
  <2>1. \A d \in Doc : renames[d] = <<>>
    BY <1>1, <1>6 DEF NoRenames
  <2>2. \A d \in Doc : \A n : Lookup(renames[d], n) = n
    BY <2>1 DEF Lookup
  <2>3. Led
    BY <1>1 DEF RenamesFollowSchemas, Led
  <2>4. \A d \in Doc : \A n \in Spelled(d) : Finds(n, Means(d, n))
    <3>1. \A d \in Doc : \A n \in Spelled(d) : Merged(Obj(d, n))
      BY <1>2 DEF Obj
    <3>2. QED
      BY <2>2, <2>3, <3>1, LeadsOwnSchemas
  <2>5. \A d \in Doc : \A n \in Spelled(d) : Finds(uses[d][n], Means(d, n))
    BY <1>1, <2>4 DEF SpellingInv, Rewrote
  <2>6. ASSUME NEW k \in DOMAIN target, ~target[k].custom
        PROVE  /\ DOMAIN refs[target[k]] = DOMAIN Written(target[k]).refs
               /\ \A i \in DOMAIN refs[target[k]] :
                    Finds(refs[target[k]][i], Means(target[k].doc, Written(target[k]).refs[i]))
    <3> DEFINE o == target[k]
    <3>1. refs[o] = Written(o).refs
      BY <1>1, <2>6 DEF SpellingInv, Spelling, Rewrote
    <3>2. o.doc \in Doc /\ o.name \in Spelled(o.doc)
      BY <1>2 DEF AccountInv
    <3> HIDE DEF o
    <3>3. \A i \in DOMAIN Written(o).refs : Written(o).refs[i] \in Spelled(o.doc)
      BY <3>2, WrittenRefers DEF AccountInv
    <3>4. QED
      BY <2>4, <3>1, <3>2, <3>3 DEF o
  <2>7. FoundInv'
    BY <1>1, <2>5, <2>6 DEF FoundInv, Finds, Means, Spelled, Written
  <2>8. OneNameEach'
    BY <1>1 DEF StoreInv, OneNameEach
  <2>9. QED
    BY <1>4, <1>6, <2>7, <2>8 DEF SpellingInv, FollowInv
<1>7. QED
  BY <1>1, <1>5, <1>6

\* The collapse changes names and no reference.
LEMMA DropKeepsReferences ==
    ASSUME RestInv, NEW a, Drop(a)
    PROVE  RestInv'
<1> USE DEF RestInv
<1>1. /\ pc = "collapse" /\ pc' = pc
      /\ docs' = docs /\ doc' = doc /\ todo' = todo /\ uses' = uses /\ refs' = refs
      /\ DOMAIN meant' = DOMAIN meant
      /\ DOMAIN target' \subseteq DOMAIN target
      /\ \A k \in DOMAIN target' : target'[k] = target[k]
  BY DEF Drop, given, StandsFor, Without
<1>2. AccountInv'
  BY <1>1 DEF AccountInv, Spelled, Merged
<1>3. SpellingInv'
  BY <1>1 DEF SpellingInv, Spelling, Rewrote, Spelled, Written
<1>4. QED
  BY <1>1, <1>2, <1>3 DEF FollowInv, FoundInv

\* The rewrite starts with each document's renames leading to where its schemas stand.
LEMMA EndCollapseKeepsReferences ==
    ASSUME StoreInv, RenamesFollowSchemas, RestInv, EndCollapse
    PROVE  RestInv'
<1> USE DEF RestInv
<1>1. /\ pc = "collapse" /\ pc' = "rewrite" /\ doc' = 1
      /\ docs' = docs /\ uses' = uses /\ target' = target /\ refs' = refs /\ meant' = meant /\ renames' = renames
  BY DEF EndCollapse, given, stores
<1>2. Doc \subseteq Nat /\ \A d \in Doc : ~(d < 1)
  BY DocumentsAssumption DEF Doc
<1>3. AccountInv'
  BY <1>1 DEF AccountInv, Spelled, Merged
<1>4. \A k \in DOMAIN target : target[k].doc \in Doc
  BY DEF AccountInv, Merged
<1>5. SpellingInv'
  BY <1>1, <1>2, <1>4 DEF SpellingInv, Spelling, Rewrote, Spelled, Written
<1>6. FollowInv'
  BY <1>1 DEF FollowInv, OneNameEach, StoreInv, RenamesFollowSchemas, Finds
<1>7. QED
  BY <1>1, <1>3, <1>5, <1>6 DEF FoundInv

\* Rewriting the entries of one document makes its references, and no others, find what they
\* mean.
LEMMA RewriteDocumentKeepsReferences ==
    ASSUME DocumentsAreClosed, RestInv, RewriteDocument
    PROVE  RestInv'
<1> USE DEF RestInv
<1>1. /\ pc = "rewrite" /\ pc' = pc /\ doc =< N /\ doc' = doc + 1 /\ doc \in Nat
      /\ docs' = docs /\ target' = target /\ meant' = meant /\ renames' = renames
      /\ refs' = [o \in DOMAIN refs |->
            IF ~o.custom /\ o.doc = doc /\ o \in Image(target) THEN Mapped(renames[doc], refs[o]) ELSE refs[o]]
      /\ uses' = [uses EXCEPT ![doc] = Rewritten(doc, renames[doc])]
  BY DEF RewriteDocument, given, AccountInv
<1>2. Doc \subseteq Nat
  BY DocumentsAssumption DEF Doc
<1>3. \A d \in Doc : (d # doc => (d < doc' <=> d < doc)) /\ (d = doc => d < doc' /\ ~(d < doc))
  BY <1>1, <1>2
<1>6. DOMAIN uses = Doc /\ \A d \in Doc : DOMAIN uses[d] = Spelled(d)
  BY DEF AccountInv
<1>7. ASSUME doc \in Doc
      PROVE  uses'[doc] = [n \in Spelled(doc) |-> Lookup(renames[doc], n)]
  <2>1. ~docs[doc].queryOnly
    BY <1>7 DEF DocumentsAreClosed, AccountInv
  <2>2. \A n \in Spelled(doc) : uses[doc][n] = n
    BY <1>1, <1>3, <1>7 DEF SpellingInv, Rewrote
  <2>3. uses'[doc] = [n \in DOMAIN uses[doc] |-> Lookup(renames[doc], uses[doc][n])]
    BY <1>1, <1>6, <1>7, <2>1 DEF Rewritten
  <2>4. QED
    BY <1>6, <1>7, <2>2, <2>3
<1>8. \A d \in Doc : d # doc => uses'[d] = uses[d]
  BY <1>1, <1>6
<1>9. DOMAIN uses' = Doc /\ \A d \in Doc : DOMAIN uses'[d] = Spelled(d)
  BY <1>1, <1>6, <1>7, <1>8
<1>10. AccountInv'
  BY <1>1, <1>9 DEF AccountInv, Spelled, Merged
<1>11. ASSUME NEW d \in Doc, NEW n \in Spelled(d)
       PROVE  uses'[d][n] = IF d < doc' THEN Lookup(renames'[d], n) ELSE n
  <2>1. CASE d = doc
    BY <1>1, <1>3, <1>7, <1>11, <2>1 DEF Rewrote
  <2>2. CASE d # doc
    BY <1>1, <1>3, <1>8, <1>11, <2>2 DEF SpellingInv, Rewrote
  <2>3. QED
    BY <2>1, <2>2
<1>12. ASSUME NEW k \in DOMAIN target, ~target[k].custom
       PROVE  refs'[target[k]] =
                 IF target[k].doc < doc' THEN Mapped(renames'[target[k].doc], Written(target[k]).refs)
                 ELSE Written(target[k]).refs
  <2> DEFINE o == target[k]
  <2>1. o \in DOMAIN refs /\ o.doc \in Doc /\ o \in Image(target)
    BY DEF AccountInv, Merged, Image
  <2>2. refs[o] = Spelling(o) /\ ~o.custom
    BY <1>1, <1>12 DEF SpellingInv
  <2> HIDE DEF o
  <2>3. CASE o.doc = doc
    <3>1. refs[o] = Written(o).refs
      BY <1>3, <2>1, <2>2, <2>3 DEF Spelling, Rewrote
    <3>2. refs'[o] = Mapped(renames[doc], refs[o])
      BY <1>1, <2>1, <2>2, <2>3
    <3>3. QED
      BY <1>1, <1>3, <2>1, <2>3, <3>1, <3>2 DEF o
  <2>4. CASE o.doc # doc
    <3>1. refs'[o] = Spelling(o)
      BY <1>1, <2>1, <2>2, <2>4
    <3>2. QED
      BY <1>1, <1>3, <2>1, <2>4, <3>1 DEF Spelling, Rewrote, o
  <2>5. QED
    BY <2>3, <2>4
<1>13. SpellingInv'
  <2>1. (\A d \in Doc : \A n \in Spelled(d) : uses[d][n] = IF Rewrote(d) THEN Lookup(renames[d], n) ELSE n)'
    BY <1>1, <1>11 DEF Rewrote, Spelled
  <2>2. (\A k \in DOMAIN target : ~target[k].custom => refs[target[k]] = Spelling(target[k]))'
    BY <1>1, <1>12 DEF Spelling, Rewrote, Written
  <2>3. QED
    BY <2>1, <2>2 DEF SpellingInv
<1>14. FollowInv'
  BY <1>1 DEF FollowInv, OneNameEach, Finds
<1>15. QED
  BY <1>1, <1>10, <1>13, <1>14 DEF FoundInv

\* The rewrite of what no document owns touches no document's references.
LEMMA RewriteUnownedKeepsReferences ==
    ASSUME DocumentsAreClosed, RestInv, RewriteUnowned
    PROVE  RestInv'
<1> USE DEF RestInv
<1>1. /\ pc = "rewrite" /\ pc' = "dedupe" /\ doc > N /\ doc' = doc /\ doc \in Nat
      /\ docs' = docs /\ target' = target /\ meant' = meant /\ uses' = uses
      /\ DOMAIN refs' = DOMAIN refs /\ \A o \in DOMAIN refs : ~o.custom => refs'[o] = refs[o]
  BY DEF RewriteUnowned, given, AccountInv
<1>2. \A d \in Doc : Rewrote(d)
  BY <1>1, DocumentsAssumption DEF Rewrote, Doc
<1>3. AccountInv'
  BY <1>1 DEF AccountInv, Spelled, Merged
<1>4. \A d \in Doc : \A n \in Spelled(d) : Finds(Lookup(renames[d], n), Means(d, n))
  <2>1. Led
    BY <1>1 DEF FollowInv, Led
  <2>2. \A d \in Doc : \A n \in Spelled(d) : Merged(Obj(d, n))
    BY <1>1 DEF Merged, Obj
  <2>3. QED
    BY <2>1, <2>2, LeadsOwnSchemas
<1>5. \A d \in Doc : \A n \in Spelled(d) : Finds(uses[d][n], Means(d, n))
  BY <1>1, <1>2, <1>4 DEF SpellingInv
<1>6. ASSUME NEW k \in DOMAIN target, ~target[k].custom
      PROVE  /\ DOMAIN refs'[target[k]] = DOMAIN Written(target[k]).refs
             /\ \A i \in DOMAIN refs'[target[k]] :
                  Finds(refs'[target[k]][i], Means(target[k].doc, Written(target[k]).refs[i]))
  <2> DEFINE o == target[k]
  <2>1. o \in DOMAIN refs /\ o.doc \in Doc /\ o.name \in Spelled(o.doc) /\ ~o.custom
    BY <1>6 DEF AccountInv, Merged
  <2>2. refs[o] = Spelling(o)
    BY <1>1, <1>6 DEF SpellingInv
  <2> HIDE DEF o
  <2>3. refs'[o] = Mapped(renames[o.doc], Written(o).refs)
    BY <1>1, <1>2, <2>1, <2>2 DEF Spelling
  <2>4. \A i \in DOMAIN Written(o).refs : Written(o).refs[i] \in Spelled(o.doc)
    BY <2>1, WrittenRefers DEF AccountInv
  <2>5. QED
    BY <1>4, <2>1, <2>3, <2>4 DEF Mapped, o
<1>7. FoundInv'
  BY <1>1, <1>5, <1>6 DEF FoundInv, Finds, Means, Spelled, Written
<1>8. QED
  BY <1>1, <1>3, <1>7 DEF SpellingInv, FollowInv, OneNameEach

\* Semantic deduplication removes the names of same, each for the name of an
\* equivalent schema.
Removes(same) ==
    /\ same \in IF SemanticDeduplication THEN AliasMaps(Duplicates, generated) ELSE {<<>>}
    /\ target' = Without(target, DOMAIN same)
    /\ refs' = [o \in DOMAIN refs |-> Mapped(same, refs[o])]
    /\ uses' = [d \in Doc |-> Rewritten(d, same)]
    /\ meant' = [x \in DOMAIN meant |->
         LET a == {a \in DOMAIN same : target[a] = meant[x]} IN
         IF a = {} THEN meant[x] ELSE target[same[CHOOSE b \in a : TRUE]]]

\* What found a schema finds the one that stands for it after duplicates go.
LEMMA RemovedAreFollowed ==
    ASSUME OneNameEach, NEW same, Removes(same)
    PROVE  /\ \A a \in DOMAIN same :
                /\ a \in DOMAIN target /\ same[a] \in DOMAIN target \ DOMAIN same
                /\ \E K \in Duplicates : a \in K /\ same[a] \in K
           /\ DOMAIN target' = DOMAIN target \ DOMAIN same
           /\ \A k \in DOMAIN target' : target'[k] = target[k]
           /\ \A k : \A x \in DOMAIN meant : Finds(k, meant[x]) =>
                /\ Lookup(same, k) \in DOMAIN target'
                /\ target'[Lookup(same, k)] = meant'[x]
<1>1. \A a \in DOMAIN same :
        /\ a \in DOMAIN target /\ same[a] \in DOMAIN target \ DOMAIN same
        /\ \E K \in Duplicates : a \in K /\ same[a] \in K
  <2>1. UNION Duplicates \subseteq DOMAIN target
    BY DEF Duplicates
  <2>2. CASE SemanticDeduplication
    BY <2>1, <2>2, AliasMapsLead, AliasMapsStayInClass DEF Removes
  <2>3. CASE ~SemanticDeduplication
    BY <2>3 DEF Removes
  <2>4. QED
    BY <2>2, <2>3
<1>2. DOMAIN target' = DOMAIN target \ DOMAIN same /\ \A k \in DOMAIN target' : target'[k] = target[k]
  BY DEF Removes, Without
<1>3. ASSUME NEW k, NEW x \in DOMAIN meant, Finds(k, meant[x])
      PROVE  Lookup(same, k) \in DOMAIN target' /\ target'[Lookup(same, k)] = meant'[x]
  <2> DEFINE a == {a \in DOMAIN same : target[a] = meant[x]}
  <2>1. k \in DOMAIN target /\ target[k] = meant[x]
    BY <1>3 DEF Finds
  <2>2. meant'[x] = IF a = {} THEN meant[x] ELSE target[same[CHOOSE b \in a : TRUE]]
    BY DEF Removes
  <2>3. CASE k \in DOMAIN same
    <3>1. a = {k}
      BY <1>1, <2>1, <2>3 DEF OneNameEach
    <3> HIDE DEF a
    <3>2. meant'[x] = target[same[k]]
      BY <2>2, <3>1
    <3>3. QED
      BY <1>1, <1>2, <2>3, <3>2 DEF Lookup
  <2>4. CASE k \notin DOMAIN same
    <3>1. a = {}
      BY <1>1, <2>1, <2>4 DEF OneNameEach
    <3>2. QED
      BY <1>2, <2>1, <2>2, <2>4, <3>1 DEF Lookup
  <2>5. QED
    BY <2>3, <2>4
<1>4. QED
  BY <1>1, <1>2, <1>3

\* Semantic deduplication renames in all references what it removes, and nothing else.
LEMMA DeduplicateKeepsReferences ==
    ASSUME DocumentsAreClosed, RestInv, Deduplicate
    PROVE  RestInv'
<1> USE DEF RestInv
<1>1. PICK same : Removes(same)
  BY DEF Deduplicate, Removes
<1>2. pc = "dedupe" /\ pc' = "done" /\ docs' = docs /\ doc' = doc
  BY DEF Deduplicate, given
<1>3. OneNameEach
  BY <1>2 DEF FollowInv
<1>4. \A k : \A x \in DOMAIN meant : Finds(k, meant[x]) =>
         Lookup(same, k) \in DOMAIN target' /\ target'[Lookup(same, k)] = meant'[x]
  BY <1>1, <1>3, RemovedAreFollowed
<1>5. /\ DOMAIN target' \subseteq DOMAIN target
      /\ \A k \in DOMAIN target' : target'[k] = target[k]
      /\ DOMAIN meant' = DOMAIN meant /\ DOMAIN refs' = DOMAIN refs
  BY <1>1, <1>3, RemovedAreFollowed DEF Removes
<1>7. \A d \in Doc : \A n \in Spelled(d) : Obj(d, n) \in DOMAIN meant
  BY <1>2 DEF AccountInv, Merged, Obj
<1>8. DOMAIN uses = Doc /\ \A d \in Doc : DOMAIN uses[d] = Spelled(d)
  BY DEF AccountInv
<1>9. \A d \in Doc : uses'[d] = [n \in Spelled(d) |-> Lookup(same, uses[d][n])]
  BY <1>1, <1>8 DEF Removes, Rewritten, DocumentsAreClosed, AccountInv
<1>10. AccountInv'
  <2>1. DOMAIN uses' = Doc /\ \A d \in Doc : DOMAIN uses'[d] = Spelled(d)
    BY <1>9, <1>1 DEF Removes
  <2>2. QED
    BY <1>2, <1>5, <2>1 DEF AccountInv, Spelled, Merged
<1>11. ASSUME NEW d \in Doc, NEW n \in Spelled(d)
       PROVE  uses'[d][n] \in DOMAIN target' /\ target'[uses'[d][n]] = meant'[Obj(d, n)]
  <2>1. Finds(uses[d][n], meant[Obj(d, n)])
    BY <1>2 DEF FoundInv, Means
  <2>2. uses'[d][n] = Lookup(same, uses[d][n]) /\ Obj(d, n) \in DOMAIN meant
    BY <1>7, <1>9
  <2>3. QED
    BY <1>4, <2>1, <2>2
<1>12. ASSUME NEW k \in DOMAIN target', ~target'[k].custom
       PROVE  LET o == target'[k] IN
              /\ DOMAIN refs'[o] = DOMAIN Written(o).refs
              /\ \A i \in DOMAIN refs'[o] :
                   /\ refs'[o][i] \in DOMAIN target'
                   /\ target'[refs'[o][i]] = meant'[Obj(o.doc, Written(o).refs[i])]
  <2> DEFINE o == target[k]
  <2>1. k \in DOMAIN target /\ target'[k] = o /\ ~o.custom
    BY <1>5, <1>12
  <2>2. o \in DOMAIN refs /\ o.doc \in Doc /\ o.name \in Spelled(o.doc)
    BY <2>1 DEF AccountInv, Merged
  <2>3. /\ DOMAIN refs[o] = DOMAIN Written(o).refs
        /\ \A i \in DOMAIN refs[o] : Finds(refs[o][i], meant[Obj(o.doc, Written(o).refs[i])])
    BY <1>2, <2>1 DEF FoundInv, Means
  <2> HIDE DEF o
  <2>4. refs'[o] = [i \in DOMAIN refs[o] |-> Lookup(same, refs[o][i])]
    BY <1>1, <2>2 DEF Removes, Mapped
  <2>5. \A i \in DOMAIN Written(o).refs : Written(o).refs[i] \in Spelled(o.doc)
    BY <2>2, WrittenRefers DEF AccountInv
  <2>6. ASSUME NEW i \in DOMAIN refs[o]
        PROVE  /\ Lookup(same, refs[o][i]) \in DOMAIN target'
               /\ target'[Lookup(same, refs[o][i])] = meant'[Obj(o.doc, Written(o).refs[i])]
    BY <1>4, <1>7, <2>2, <2>3, <2>5
  <2>7. QED
    BY <2>1, <2>3, <2>4, <2>6
<1>13. FoundInv'
  BY <1>2, <1>11, <1>12 DEF FoundInv, Finds, Means, Spelled, Written
<1>14. QED
  BY <1>2, <1>10, <1>13 DEF SpellingInv, FollowInv
-----------------------------------------------------------------------------
\* The theorem.

\* From the first schema that is merged to the joined document, every reference
\* can still be led to what it means, and in the end it finds it.
THEOREM ReferenceInvariant ==
    ASSUME HandlersRespectStrategy, DocumentsAreClosed
    PROVE  Spec => []ReferenceInv
<1> DEFINE Rest == pc # "failed" => RestInv
<1>1. Init => Rest
  <2> SUFFICES ASSUME Init PROVE RestInv
    OBVIOUS
  <2>1. /\ docs \in Inputs /\ pc = "merge" /\ doc = 1 /\ todo = Spelled(1)
        /\ DOMAIN target = {} /\ DOMAIN meant = {}
        /\ uses = [d \in Doc |-> [n \in Spelled(d) |-> n]]
    BY DEF Init
  <2>2. Doc \subseteq Nat /\ \A d \in Doc : d =< 1 => d = 1
    BY DocumentsAssumption DEF Doc
  <2>3. \A d \in Doc : \A n \in Spelled(d) : ~Merged(Obj(d, n))
    BY <2>1, <2>2 DEF Merged, Obj
  <2>4. AccountInv
    BY <2>1, <2>3 DEF AccountInv
  <2>5. SpellingInv
    BY <2>1 DEF SpellingInv, Rewrote
  <2>6. QED
    BY <2>1, <2>4, <2>5 DEF RestInv, FollowInv, FoundInv
<1>2. JoinInv /\ Rest /\ [Next]_vars => Rest'
  <2> SUFFICES ASSUME JoinInv, Rest, [Next]_vars, pc' # "failed"
               PROVE  RestInv'
    OBVIOUS
  <2>1. ASSUME NEW n \in todo, Insert(n) \/ Collide(n)
        PROVE  RestInv'
    <3>1. pc = "merge" /\ pc' = pc
      BY <2>1 DEF Insert, Collide, ByStrategy, ByHandler, KeepLeft, KeepRight, KeepCustom, Replace,
                  RenameRight, RenameAndDefer, RenameLeft, Refuse, Taking
    <3>2. StoreInv /\ RestInv
      BY <3>1 DEF JoinInv
    <3>3. PICK o : Takes(n, o)
      BY <2>1, <3>1, TakingTakes
    <3>4. QED
      BY <3>1, <3>2, <3>3, TakeKeepsReferences
  <2>2. CASE NextDocument
    BY <2>2, NextDocumentKeepsReferences DEF NextDocument, JoinInv
  <2>3. CASE EndMerge
    BY <2>3, EndMergeKeepsReferences DEF EndMerge, JoinInv
  <2>4. ASSUME NEW a \in DOMAIN alias, Drop(a)
        PROVE  RestInv'
    BY <2>4, DropKeepsReferences DEF Drop
  <2>5. CASE EndCollapse
    BY <2>5, EndCollapseKeepsReferences DEF EndCollapse, JoinInv
  <2>6. CASE RewriteDocument
    BY <2>6, RewriteDocumentKeepsReferences DEF RewriteDocument
  <2>7. CASE RewriteUnowned
    BY <2>7, RewriteUnownedKeepsReferences DEF RewriteUnowned
  <2>8. CASE Deduplicate
    BY <2>8, DeduplicateKeepsReferences DEF Deduplicate
  <2>9. CASE UNCHANGED vars
    <3>1. /\ docs' = docs /\ pc' = pc /\ doc' = doc /\ todo' = todo /\ target' = target
          /\ refs' = refs /\ meant' = meant /\ uses' = uses /\ renames' = renames
      BY <2>9 DEF vars, given, stores
    <3>2. AccountInv'
      BY <3>1 DEF RestInv, AccountInv, Spelled, Merged
    <3>3. SpellingInv'
      BY <3>1 DEF RestInv, SpellingInv, Spelling, Rewrote, Spelled, Written
    <3>4. FollowInv' /\ FoundInv'
      BY <3>1 DEF RestInv, FollowInv, FoundInv, OneNameEach, Finds, Means, Spelled, Written
    <3>5. QED
      BY <3>2, <3>3, <3>4 DEF RestInv
  <2>10. QED
    BY <2>1, <2>2, <2>3, <2>4, <2>5, <2>6, <2>7, <2>8, <2>9 DEF Next, Finished
<1>3. JoinInv /\ Rest => ReferenceInv
  BY DEF ReferenceInv, RestInv
<1> HIDE DEF Rest
<1>4. QED
  BY <1>1, <1>2, <1>3, JoinInvariant, PTL DEF Spec

\* A reference that a document wrote to one of its schemas finds, in the joined
\* document, what stands for that schema: renames, redirects, the rewrite under
\* each document's own renames and the removal of duplicates never lead one
\* astray, whatever names the documents share.
THEOREM ReferencesAlwaysKeepMeaning ==
    ASSUME HandlersRespectStrategy, DocumentsAreClosed
    PROVE  Spec => []ReferencesKeepTheirMeaning
<1>1. ReferenceInv => ReferencesKeepTheirMeaning
  BY DEF ReferenceInv, FoundInv, ReferencesKeepTheirMeaning, Image
<1>2. QED
  BY <1>1, ReferenceInvariant, PTL
-----------------------------------------------------------------------------
\* What stands for what.  The merge only ever lets a handler's own schema stand
\* for another; the collapse and the deduplication decide the rest.

Moving == strategy \in {"rename-left", "deduplicate-or-rename"}

\* A handler that only supplies schemas overturns no strategy.
LEMMA SupplyingHandlersRespect == HandlersOnlySupply => HandlersRespectStrategy
BY DEF HandlersOnlySupply, HandlersRespectStrategy

\* Agrees, with f for what stands for what.
AgreesBy(f, x, o) ==
    /\ SameShape(x, o)
    /\ Len(Written(x).refs) = Len(Written(o).refs)
    /\ \A i \in DOMAIN Written(x).refs :
         f[Obj(x.doc, Written(x).refs[i])] = f[Obj(o.doc, Written(o).refs[i])]

\* What is settled stays settled when objects that stood for one another go on
\* doing so.
LEMMA AgreementKept ==
    ASSUME DocumentsAreClosed, docs \in Inputs, docs' = docs,
           \A d \in Doc : \A n \in Spelled(d) : Obj(d, n) \in DOMAIN meant,
           \A p, q \in DOMAIN meant : meant[p] = meant[q] => meant'[p] = meant'[q],
           NEW x, x.doc \in Doc, x.name \in Spelled(x.doc),
           NEW o, o.doc \in Doc, o.name \in Spelled(o.doc),
           Agrees(x, o)
    PROVE  AgreesBy(meant', x, o)
<1>2. /\ \A i \in DOMAIN Written(x).refs : Written(x).refs[i] \in Spelled(x.doc)
      /\ \A i \in DOMAIN Written(o).refs : Written(o).refs[i] \in Spelled(o.doc)
      /\ DOMAIN Written(x).refs = 1..Len(Written(x).refs)
      /\ DOMAIN Written(o).refs = 1..Len(Written(o).refs)
  BY WrittenRefers
<1>3. ASSUME NEW i \in DOMAIN Written(x).refs
      PROVE  meant'[Obj(x.doc, Written(x).refs[i])] = meant'[Obj(o.doc, Written(o).refs[i])]
  <2> DEFINE p == Obj(x.doc, Written(x).refs[i])
             q == Obj(o.doc, Written(o).refs[i])
  <2>1. Len(Written(x).refs) = Len(Written(o).refs) /\ meant[p] = meant[q]
    BY DEF Agrees, Means
  <2>2. p \in DOMAIN meant /\ q \in DOMAIN meant
    BY <1>2, <2>1
  <2> HIDE DEF p, q
  <2>3. meant'[p] = meant'[q]
    BY <2>1, <2>2
  <2>4. QED
    BY <2>3 DEF p, q
<1>4. QED
  BY <1>3 DEF Agrees, AgreesBy

\* Under the strategies that move schemas, each that is merged stands for itself or for one the
\* handler made.
LEMMA MergeSuppliesOnly ==
    ASSUME HandlersOnlySupply, strategy \in Strategies, Moving, pc = "merge", NEW n \in todo,
           Insert(n) \/ Collide(n), pc' = pc,
           \A x \in DOMAIN meant : meant[x] = x \/ meant[x].custom
    PROVE  \A x \in DOMAIN meant' : meant'[x] = x \/ meant'[x].custom
<1>1. HandlerAnswers[strategy] \subseteq {"continue", "custom", "fail"}
  BY DEF HandlersOnlySupply, Moving
<1>2. CASE meant' = Put(meant, Right(n), Right(n))
  BY <1>2 DEF Put
<1>3. ASSUME KeepCustom(n)
      PROVE  \A x \in DOMAIN meant' : meant'[x] = x \/ meant'[x].custom
  <2> DEFINE o == [Right(n) EXCEPT !.custom = TRUE]
  <2>1. o.custom
    BY DEF Right, Obj
  <2>2. meant' = Put(StandsFor(meant, Left(n), o), Right(n), o)
    BY <1>3 DEF KeepCustom, Replace
  <2> HIDE DEF o
  <2>3. QED
    BY <2>1, <2>2 DEF Put, StandsFor
<1>4. ~Refuse(n)
  BY DEF Refuse
<1>5. CASE Insert(n)
  BY <1>2, <1>5 DEF Insert
<1>6. CASE ByStrategy(n)
  BY <1>2, <1>4, <1>6 DEF ByStrategy, Moving, RenameLeft, RenameAndDefer
<1>7. CASE ByHandler(n)
  BY <1>1, <1>3, <1>4, <1>7 DEF ByHandler
<1>8. QED
  BY <1>5, <1>6, <1>7 DEF Collide

\* Names of one class of the collapse lead to schemas that agree.
LEMMA ClassesAgree ==
    ASSUME DocumentsAreClosed, JoinInv, RestInv, EndMerge,
           NEW a \in DOMAIN alias', deferred # {}
    PROVE  Agrees(target[a], target[alias'[a]])
<1> USE DEF RestInv
<1>1. pc = "merge" /\ alias' \in AliasMaps(Classes, GeneratedNames)
  BY DEF EndMerge
<1>2. PICK K \in Classes : a \in K /\ alias'[a] \in K
  BY <1>1, AliasMapsStayInClass
<1>3. PICK m \in Members : K = {b \in Group(m) : Interchangeable(target[m], target[b])}
  BY <1>2 DEF Classes
<1> DEFINE x == target[a]
           o == target[alias'[a]]
           w == target[m]
<1>4. Interchangeable(w, x) /\ Interchangeable(w, o) /\ a \in Members /\ alias'[a] \in Members
  BY <1>2, <1>3 DEF Group
<1>5. \A k \in Members : k \in DOMAIN target /\ ~target[k].custom
  BY DEF Members, Pairs, Settled
<1>6. /\ \A k \in DOMAIN target : target[k] \in DOMAIN refs /\ target[k].doc \in Doc
                                    /\ target[k].name \in Spelled(target[k].doc)
      /\ \A k \in Members : refs[target[k]] = Written(target[k]).refs
  BY <1>1, <1>5 DEF AccountInv, Merged, SpellingInv, Spelling, Rewrote
<1>7. /\ x \in DOMAIN refs /\ o \in DOMAIN refs /\ w \in DOMAIN refs
      /\ refs[x] = Written(x).refs /\ refs[o] = Written(o).refs
      /\ x.doc \in Doc /\ x.name \in Spelled(x.doc) /\ o.doc \in Doc /\ o.name \in Spelled(o.doc)
  BY <1>4, <1>5, <1>6
<1> HIDE DEF x, o, w
<1>8. SameShape(x, o) /\ refs[x] = refs[o] /\ Mapped(renames[x.doc], refs[x]) = Mapped(renames[o.doc], refs[o])
  BY <1>4, <1>7 DEF Interchangeable, Equivalent, SameShape, RefsOf
<1>9. Written(x).refs = Written(o).refs
  BY <1>7, <1>8
<1>10. ASSUME NEW i \in DOMAIN Written(x).refs
       PROVE  Means(x.doc, Written(x).refs[i]) = Means(o.doc, Written(o).refs[i])
  <2>1. Written(x).refs[i] \in Spelled(x.doc) /\ Written(o).refs[i] \in Spelled(o.doc)
    BY <1>7, <1>9, WrittenRefers DEF AccountInv
  <2>2. Led
    BY <1>1 DEF JoinInv, RenamesFollowSchemas, Led
  <2>3. \A d \in Doc : \A n \in Spelled(d) : Merged(Obj(d, n))
    BY DocumentsAssumption DEF Merged, Obj, EndMerge, Doc
  <2>4. /\ Finds(Lookup(renames[x.doc], Written(x).refs[i]), Means(x.doc, Written(x).refs[i]))
        /\ Finds(Lookup(renames[o.doc], Written(o).refs[i]), Means(o.doc, Written(o).refs[i]))
    BY <1>7, <2>1, <2>2, <2>3, LeadsOwnSchemas
  <2>5. Lookup(renames[x.doc], Written(x).refs[i]) = Lookup(renames[o.doc], Written(o).refs[i])
    <3>1. /\ Mapped(renames[x.doc], Written(x).refs)[i] = Lookup(renames[x.doc], Written(x).refs[i])
          /\ Mapped(renames[o.doc], Written(o).refs)[i] = Lookup(renames[o.doc], Written(o).refs[i])
      BY <1>9 DEF Mapped
    <3>2. QED
      BY <1>7, <1>8, <3>1
  <2>6. QED
    BY <2>4, <2>5 DEF Finds
<1>11. QED
  BY <1>8, <1>9, <1>10 DEF Agrees, x, o

\* What the collapse puts in place of a schema agrees with it.
LEMMA DropKeepsAgreement ==
    ASSUME DocumentsAreClosed, JoinInv, RestInv, AgreeInv, Moving, NEW a \in DOMAIN alias, Drop(a)
    PROVE  AgreeInv'
<1> USE DEF RestInv
<1> DEFINE X == target[a]
           O == target[alias[a]]
<1>1. /\ pc = "collapse" /\ pc' = pc /\ a \in Undropped /\ a \in DOMAIN target /\ docs' = docs /\ alias' = alias
      /\ meant' = StandsFor(meant, X, O)
      /\ DOMAIN target' = DOMAIN target \ {a} /\ \A k \in DOMAIN target' : target'[k] = target[k]
  BY DEF Drop, Undropped, given, Without
<1>2. /\ \A c \in DOMAIN alias : alias[c] \in DOMAIN target \ DOMAIN alias
      /\ \A c \in Undropped : \A x \in DOMAIN meant : meant[x] = target[c] => x = target[c]
  BY <1>1 DEF JoinInv, DropInv
<1>3. /\ \A x \in DOMAIN meant : x = Obj(x.doc, x.name) /\ x.doc \in Doc /\ x.name \in Spelled(x.doc)
      /\ \A x \in DOMAIN meant : meant[x] = x \/ meant[x].custom \/ Agrees(x, meant[x])
      /\ \A c \in Undropped : Agrees(target[c], target[alias[c]])
  BY <1>1 DEF AgreeInv, Moving
<1>4. \A k \in DOMAIN target : target[k].doc \in Doc /\ target[k].name \in Spelled(target[k].doc)
  BY DEF AccountInv, Merged
<1>5. docs \in Inputs /\ \A d \in Doc : \A n \in Spelled(d) : Obj(d, n) \in DOMAIN meant
  BY <1>1 DEF AccountInv, Merged, Obj
<1>6. /\ DOMAIN meant' = DOMAIN meant
      /\ \A x \in DOMAIN meant : meant'[x] = IF meant[x] = X THEN O ELSE meant[x]
  BY <1>1 DEF StandsFor
<1>7. X.doc \in Doc /\ X.name \in Spelled(X.doc) /\ O.doc \in Doc /\ O.name \in Spelled(O.doc) /\ Agrees(X, O)
  BY <1>1, <1>2, <1>3, <1>4
<1>8. \A x \in DOMAIN meant : meant[x] = X => x = X
  BY <1>1, <1>2
<1> HIDE DEF X, O
<1>9. \A p, q \in DOMAIN meant : meant[p] = meant[q] => meant'[p] = meant'[q]
  BY <1>6
<1>10. ASSUME NEW x, x.doc \in Doc, x.name \in Spelled(x.doc),
              NEW o, o.doc \in Doc, o.name \in Spelled(o.doc), Agrees(x, o)
       PROVE  AgreesBy(meant', x, o)
  BY <1>1, <1>5, <1>9, <1>10, AgreementKept
<1>11. ASSUME NEW x \in DOMAIN meant
       PROVE  meant'[x] = x \/ meant'[x].custom \/ AgreesBy(meant', x, meant'[x])
  <2>1. CASE meant[x] = X
    <3>1. x = X /\ meant'[x] = O
      BY <1>6, <1>8, <2>1
    <3>2. AgreesBy(meant', X, O)
      BY <1>7, <1>10
    <3>3. QED
      BY <3>1, <3>2
  <2>2. CASE meant[x] # X /\ Agrees(x, meant[x]) /\ meant[x].doc \in Doc /\ meant[x].name \in Spelled(meant[x].doc)
    <3>1. x.doc \in Doc /\ x.name \in Spelled(x.doc) /\ meant'[x] = meant[x]
      BY <1>3, <1>6, <2>2
    <3>2. AgreesBy(meant', x, meant[x])
      BY <1>10, <2>2, <3>1
    <3>3. QED
      BY <3>1, <3>2
  <2>3. meant[x].doc \in Doc /\ meant[x].name \in Spelled(meant[x].doc)
    BY <1>1, <1>4 DEF JoinInv, RenamesFollowSchemas, Finds
  <2>4. QED
    BY <1>3, <1>6, <2>1, <2>2, <2>3
<1>12. ASSUME NEW c \in Undropped'
       PROVE  AgreesBy(meant', target'[c], target'[alias'[c]])
  <2>1. /\ c \in Undropped /\ c \in DOMAIN target /\ c \in DOMAIN alias /\ alias[c] \in DOMAIN target
        /\ target'[c] = target[c] /\ target'[alias'[c]] = target[alias[c]]
    BY <1>1, <1>2 DEF Undropped
  <2>2. Agrees(target[c], target[alias[c]])
    BY <1>3, <2>1
  <2>3. AgreesBy(meant', target[c], target[alias[c]])
    BY <1>4, <1>10, <2>1, <2>2
  <2>4. QED
    BY <2>1, <2>3
<1>13. (\A x \in DOMAIN meant : meant[x] = x \/ meant[x].custom \/ Agrees(x, meant[x]))'
  <2>1. ASSUME NEW x \in DOMAIN meant, AgreesBy(meant', x, meant'[x])
        PROVE  Agrees(x, meant[x])'
    BY <1>1, <2>1 DEF AgreesBy, Agrees, SameShape, ShapeOf, Written, Means
  <2>2. QED
    BY <1>6, <1>11, <2>1
<1>14. (\A c \in Undropped : Agrees(target[c], target[alias[c]]))'
  BY <1>1, <1>12 DEF AgreesBy, Agrees, SameShape, ShapeOf, Written, Means
<1>15. (\A x \in DOMAIN meant : x = Obj(x.doc, x.name) /\ x.doc \in Doc /\ x.name \in Spelled(x.doc))'
  BY <1>1, <1>3, <1>6 DEF Spelled
<1>16. QED
  BY <1>1, <1>13, <1>14, <1>15 DEF AgreeInv

\* What semantic deduplication puts in place of a schema agrees with it.
LEMMA DeduplicateKeepsAgreement ==
    ASSUME DocumentsAreClosed, CustomStaysApart, RestInv, AgreeInv, Moving, Deduplicate
    PROVE  AgreeInv'
<1> USE DEF RestInv
<1>1. PICK same : Removes(same)
  BY DEF Deduplicate, Removes
<1>2. pc = "dedupe" /\ pc' = "done" /\ docs' = docs /\ docs \in Inputs
  BY DEF Deduplicate, given, AccountInv
<1>3. OneNameEach
  BY <1>2 DEF FollowInv
<1>4. /\ \A a \in DOMAIN same :
           /\ a \in DOMAIN target /\ same[a] \in DOMAIN target \ DOMAIN same
           /\ \E K \in Duplicates : a \in K /\ same[a] \in K
      /\ DOMAIN target' = DOMAIN target \ DOMAIN same
      /\ \A k \in DOMAIN target' : target'[k] = target[k]
      /\ \A k : \A x \in DOMAIN meant : Finds(k, meant[x]) =>
           Lookup(same, k) \in DOMAIN target' /\ target'[Lookup(same, k)] = meant'[x]
  BY <1>1, <1>3, RemovedAreFollowed
<1>5. /\ \A x \in DOMAIN meant : x = Obj(x.doc, x.name) /\ x.doc \in Doc /\ x.name \in Spelled(x.doc)
      /\ \A x \in DOMAIN meant : meant[x] = x \/ meant[x].custom \/ Agrees(x, meant[x])
      /\ \A x \in DOMAIN meant : \E k \in DOMAIN target : meant[x] = target[k]
  BY <1>2 DEF AgreeInv, Moving, Image
<1>6. /\ \A k \in DOMAIN target : target[k] \in DOMAIN refs /\ target[k].doc \in Doc
                                    /\ target[k].name \in Spelled(target[k].doc)
      /\ \A d \in Doc : \A n \in Spelled(d) : Obj(d, n) \in DOMAIN meant
  BY <1>2 DEF AccountInv, Merged, Obj
<1>7. DOMAIN meant' = DOMAIN meant
  BY <1>1 DEF Removes
<1>8. \A p, q \in DOMAIN meant : meant[p] = meant[q] => meant'[p] = meant'[q]
  BY <1>1 DEF Removes

\* A schema that gives way to a document's own agrees with it.
<1>9. ASSUME NEW a \in DOMAIN same, ~target[same[a]].custom
      PROVE  Agrees(target[a], target[same[a]]) /\ ~target[a].custom
  <2> DEFINE y == target[a]
             o == target[same[a]]
  <2>1. PICK m \in DOMAIN target : Equivalent(target[m], y, "deep") /\ Equivalent(target[m], o, "deep")
    BY <1>4 DEF Duplicates
  <2>2. /\ y \in DOMAIN refs /\ y.doc \in Doc /\ y.name \in Spelled(y.doc)
        /\ o \in DOMAIN refs /\ o.doc \in Doc /\ o.name \in Spelled(o.doc)
    BY <1>4, <1>6
  <2>3. SameShape(y, o) /\ refs[y] = refs[o]
    BY <1>6, <2>1, <2>2 DEF Equivalent, SameShape, RefsOf
  <2>4. ~y.custom
    <3>1. SemanticDeduplication
      BY <1>1 DEF Removes
    <3>2. ShapeOf(o) = Written(o).shape /\ Written(o).shape # CustomShape
      BY <1>2, <1>9, <2>2, <3>1 DEF CustomStaysApart, ShapeOf, Written, Spelled
    <3>3. QED
      BY <2>3, <3>2 DEF SameShape, ShapeOf
  <2>5. /\ DOMAIN refs[y] = DOMAIN Written(y).refs /\ DOMAIN refs[o] = DOMAIN Written(o).refs
        /\ \A i \in DOMAIN refs[y] : Finds(refs[y][i], Means(y.doc, Written(y).refs[i]))
        /\ \A i \in DOMAIN refs[o] : Finds(refs[o][i], Means(o.doc, Written(o).refs[i]))
    BY <1>2, <1>4, <1>9, <2>4 DEF FoundInv
  <2> HIDE DEF y, o
  <2>6. /\ DOMAIN Written(y).refs = 1..Len(Written(y).refs) /\ Written(y).refs \in Seq(Spelled(y.doc))
        /\ DOMAIN Written(o).refs = 1..Len(Written(o).refs) /\ Written(o).refs \in Seq(Spelled(o.doc))
    BY <1>2, <2>2, WrittenRefers
  <2>7. Len(Written(y).refs) = Len(Written(o).refs)
    <3> DEFINE m1 == Len(Written(y).refs)
               m2 == Len(Written(o).refs)
    <3>1. m1 \in Nat /\ m2 \in Nat
      BY <2>6, LenProperties
    <3>2. 1..m1 = 1..m2
      BY <2>3, <2>5, <2>6
    <3> HIDE DEF m1, m2
    <3>3. m1 = m2
      BY <3>1, <3>2
    <3>4. QED
      BY <3>3 DEF m1, m2
  <2>8. \A i \in DOMAIN Written(y).refs :
          Means(y.doc, Written(y).refs[i]) = Means(o.doc, Written(o).refs[i])
    BY <2>3, <2>5 DEF Finds
  <2>9. QED
    BY <2>3, <2>4, <2>7, <2>8 DEF Agrees, y, o
<1>10. ASSUME NEW x \in DOMAIN meant
       PROVE  /\ meant'[x] = x \/ meant'[x].custom \/ AgreesBy(meant', x, meant'[x])
              /\ meant'[x] \in Image(target')
  <2>1. PICK k \in DOMAIN target : meant[x] = target[k]
    BY <1>5
  <2>2. Lookup(same, k) \in DOMAIN target' /\ target'[Lookup(same, k)] = meant'[x]
    BY <1>4, <2>1 DEF Finds
  <2>3. meant'[x] \in Image(target')
    BY <2>2 DEF Image
  <2> DEFINE o == target[Lookup(same, k)]
  <2>4. meant'[x] = o /\ o.doc \in Doc /\ o.name \in Spelled(o.doc)
    BY <1>4, <1>6, <2>2
  <2>5. ASSUME Agrees(x, o)
        PROVE  AgreesBy(meant', x, o)
    <3> HIDE DEF o
    <3>1. x.doc \in Doc /\ x.name \in Spelled(x.doc)
      BY <1>5
    <3>2. QED
      BY <1>2, <1>6, <1>8, <2>4, <2>5, <3>1, AgreementKept
  <2>6. CASE k \notin DOMAIN same
    <3>1. o = meant[x]
      BY <2>1, <2>6 DEF Lookup
    <3>2. QED
      BY <1>5, <2>3, <2>4, <2>5, <3>1
  <2>7. CASE k \in DOMAIN same /\ ~o.custom
    <3>1. o = target[same[k]]
      BY <2>7 DEF Lookup
    <3>2. Agrees(target[k], o) /\ ~target[k].custom
      BY <1>9, <2>7, <3>1
    <3>3. CASE meant[x] = x
      BY <2>1, <2>3, <2>4, <2>5, <3>2, <3>3
    <3>4. CASE Agrees(x, meant[x])
      <4> DEFINE y == target[k]
      <4>1. Agrees(x, y) /\ Agrees(y, o) /\ y.doc \in Doc /\ y.name \in Spelled(y.doc)
        BY <1>6, <2>1, <3>2, <3>4
      <4> HIDE DEF y, o
      <4>2. DOMAIN Written(x).refs = DOMAIN Written(y).refs
        <5>1. DOMAIN Written(x).refs = 1..Len(Written(x).refs)
          BY <1>2, <1>5, WrittenRefers
        <5>2. DOMAIN Written(y).refs = 1..Len(Written(y).refs)
          BY <1>2, <4>1, WrittenRefers
        <5>3. QED
          BY <4>1, <5>1, <5>2 DEF Agrees
      <4>3. Agrees(x, o)
        BY <4>1, <4>2 DEF Agrees, SameShape
      <4>4. QED
        BY <2>3, <2>4, <2>5, <4>3
    <3>5. QED
      BY <1>5, <2>1, <3>2, <3>3, <3>4
  <2>8. QED
    BY <2>3, <2>4, <2>6, <2>7
<1>11. (\A x \in DOMAIN meant : meant[x] = x \/ meant[x].custom \/ Agrees(x, meant[x]))'
  <2>1. ASSUME NEW x \in DOMAIN meant, AgreesBy(meant', x, meant'[x])
        PROVE  Agrees(x, meant[x])'
    BY <1>2, <2>1 DEF AgreesBy, Agrees, SameShape, ShapeOf, Written, Means
  <2>2. QED
    BY <1>7, <1>10, <2>1
<1>12. (\A x \in DOMAIN meant : x = Obj(x.doc, x.name) /\ x.doc \in Doc /\ x.name \in Spelled(x.doc))'
  BY <1>2, <1>5, <1>7 DEF Spelled
<1>13. (\A x \in DOMAIN meant : meant[x] \in Image(target))'
  BY <1>7, <1>10 DEF Image
<1>14. QED
  BY <1>2, <1>11, <1>12, <1>13 DEF AgreeInv

\* The steps at which nothing new stands for anything.
LEMMA OthersKeepAgreement ==
    ASSUME AgreeInv, Moving, docs' = docs, meant' = meant, strategy' = strategy,
           pc' = "merge" => pc = "merge", pc' # "collapse",
           pc' \notin {"merge", "collapse"} => \A x \in DOMAIN meant : \E k \in DOMAIN target' : meant[x] = target'[k]
    PROVE  pc # "failed" => AgreeInv'
<1> SUFFICES ASSUME pc # "failed" PROVE AgreeInv'
  OBVIOUS
<1>1. (\A x \in DOMAIN meant : x = Obj(x.doc, x.name) /\ x.doc \in Doc /\ x.name \in Spelled(x.doc))'
  BY DEF AgreeInv, Moving, Spelled
<1>2. (\A x \in DOMAIN meant : meant[x] = x \/ meant[x].custom \/ Agrees(x, meant[x]))'
  BY DEF AgreeInv, Moving, Agrees, SameShape, ShapeOf, Written, Means
<1>3. pc' = "merge" => (\A x \in DOMAIN meant : meant[x] = x \/ meant[x].custom)'
  BY DEF AgreeInv, Moving
<1>4. QED
  BY <1>1, <1>2, <1>3 DEF AgreeInv, Image

\* What stands for a schema agrees with it throughout the join.
THEOREM AgreeInvariant ==
    ASSUME HandlersOnlySupply, DocumentsAreClosed, CustomStaysApart
    PROVE  Spec => [](ReferenceInv /\ AgreeInv)
<1>1. Init => AgreeInv
  BY DEF Init, AgreeInv
<1>2. ReferenceInv /\ AgreeInv /\ [Next]_vars => AgreeInv'
  <2> SUFFICES ASSUME ReferenceInv, AgreeInv, [Next]_vars, pc' # "failed", Moving'
               PROVE  AgreeInv'
    BY DEF AgreeInv, Moving
  <2>1. JoinInv /\ (pc # "failed" => RestInv)
    BY DEF ReferenceInv, RestInv
  <2>2. pc # "failed" /\ docs' = docs /\ strategy' = strategy /\ Moving
    BY DEF Next, Insert, Collide, ByStrategy, ByHandler, KeepLeft, KeepRight, KeepCustom, Replace,
           RenameRight, RenameAndDefer, RenameLeft, Refuse, Taking, NextDocument, EndMerge, Drop,
           EndCollapse, RewriteDocument, RewriteUnowned, Deduplicate, Finished, vars, given, Moving
  <2>3. pc \in {"merge", "collapse"} => \A x \in DOMAIN meant : \E k \in DOMAIN target : meant[x] = target[k]
    BY <2>1 DEF JoinInv, RenamesFollowSchemas, Finds
  <2>4. pc \notin {"merge", "collapse"} => \A x \in DOMAIN meant : \E k \in DOMAIN target : meant[x] = target[k]
    BY <2>2 DEF AgreeInv, Moving, Image
  <2>5. ASSUME NEW n \in todo, Insert(n) \/ Collide(n)
        PROVE  AgreeInv'
    <3>1. pc = "merge" /\ pc' = pc
      BY <2>5, <2>2 DEF Insert, Collide, ByStrategy, ByHandler, KeepLeft, KeepRight, KeepCustom, Replace,
                  RenameRight, RenameAndDefer, RenameLeft, Refuse, Taking
    <3>2. strategy \in Strategies /\ StoreInv /\ \A x \in DOMAIN meant : meant[x] = x \/ meant[x].custom
      BY <2>1, <2>2, <3>1 DEF JoinInv, StoreInv, AgreeInv, Moving
    <3>3. \A x \in DOMAIN meant' : meant'[x] = x \/ meant'[x].custom
      BY <2>2, <2>5, <3>1, <3>2, MergeSuppliesOnly
    <3>4. PICK o : Takes(n, o)
      BY <2>5, <3>1, TakingTakes
    <3>5. DOMAIN meant' = DOMAIN meant \cup {Right(n)} /\ Taking(n) /\ UNCHANGED <<given, pc, doc>>
      BY <3>4 DEF Takes
    <3>6. \A x \in DOMAIN meant' : x = Obj(x.doc, x.name) /\ x.doc \in Doc /\ x.name \in Spelled(x.doc)
      BY <2>2, <3>1, <3>2, <3>5, MergedNow DEF AgreeInv, Moving
    <3>7. QED
      BY <2>2, <3>1, <3>3, <3>6 DEF AgreeInv, Spelled
  <2>6. CASE NextDocument
    BY <2>2, <2>6, OthersKeepAgreement DEF NextDocument, stores
  <2>7. CASE EndMerge
    <3>1. /\ pc = "merge" /\ pc' \in {"dedupe", "collapse"} /\ meant' = meant /\ target' = target
          /\ alias' \in IF deferred = {} THEN {<<>>} ELSE AliasMaps(Classes, GeneratedNames)
      BY <2>7 DEF EndMerge, stores
    <3>2. ASSUME NEW a \in DOMAIN alias'
          PROVE  Agrees(target[a], target[alias'[a]])
      BY <2>1, <2>2, <2>7, <3>1, <3>2, ClassesAgree
    <3>3. CASE pc' = "dedupe"
      BY <2>2, <2>3, <3>1, <3>3, OthersKeepAgreement
    <3>4. CASE pc' = "collapse"
      <4>1. (\A x \in DOMAIN meant : x = Obj(x.doc, x.name) /\ x.doc \in Doc /\ x.name \in Spelled(x.doc))'
        BY <2>2, <3>1 DEF AgreeInv, Moving, Spelled
      <4>2. (\A x \in DOMAIN meant : meant[x] = x \/ meant[x].custom)'
        BY <2>2, <3>1 DEF AgreeInv, Moving
      <4>3. (\A a \in Undropped : Agrees(target[a], target[alias[a]]))'
        BY <2>2, <3>1, <3>2 DEF Undropped, Agrees, SameShape, ShapeOf, Written, Means
      <4>4. QED
        BY <3>4, <4>1, <4>2, <4>3 DEF AgreeInv
    <3>5. QED
      BY <3>1, <3>3, <3>4
  <2>8. ASSUME NEW a \in DOMAIN alias, Drop(a)
        PROVE  AgreeInv'
    BY <2>1, <2>2, <2>8, DropKeepsAgreement
  <2>9. CASE EndCollapse
    BY <2>2, <2>3, <2>9, OthersKeepAgreement DEF EndCollapse, stores
  <2>10. CASE RewriteDocument
    BY <2>2, <2>4, <2>10, OthersKeepAgreement DEF RewriteDocument
  <2>11. CASE RewriteUnowned
    BY <2>2, <2>4, <2>11, OthersKeepAgreement DEF RewriteUnowned
  <2>12. CASE Deduplicate
    BY <2>1, <2>2, <2>12, DeduplicateKeepsAgreement
  <2>13. CASE UNCHANGED vars
    <3>1. docs' = docs /\ pc' = pc /\ meant' = meant /\ target' = target /\ alias' = alias
      BY <2>13 DEF vars, given, stores
    <3>2. (\A x \in DOMAIN meant : x = Obj(x.doc, x.name) /\ x.doc \in Doc /\ x.name \in Spelled(x.doc))'
      BY <2>2, <3>1 DEF AgreeInv, Moving, Spelled
    <3>3. (\A x \in DOMAIN meant : meant[x] = x \/ meant[x].custom \/ Agrees(x, meant[x]))'
      <4>1. ASSUME NEW x \in DOMAIN meant, Agrees(x, meant[x])
            PROVE  Agrees(x, meant[x])'
        BY <3>1, <4>1 DEF Agrees, SameShape, ShapeOf, Written, Means
      <4>2. QED
        BY <2>2, <3>1, <4>1 DEF AgreeInv, Moving
    <3>4. ASSUME pc = "collapse"
          PROVE  (\A a \in Undropped : Agrees(target[a], target[alias[a]]))'
      <4>1. \A a \in Undropped : Agrees(target[a], target[alias[a]])
        BY <2>2, <3>4 DEF AgreeInv, Moving
      <4>2. ASSUME NEW a, Agrees(target[a], target[alias[a]])
            PROVE  Agrees(target[a], target[alias[a]])'
        BY <3>1, <4>2 DEF Agrees, SameShape, ShapeOf, Written, Means
      <4>3. QED
        BY <3>1, <4>1, <4>2 DEF Undropped
    <3>5. (pc = "merge" => \A x \in DOMAIN meant : meant[x] = x \/ meant[x].custom)'
      BY <2>2, <3>1 DEF AgreeInv, Moving
    <3>6. (pc \notin {"merge", "collapse"} => \A x \in DOMAIN meant : meant[x] \in Image(target))'
      BY <2>2, <3>1 DEF AgreeInv, Moving, Image
    <3>7. (pc = "collapse" => \A a \in Undropped : Agrees(target[a], target[alias[a]]))'
      BY <3>1, <3>4
    <3>8. QED
      BY <3>2, <3>3, <3>5, <3>6, <3>7 DEF AgreeInv
  <2>14. QED
    BY <2>5, <2>6, <2>7, <2>8, <2>9, <2>10, <2>11, <2>12, <2>13 DEF Next, Finished
<1>3. QED
  BY <1>1, <1>2, ReferenceInvariant, SupplyingHandlersRespect, PTL DEF Spec

\* Under the strategies that move schemas, one document's schema stands for
\* another's only where both have the same shape and their references are about
\* the same schemas of the joined document, through every chain of collapses
\* and deduplication.
THEOREM MergedSchemasAlwaysAgree ==
    ASSUME HandlersOnlySupply, DocumentsAreClosed, CustomStaysApart
    PROVE  Spec => []MergedSchemasAgree
<1>1. AgreeInv => MergedSchemasAgree
  BY DEF AgreeInv, MergedSchemasAgree, Agrees
<1>2. QED
  BY <1>1, AgreeInvariant, PTL

-----------------------------------------------------------------------------
(* A whole join. *)

\* Each step of a join is a step of the schemas, or leaves them as they are.
LEMMA JoinStepsAreSchemaSteps == [JoinNext]_joinVars => [Next]_vars
<1> SUFFICES ASSUME [JoinNext]_joinVars PROVE Next \/ UNCHANGED vars
  OBVIOUS
<1>1. CASE Refused \/ Start \/ RefuseForms \/ SchemasRefuse \/ Deliver
  BY <1>1 DEF Refused, Start, RefuseForms, Joining, SchemasRefuse, Deliver
<1>2. CASE \E e \in left : InsertEntry(e) \/ Unheard(e) \/ Answered(e)
  <2> PICK e \in left : InsertEntry(e) \/ Unheard(e) \/ Answered(e)
    BY <1>2
  <2> QED
    BY DEF InsertEntry, Unheard, Answered, TakeEntry, Joining
<1>3. CASE JoinSchema
  BY <1>3 DEF JoinSchema, Next
<1>4. CASE EndDocument
  BY <1>4 DEF EndDocument, Next
<1>5. CASE FinishSchemas
  BY <1>5 DEF FinishSchemas, Next
<1>6. CASE Over \/ UNCHANGED joinVars
  BY <1>6 DEF Over, joinVars
<1> QED
  BY <1>1, <1>2, <1>3, <1>4, <1>5, <1>6 DEF JoinNext

\* A whole join implements the merge of schemas of SchemaJoin.
THEOREM JoinImplementsSchemaJoin == JoinSpec => Spec
<1>1. JoinInit => Init
  BY DEF JoinInit
<1>2. QED
  BY <1>1, JoinStepsAreSchemaSteps, PTL DEF JoinSpec, Spec

\* So the renames of each document lead to its schemas in a whole join too.
THEOREM RenamesFollowInJoins ==
    ASSUME HandlersRespectStrategy
    PROVE  JoinSpec => []RenamesFollowSchemas
BY JoinImplementsSchemaJoin, RenamesAlwaysFollow, PTL

\* And so what a joined document refers to means what it meant where it was
\* written,
THEOREM ReferencesKeepMeaningInJoins ==
    ASSUME HandlersRespectStrategy, DocumentsAreClosed
    PROVE  JoinSpec => []ReferencesKeepTheirMeaning
BY JoinImplementsSchemaJoin, ReferencesAlwaysKeepMeaning, PTL

\* and schemas that were merged into one agree.
THEOREM MergedSchemasAgreeInJoins ==
    ASSUME HandlersOnlySupply, DocumentsAreClosed, CustomStaysApart
    PROVE  JoinSpec => []MergedSchemasAgree
BY JoinImplementsSchemaJoin, MergedSchemasAlwaysAgree, PTL

-----------------------------------------------------------------------------
\* The entries.

\* One document stands for an entry at most, so Standing is the one that does.
LEMMA StandingIs ==
    ASSUME NEW e, NEW d, NEW h, Stands(e, Before(e, d), h)
    PROVE  Standing(e, d) = h
<1>1. Before(e, d) \subseteq Nat
  BY DocumentsAssumption DEF Before, Holders, Doc
<1>2. ASSUME NEW g, Stands(e, Before(e, d), g) PROVE g = h
  <2>1. g \in Nat /\ h \in Nat
    BY <1>1, <1>2 DEF Stands
  <2>2. ~(g < h)
    BY <1>2, <2>1 DEF Stands
  <2>3. ~(h < g)
    BY <1>2, <2>1 DEF Stands
  <2> QED
    BY <2>1, <2>2, <2>3
<1>3. h \in Before(e, d)
  BY DEF Stands
<1> QED
  BY <1>2, <1>3 DEF Standing

\* What is asked for a collision stays as it is while another is answered.
LEMMA AnswersHold ==
    ASSUME UNCHANGED request, NEW f, NEW d, NEW e, NEW k, <<f, d>> # <<e, k>>,
           answered' = answered \/ \E answer : answered' = Put(answered, <<e, k>>, answer)
    PROVE  /\ Deferring(f, d)' <=> Deferring(f, d)
           /\ TakesRight(f, d)' <=> TakesRight(f, d)
           /\ Forbidden(f, d)' <=> Forbidden(f, d)
<1>1. ASSUME NEW kind PROVE Effectual(kind)' = Effectual(kind)
  BY DEF Effectual
<1>2. /\ <<f, d>> \in DOMAIN answered' <=> <<f, d>> \in DOMAIN answered
      /\ <<f, d>> \in DOMAIN answered => answered'[<<f, d>>] = answered[<<f, d>>]
  BY DEF Put
<1>3. Deferring(f, d)' <=> Deferring(f, d)
  BY <1>2 DEF Deferring
<1>4. Asked(f, d)' = Asked(f, d)
  <2>1. KindOf(f)' = KindOf(f)
    BY DEF KindOf, IsPathLike
  <2> QED
    BY <1>1, <1>2, <1>3, <2>1 DEF Asked, Deferring
<1>5. TakesRight(f, d)' <=> TakesRight(f, d)
  BY <1>3, <1>4 DEF TakesRight
<1>6. Forbidden(f, d)' <=> Forbidden(f, d)
  BY <1>3, <1>4 DEF Forbidden, IsPathLike
<1> QED
  BY <1>3, <1>5, <1>6

\* When no entry is touched and the joiner has come past the same ones, all that
\* is known of the entries still holds.
LEMMA EntriesKept ==
    ASSUME EntryInv, step \in {"asked", "joining"}, step' = step, PartsInv',
           UNCHANGED <<request, parts, joined, origins, answered>>,
           told \subseteq told', \A t \in told' : t \in told \/ t.entry = <<>>,
           \A f, d : Passed(f, d)' <=> Passed(f, d),
           pc' \in {"merge", "failed"} => pc \in {"merge", "failed"} /\ doc =< doc' /\ doc' \in Doc /\ doc \in Doc
    PROVE  EntryInv'
<1>1. \A f, d : /\ Deferring(f, d)' <=> Deferring(f, d)
                /\ TakesRight(f, d)' <=> TakesRight(f, d)
                /\ Forbidden(f, d)' <=> Forbidden(f, d)
  BY DEF Deferring, TakesRight, Forbidden, Asked, Effectual, KindOf, IsPathLike
<1>2. /\ \A f, among, h : Stands(f, among, h)' <=> Stands(f, among, h)
      /\ \A f : PassedIn(f)' = PassedIn(f)
      /\ \A f, d : Before(f, d)' = Before(f, d)
      /\ \A f, d : Collided(f, d)' <=> Collided(f, d)
      /\ Entries' = Entries
  <2>1. \A f, among, h : Stands(f, among, h)' <=> Stands(f, among, h)
    BY <1>1 DEF Stands
  <2>2. \A f : PassedIn(f)' = PassedIn(f)
    BY DEF PassedIn, Doc
  <2>3. \A f, d : Before(f, d)' = Before(f, d)
    BY DEF Before, Holders, Doc
  <2>4. \A f, d : Collided(f, d)' <=> Collided(f, d)
    BY DEF Collided, Doc
  <2>5. Entries' = Entries
    BY DEF Entries, Doc
  <2> QED
    BY <2>1, <2>2, <2>3, <2>4, <2>5
<1>3. JoinedInv'
  BY <1>2 DEF EntryInv, JoinedInv
<1>4. AnswerInv'
  BY <1>1, <1>2 DEF EntryInv, AnswerInv
<1>5. NamedInv'
  <2> SUFFICES ASSUME NEW t \in told', t.entry # <<>>
               PROVE  /\ t.second \in Doc /\ (pc' \in {"merge", "failed"} => t.second =< doc')
                      /\ t.first # Nobody => Stands(t.entry, Before(t.entry, t.second), t.first)'
    BY DEF NamedInv
  <2>1. t \in told
    OBVIOUS
  <2>2. /\ t.second \in Doc /\ (pc \in {"merge", "failed"} => t.second =< doc)
        /\ t.first # Nobody => Stands(t.entry, Before(t.entry, t.second), t.first)
    BY <2>1 DEF EntryInv, NamedInv
  <2>3. Doc \subseteq Nat
    BY DocumentsAssumption DEF Doc
  <2>4. Stands(t.entry, Before(t.entry, t.second), t.first)' <=> Stands(t.entry, Before(t.entry, t.second), t.first)
    BY <1>1 DEF Stands, Before, Holders, Doc
  <2>5. pc' \in {"merge", "failed"} => t.second =< doc'
    <3>1. SUFFICES ASSUME pc' \in {"merge", "failed"} PROVE t.second =< doc'
      OBVIOUS
    <3>2. doc \in Nat /\ doc' \in Nat /\ t.second \in Nat /\ t.second =< doc /\ doc =< doc'
      BY <2>2, <2>3, <3>1
    <3> QED
      BY <3>2
  <2> QED
    BY <2>2, <2>4, <2>5
<1>6. ToldInv'
  <2> SUFFICES ASSUME NEW f \in Entries, NEW d \in Doc, Collided(f, d) PROVE ToldOf(f, d)'
    BY <1>2 DEF ToldInv
  <2> QED
    BY <1>1 DEF EntryInv, ToldInv, ToldOf
<1> QED
  BY <1>3, <1>4, <1>5, <1>6 DEF EntryInv

\* Taking an entry is coming past it in its document, and past nothing else.
LEMMA TakingPasses ==
    ASSUME PartsInv, AnswerInv, NEW e, TakeEntry(e), NEW d, d = doc
    PROVE  /\ pc = "merge" /\ pc' = "merge" /\ doc' = d /\ d \in Doc /\ e \in parts[d] /\ IsEntry(e) /\ e \in Entries
           /\ e \in left /\ left' = left \ {e} /\ UNCHANGED <<vars, request, parts>>
           /\ <<e, d>> \notin DOMAIN answered
           /\ \A f, k : Passed(f, k)' <=> Passed(f, k) \/ (f = e /\ k = d)
           /\ PassedIn(e) = Before(e, d) /\ \A k \in PassedIn(e) : k < d
           /\ PassedIn(e)' = PassedIn(e) \cup {d}
           /\ \A f : f # e => PassedIn(f)' = PassedIn(f)
<1>1. /\ pc = "merge" /\ pc' = "merge" /\ doc' = d /\ d \in Doc /\ e \in parts[d] /\ IsEntry(e) /\ e \in Entries
      /\ e \in left /\ left' = left \ {e} /\ UNCHANGED <<vars, request, parts>>
  BY DEF TakeEntry, Joining, PartsInv, vars, Entries
<1>2. d \in Nat /\ Doc \subseteq Nat
  BY <1>1, DocumentsAssumption DEF Doc
<1>3. ~Passed(e, d)
  BY <1>1, <1>2 DEF Passed
<1>4. <<e, d>> \notin DOMAIN answered
  BY <1>3 DEF AnswerInv
<1>5. \A f, k : Passed(f, k)' <=> Passed(f, k) \/ (f = e /\ k = d)
  <2>1. \A f : Holders(f)' = Holders(f)
    BY <1>1 DEF Holders, Doc
  <2>2. \A f, k : Passed(f, k)' <=> k \in Holders(f) /\ (k < d \/ (k = d /\ f \notin left'))
    BY <1>1, <2>1 DEF Passed
  <2>3. \A f, k : Passed(f, k) <=> k \in Holders(f) /\ (k < d \/ (k = d /\ f \notin left))
    BY <1>1 DEF Passed
  <2>4. d \in Holders(e)
    BY <1>1 DEF Holders
  <2> QED
    BY <1>1, <2>2, <2>3, <2>4
<1>6. PassedIn(e) = Before(e, d) /\ \A k \in PassedIn(e) : k < d
  BY <1>1 DEF PassedIn, Passed, Before, Holders
<1>7. PassedIn(e)' = PassedIn(e) \cup {d} /\ \A f : f # e => PassedIn(f)' = PassedIn(f)
  BY <1>1, <1>5 DEF PassedIn, Doc
<1> QED
  BY <1>1, <1>4, <1>5, <1>6, <1>7

\* An entry is not taken while its name is that of a callback in the other form.
LEMMA OneForm ==
    ASSUME PartsInv, JoinedInv, NEW e, TakeEntry(e), NEW f \in DOMAIN joined, OriginKey(f) = OriginKey(e)
    PROVE  f = e
<1>1. doc \in Doc /\ e \in parts[doc] /\ IsEntry(e)
  BY DEF TakeEntry, Joining, PartsInv
<1>2. IsEntry(f)
  BY DEF JoinedInv, PassedIn, Passed, Holders, PartsInv
<1>3. CASE e[1] # "callbackRefs" /\ f[1] # "callbackRefs"
  BY <1>3 DEF OriginKey
<1>4. CASE e[1] = "callbackRefs" /\ f[1] = "callbackRefs"
  BY <1>1, <1>2, <1>4 DEF OriginKey, IsEntry
<1>5. CASE e[1] = "callbackRefs" /\ f[1] # "callbackRefs"
  <2>1. f = <<"callbacks", e[2]>>
    BY <1>5 DEF OriginKey
  <2>2. ~FormsClash
    BY <1>5 DEF TakeEntry, TypeOf
  <2> QED
    BY <1>1, <1>5, <2>1, <2>2 DEF FormsClash
<1>6. CASE e[1] # "callbackRefs" /\ f[1] = "callbackRefs"
  <2>1. e = <<"callbacks", f[2]>>
    BY <1>6 DEF OriginKey
  <2>2. ~FormsClash
    BY <2>1 DEF TakeEntry, TypeOf
  <2> QED
    BY <1>1, <1>6, <2>1, <2>2 DEF FormsClash
<1> QED
  BY <1>3, <1>4, <1>5, <1>6

\* Whatever is newly told is told of entry e in document d, and of the first.
TellsOnly(e, d, first) ==
    \A t \in told' \ told :
        t.entry = <<>> \/ (t.entry = e /\ t.second = d /\ t.first \in {first, Nobody})

\* What was told of an entry, while another is taken and what was answered stays.
LEMMA NamesHold ==
    ASSUME PartsInv, AnswerInv, NamedInv, NEW e, TakeEntry(e), NEW d, d = doc,
           answered' = answered \/ \E answer : answered' = Put(answered, <<e, d>>, answer),
           NEW first, first # Nobody => Stands(e, PassedIn(e), first),
           TellsOnly(e, d, first)
    PROVE  NamedInv'
<1>1. /\ pc = "merge" /\ doc' = d /\ d \in Doc
      /\ PassedIn(e) = Before(e, d)
      /\ UNCHANGED <<request, parts>>
  BY TakingPasses
<1>2. Doc \subseteq Nat
  BY DocumentsAssumption DEF Doc
<1>3. \A f, k : <<f, k>> # <<e, d>> => (TakesRight(f, k)' <=> TakesRight(f, k))
  BY <1>1, AnswersHold
<1>4. ASSUME NEW f, NEW k, NEW h, k \in Nat, k =< d, Stands(f, Before(f, k), h)
      PROVE  Stands(f, Before(f, k), h)'
  <2>1. Before(f, k)' = Before(f, k)
    BY <1>1 DEF Before, Holders, Doc
  <2>2. \A m \in Before(f, k) : m < d /\ <<f, m>> # <<e, d>>
    BY <1>1, <1>2, <1>4 DEF Before, Holders
  <2>3. \A m \in Before(f, k) : TakesRight(f, m)' <=> TakesRight(f, m)
    BY <1>3, <2>2
  <2> QED
    BY <1>4, <2>1, <2>3 DEF Stands
<1>5. SUFFICES ASSUME NEW t \in told', t.entry # <<>>
               PROVE  /\ t.second \in Doc /\ t.second =< d
                      /\ t.first # Nobody => Stands(t.entry, Before(t.entry, t.second), t.first)'
  BY <1>1 DEF NamedInv
<1>6. CASE t \in told
  <2>1. /\ t.second \in Doc /\ t.second =< d
        /\ t.first # Nobody => Stands(t.entry, Before(t.entry, t.second), t.first)
    BY <1>1, <1>5, <1>6 DEF NamedInv
  <2>2. t.second \in Nat
    BY <1>2, <2>1
  <2> QED
    BY <1>4, <2>1, <2>2
<1>7. CASE t.entry = e /\ t.second = d /\ t.first \in {first, Nobody}
  <2>1. d \in Nat
    BY <1>1, <1>2
  <2>2. t.first # Nobody => Stands(e, Before(e, d), t.first)
    BY <1>1, <1>7
  <2>3. t.first # Nobody => Stands(e, Before(e, d), t.first)'
    BY <1>4, <2>1, <2>2
  <2> QED
    BY <1>1, <1>7, <2>1, <2>3
<1> QED
  BY <1>5, <1>6, <1>7 DEF TellsOnly

\* A collision that is settled keeps all that is known of the entries.
LEMMA EntrySettled ==
    ASSUME EntryInv, step = "joining", step' = "joining",
           NEW e, TakeEntry(e), NEW d, d = doc,
           answered' = answered \/ \E answer : answered' = Put(answered, <<e, d>>, answer),
           \/ /\ joined' = Put(joined, e, joined'[e]) /\ joined'[e].doc = d
              /\ origins' = Put(origins, OriginKey(e), d)
              /\ PassedIn(e) = {} \/ TakesRight(e, d)'
           \/ /\ e \in DOMAIN joined /\ UNCHANGED <<joined, origins>>
              /\ ~TakesRight(e, d)',
           PassedIn(e) # {} => ~Forbidden(e, d)' /\ ToldOf(e, d)',
           NEW first, first # Nobody => Stands(e, PassedIn(e), first), told \subseteq told',
           TellsOnly(e, d, first)
    PROVE  EntryInv'
<1>1. PartsInv /\ JoinedInv /\ AnswerInv /\ NamedInv /\ ToldInv
  BY DEF EntryInv
<1>2. /\ pc = "merge" /\ pc' = "merge" /\ doc' = d /\ d \in Doc /\ e \in parts[d] /\ e \in Entries
      /\ e \in left /\ left' = left \ {e} /\ UNCHANGED <<request, parts>>
      /\ <<e, d>> \notin DOMAIN answered
      /\ \A f, k : Passed(f, k)' <=> Passed(f, k) \/ (f = e /\ k = d)
      /\ PassedIn(e) = Before(e, d) /\ \A k \in PassedIn(e) : k < d
      /\ PassedIn(e)' = PassedIn(e) \cup {d}
      /\ \A f : f # e => PassedIn(f)' = PassedIn(f)
      /\ UNCHANGED vars
  BY <1>1, TakingPasses
<1>3. d \in Nat /\ Doc \subseteq Nat
  BY <1>2, DocumentsAssumption DEF Doc
<1>4. \A f, k : <<f, k>> # <<e, d>> =>
        /\ Deferring(f, k)' <=> Deferring(f, k)
        /\ TakesRight(f, k)' <=> TakesRight(f, k)
        /\ Forbidden(f, k)' <=> Forbidden(f, k)
  BY <1>2, AnswersHold
<1>5. PartsInv'
  <2>1. ~Unjoinable'
    BY <1>1, <1>2 DEF PartsInv, Unjoinable, SameFamily
  <2>2. \A k \in Doc : Prepared(k)' = Prepared(k)
    BY <1>2 DEF Prepared, Brought, OverlaysFor
  <2> QED
    BY <1>1, <1>2, <2>1, <2>2 DEF PartsInv, Entries, Doc
<1>6. \A f \in DOMAIN joined : OriginKey(f) = OriginKey(e) => f = e
  BY <1>1, OneForm
<1>7. JoinedInv'
  <2>1. \A f \in DOMAIN joined' : PassedIn(f)' # {}
    BY <1>1, <1>2 DEF JoinedInv, Put
  <2>2. \A f \in Entries' : PassedIn(f)' # {} => f \in DOMAIN joined'
    BY <1>1, <1>2 DEF JoinedInv, Put, Entries, Doc
  <2>3. ASSUME NEW f \in DOMAIN joined', f # e
        PROVE  /\ f \in DOMAIN joined /\ joined'[f] = joined[f]
               /\ OriginKey(f) \in DOMAIN origins' /\ origins'[OriginKey(f)] = joined[f].doc
               /\ Stands(f, PassedIn(f), joined[f].doc)'
    <3>1. f \in DOMAIN joined /\ joined'[f] = joined[f]
      BY <2>3 DEF Put
    <3>2. OriginKey(f) # OriginKey(e)
      BY <1>6, <2>3, <3>1
    <3>3. /\ OriginKey(f) \in DOMAIN origins /\ origins[OriginKey(f)] = joined[f].doc
          /\ Stands(f, PassedIn(f), joined[f].doc)
      BY <1>1, <3>1 DEF JoinedInv
    <3>4. OriginKey(f) \in DOMAIN origins' /\ origins'[OriginKey(f)] = joined[f].doc
      BY <3>2, <3>3 DEF Put
    <3>5. \A k : TakesRight(f, k)' <=> TakesRight(f, k)
      BY <1>4, <2>3
    <3>6. Stands(f, PassedIn(f), joined[f].doc)'
      BY <1>2, <2>3, <3>1, <3>3, <3>5 DEF Stands
    <3> QED
      BY <3>1, <3>4, <3>6
  <2>4. e \in DOMAIN joined' => /\ OriginKey(e) \in DOMAIN origins'
                                /\ origins'[OriginKey(e)] = joined'[e].doc
                                /\ Stands(e, PassedIn(e), joined[e].doc)'
    <3>1. CASE joined' = Put(joined, e, joined'[e]) /\ joined'[e].doc = d /\ origins' = Put(origins, OriginKey(e), d)
               /\ (PassedIn(e) = {} \/ TakesRight(e, d)')
      <4>1. \A k \in PassedIn(e)' : k \in Nat /\ (k < d \/ k = d)
        BY <1>2, <1>3 DEF PassedIn
      <4>2. \A k \in PassedIn(e)' : ~(k > d)
        BY <1>3, <4>1
      <4>3. (\A k \in PassedIn(e)' : d =< k) \/ TakesRight(e, d)'
        BY <1>2, <1>3, <3>1
      <4>4. Stands(e, PassedIn(e), joined[e].doc)'
        BY <1>2, <3>1, <4>2, <4>3 DEF Stands
      <4> QED
        BY <3>1, <4>4 DEF Put
    <3>2. CASE e \in DOMAIN joined /\ UNCHANGED <<joined, origins>> /\ ~TakesRight(e, d)'
      <4>1. /\ OriginKey(e) \in DOMAIN origins /\ origins[OriginKey(e)] = joined[e].doc
            /\ Stands(e, PassedIn(e), joined[e].doc)
        BY <1>1, <3>2 DEF JoinedInv
      <4>2. \A k \in PassedIn(e) : (TakesRight(e, k)' <=> TakesRight(e, k)) /\ k \in Nat
        <5> TAKE k \in PassedIn(e)
        <5>1. k < d /\ k \in Nat
          BY <1>2, <1>3 DEF PassedIn
        <5> QED
          BY <1>3, <1>4, <5>1
      <4>3. Stands(e, PassedIn(e), joined[e].doc)'
        BY <1>2, <1>3, <3>2, <4>1, <4>2 DEF Stands
      <4> QED
        BY <3>2, <4>1, <4>3
    <3> QED
      BY <3>1, <3>2
  <2>5. \A f, g \in DOMAIN joined' : OriginKey(f) = OriginKey(g) => f = g
    BY <1>1, <1>6 DEF JoinedInv, Put
  <2> QED
    BY <2>1, <2>2, <2>3, <2>4, <2>5 DEF JoinedInv
<1>8. ASSUME NEW f, NEW k, Collided(f, k)', f \in Entries', k \in Doc
      PROVE  ~Forbidden(f, k)' /\ ToldOf(f, k)'
  <2>1. CASE f = e /\ k = d
    <3>1. PassedIn(e) # {}
      BY <1>2, <1>3, <1>8, <2>1 DEF Collided, PassedIn, Doc
    <3> QED
      BY <2>1, <3>1
  <2>2. CASE ~(f = e /\ k = d)
    <3>1. <<f, k>> # <<e, d>>
      BY <2>2
    <3>2. Passed(f, k) /\ k \in Nat
      BY <1>2, <1>3, <1>8, <2>2 DEF Collided
    <3>3. PICK m \in Doc : Passed(f, m)' /\ m < k
      BY <1>8 DEF Collided, Doc
    <3>4. Passed(f, m)
      <4>1. CASE f = e /\ m = d
        <5>1. k \in PassedIn(e)
          BY <1>8, <3>2, <4>1 DEF PassedIn
        <5>2. k < d /\ d < k
          BY <1>2, <3>3, <4>1, <5>1
        <5> QED
          BY <1>3, <3>2, <5>2
      <4> QED
        BY <1>2, <3>3, <4>1
    <3>5. Collided(f, k) /\ f \in Entries
      BY <1>2, <1>8, <3>2, <3>3, <3>4 DEF Collided, Entries, Doc
    <3>6. ~Forbidden(f, k) /\ ToldOf(f, k)
      BY <1>1, <1>8, <3>5 DEF AnswerInv, ToldInv
    <3> QED
      BY <1>2, <1>4, <3>1, <3>6 DEF ToldOf, IsPathLike
  <2> QED
    BY <2>1, <2>2
<1>9. AnswerInv'
  <2>1. ASSUME NEW x \in DOMAIN answered' PROVE x = <<x[1], x[2]>> /\ Passed(x[1], x[2])'
    <3>1. x \in DOMAIN answered \/ x = <<e, d>>
      BY <2>1 DEF Put
    <3> QED
      BY <1>1, <1>2, <3>1 DEF AnswerInv
  <2> QED
    BY <1>8, <2>1 DEF AnswerInv, Doc
<1>10. ToldInv'
  BY <1>8 DEF ToldInv, Doc
<1>11. NamedInv'
  BY <1>1, NamesHold
<1> QED
  BY <1>5, <1>7, <1>9, <1>10, <1>11 DEF EntryInv

\* A collision that is not allowed explains the refusal.
LEMMA EntryRefused ==
    ASSUME EntryInv, step = "joining", step' = "refused",
           NEW e \in DOMAIN joined, TakeEntry(e), NEW d, d = doc, UNCHANGED joined,
           answered' = answered \/ \E answer : answered' = Put(answered, <<e, d>>, answer),
           Forbidden(e, d)',
           NEW first, first # Nobody => Stands(e, PassedIn(e), first),
           TellsOnly(e, d, first)
    PROVE  EntryInv'
<1>1. PartsInv /\ JoinedInv /\ AnswerInv /\ NamedInv
  BY DEF EntryInv
<1>2. /\ doc' = d /\ d \in Doc /\ e \in parts[d]
      /\ left' = left \ {e} /\ UNCHANGED <<request, parts>>
      /\ PassedIn(e) = Before(e, d)
  BY <1>1, TakingPasses
<1>3. Before(e, d) # {}
  BY <1>1, <1>2 DEF JoinedInv
<1>4. <<e, d>> \in Met'
  <2>1. \E k \in Holders(e)' : k < d
    BY <1>2, <1>3 DEF Before, Holders, Doc
  <2>2. d \in Holders(e)' /\ d \in Doc'
    BY <1>2 DEF Holders, Doc
  <2> QED
    BY <1>2, <2>1, <2>2 DEF Met
<1>5. RefusedInv'
  BY <1>4 DEF RefusedInv
<1>6. NamedInv'
  BY <1>1, NamesHold
<1> QED
  BY <1>5, <1>6 DEF EntryInv

\* The origin that is looked up for a collision is where the value is from.
LEMMA OriginStands ==
    ASSUME JoinedInv, NEW e \in DOMAIN joined
    PROVE  /\ OriginOf(e) = joined[e].doc /\ OriginOf(e) # Nobody
           /\ PassedIn(e) # {} /\ Stands(e, PassedIn(e), OriginOf(e))
<1>1. OriginOf(e) = joined[e].doc /\ PassedIn(e) # {} /\ Stands(e, PassedIn(e), OriginOf(e))
  BY DEF JoinedInv, OriginOf
<1>2. OriginOf(e) \in Doc
  BY <1>1 DEF Stands, PassedIn
<1>3. OriginOf(e) # 0
  BY <1>2, DocumentsAssumption DEF Doc
<1> QED
  BY <1>1, <1>3 DEF Nobody

\* An entry under a new name.
LEMMA InsertEntryStep ==
    ASSUME EntryInv, step = "joining", NEW e, InsertEntry(e)
    PROVE  EntryInv'
<1> DEFINE d == doc
<1>1. TakeEntry(e) /\ step' = "joining" /\ answered' = answered /\ told' = told
  BY DEF InsertEntry
<1>2. PartsInv /\ JoinedInv /\ AnswerInv
  BY DEF EntryInv
<1>3. PassedIn(e) = {}
  <2>1. e \in Entries
    BY <1>1, <1>2, TakingPasses
  <2> QED
    BY <1>2, <2>1 DEF JoinedInv, InsertEntry
<1>4. joined' = Put(joined, e, joined'[e]) /\ joined'[e].doc = d /\ origins' = Put(origins, OriginKey(e), d)
  BY DEF InsertEntry, StoreEntry, Put
<1> HIDE DEF d
<1>5. d = doc
  BY DEF d
<1> QED
  BY <1>1, <1>3, <1>4, <1>5, EntrySettled DEF TellsOnly

\* A collision that the strategy settles.
LEMMA ByStrategyStep ==
    ASSUME EntryInv, step = "joining", NEW e \in DOMAIN joined, TakeEntry(e), NEW d, d = doc,
           answered' = answered \/ \E answer : answered' = Put(answered, <<e, d>>, answer),
           Deferring(e, d)', ByStrategyOf(e)
    PROVE  EntryInv'
<1> DEFINE first  == OriginOf(e)
           wanted == Effectual(KindOf(e))
<1>1. /\ first # Nobody /\ PassedIn(e) # {} /\ Stands(e, PassedIn(e), first)
  BY OriginStands DEF EntryInv
<1>2. UNCHANGED request
  BY DEF TakeEntry
<1>3. Asked(e, d)' = wanted
  BY <1>2 DEF Asked, Effectual, KindOf, IsPathLike
<1> HIDE DEF first, wanted
<1>4. /\ TakesRight(e, d)' <=> wanted = "accept-right"
      /\ Forbidden(e, d)' <=> ( wanted # "accept-left" /\ wanted # "accept-right"
                               /\ (wanted = "fail-on-paths" => IsPathLike(e)) )
  BY <1>3 DEF TakesRight, Forbidden, IsPathLike
<1>5. ASSUME NEW outcome, told' = told \cup StrategyNotes(e, outcome, first)
      PROVE  /\ told \subseteq told'
             /\ TellsOnly(e, d, first)
             /\ ToldOf(e, d)'
  <2>1. \A t \in StrategyNotes(e, outcome, first) : t.entry = e /\ t.second = d /\ t.first = first
    BY DEF StrategyNotes, Note
  <2>2. IsPathLike(e) => \E t \in told' : t.kind = "warning" /\ t.entry = e /\ t.second = d /\ t.first # Nobody
    <3> SUFFICES ASSUME IsPathLike(e)
                 PROVE  \E t \in told' : t.kind = "warning" /\ t.entry = e /\ t.second = d /\ t.first # Nobody
      OBVIOUS
    <3> DEFINE t == Note("warning", outcome, e, first, doc)
    <3>1. t \in told'
      BY <1>5 DEF StrategyNotes
    <3>2. t.kind = "warning" /\ t.entry = e /\ t.second = d /\ t.first # Nobody
      BY <1>1 DEF Note
    <3> QED
      BY <3>1, <3>2
  <2> QED
    BY <1>5, <2>1, <2>2 DEF ToldOf, IsPathLike, TellsOnly
<1>6. CASE (wanted = "accept-left" \/ (wanted = "fail-on-paths" /\ ~IsPathLike(e)))
           /\ told' = told \cup StrategyNotes(e, "kept", first) /\ UNCHANGED <<step, joined, origins>>
  <2>1. told \subseteq told' /\ TellsOnly(e, d, first) /\ ToldOf(e, d)'
    BY <1>5, <1>6
  <2>2. ~TakesRight(e, d)' /\ ~Forbidden(e, d)' /\ step' = "joining"
    BY <1>4, <1>6
  <2> QED
    BY <1>1, <1>6, <2>1, <2>2, EntrySettled
<1>7. CASE wanted = "accept-right" /\ StoreEntry(e, FALSE)
           /\ told' = told \cup StrategyNotes(e, "overwritten", first) /\ UNCHANGED step
  <2>1. joined' = Put(joined, e, joined'[e]) /\ joined'[e].doc = d /\ origins' = Put(origins, OriginKey(e), d)
    BY <1>7 DEF StoreEntry, Put
  <2>2. told \subseteq told' /\ TellsOnly(e, d, first) /\ ToldOf(e, d)'
    BY <1>5, <1>7
  <2>3. TakesRight(e, d)' /\ ~Forbidden(e, d)' /\ step' = "joining"
    BY <1>4, <1>7
  <2> QED
    BY <1>1, <2>1, <2>2, <2>3, EntrySettled
<1>8. CASE (wanted = "fail" \/ (wanted = "fail-on-paths" /\ IsPathLike(e)))
           /\ step' = "refused" /\ told' = told \cup {Note("error", "collision", e, first, doc)} /\ UNCHANGED joined
  <2>1. TellsOnly(e, d, first)
    BY <1>8 DEF Note, TellsOnly
  <2> QED
    BY <1>1, <1>4, <1>8, <2>1, EntryRefused
<1>9. CASE wanted \notin {"accept-left", "accept-right", "fail", "fail-on-paths"}
           /\ step' = "refused" /\ UNCHANGED <<joined, told>>
  BY <1>1, <1>4, <1>9, EntryRefused DEF TellsOnly
<1> QED
  BY <1>6, <1>7, <1>8, <1>9 DEF ByStrategyOf, first, wanted

\* What a settled answer tells.
LEMMA AnswersAreTold ==
    ASSUME NEW e, NEW answer \in {"accept-left", "accept-right", "deduplicate", "custom"}, NEW first
    PROVE  /\ \A t \in AnswerNotes(e, answer, first) : t.entry = e /\ t.second = doc /\ t.first \in {first, Nobody}
           /\ request.report => \E t \in AnswerNotes(e, answer, first) :
                t.kind = "event" /\ t.entry = e /\ t.second = doc
<1>1. \E outcome : ResolutionNotes(e, answer, first) = Event(outcome, e, first)
  BY DEF ResolutionNotes
<1>2. PICK outcome : ResolutionNotes(e, answer, first) = Event(outcome, e, first)
  BY <1>1
<1>3. \A t \in Event(outcome, e, first) : t.entry = e /\ t.second = doc /\ t.first \in {first, Nobody}
  BY DEF Event, Note
<1>4. request.report => \E t \in Event(outcome, e, first) : t.kind = "event" /\ t.entry = e /\ t.second = doc
  BY DEF Event, Note
<1>5. ResolutionNotes(e, answer, first) \subseteq AnswerNotes(e, answer, first)
  BY DEF AnswerNotes
<1>6. \A t \in AnswerNotes(e, answer, first) :
        t \in ResolutionNotes(e, answer, first) \/ \E o, f : f \in {first, Nobody} /\ t = Note("warning", o, e, f, doc)
  BY DEF AnswerNotes
<1>7. \A o, f : LET t == Note("warning", o, e, f, doc) IN t.entry = e /\ t.second = doc /\ t.first = f
  BY DEF Note
<1> QED
  BY <1>2, <1>3, <1>4, <1>5, <1>6, <1>7

\* A collision that the handler settles.
LEMMA ByAnswerStep ==
    ASSUME EntryInv, step = "joining", NEW e \in DOMAIN joined, TakeEntry(e), NEW d, d = doc,
           NEW answer, answer # "continue", answered' = Put(answered, <<e, d>>, answer),
           ByAnswer(e, answer)
    PROVE  EntryInv'
<1> DEFINE first == OriginOf(e)
<1>1. first # Nobody /\ PassedIn(e) # {} /\ Stands(e, PassedIn(e), first)
  BY OriginStands DEF EntryInv
<1> HIDE DEF first
<1>2. answered'[<<e, d>>] = answer /\ <<e, d>> \in DOMAIN answered'
  BY DEF Put
<1>3. ~Deferring(e, d)' /\ Asked(e, d)' = answer
  BY <1>2 DEF Deferring, Asked
<1>4. /\ TakesRight(e, d)' <=> answer \in {"accept-right", "custom"}
      /\ Forbidden(e, d)' <=> (answer \in {"fail", "rename"} \/ (answer = "custom" /\ e[1] # "paths"))
  BY <1>3 DEF TakesRight, Forbidden
<1>5. answered' = answered \/ \E a : answered' = Put(answered, <<e, d>>, a)
  OBVIOUS
<1>6. ASSUME answer \in {"accept-left", "accept-right", "deduplicate", "custom"},
             told' = told \cup AnswerNotes(e, answer, first)
      PROVE  told \subseteq told' /\ TellsOnly(e, d, first) /\ ToldOf(e, d)'
  <2>1. request' = request
    BY DEF TakeEntry
  <2>2. TellsOnly(e, d, first)
    BY <1>6, AnswersAreTold DEF TellsOnly
  <2>3. request.report => \E t \in told' : t.kind = "event" /\ t.entry = e /\ t.second = d
    BY <1>6, AnswersAreTold
  <2> QED
    BY <1>3, <1>6, <2>1, <2>2, <2>3 DEF ToldOf
<1>7. CASE answer \in {"accept-left", "deduplicate"}
           /\ told' = told \cup AnswerNotes(e, answer, first) /\ UNCHANGED <<step, joined, origins>>
  <2>1. told \subseteq told' /\ TellsOnly(e, d, first) /\ ToldOf(e, d)'
    BY <1>6, <1>7
  <2>2. ~TakesRight(e, d)' /\ ~Forbidden(e, d)' /\ step' = "joining"
    BY <1>4, <1>7
  <2> QED
    BY <1>1, <1>5, <1>7, <2>1, <2>2, EntrySettled
<1>8. CASE (answer = "accept-right" \/ (answer = "custom" /\ e[1] = "paths"))
           /\ StoreEntry(e, answer = "custom")
           /\ told' = told \cup AnswerNotes(e, answer, first) /\ UNCHANGED step
  <2>1. joined' = Put(joined, e, joined'[e]) /\ joined'[e].doc = d /\ origins' = Put(origins, OriginKey(e), d)
    BY <1>8 DEF StoreEntry, Put
  <2>2. told \subseteq told' /\ TellsOnly(e, d, first) /\ ToldOf(e, d)'
    BY <1>6, <1>8
  <2>3. TakesRight(e, d)' /\ ~Forbidden(e, d)' /\ step' = "joining"
    BY <1>4, <1>8
  <2> QED
    BY <1>1, <1>5, <2>1, <2>2, <2>3, EntrySettled
<1>9. CASE (answer \in {"fail", "rename"} \/ (answer = "custom" /\ e[1] # "paths"))
           /\ step' = "refused" /\ UNCHANGED <<joined, told>>
  <2>1. Forbidden(e, d)' /\ TellsOnly(e, d, first)
    BY <1>4, <1>9 DEF TellsOnly
  <2> QED
    BY <1>1, <1>5, <1>9, <2>1, EntryRefused
<1> QED
  BY <1>7, <1>8, <1>9 DEF ByAnswer, first

\* Merging an entry.
LEMMA EntryStep ==
    ASSUME EntryInv, step = "joining", NEW e \in left, InsertEntry(e) \/ Unheard(e) \/ Answered(e)
    PROVE  EntryInv'
<1>1. CASE InsertEntry(e)
  BY <1>1, InsertEntryStep
<1>2. PICK d : d = doc
  OBVIOUS
<1>3. CASE Unheard(e)
  <2>1. TakeEntry(e) /\ e \in DOMAIN joined /\ ByStrategyOf(e) /\ answered' = answered
    BY <1>3 DEF Unheard
  <2>2. <<e, d>> \notin DOMAIN answered
    BY <1>2, <2>1, TakingPasses DEF EntryInv
  <2>3. Deferring(e, d)'
    BY <2>1, <2>2 DEF Deferring
  <2> QED
    BY <1>2, <2>1, <2>3, ByStrategyStep
<1>4. CASE Answered(e)
  <2>1. TakeEntry(e) /\ e \in DOMAIN joined
    BY <1>4 DEF Answered
  <2>2. PICK answer \in request.answers :
          /\ IF answer = "continue" THEN ByStrategyOf(e) ELSE ByAnswer(e, answer)
          /\ answered' = Put(answered, <<e, d>>, answer)
    BY <1>2, <1>4 DEF Answered
  <2>3. CASE answer = "continue"
    <3>1. Deferring(e, d)'
      BY <2>2, <2>3 DEF Deferring, Put
    <3>2. ByStrategyOf(e) /\ \E a : answered' = Put(answered, <<e, d>>, a)
      BY <2>2, <2>3
    <3> QED
      BY <1>2, <2>1, <3>1, <3>2, ByStrategyStep
  <2>4. CASE answer # "continue"
    BY <1>2, <2>1, <2>2, <2>4, ByAnswerStep
  <2> QED
    BY <2>3, <2>4
<1> QED
  BY <1>1, <1>3, <1>4

\* What was told stays true while nothing more is told, asked or answered.
LEMMA ToldStays ==
    ASSUME UNCHANGED <<request, parts, answered, told, pc, doc>>
    PROVE  /\ NamedInv => NamedInv'
           /\ \A f, d : Forbidden(f, d)' <=> Forbidden(f, d)
           /\ \A f, among, h : Stands(f, among, h)' <=> Stands(f, among, h)
           /\ \A f, d : ToldOf(f, d)' <=> ToldOf(f, d)
<1>1. \A f, d : /\ Deferring(f, d)' <=> Deferring(f, d)
                /\ TakesRight(f, d)' <=> TakesRight(f, d)
                /\ Forbidden(f, d)' <=> Forbidden(f, d)
  BY DEF Deferring, TakesRight, Forbidden, Asked, Effectual, KindOf, IsPathLike
<1>2. \A f, among, h : Stands(f, among, h)' <=> Stands(f, among, h)
  BY <1>1 DEF Stands
<1>3. NamedInv => NamedInv'
  <2> SUFFICES ASSUME NamedInv, NEW t \in told, t.entry # <<>>
               PROVE  /\ t.second \in Doc /\ (pc \in {"merge", "failed"} => t.second =< doc)
                      /\ t.first # Nobody => Stands(t.entry, Before(t.entry, t.second), t.first)'
    BY DEF NamedInv
  <2>1. Stands(t.entry, Before(t.entry, t.second), t.first)' <=> Stands(t.entry, Before(t.entry, t.second), t.first)
    BY <1>1 DEF Stands, Before, Holders, Doc
  <2> QED
    BY <2>1 DEF NamedInv
<1>4. \A f, d : ToldOf(f, d)' <=> ToldOf(f, d)
  BY <1>1 DEF ToldOf, IsPathLike
<1> QED
  BY <1>1, <1>2, <1>3, <1>4

\* The call is taken up, or refused at once.
LEMMA StartStep ==
    ASSUME EntryInv, Start \/ Refused
    PROVE  EntryInv'
<1>1. CASE Refused
  <2>1. /\ step = "asked" /\ Unjoinable /\ step' = "refused"
        /\ UNCHANGED <<vars, request, parts, left, joined, told, answered>>
    BY <1>1 DEF Refused
  <2>2. Unjoinable'
    BY <2>1 DEF Unjoinable, SameFamily, Doc
  <2>3. NamedInv'
    BY <2>1, ToldStays DEF vars, EntryInv
  <2> QED
    BY <2>1, <2>2, <2>3 DEF EntryInv, RefusedInv
<1>2. CASE Start
  <2>1. /\ step = "asked" /\ ~Unjoinable /\ step' = "joining"
        /\ parts' = [d \in Doc |-> Prepared(d)] /\ left' = Prepared(1) /\ told' = EarlyNotes
        /\ UNCHANGED <<vars, request, joined, origins, answered>>
        /\ pc' = "merge" /\ doc' = 1
        /\ \A d \in Doc : \A e \in Prepared(d) : IsEntry(e)
        /\ Entries = {} /\ PartsInv /\ JoinedInv /\ AnswerInv
    BY <1>2 DEF Start, EntryInv, PartsInv, vars
  <2>2. 1 \in Doc /\ Doc \subseteq Nat \ {0}
    BY DocumentsAssumption DEF Doc
  <2>3. \A d \in Doc : Prepared(d)' = Prepared(d)
    BY <2>1 DEF Prepared, Brought, OverlaysFor
  <2>4. ~Unjoinable'
    BY <2>1 DEF Unjoinable, SameFamily, Doc
  <2>5. PartsInv'
    BY <2>1, <2>2, <2>3, <2>4 DEF PartsInv, Doc
  <2>6. \A e, d : ~Passed(e, d)
    BY <2>1 DEF Passed, Holders, Entries
  <2>7. \A e, d : ~Passed(e, d)'
    <3> SUFFICES ASSUME NEW e, NEW d, Passed(e, d)' PROVE FALSE
      OBVIOUS
    <3>1. d \in Doc /\ e \in Prepared(d) /\ (d < 1 \/ (d = 1 /\ e \notin Prepared(1)))
      BY <2>1 DEF Passed, Holders, Doc
    <3> QED
      BY <2>2, <3>1
  <2>8. joined = <<>> \/ DOMAIN joined = {}
    BY <2>1, <2>6 DEF JoinedInv, PassedIn
  <2>9. JoinedInv'
    BY <2>1, <2>6, <2>7 DEF JoinedInv, PassedIn
  <2>10. AnswerInv' /\ ToldInv'
    BY <2>1, <2>6, <2>7 DEF AnswerInv, ToldInv, Collided
  <2>11. NamedInv'
    <3>1. \A kind, outcome, first, second : Note(kind, outcome, <<>>, first, second).entry = <<>>
      BY DEF Note
    <3>2. \A t \in EarlyNotes : t.entry = <<>>
      BY <3>1 DEF EarlyNotes
    <3> QED
      BY <2>1, <3>2 DEF NamedInv
  <2> QED
    BY <2>1, <2>5, <2>9, <2>10, <2>11 DEF EntryInv
<1> QED
  BY <1>1, <1>2

\* A step of the schemas leaves the joiner in its document.
LEMMA SchemaStaysInMerge ==
    ASSUME JoinSchema
    PROVE  UNCHANGED others /\ pc = "merge" /\ pc' \in {"merge", "failed"} /\ doc' = doc
<1>1. PICK n \in todo : Insert(n) \/ Collide(n)
  BY DEF JoinSchema
<1>2. CASE Insert(n)
  BY <1>2 DEF Insert, JoinSchema, Taking
<1>3. CASE Collide(n)
  <2>1. KeepLeft(n) \/ Refuse(n) => pc = "merge" /\ pc' \in {"merge", "failed"} /\ doc' = doc
    BY DEF KeepLeft, Refuse, Taking
  <2>2. \A o, r : Replace(n, o, r) => pc = "merge" /\ pc' = "merge" /\ doc' = doc
    BY DEF Replace, Taking
  <2>3. \A c : RenameRight(n, c) => pc = "merge" /\ pc' = "merge" /\ doc' = doc
    BY DEF RenameRight, Taking
  <2>4. RenameLeft(n) \/ RenameAndDefer(n) => pc = "merge" /\ pc' = "merge" /\ doc' = doc
    BY DEF RenameLeft, RenameAndDefer, Taking
  <2>5. ByStrategy(n) \/ ByHandler(n)
    BY <1>3 DEF Collide
  <2>6. pc = "merge" /\ pc' \in {"merge", "failed"} /\ doc' = doc
    BY <2>1, <2>2, <2>3, <2>4, <2>5 DEF ByStrategy, ByHandler, KeepRight, KeepCustom
  <2> QED
    BY <2>6 DEF JoinSchema
<1> QED
  BY <1>1, <1>2, <1>3

\* The schemas, the end of a document and what follows the merge touch no entry.
LEMMA SchemaStepKeepsEntries ==
    ASSUME EntryInv, JoinSchema \/ EndDocument \/ FinishSchemas
    PROVE  EntryInv'
<1>1. step = "joining" /\ PartsInv
  BY DEF JoinSchema, EndDocument, FinishSchemas, EntryInv
<1>2. N \in Nat /\ Doc \subseteq Nat
  BY DocumentsAssumption DEF Doc
<1>3. /\ ~Unjoinable /\ UNCHANGED request => ~Unjoinable'
      /\ UNCHANGED request => \A d \in Doc : Prepared(d)' = Prepared(d)
  BY DEF Unjoinable, SameFamily, Doc, Prepared, Brought, OverlaysFor
<1>4. CASE JoinSchema
  <2>1. UNCHANGED others /\ pc = "merge" /\ pc' \in {"merge", "failed"} /\ doc' = doc
    BY <1>4, SchemaStaysInMerge
  <2>2. \A f, d : Passed(f, d)' <=> Passed(f, d)
    BY <2>1 DEF Passed, Holders, others, Doc
  <2>3. doc \in Doc /\ doc \in Nat
    BY <1>1, <1>2, <2>1 DEF PartsInv
  <2>4. PartsInv'
    BY <1>1, <1>3, <2>1 DEF PartsInv, others, Doc
  <2> QED
    BY <1>1, <2>1, <2>2, <2>3, <2>4, EntriesKept DEF others, Doc
<1>5. CASE EndDocument
  <2>1. /\ pc = "merge" /\ left = {} /\ UNCHANGED <<request, step, parts, joined, origins, answered>>
        /\ told \subseteq told' /\ \A t \in told' : t \in told \/ t.entry = <<>>
    <3>1. \A d : HostNotes(d) = {} \/ HostNotes(d) = {Note("warning", "host ignored", <<>>, 1, d)}
      BY Zenon DEF HostNotes
    <3>2. \A d : Note("warning", "host ignored", <<>>, 1, d).entry = <<>>
      BY DEF Note
    <3>3. \A t \in HostNotes(doc) : t.entry = <<>>
      BY <3>1, <3>2
    <3> QED
      BY <1>5, <3>3 DEF EndDocument
  <2>2. doc \in Doc /\ doc \in Nat
    BY <1>1, <1>2, <2>1 DEF PartsInv
  <2>3. \A f, d : Passed(f, d) <=> d \in Holders(f) /\ (d < doc \/ d = doc)
    BY <2>1 DEF Passed
  <2>4. \A f : Holders(f)' = Holders(f) /\ Holders(f) \subseteq Doc
    BY <2>1 DEF Holders, Doc
  <2>5. CASE NextDocument /\ left' = parts[doc + 1]
    <3>1. doc < N /\ doc' = doc + 1 /\ pc' = "merge"
      BY <2>1, <2>5 DEF NextDocument
    <3>2. doc' \in Doc /\ doc =< doc'
      BY <1>2, <2>2, <3>1 DEF Doc
    <3>3. ASSUME NEW f, NEW d PROVE Passed(f, d)' <=> Passed(f, d)
      <4>1. Passed(f, d)' <=> d \in Holders(f) /\ (d < doc + 1 \/ (d = doc + 1 /\ f \notin parts[doc + 1]))
        BY <2>4, <2>5, <3>1 DEF Passed
      <4>2. d \in Holders(f) => d \in Nat /\ f \in parts[d]
        BY <1>2 DEF Holders
      <4> QED
        BY <2>2, <2>3, <4>1, <4>2
    <3>4. PartsInv'
      BY <1>1, <1>3, <2>1, <2>5, <3>1, <3>2 DEF PartsInv, Doc
    <3> QED
      BY <1>1, <2>1, <2>2, <3>1, <3>2, <3>3, <3>4, EntriesKept DEF Doc
  <2>6. CASE EndMerge /\ left' = {}
    <3>1. doc = N /\ pc' \in {"dedupe", "collapse"}
      BY <2>6 DEF EndMerge
    <3>2. ASSUME NEW f, NEW d PROVE Passed(f, d)' <=> Passed(f, d)
      <4>1. Passed(f, d)' <=> d \in Holders(f)
        BY <2>4, <3>1 DEF Passed
      <4>2. d \in Holders(f) => d \in Nat /\ d =< N
        BY <1>2 DEF Holders, Doc
      <4> QED
        BY <1>2, <2>2, <2>3, <3>1, <4>1, <4>2
    <3>3. PartsInv'
      BY <1>1, <1>3, <2>1, <3>1 DEF PartsInv, Doc
    <3> QED
      BY <1>1, <2>1, <3>1, <3>2, <3>3, EntriesKept
  <2> QED
    BY <1>5, <2>5, <2>6 DEF EndDocument
<1>6. CASE FinishSchemas
  <2>1. UNCHANGED others /\ pc \notin {"merge", "failed"} /\ pc' \notin {"merge", "failed"}
    BY <1>6 DEF FinishSchemas, Drop, EndCollapse, RewriteDocument, RewriteUnowned, Deduplicate
  <2>2. \A f, d : Passed(f, d)' <=> Passed(f, d)
    BY <2>1 DEF Passed, Holders, others, Doc
  <2>3. PartsInv'
    BY <1>1, <1>3, <2>1 DEF PartsInv, others, Doc
  <2> QED
    BY <1>1, <2>1, <2>2, <2>3, EntriesKept DEF others
<1> QED
  BY <1>4, <1>5, <1>6

\* A name of two callbacks in two forms mixes them.
LEMMA ClashMixes ==
    ASSUME PartsInv, JoinedInv, pc = "merge", FormsClash
    PROVE  FormsMix
<1>1. doc \in Doc /\ \A d \in Doc : \A e \in parts[d] : IsEntry(e)
  BY DEF PartsInv
<1>2. \A e \in DOMAIN joined : \E d \in Doc : e \in parts[d]
  BY DEF JoinedInv, PassedIn, Passed, Holders
<1>3. ASSUME NEW e, NEW d \in Doc, e \in parts[d], NEW f, NEW k \in Doc, f \in parts[k],
             e[1] = "callbacks", f[1] = "callbackRefs", e[2] = f[2]
      PROVE  FormsMix
  <2>1. e = <<"callbacks", e[2]>> /\ f = <<"callbackRefs", e[2]>>
    BY <1>1, <1>3 DEF IsEntry
  <2>2. e[2] \in {g[2] : g \in UNION {parts[m] : m \in Doc}}
    BY <1>3
  <2> QED
    BY <1>3, <2>1, <2>2 DEF FormsMix
<1>4. CASE \E f \in parts[doc], e \in parts[doc] \cup DOMAIN joined :
             f[1] = "callbackRefs" /\ e[1] = "callbacks" /\ f[2] = e[2]
  BY <1>1, <1>2, <1>3, <1>4
<1>5. CASE \E f \in DOMAIN joined, e \in parts[doc] :
             f[1] = "callbackRefs" /\ e[1] = "callbacks" /\ f[2] = e[2]
  BY <1>1, <1>2, <1>3, <1>5
<1> QED
  BY <1>4, <1>5 DEF FormsClash

\* The call is refused for a callback in two forms, or for its schemas.
LEMMA RefusalStep ==
    ASSUME EntryInv, RefuseForms \/ SchemasRefuse
    PROVE  EntryInv'
<1>1. /\ step = "joining" /\ step' = "refused" /\ UNCHANGED <<vars, request, parts, left, joined, told, answered>>
      /\ (FormsClash /\ pc = "merge") \/ pc = "failed"
  BY DEF RefuseForms, Joining, SchemasRefuse
<1>2. FormsMix \/ pc = "failed"
  BY <1>1, ClashMixes DEF EntryInv
<1>3. FormsMix' \/ pc' = "failed"
  BY <1>1, <1>2 DEF FormsMix, vars, Doc
<1>4. NamedInv'
  BY <1>1, ToldStays DEF vars, EntryInv
<1> QED
  BY <1>1, <1>3, <1>4 DEF EntryInv, RefusedInv

\* The document is delivered.
LEMMA DeliverStep ==
    ASSUME EntryInv, Deliver
    PROVE  EntryInv'
<1>1. /\ step = "joining" /\ pc = "done" /\ step' = "delivered"
      /\ UNCHANGED <<vars, request, parts, left, origins, told, answered>>
      /\ PartsInv /\ JoinedInv /\ AnswerInv /\ NamedInv /\ ToldInv
      /\ ~Unjoinable /\ \A d \in Doc : parts[d] = Prepared(d)
  BY DEF Deliver, EntryInv, PartsInv
<1>2. /\ NamedInv' /\ \A f, d : Forbidden(f, d)' <=> Forbidden(f, d)
      /\ \A f, among, h : Stands(f, among, h)' <=> Stands(f, among, h)
      /\ \A f, d : ToldOf(f, d)' <=> ToldOf(f, d)
  BY <1>1, ToldStays DEF vars
<1>3. /\ \A f : PassedIn(f) = Holders(f) /\ Holders(f)' = Holders(f)
      /\ \A f, d : Collided(f, d)' <=> Collided(f, d)
      /\ Entries' = Entries
  BY <1>1 DEF PassedIn, Passed, Holders, Collided, Entries, Doc, vars
<1>4. \A f \in Entries : Holders(f) # {} /\ f \in DOMAIN joined
  BY <1>1, <1>3 DEF Entries, Holders, JoinedInv
<1>5. ~FormsMix
  <2> SUFFICES ASSUME NEW name, NEW d \in Doc, NEW k \in Doc,
                      <<"callbacks", name>> \in parts[d], <<"callbackRefs", name>> \in parts[k]
               PROVE  FALSE
    BY DEF FormsMix
  <2> DEFINE e == <<"callbacks", name>>
             f == <<"callbackRefs", name>>
  <2>1. e \in DOMAIN joined /\ f \in DOMAIN joined
    BY <1>4 DEF Entries
  <2>2. OriginKey(e) = OriginKey(f) /\ e # f
    BY DEF OriginKey
  <2> QED
    BY <1>1, <2>1, <2>2 DEF JoinedInv
<1>6. ~Unjoinable' /\ ~FormsMix' /\ pc' = "done" /\ \A d \in Doc : parts'[d] = Prepared(d)'
  <2>1. ~Unjoinable'
    BY <1>1 DEF Unjoinable, SameFamily, Doc
  <2>2. ~FormsMix'
    BY <1>1, <1>5 DEF FormsMix, Doc
  <2>3. \A d \in Doc : parts'[d] = Prepared(d)'
    BY <1>1 DEF Prepared, Brought, OverlaysFor
  <2> QED
    BY <1>1, <2>1, <2>2, <2>3 DEF vars
<1>7. /\ \A e \in Entries \ (request.postOverlay.removes \cup request.postOverlay.adds) :
           e \in DOMAIN joined' /\ joined'[e] = joined[e]
      /\ DOMAIN joined' \subseteq DOMAIN joined \cup request.postOverlay.adds
  BY <1>4 DEF Deliver, Overlaid
<1>8. \A e \in Entries : Stands(e, Holders(e), joined[e].doc)
  BY <1>1, <1>3, <1>4 DEF JoinedInv
<1>9. \A e \in Entries \ (request.postOverlay.removes \cup request.postOverlay.adds) :
        e \in DOMAIN joined' /\ Stands(e, Holders(e), joined[e].doc)'
  <2> SUFFICES ASSUME NEW e \in Entries \ (request.postOverlay.removes \cup request.postOverlay.adds)
               PROVE  Stands(e, Holders(e), joined[e].doc)'
    BY <1>7
  <2>1. \A d : TakesRight(e, d)' <=> TakesRight(e, d)
    BY <1>1 DEF TakesRight, Deferring, Asked, Effectual, KindOf, IsPathLike
  <2>2. joined'[e] = joined[e] /\ Holders(e)' = Holders(e) /\ Stands(e, Holders(e), joined[e].doc)
    BY <1>3, <1>7, <1>8
  <2> QED
    BY <2>1, <2>2 DEF Stands
<1>10. DOMAIN joined \subseteq Entries
  BY <1>1 DEF JoinedInv, PassedIn, Passed, Holders, Entries
<1>11. DeliveredInv'
  BY <1>1, <1>2, <1>3, <1>6, <1>7, <1>9, <1>10 DEF DeliveredInv, AnswerInv, Doc
<1>12. ToldInv'
  BY <1>1, <1>2, <1>3 DEF ToldInv, Doc
<1> QED
  BY <1>1, <1>2, <1>11, <1>12 DEF EntryInv

\* While nothing happens all that is known stays known.
LEMMA StutterKeepsEntries ==
    ASSUME EntryInv, UNCHANGED joinVars
    PROVE  EntryInv'
<1>1. UNCHANGED <<pc, doc>> /\ UNCHANGED others
  BY DEF joinVars, vars
<1>2. /\ \A f, d : Forbidden(f, d)' <=> Forbidden(f, d)
      /\ \A f, d : ToldOf(f, d)' <=> ToldOf(f, d)
      /\ NamedInv => NamedInv'
  BY <1>1, ToldStays DEF others
<1>3. /\ \A f, d : Passed(f, d)' <=> Passed(f, d)
      /\ \A f, d : Collided(f, d)' <=> Collided(f, d)
      /\ \A f : Holders(f)' = Holders(f)
      /\ Entries' = Entries
  BY <1>1 DEF Passed, Collided, Holders, Entries, Doc, others
<1>4. /\ Unjoinable' <=> Unjoinable
      /\ FormsMix' <=> FormsMix
      /\ \A d \in Doc : Prepared(d)' = Prepared(d)
  BY <1>1 DEF Unjoinable, SameFamily, FormsMix, Doc, others, Prepared, Brought, OverlaysFor
<1>5. CASE step \in {"asked", "joining"}
  <2>1. PartsInv'
    BY <1>1, <1>3, <1>4, <1>5 DEF EntryInv, PartsInv, others, Doc
  <2>2. doc \in Nat \/ pc \notin {"merge", "failed"}
    BY <1>5, DocumentsAssumption DEF EntryInv, PartsInv, Doc
  <2>3. pc' \in {"merge", "failed"} => pc \in {"merge", "failed"} /\ doc =< doc' /\ doc' \in Doc /\ doc \in Doc
    BY <1>1, <1>5, <2>2 DEF EntryInv, PartsInv
  <2> QED
    BY <1>1, <1>3, <1>5, <2>1, <2>3, EntriesKept DEF others
<1>6. CASE step = "delivered"
  <2>1. \A e \in Entries \ (request.postOverlay.removes \cup request.postOverlay.adds) :
          e \in DOMAIN joined /\ Stands(e, Holders(e), joined[e].doc)'
    <3> SUFFICES ASSUME NEW e \in Entries \ (request.postOverlay.removes \cup request.postOverlay.adds)
                 PROVE  e \in DOMAIN joined /\ Stands(e, Holders(e), joined[e].doc)'
      OBVIOUS
    <3>1. \A d : TakesRight(e, d)' <=> TakesRight(e, d)
      BY <1>1 DEF TakesRight, Deferring, Asked, Effectual, KindOf, IsPathLike, others
    <3>2. e \in DOMAIN joined /\ Stands(e, Holders(e), joined[e].doc)
      BY <1>6 DEF EntryInv, DeliveredInv
    <3> QED
      BY <1>1, <1>3, <3>1, <3>2 DEF Stands, others
  <2>2. DeliveredInv'
    BY <1>1, <1>2, <1>3, <1>4, <1>6, <2>1 DEF EntryInv, DeliveredInv, others, Doc
  <2>3. ToldInv'
    BY <1>2, <1>3, <1>6 DEF EntryInv, ToldInv, Doc
  <2> QED
    BY <1>1, <1>2, <1>6, <2>2, <2>3 DEF EntryInv, others
<1>7. CASE step = "refused"
  <2>1. Met' = Met
    BY <1>1, <1>3 DEF Met, others, Doc
  <2>2. RefusedInv'
    BY <1>1, <1>2, <1>4, <1>7, <2>1 DEF EntryInv, RefusedInv
  <2> QED
    BY <1>1, <1>2, <1>7, <2>2 DEF EntryInv, others
<1> QED
  BY <1>5, <1>6, <1>7 DEF EntryInv

\* All that is known of the entries holds throughout every join.
THEOREM EntryInvariant == JoinSpec => []EntryInv
<1>1. JoinInit => EntryInv
  <2> SUFFICES ASSUME JoinInit PROVE EntryInv
    OBVIOUS
  <2>1. /\ pc = "merge" /\ doc = 1 /\ step = "asked" /\ left = {} /\ parts = [d \in Doc |-> {}]
        /\ joined = <<>> /\ origins = <<>> /\ answered = <<>> /\ told = {}
    BY DEF JoinInit, Init
  <2>2. 1 \in Doc
    BY DocumentsAssumption DEF Doc
  <2>3. \A d \in Doc : \A e \in Prepared(d) : IsEntry(e)
    <3>1. PICK j \in Joins : request = j.request
      BY DEF JoinInit
    <3>2. \A d \in Doc : \A e \in Brought(request, d) : IsEntry(e)
      BY <3>1, JoinsAssumption
    <3> QED
      BY <3>2 DEF Prepared
  <2>4. Entries = {} /\ \A e, d : ~Passed(e, d)
    BY <2>1 DEF Entries, Passed, Holders
  <2>5. PartsInv
    BY <2>1, <2>2, <2>3, <2>4 DEF PartsInv
  <2>6. DOMAIN joined = {} /\ DOMAIN answered = {}
    BY <2>1
  <2>7. JoinedInv /\ AnswerInv /\ ToldInv /\ NamedInv
    BY <2>1, <2>4, <2>6 DEF JoinedInv, AnswerInv, ToldInv, NamedInv, PassedIn
  <2> QED
    BY <2>1, <2>5, <2>7 DEF EntryInv
<1>2. EntryInv /\ [JoinNext]_joinVars => EntryInv'
  <2> SUFFICES ASSUME EntryInv, [JoinNext]_joinVars PROVE EntryInv'
    OBVIOUS
  <2>1. CASE Refused \/ Start
    BY <2>1, StartStep
  <2>2. CASE \E e \in left : InsertEntry(e) \/ Unheard(e) \/ Answered(e)
    <3>1. PICK e \in left : InsertEntry(e) \/ Unheard(e) \/ Answered(e)
      BY <2>2
    <3>2. step = "joining"
      BY <3>1 DEF InsertEntry, Unheard, Answered, TakeEntry, Joining
    <3> QED
      BY <3>1, <3>2, EntryStep
  <2>3. CASE RefuseForms \/ SchemasRefuse
    BY <2>3, RefusalStep
  <2>4. CASE JoinSchema \/ EndDocument \/ FinishSchemas
    BY <2>4, SchemaStepKeepsEntries
  <2>5. CASE Deliver
    BY <2>5, DeliverStep
  <2>6. CASE Over \/ UNCHANGED joinVars
    BY <2>6, StutterKeepsEntries DEF Over
  <2> QED
    BY <2>1, <2>2, <2>3, <2>4, <2>5, <2>6 DEF JoinNext
<1> QED
  BY <1>1, <1>2, PTL DEF JoinSpec

\* Every collision that was met lies behind the joiner.
LEMMA MetAreCollided ==
    ASSUME EntryInv, step # "refused", NEW x \in Met
    PROVE  x[1] \in Entries /\ x[2] \in Doc /\ Collided(x[1], x[2])
<1>1. /\ x[2] \in Holders(x[1])
      /\ x[2] < doc \/ (x[2] = doc /\ x[1] \notin left)
      /\ \E k \in Holders(x[1]) : k < x[2]
  BY DEF Met
<1>2. PICK k \in Holders(x[1]) : k < x[2]
  BY <1>1
<1>3. x[2] \in Doc /\ k \in Doc /\ x[1] \in Entries
  BY <1>1 DEF Holders, Entries
<1>4. Passed(x[1], x[2])
  BY <1>1 DEF Passed
<1>5. Passed(x[1], k)
  <2>1. pc \in {"merge", "failed"} => doc \in Nat
    BY DocumentsAssumption DEF EntryInv, PartsInv, DeliveredInv, Doc
  <2>2. k \in Nat /\ x[2] \in Nat
    BY <1>3, DocumentsAssumption DEF Doc
  <2> QED
    BY <1>1, <1>2, <2>1, <2>2 DEF Passed
<1> QED
  BY <1>2, <1>3, <1>4, <1>5 DEF Collided

\* Every join, whatever the documents, overlays, strategies and answers are,
\* delivers what was asked to stand under each name, or refuses for a cause, but
\* where JoinWithOptions passes a default strategy over (joiner_options.go:83).
THEOREM EntriesAlwaysAsAsked == JoinSpec => []EntriesAsAsked
<1>1. EntryInv => EntriesAsAsked
  <2> SUFFICES ASSUME EntryInv PROVE EntriesAsAsked
    OBVIOUS
  <2>0. \A kind \in {"path", "component"} : ~DefaultPassedOver(kind) => Effectual(kind) = Wanted(kind)
    BY DEF DefaultPassedOver, Effectual, Wanted
  <2>1. CASE step = "delivered"
    <3>1. DeliveredInv
      BY <2>1 DEF EntryInv
    <3>2. \A x \in Met : ~Forbidden(x[1], x[2])
      BY <2>1, <3>1, MetAreCollided DEF DeliveredInv
    <3>3. ASSUME NEW e \in Entries \ (request.postOverlay.removes \cup request.postOverlay.adds)
          PROVE  e \in DOMAIN joined /\ joined[e].doc = Standing(e, N + 1)
      <4>1. e \in DOMAIN joined /\ Stands(e, Holders(e), joined[e].doc)
        BY <3>1 DEF DeliveredInv
      <4>2. Before(e, N + 1) = Holders(e)
        BY DocumentsAssumption DEF Before, Holders, Doc
      <4> QED
        BY <4>1, <4>2, StandingIs
    <3>4. DOMAIN joined \subseteq (UNION {Prepared(d) : d \in Doc}) \cup request.postOverlay.adds
      BY <3>1 DEF DeliveredInv, Entries
    <3> QED
      BY <2>0, <2>1, <3>1, <3>2, <3>3, <3>4 DEF EntriesAsAsked, DeliveredInv, Entries
  <2>2. CASE step = "refused"
    BY <2>0, <2>2 DEF EntryInv, RefusedInv, EntriesAsAsked
  <2>3. CASE step \notin {"delivered", "refused"}
    BY <2>0, <2>3 DEF EntriesAsAsked
  <2> QED
    BY <2>1, <2>2, <2>3
<1> QED
  BY <1>1, EntryInvariant, PTL

\* Whoever is told of a collision is told which document had the value, and
\* nobody who should have been told is left out.
THEOREM LosersAlwaysNamed == JoinSpec => []LosersAreNamed
<1>1. EntryInv => LosersAreNamed
  <2> SUFFICES ASSUME EntryInv PROVE LosersAreNamed
    OBVIOUS
  <2>1. ASSUME NEW t \in told, t.entry # <<>>, t.first # Nobody
        PROVE  t.first = Standing(t.entry, t.second)
    BY <2>1, StandingIs DEF EntryInv, NamedInv
  <2>2. ASSUME NEW x \in Met, step # "refused" PROVE ToldOf(x[1], x[2])
    BY <2>2, MetAreCollided DEF EntryInv, ToldInv
  <2> QED
    BY <2>1, <2>2 DEF LosersAreNamed, ToldOf
<1> QED
  BY <1>1, EntryInvariant, PTL

-----------------------------------------------------------------------------
\* The lists.

\* An element is appended, or there was one of its name.
LEMMA AddNewIs ==
    ASSUME NEW E, NEW list \in Seq(E), NEW x \in E
    PROVE  /\ x.name \in NamesIn(list) => AddNew(list, x) = list
           /\ x.name \notin NamesIn(list) =>
                /\ AddNew(list, x) \in Seq(E) /\ Len(AddNew(list, x)) = Len(list) + 1
                /\ \A i \in 1..Len(list) : AddNew(list, x)[i] = list[i]
                /\ AddNew(list, x)[Len(list) + 1] = x
           /\ NamesIn(AddNew(list, x)) = NamesIn(list) \cup {x.name}
<1>1. CASE x.name \in NamesIn(list)
  BY <1>1 DEF AddNew
<1>2. CASE x.name \notin NamesIn(list)
  <2> DEFINE n == Len(list)
             new == Append(list, x)
  <2>1. AddNew(list, x) = new
    BY <1>2 DEF AddNew
  <2>2. /\ new \in Seq(E) /\ Len(new) = n + 1
        /\ \A i \in 1..n : new[i] = list[i]
        /\ new[n + 1] = x
    BY AppendProperties
  <2>3. n \in Nat /\ DOMAIN list = 1..n /\ DOMAIN new = 1..(n + 1)
    BY <2>2
  <2> HIDE DEF n, new
  <2>4. 1..(n + 1) = 1..n \cup {n + 1} /\ n + 1 \in 1..(n + 1)
    BY <2>3
  <2>5. NamesIn(new) = NamesIn(list) \cup {x.name}
    <3>1. NamesIn(new) = {new[i].name : i \in 1..n} \cup {new[n + 1].name}
      BY <2>3, <2>4 DEF NamesIn
    <3>2. {new[i].name : i \in 1..n} = {list[i].name : i \in 1..n}
      BY <2>2
    <3> QED
      BY <2>2, <2>3, <3>1, <3>2 DEF NamesIn
  <2> QED
    BY <1>2, <2>1, <2>2, <2>5 DEF n
<1> QED
  BY <1>1, <1>2

\* Elements are added one at a time.
LEMMA AddAllIs ==
    ASSUME NEW E, NEW list \in Seq(E), NEW more \in Seq(E)
    PROVE  \E upTo : /\ AddAll(list, more) = upTo[Len(more)] /\ upTo[0] = list
                     /\ \A i \in Nat : i # 0 => upTo[i] = AddNew(upTo[i - 1], more[i])
<1> DEFINE at[i \in Nat] == IF i = 0 THEN list ELSE AddNew(at[i - 1], more[i])
           X == Seq(E \cup {more[i] : i \in Nat})
           F == [p \in Nat \X X |-> AddNew(p[2], more[p[1]])]
<1>1. \A i \in Nat : \A y \in X : F[<<i, y>>] = AddNew(y, more[i])
  OBVIOUS
<1>2. list \in X
  BY SeqMonotonic
<1>3. \A i \in Nat : \A y \in X : AddNew(y, more[i]) \in X
  <2> SUFFICES ASSUME NEW i \in Nat, NEW y \in X PROVE AddNew(y, more[i]) \in X
    OBVIOUS
  <2> DEFINE G == E \cup {more[k] : k \in Nat}
  <2>1. more[i] \in G /\ y \in Seq(G)
    OBVIOUS
  <2> HIDE DEF G
  <2>2. AddNew(y, more[i]) \in Seq(G)
    BY <2>1, AddNewIs
  <2> QED
    BY <2>2 DEF G
<1> HIDE DEF F, X
<1>4. PICK f \in [Nat -> X] : Recursive(f, list, F)
  <2>1. \A i \in Nat : \A y \in X : F[<<i, y>>] \in X
    BY <1>1, <1>3
  <2> QED
    BY <1>2, <2>1, RecursionIn
<1>5. /\ f[0] = list /\ f = [i \in Nat |-> f[i]]
      /\ \A i \in Nat : i # 0 => f[i] = F[<<i, f[i - 1]>>]
  BY <1>4 DEF Recursive
<1>6. \A i \in Nat : i # 0 => f[i] = AddNew(f[i - 1], more[i])
  <2> TAKE i \in Nat
  <2> HAVE i # 0
  <2>1. i - 1 \in Nat /\ f[i - 1] \in X
    BY <1>4
  <2> QED
    BY <1>1, <1>5, <2>1
<1>7. f = [i \in Nat |-> IF i = 0 THEN list ELSE AddNew(f[i - 1], more[i])]
  BY <1>5, <1>6
<1>8. at = [i \in Nat |-> IF i = 0 THEN list ELSE AddNew(at[i - 1], more[i])]
  BY <1>7 DEF at
<1>9. AddAll(list, more) = at[Len(more)]
  BY DEF AddAll
<1> HIDE DEF at
<1>10. at[0] = list /\ \A i \in Nat : i # 0 => at[i] = AddNew(at[i - 1], more[i])
  BY <1>8
<1> QED
  BY <1>9, <1>10

\* The list stays as it is, in front of what is added, which has none of its names
\* and none twice.
Extends(list, new) ==
    /\ Len(list) =< Len(new)
    /\ \A i \in 1..Len(list) : new[i] = list[i]
    /\ \A i, k \in 1..Len(new) : i < k /\ Len(list) < k => new[i].name # new[k].name

\* Adding a list adds its names, keeps the order, and changes no name's owner.
LEMMA AddAllKeeps ==
    ASSUME NEW E, NEW list \in Seq(E), NEW more \in Seq(E)
    PROVE  /\ AddAll(list, more) \in Seq(E)
           /\ NamesIn(AddAll(list, more)) = NamesIn(list) \cup NamesIn(more)
           /\ Extends(list, AddAll(list, more))
           /\ /\ InOrder(list) /\ InOrder(more)
              /\ \A i \in DOMAIN list, k \in DOMAIN more : list[i].doc =< more[k].doc
              => InOrder(AddAll(list, more))
<1>1. PICK upTo : /\ AddAll(list, more) = upTo[Len(more)] /\ upTo[0] = list
                  /\ \A i \in Nat : i # 0 => upTo[i] = AddNew(upTo[i - 1], more[i])
  BY AddAllIs
<1> DEFINE n == Len(more)
           Sorted == /\ InOrder(list) /\ InOrder(more)
                     /\ \A i \in DOMAIN list, k \in DOMAIN more : list[i].doc =< more[k].doc
           P(i, r) == /\ r \in Seq(E)
                      /\ NamesIn(r) = NamesIn(list) \cup {more[k].name : k \in 1..i}
                      /\ Extends(list, r)
                      /\ \A a \in 1..Len(r) : a =< Len(list) \/ \E k \in 1..i : r[a] = more[k]
                      /\ Sorted => InOrder(r)
           T == {i \in Nat : i =< n => P(i, upTo[i])}
<1>2. n \in Nat /\ DOMAIN more = 1..n /\ Len(list) \in Nat /\ DOMAIN list = 1..Len(list)
  OBVIOUS
<1> HIDE DEF n
<1>3. 0 \in T
  <2>1. Extends(list, list)
    BY <1>2 DEF Extends
  <2>2. {more[k].name : k \in 1..0} = {}
    OBVIOUS
  <2>3. P(0, list)
    BY <1>2, <2>1, <2>2
  <2> QED
    BY <1>1, <2>3
<1>4. ASSUME NEW i \in T PROVE i + 1 \in T
  <2> SUFFICES ASSUME i + 1 =< n PROVE P(i + 1, upTo[i + 1])
    OBVIOUS
  <2> DEFINE r == upTo[i]
             x == more[i + 1]
             new == AddNew(r, x)
             l == Len(r)
  <2>1. i \in Nat /\ i + 1 # 0 /\ (i + 1) - 1 = i /\ i =< n /\ i + 1 \in 1..n
    BY <1>2
  <2>2. upTo[i + 1] = new
    BY <1>1, <2>1
  <2>3. P(i, r) /\ x \in E
    BY <1>2, <2>1
  <2>4. l \in Nat /\ DOMAIN r = 1..l
    BY <2>3
  <2>5. /\ x.name \in NamesIn(r) => new = r
        /\ x.name \notin NamesIn(r) =>
             /\ new \in Seq(E) /\ Len(new) = l + 1
             /\ \A k \in 1..l : new[k] = r[k]
             /\ new[l + 1] = x
        /\ NamesIn(new) = NamesIn(r) \cup {x.name}
    <3>1. r \in Seq(E) /\ x \in E
      BY <2>3
    <3> HIDE DEF r, x
    <3> QED
      BY <3>1, AddNewIs
  <2> HIDE DEF r, new, l
  <2>6. 1..(i + 1) = 1..i \cup {i + 1}
    BY <2>1
  <2>7. NamesIn(new) = NamesIn(list) \cup {more[k].name : k \in 1..(i + 1)}
    <3>1. {more[k].name : k \in 1..(i + 1)} = {more[k].name : k \in 1..i} \cup {x.name}
      BY <2>6
    <3> QED
      BY <2>3, <2>5, <3>1
  <2>8. CASE x.name \in NamesIn(r)
    <3>1. new = r
      BY <2>5, <2>8
    <3>2. \A b \in 1..Len(r) : b =< Len(list) \/ \E k \in 1..(i + 1) : r[b] = more[k]
      BY <2>3, <2>6
    <3> HIDE DEF Sorted
    <3>3. P(i + 1, r)
      BY <2>3, <2>7, <3>1, <3>2
    <3> QED
      BY <2>2, <3>1, <3>3
  <2>9. CASE x.name \notin NamesIn(r)
    <3>1. 1..(l + 1) = 1..l \cup {l + 1} /\ DOMAIN new = 1..(l + 1)
      BY <2>4, <2>5, <2>9
    <3>2. Len(list) =< l /\ \A k \in 1..Len(list) : new[k] = list[k]
      BY <1>2, <2>3, <2>4, <2>5, <2>9 DEF Extends, l
    <3>3. ASSUME NEW a \in 1..(l + 1), NEW k \in 1..(l + 1), a < k, Len(list) < k
          PROVE  new[a].name # new[k].name
      <4>1. a \in 1..l
        BY <2>4, <3>3
      <4>2. CASE k \in 1..l
        <5>1. new[a] = r[a] /\ new[k] = r[k]
          BY <2>5, <2>9, <4>1, <4>2
        <5> QED
          BY <2>3, <3>3, <4>1, <4>2, <5>1 DEF Extends, l
      <4>3. CASE k = l + 1
        <5>1. r[a].name \in NamesIn(r)
          BY <2>4, <4>1 DEF NamesIn
        <5> QED
          BY <2>5, <2>9, <4>1, <4>3, <5>1
      <4> QED
        BY <3>1, <4>2, <4>3
    <3>4. Extends(list, new)
      BY <1>2, <2>4, <2>5, <2>9, <3>2, <3>3 DEF Extends
    <3>5. \A a \in 1..(l + 1) : a =< Len(list) \/ \E k \in 1..(i + 1) : new[a] = more[k]
      <4> TAKE a \in 1..(l + 1)
      <4>1. CASE a \in 1..l
        BY <2>3, <2>5, <2>6, <2>9, <4>1 DEF l
      <4>2. CASE a = l + 1
        BY <2>5, <2>6, <2>9, <4>2
      <4> QED
        BY <3>1, <4>1, <4>2
    <3>6. ASSUME Sorted, NEW a \in 1..(l + 1), NEW k \in 1..(l + 1), a < k
          PROVE  new[a].doc =< new[k].doc
      <4>1. a \in 1..l
        BY <2>4, <3>6
      <4>2. new[a] = r[a]
        BY <2>5, <2>9, <4>1
      <4>3. CASE k \in 1..l
        <5>1. new[k] = r[k]
          BY <2>5, <2>9, <4>3
        <5> QED
          BY <2>3, <2>4, <3>6, <4>1, <4>2, <4>3, <5>1 DEF InOrder
      <4>4. CASE k = l + 1
        <5>1. new[k] = more[i + 1]
          BY <2>5, <2>9, <4>4
        <5>2. CASE a =< Len(list)
          <6>1. a \in 1..Len(list)
            BY <1>2, <5>2
          <6>2. r[a] = list[a]
            BY <2>3, <6>1 DEF Extends
          <6> QED
            BY <1>2, <2>1, <3>6, <4>2, <5>1, <6>1, <6>2
        <5>3. CASE \E m \in 1..i : r[a] = more[m]
          <6>1. PICK m \in 1..i : r[a] = more[m]
            BY <5>3
          <6>2. m \in 1..n /\ m < i + 1
            BY <2>1, <1>2
          <6> QED
            BY <1>2, <2>1, <3>6, <4>2, <5>1, <6>1, <6>2 DEF InOrder
        <5> QED
          BY <2>3, <4>1, <5>2, <5>3 DEF l
      <4> QED
        BY <3>1, <4>3, <4>4
    <3>7. Sorted => InOrder(new)
      BY <3>1, <3>6 DEF InOrder
    <3> QED
      BY <2>2, <2>5, <2>7, <2>9, <3>4, <3>5, <3>7
  <2> QED
    BY <2>8, <2>9
<1>5. T \in SUBSET Nat
  OBVIOUS
<1> HIDE DEF T
<1>6. T = Nat
  BY <1>3, <1>4, <1>5, Induct
<1>7. P(n, AddAll(list, more))
  <2>1. n \in T /\ n =< n
    BY <1>2, <1>6
  <2> HIDE DEF P
  <2>2. P(n, upTo[n])
    BY <2>1 DEF T
  <2> QED
    BY <1>1, <2>2 DEF n
<1>8. {more[k].name : k \in 1..n} = NamesIn(more)
  BY <1>2 DEF NamesIn
<1> DEFINE r == AddAll(list, more)
<1>9. r \in Seq(E) /\ NamesIn(r) = NamesIn(list) \cup NamesIn(more) /\ Extends(list, r) /\ (Sorted => InOrder(r))
  BY <1>7, <1>8
<1> HIDE DEF r
<1>10. /\ r \in Seq(E) /\ NamesIn(r) = NamesIn(list) \cup NamesIn(more) /\ Extends(list, r)
       /\ /\ InOrder(list) /\ InOrder(more)
          /\ \A i \in DOMAIN list, k \in DOMAIN more : list[i].doc =< more[k].doc
          => InOrder(r)
  BY <1>9
<1> QED
  BY <1>10 DEF r

\* A list put behind another.
LEMMA ConcatIs ==
    ASSUME NEW E, NEW list \in Seq(E), NEW more \in Seq(E)
    PROVE  /\ list \o more \in Seq(E) /\ DOMAIN (list \o more) = 1..(Len(list) + Len(more))
           /\ \A i \in DOMAIN list : (list \o more)[i] = list[i]
           /\ \A i \in DOMAIN more : (list \o more)[Len(list) + i] = more[i]
           /\ NamesIn(list \o more) = NamesIn(list) \cup NamesIn(more)
           /\ /\ InOrder(list) /\ InOrder(more)
              /\ \A i \in DOMAIN list, k \in DOMAIN more : list[i].doc =< more[k].doc
              => InOrder(list \o more)
<1> DEFINE new == list \o more
           l == Len(list)
           m == Len(more)
<1>1. l \in Nat /\ m \in Nat /\ DOMAIN list = 1..l /\ DOMAIN more = 1..m
  OBVIOUS
<1>2. /\ new \in Seq(E) /\ Len(new) = l + m
      /\ \A i \in 1..(l + m) : new[i] = IF i =< l THEN list[i] ELSE more[i - l]
  BY ConcatProperties
<1>3. DOMAIN new = 1..(l + m)
  BY <1>1, <1>2
<1> HIDE DEF new, l, m
<1>4. \A i \in 1..l : i \in 1..(l + m) /\ new[i] = list[i]
  BY <1>1, <1>2
<1>5. \A i \in 1..m : l + i \in 1..(l + m) /\ new[l + i] = more[i]
  <2> TAKE i \in 1..m
  <2>1. l + i \in 1..(l + m) /\ ~(l + i =< l) /\ (l + i) - l = i
    BY <1>1
  <2> QED
    BY <1>2, <2>1
<1>6. \A a \in 1..(l + m) : a \in 1..l \/ \E i \in 1..m : a = l + i
  <2> TAKE a \in 1..(l + m)
  <2>1. CASE a =< l
    BY <1>1, <2>1
  <2>2. CASE a > l
    <3>1. a - l \in 1..m /\ a = l + (a - l)
      BY <1>1, <2>2
    <3> QED
      BY <3>1
  <2> QED
    BY <1>1, <2>1, <2>2
<1>7. NamesIn(new) = NamesIn(list) \cup NamesIn(more)
  <2>1. \A a \in DOMAIN new : new[a].name \in NamesIn(list) \cup NamesIn(more)
    BY <1>1, <1>3, <1>4, <1>5, <1>6 DEF NamesIn
  <2>2. \A i \in DOMAIN list : list[i].name \in NamesIn(new)
    BY <1>1, <1>3, <1>4 DEF NamesIn
  <2>3. \A i \in DOMAIN more : more[i].name \in NamesIn(new)
    BY <1>1, <1>3, <1>5 DEF NamesIn
  <2> QED
    BY <2>1, <2>2, <2>3 DEF NamesIn
<1>8. ASSUME InOrder(list), InOrder(more), \A i \in DOMAIN list, k \in DOMAIN more : list[i].doc =< more[k].doc,
             NEW a \in 1..(l + m), NEW b \in 1..(l + m), a < b
      PROVE  new[a].doc =< new[b].doc
  <2>1. CASE b \in 1..l
    <3>1. a \in 1..l
      BY <1>1, <1>8, <2>1
    <3> QED
      BY <1>1, <1>4, <1>8, <2>1, <3>1 DEF InOrder
  <2>2. CASE \E i \in 1..m : b = l + i
    <3>1. PICK i \in 1..m : b = l + i
      BY <2>2
    <3>2. CASE a \in 1..l
      BY <1>1, <1>4, <1>5, <1>8, <3>1, <3>2
    <3>3. CASE \E k \in 1..m : a = l + k
      <4>1. PICK k \in 1..m : a = l + k
        BY <3>3
      <4>2. k < i
        BY <1>1, <1>8, <3>1, <4>1
      <4> QED
        BY <1>1, <1>5, <1>8, <3>1, <4>1, <4>2 DEF InOrder
    <3> QED
      BY <1>6, <3>2, <3>3
  <2> QED
    BY <1>6, <2>1, <2>2
<1>9. /\ InOrder(list) /\ InOrder(more)
      /\ \A i \in DOMAIN list, k \in DOMAIN more : list[i].doc =< more[k].doc
      => InOrder(new)
  BY <1>3, <1>8 DEF InOrder
<1> QED
  BY <1>1, <1>2, <1>3, <1>4, <1>5, <1>7, <1>9 DEF new, l, m

\* What is appended has names of its own, so no name gets a second owner.
LEMMA OneOwnerStays ==
    ASSUME NEW E, NEW list, list \in Seq(E), NEW new, new \in Seq(E), Extends(list, new), OneOwner(list)
    PROVE  OneOwner(new)
<1> DEFINE l == Len(list)
           m == Len(new)
<1>1. l \in Nat /\ m \in Nat /\ DOMAIN list = 1..l /\ DOMAIN new = 1..m
  OBVIOUS
<1>2. /\ \A i \in 1..l : new[i] = list[i]
      /\ \A i, k \in 1..m : i < k /\ l < k => new[i].name # new[k].name
  BY DEF Extends
<1> HIDE DEF l, m
<1>3. \A i, k \in 1..m : i < k /\ new[i].name = new[k].name => new[i].doc = new[k].doc
  <2> TAKE i, k \in 1..m
  <2> HAVE i < k /\ new[i].name = new[k].name
  <2>1. ~(l < k)
    BY <1>2
  <2>2. i \in 1..l /\ k \in 1..l
    BY <1>1, <2>1
  <2>3. new[i] = list[i] /\ new[k] = list[k]
    BY <1>2, <2>2
  <2> QED
    BY <1>1, <2>2, <2>3 DEF OneOwner
<1>4. \A i, k \in 1..m : i = k \/ i < k \/ k < i
  BY <1>1
<1> QED
  BY <1>1, <1>3, <1>4 DEF OneOwner

\* A list of elements of some documents, each of which is of one of them.
ListOf(M) == Seq([name : STRING, doc : M])

LEMMA ListOfIs ==
    ASSUME NEW M, NEW list, list \in ListOf(M)
    PROVE  /\ \A i \in DOMAIN list : list[i].doc \in M
           /\ \A K : M \subseteq K => list \in ListOf(K)
<1> DEFINE E == [name : STRING, doc : M]
<1>1. list \in Seq(E)
  BY DEF ListOf
<1>2. \A x \in E : x.doc \in M
  OBVIOUS
<1>3. \A K : M \subseteq K => E \subseteq [name : STRING, doc : K]
  OBVIOUS
<1> HIDE DEF E
<1>4. \A i \in DOMAIN list : list[i] \in E
  BY <1>1
<1>5. ASSUME NEW K, M \subseteq K PROVE list \in ListOf(K)
  BY <1>1, <1>3, <1>5, SeqMonotonic DEF ListOf
<1> QED
  BY <1>2, <1>4, <1>5

\* What a list becomes when the one of the next document is merged.
LEMMA ListMerged ==
    \A M, d, list, own, new :
        /\ M \in SUBSET Nat /\ d \in Nat /\ \A m \in M : m < d
        /\ list \in ListOf(M) /\ InOrder(list) /\ own \in ListOf({d})
        /\ new \in {list \o own, AddAll(list, own), AddAll(<<>>, list \o own)}
        => /\ new \in ListOf(M \cup {d})
           /\ NamesIn(new) = NamesIn(list) \cup NamesIn(own)
           /\ InOrder(new)
           /\ new \in {AddAll(list, own), AddAll(<<>>, list \o own)} /\ OneOwner(list) => OneOwner(new)
<1> TAKE M, d, list, own, new
<1> HAVE /\ M \in SUBSET Nat /\ d \in Nat /\ \A m \in M : m < d
         /\ list \in ListOf(M) /\ InOrder(list) /\ own \in ListOf({d})
         /\ new \in {list \o own, AddAll(list, own), AddAll(<<>>, list \o own)}
<1> DEFINE E == [name : STRING, doc : M \cup {d}]
           both == list \o own
<1>1. list \in Seq(E) /\ own \in Seq(E) /\ <<>> \in Seq(E)
  <2>1. list \in ListOf(M \cup {d}) /\ own \in ListOf(M \cup {d})
    BY ListOfIs
  <2> QED
    BY <2>1 DEF ListOf
<1>2. \A i \in DOMAIN list : list[i].doc \in M
  BY ListOfIs
<1>3. \A i \in DOMAIN own : own[i].doc = d
  BY ListOfIs
<1>4. InOrder(own) /\ \A i \in DOMAIN list, k \in DOMAIN own : list[i].doc =< own[k].doc
  <2>1. InOrder(own)
    <3>1. \A i, k \in DOMAIN own : own[i].doc =< own[k].doc
      BY <1>3
    <3> QED
      BY <3>1 DEF InOrder
  <2>2. \A i \in DOMAIN list, k \in DOMAIN own : list[i].doc =< own[k].doc
    <3> TAKE i \in DOMAIN list, k \in DOMAIN own
    <3>1. list[i].doc \in M /\ own[k].doc = d
      BY <1>2, <1>3
    <3> DEFINE m == list[i].doc
    <3>2. m \in M /\ m \in Nat /\ m < d
      BY <3>1
    <3> HIDE DEF m
    <3>3. m =< d
      BY <3>2
    <3> QED
      BY <3>1, <3>3 DEF m
  <2> QED
    BY <2>1, <2>2
<1> HIDE DEF E
<1>5. both \in Seq(E) /\ NamesIn(both) = NamesIn(list) \cup NamesIn(own) /\ InOrder(both)
  BY <1>1, <1>4, ConcatIs
<1> HIDE DEF both
<1> DEFINE Fits(x) == x \in ListOf(M \cup {d}) /\ NamesIn(x) = NamesIn(list) \cup NamesIn(own) /\ InOrder(x)
<1>6. Fits(both)
  BY <1>5 DEF E, ListOf
<1>7. ASSUME new = AddAll(list, own) PROVE Fits(new) /\ (OneOwner(list) => OneOwner(new))
  <2>1. new \in Seq(E) /\ NamesIn(new) = NamesIn(list) \cup NamesIn(own) /\ InOrder(new) /\ Extends(list, new)
    BY <1>1, <1>4, <1>7, AddAllKeeps
  <2>2. OneOwner(list) => OneOwner(new)
    BY <1>1, <2>1, OneOwnerStays
  <2> QED
    BY <2>1, <2>2 DEF E, ListOf
<1>8. ASSUME new = AddAll(<<>>, both) PROVE Fits(new) /\ OneOwner(new)
  <2>1. NamesIn(<<>>) = {} /\ InOrder(<<>>) /\ Len(<<>>) = 0 /\ DOMAIN <<>> = {}
    BY DEF NamesIn, InOrder
  <2> DEFINE none == <<>>
  <2>2. /\ none \in Seq(E) /\ NamesIn(none) = {} /\ InOrder(none) /\ DOMAIN none = {}
        /\ new = AddAll(none, both)
    BY ONLY <1>1, <1>8, <2>1
  <2> HIDE DEF none
  <2>3. new \in Seq(E) /\ NamesIn(new) = NamesIn(both) /\ InOrder(new) /\ Extends(none, new)
    <3>1. both \in Seq(E) /\ none \in Seq(E)
      BY <1>5, <2>2
    <3>2. \A i \in DOMAIN none, k \in DOMAIN both : none[i].doc =< both[k].doc
      BY <2>2
    <3>3. /\ AddAll(none, both) \in Seq(E)
          /\ NamesIn(AddAll(none, both)) = NamesIn(none) \cup NamesIn(both)
          /\ Extends(none, AddAll(none, both))
          /\ /\ InOrder(none) /\ InOrder(both)
             /\ \A i \in DOMAIN none, k \in DOMAIN both : none[i].doc =< both[k].doc
             => InOrder(AddAll(none, both))
      BY <3>1, AddAllKeeps
    <3> QED
      BY <1>5, <2>2, <3>2, <3>3
  <2>4. OneOwner(none)
    BY <2>2 DEF OneOwner
  <2>5. OneOwner(new)
    BY <2>2, <2>3, <2>4, OneOwnerStays
  <2> QED
    BY <1>5, <2>3, <2>5 DEF E, ListOf
<1> QED
  BY <1>6, <1>7, <1>8 DEF both

\* Of the next document there is then what it has, and of the others what there was.
LEMMA ListCounted ==
    ASSUME NEW M \in SUBSET Nat, NEW d \in Nat, \A m \in M : m < d,
           NEW list \in ListOf(M), NEW own \in ListOf({d}), NEW k
    PROVE  Cardinality(From(list \o own, k)) = IF k = d THEN Len(own) ELSE Cardinality(From(list, k))
<1> DEFINE E == [name : STRING, doc : M \cup {d}]
           both == list \o own
           l == Len(list)
           m == Len(own)
<1>1. list \in Seq(E) /\ own \in Seq(E)
  <2>1. list \in ListOf(M \cup {d}) /\ own \in ListOf(M \cup {d})
    BY ListOfIs
  <2> QED
    BY <2>1 DEF ListOf
<1>2. \A i \in DOMAIN list : list[i].doc \in M
  BY ListOfIs
<1>3. \A i \in DOMAIN own : own[i].doc = d
  BY ListOfIs
<1>4. l \in Nat /\ m \in Nat /\ DOMAIN list = 1..l /\ DOMAIN own = 1..m
  BY <1>1
<1> HIDE DEF E
<1>5. /\ DOMAIN both = 1..(l + m)
      /\ \A i \in 1..l : both[i] = list[i]
      /\ \A i \in 1..m : both[l + i] = own[i]
  BY <1>1, <1>4, ConcatIs
<1> HIDE DEF both, l, m
<1>6. \A i \in 1..l : both[i].doc \in M
  BY <1>2, <1>4, <1>5
<1>7. \A i \in (l + 1)..(l + m) : both[i].doc = d
  <2> TAKE i \in (l + 1)..(l + m)
  <2>1. i - l \in 1..m /\ l + (i - l) = i
    BY <1>4
  <2> QED
    BY <1>3, <1>4, <1>5, <2>1
<1>8. d \notin M /\ 1..(l + m) = 1..l \cup (l + 1)..(l + m)
  BY <1>4
<1>9. CASE k = d
  <2>1. From(both, d) = (l + 1)..(l + m)
    BY <1>5, <1>6, <1>7, <1>8 DEF From
  <2>2. Cardinality((l + 1)..(l + m)) = m
    BY <1>4, FS_Interval
  <2> QED
    BY <1>9, <2>1, <2>2 DEF both, m
<1>10. CASE k # d
  <2>1. From(both, k) = {i \in 1..l : both[i].doc = k}
    BY <1>5, <1>7, <1>8, <1>10 DEF From
  <2>2. From(both, k) = From(list, k)
    BY <1>4, <1>5, <2>1 DEF From
  <2> QED
    BY <1>10, <2>2 DEF both
<1> QED
  BY <1>9, <1>10

\* The elements a document brings are its own.
LEMMA OwnedIs ==
    ASSUME request.lists \in [Doc -> [ListFields -> Seq(STRING)]], NEW d \in Doc, NEW field \in ListFields
    PROVE  Owned(d, field) \in ListOf({d})
<1> DEFINE texts == request.lists[d][field]
           own   == [i \in DOMAIN texts |-> [name |-> texts[i], doc |-> d]]
<1>1. texts \in Seq(STRING)
  OBVIOUS
<1> HIDE DEF texts
<1>2. own \in Seq([name : STRING, doc : {d}])
  <2>1. DOMAIN texts = 1..Len(texts) /\ Len(texts) \in Nat
    BY <1>1
  <2>2. \A i \in 1..Len(texts) : texts[i] \in STRING
    BY <1>1
  <2>3. own \in [1..Len(texts) -> [name : STRING, doc : {d}]]
    BY <2>1, <2>2
  <2> QED
    BY <2>1, <2>3, SeqDef
<1>3. Owned(d, field) = own
  BY DEF Owned, texts
<1> QED
  BY <1>2, <1>3 DEF ListOf

\* While no lists are merged all that is known of them stays known.
LEMMA ListsStay ==
    ASSUME ListInv, UNCHANGED <<request, lists>>, MergedDocs' = MergedDocs, pc' = "merge" => doc' \in Doc
    PROVE  ListInv'
<1>1. /\ \A d, field : Owned(d, field)' = Owned(d, field)
      /\ \A field : Sources(field)' = Sources(field)
  BY DEF Owned, Sources, IsSwagger, Doc
<1>2. /\ \A field : NamesIn(lists[field])' = NamesIn(lists[field])
      /\ \A d, field : NamesIn(Owned(d, field))' = NamesIn(Owned(d, field))
      /\ \A d, field : Len(Owned(d, field))' = Len(Owned(d, field))
      /\ \A d, field : From(lists[field], d)' = From(lists[field], d)
  BY <1>1 DEF NamesIn, From
<1>3. /\ \A field : InOrder(lists[field]) => InOrder(lists[field])'
      /\ OneOwner(lists.schemes) => OneOwner(lists.schemes)'
      /\ OneOwner(lists.tags) => OneOwner(lists.tags)'
  BY DEF InOrder, OneOwner
<1>4. ASSUME NEW field \in ListFields
      PROVE  (NamesIn(lists[field]) = UNION {NamesIn(Owned(d, field)) : d \in Sources(field) \cap MergedDocs})'
  <2> DEFINE all == UNION {NamesIn(Owned(d, field)) : d \in Sources(field) \cap MergedDocs}
  <2>1. NamesIn(lists[field]) = all
    BY DEF ListInv, ListsMerged
  <2>2. all' = all
    BY <1>1, <1>2
  <2> QED
    BY <1>2, <2>1, <2>2
<1>5. ASSUME NEW field \in {"servers", "security"}, NEW d \in Doc
      PROVE  (Cardinality(From(lists[field], d)) =
                IF d \in Sources(field) \cap MergedDocs THEN Len(Owned(d, field)) ELSE 0)'
  BY <1>1, <1>2 DEF ListInv, ListsMerged
<1>6. ListsMerged(MergedDocs)'
  BY <1>3, <1>4, <1>5 DEF ListInv, ListsMerged, Doc
<1> QED
  BY <1>6 DEF ListInv, Doc

\* The end of a document merges its lists.
LEMMA ListStep ==
    ASSUME ListInv, EndDocument
    PROVE  ListInv'
<1>1. /\ pc = "merge" /\ doc \in Doc /\ UNCHANGED request
      /\ NextDocument \/ EndMerge
      /\ lists' = IF doc = 1 THEN lists ELSE ListsWith(doc)
  BY DEF EndDocument, ListInv
<1>2. PICK d \in Doc : d = doc
  BY <1>1
<1>3. N \in Nat /\ Doc = 1..N /\ Doc \subseteq Nat /\ d \in Nat /\ d >= 1 /\ d =< N /\ 1 \in Doc
  BY DocumentsAssumption DEF Doc
<1> DEFINE M == {1} \cup {k \in Doc : k < d}
<1>4. MergedDocs = M
  BY <1>1, <1>2 DEF MergedDocs
<1>5. MergedDocs' = IF d = 1 THEN {1} ELSE M \cup {d}
  <2>1. CASE NextDocument
    <3>1. pc' = "merge" /\ doc' = d + 1
      BY <1>1, <1>2, <2>1 DEF NextDocument
    <3>2. MergedDocs' = {1} \cup {k \in Doc : k < d + 1}
      BY <3>1 DEF MergedDocs, Doc
    <3> QED
      BY <1>3, <3>2
  <2>2. CASE EndMerge
    <3>1. pc' \in {"dedupe", "collapse"} /\ d = N
      BY <1>1, <1>2, <2>2 DEF EndMerge
    <3>2. MergedDocs' = Doc
      BY <3>1 DEF MergedDocs, Doc
    <3>3. \A k \in Doc : k < d \/ k = d
      BY <1>3, <3>1
    <3> QED
      BY <1>3, <3>1, <3>2, <3>3
  <2> QED
    BY <1>1, <2>1, <2>2
<1>6. pc' = "merge" => doc' \in Doc
  BY <1>1, <1>2, <1>3 DEF NextDocument, EndMerge
<1>7. CASE d = 1
  <2>1. M = {1}
    BY <1>3, <1>7
  <2> QED
    BY <1>1, <1>2, <1>4, <1>5, <1>6, <1>7, <2>1, ListsStay
<1>8. CASE d # 1
  <2>1. M \in SUBSET Nat /\ \A m \in M : m < d
    BY <1>3, <1>8
  <2>2. lists' = ListsWith(d) /\ MergedDocs' = M \cup {d} /\ M \subseteq Doc /\ 1 \in M
    BY <1>1, <1>2, <1>3, <1>5, <1>8
  <2>3. /\ request.lists \in [Doc -> [ListFields -> Seq(STRING)]]
        /\ DOMAIN lists = ListFields
        /\ \A field \in ListFields : lists[field] \in ListOf(M)
        /\ ListsMerged(M)
    BY <1>4 DEF ListInv, ListOf
  <2> HIDE DEF M
  <2> DEFINE Appended == {field \in ListFields : lists'[field] = lists[field] \o Owned(d, field)}
             Added    == {field \in ListFields : lists'[field] \in {AddAll(lists[field], Owned(d, field)),
                                                                   AddAll(<<>>, lists[field] \o Owned(d, field))}}
             Kept     == {field \in ListFields : lists'[field] = lists[field]}
  <2>4. DOMAIN lists' = ListFields
    BY <2>2 DEF ListsWith, ListFields
  <2>5. "servers" \in ListFields /\ "security" \in ListFields /\ "schemes" \in ListFields /\ "tags" \in ListFields
    BY DEF ListFields
  <2>6. /\ lists'.servers = IF request.mergeArrays /\ ~IsSwagger
                            THEN lists.servers \o Owned(d, "servers") ELSE lists.servers
        /\ lists'.security = IF request.mergeArrays THEN lists.security \o Owned(d, "security") ELSE lists.security
        /\ lists'.schemes = IF request.mergeArrays /\ IsSwagger
                            THEN AddAll(<<>>, lists.schemes \o Owned(d, "schemes")) ELSE lists.schemes
        /\ lists'.tags = TagsWith(lists.tags, d)
    BY <2>2 DEF ListsWith
  <2> HIDE DEF Appended, Added, Kept
  <2>7. ("servers" \in Appended /\ Sources("servers") = Doc) \/ ("servers" \in Kept /\ Sources("servers") = {1})
    BY <2>5, <2>6 DEF Sources, Appended, Kept
  <2>8. ("security" \in Appended /\ Sources("security") = Doc) \/ ("security" \in Kept /\ Sources("security") = {1})
    BY <2>5, <2>6 DEF Sources, Appended, Kept
  <2>9. ("schemes" \in Added /\ Sources("schemes") = Doc) \/ ("schemes" \in Kept /\ Sources("schemes") = {1})
    BY <2>5, <2>6 DEF Sources, Added, Kept
  <2>10. Sources("tags") = Doc /\ (request.dedupTags => "tags" \in Added) /\ (~request.dedupTags => "tags" \in Appended)
    BY <2>5, <2>6 DEF Sources, TagsWith, Added, Appended
  <2>11. \A field \in ListFields : field \in {"servers", "security", "schemes", "tags"}
    BY DEF ListFields
  <2>12. \A field \in ListFields :
          (field \in Appended \cup Added /\ Sources(field) = Doc) \/ (field \in Kept /\ Sources(field) = {1})
    BY <2>7, <2>8, <2>9, <2>10, <2>11
  <2>13. ASSUME NEW field \in ListFields
        PROVE  /\ Owned(d, field) \in ListOf({d})
               /\ lists[field] \in ListOf(M) /\ InOrder(lists[field])
               /\ NamesIn(lists[field]) = UNION {NamesIn(Owned(k, field)) : k \in Sources(field) \cap M}
    BY <1>2, <2>3, OwnedIs DEF ListsMerged
  <2>14. \A field \in Appended \cup Added :
           /\ lists'[field] \in {lists[field] \o Owned(d, field), AddAll(lists[field], Owned(d, field)),
                                 AddAll(<<>>, lists[field] \o Owned(d, field))}
           /\ field \in ListFields
    BY DEF Appended, Added
  <2>15. ASSUME NEW field \in Appended \cup Added
         PROVE  /\ lists'[field] \in ListOf(M \cup {d})
                /\ NamesIn(lists'[field]) = NamesIn(lists[field]) \cup NamesIn(Owned(d, field))
                /\ InOrder(lists'[field])
                /\ field \in Added /\ OneOwner(lists[field]) => OneOwner(lists'[field])
    <3> DEFINE list == lists[field]
               own  == Owned(d, field)
               new  == lists'[field]
    <3>1. /\ own \in ListOf({d}) /\ list \in ListOf(M) /\ InOrder(list)
          /\ new \in {list \o own, AddAll(list, own), AddAll(<<>>, list \o own)}
      BY <2>13, <2>14
    <3>2. M \in SUBSET Nat /\ d \in Nat /\ \A m \in M : m < d
      BY <1>3, <2>1
    <3> HIDE DEF list, own, new
    <3>3. /\ new \in ListOf(M \cup {d})
          /\ NamesIn(new) = NamesIn(list) \cup NamesIn(own)
          /\ InOrder(new)
          /\ new \in {AddAll(list, own), AddAll(<<>>, list \o own)} /\ OneOwner(list) => OneOwner(new)
      BY <3>1, <3>2, ListMerged
    <3> QED
      BY <3>3 DEF list, own, new, Added
  <2>16. ASSUME NEW field \in ListFields
         PROVE  /\ lists'[field] \in ListOf(M \cup {d})
                /\ NamesIn(lists'[field]) = UNION {NamesIn(Owned(k, field)) : k \in Sources(field) \cap (M \cup {d})}
                /\ InOrder(lists'[field])
    <3>1. CASE field \in Appended \cup Added /\ Sources(field) = Doc
      <4>1. UNION {NamesIn(Owned(k, field)) : k \in Sources(field) \cap (M \cup {d})} =
              (UNION {NamesIn(Owned(k, field)) : k \in Sources(field) \cap M}) \cup NamesIn(Owned(d, field))
        <5>1. Sources(field) \cap (M \cup {d}) = M \cup {d} /\ Sources(field) \cap M = M
          BY <2>2, <3>1
        <5> QED
          BY <5>1
      <4> QED
        BY <2>13, <2>15, <3>1, <4>1
    <3>2. CASE field \in Kept /\ Sources(field) = {1}
      <4>1. lists'[field] = lists[field]
        BY <3>2 DEF Kept
      <4>2. Sources(field) \cap (M \cup {d}) = Sources(field) \cap M
        BY <1>8, <3>2
      <4>3. lists[field] \in ListOf(M \cup {d})
        BY <2>13, ListOfIs
      <4> QED
        BY <2>13, <4>1, <4>2, <4>3
    <3> QED
      BY <2>12, <3>1, <3>2
  <2>17. ASSUME NEW field \in {"servers", "security"}, NEW k \in Doc
         PROVE  Cardinality(From(lists'[field], k)) =
                  IF k \in Sources(field) \cap (M \cup {d}) THEN Len(Owned(k, field)) ELSE 0
    <3>1. Cardinality(From(lists[field], k)) = IF k \in Sources(field) \cap M THEN Len(Owned(k, field)) ELSE 0
      BY <2>3 DEF ListsMerged
    <3>2. CASE field \in Appended /\ Sources(field) = Doc
      <4> DEFINE list == lists[field]
                 own  == Owned(d, field)
      <4>1. own \in ListOf({d}) /\ list \in ListOf(M) /\ lists'[field] = list \o own
        BY <2>5, <2>13, <3>2 DEF Appended
      <4>2. M \in SUBSET Nat /\ d \in Nat /\ \A m \in M : m < d
        BY <1>3, <2>1
      <4> HIDE DEF list, own
      <4>3. Cardinality(From(list \o own, k)) = IF k = d THEN Len(own) ELSE Cardinality(From(list, k))
        BY <4>1, <4>2, ListCounted
      <4>4. CASE k = d
        BY <3>2, <4>1, <4>3, <4>4 DEF own
      <4>5. CASE k # d
        BY <3>1, <3>2, <4>1, <4>3, <4>5 DEF list
      <4> QED
        BY <4>4, <4>5
    <3>3. CASE field \in Kept /\ Sources(field) = {1}
      <4>1. lists'[field] = lists[field]
        BY <3>3 DEF Kept
      <4>2. Sources(field) \cap (M \cup {d}) = Sources(field) \cap M
        BY <1>8, <3>3
      <4> QED
        BY <3>1, <4>1, <4>2
    <3> QED
      BY <2>7, <2>8, <3>2, <3>3
  <2>18. request.mergeArrays => OneOwner(lists'.schemes)
    BY <2>3, <2>15, <2>9 DEF ListsMerged, Kept
  <2>19. request.dedupTags => OneOwner(lists'.tags)
    BY <2>3, <2>15, <2>10 DEF ListsMerged
  <2>20. /\ \A k, field : Owned(k, field)' = Owned(k, field)
         /\ \A field : Sources(field)' = Sources(field)
    BY <1>1 DEF Owned, Sources, IsSwagger, Doc
  <2>21. /\ \A k, field : NamesIn(Owned(k, field))' = NamesIn(Owned(k, field))
         /\ \A k, field : Len(Owned(k, field))' = Len(Owned(k, field))
         /\ \A field : NamesIn(lists[field])' = NamesIn(lists'[field])
         /\ \A k, field : From(lists[field], k)' = From(lists'[field], k)
    BY <2>20 DEF NamesIn, From
  <2>22. PICK K : K = M \cup {d} /\ MergedDocs' = K
    BY <2>2
  <2>23. ASSUME NEW field \in ListFields
         PROVE  (NamesIn(lists[field]) = UNION {NamesIn(Owned(k, field)) : k \in Sources(field) \cap MergedDocs})'
    <3>1. NamesIn(lists'[field]) = UNION {NamesIn(Owned(k, field)) : k \in Sources(field) \cap K}
      BY <2>16, <2>22
    <3>2. (UNION {NamesIn(Owned(k, field)) : k \in Sources(field) \cap MergedDocs})' =
             UNION {NamesIn(Owned(k, field)) : k \in Sources(field) \cap K}
      BY <2>20, <2>21, <2>22
    <3> QED
      BY <2>21, <3>1, <3>2
  <2>24. ASSUME NEW field \in {"servers", "security"}, NEW k \in Doc
         PROVE  (Cardinality(From(lists[field], k)) =
                   IF k \in Sources(field) \cap MergedDocs THEN Len(Owned(k, field)) ELSE 0)'
    BY <2>17, <2>20, <2>21, <2>22
  <2>25. \A field \in ListFields : InOrder(lists[field])'
    <3>1. \A field \in ListFields : InOrder(lists'[field])
      BY <2>16
    <3> QED
      BY <3>1 DEF InOrder
  <2>26. (request.mergeArrays => OneOwner(lists.schemes))' /\ (request.dedupTags => OneOwner(lists.tags))'
    BY <1>1, <2>18, <2>19 DEF OneOwner
  <2>27. ListsMerged(MergedDocs)'
    BY <2>23, <2>24, <2>25, <2>26 DEF ListsMerged, Doc
  <2>28. \A field \in ListFields : (lists[field] \in Seq([name : STRING, doc : MergedDocs]))'
    BY <2>16, <2>22 DEF ListOf
  <2>29. (request.lists \in [Doc -> [ListFields -> Seq(STRING)]])'
    BY <1>1, <2>3 DEF Doc, ListFields
  <2> QED
    BY <1>6, <2>4, <2>27, <2>28, <2>29 DEF ListInv, Doc, ListFields
<1> QED
  BY <1>3, <1>7, <1>8

\* What is known of the lists holds throughout every join.
LEMMA ListInvariant == JoinSpec => []ListInv
<1>1. JoinInit => ListInv
  <2> SUFFICES ASSUME JoinInit PROVE ListInv
    OBVIOUS
  <2>1. pc = "merge" /\ doc = 1 /\ lists = BaseLists /\ request.lists \in [Doc -> [ListFields -> Seq(STRING)]]
    <3>1. PICK j \in Joins : request = j.request
      BY DEF JoinInit
    <3>2. j.request.lists \in [Doc -> [ListFields -> Seq(STRING)]]
      BY JoinsAssumption
    <3> QED
      BY <3>1, <3>2 DEF JoinInit, Init
  <2>2. 1 \in Doc /\ Doc \subseteq Nat /\ \A d \in Doc : ~(d < 1)
    BY DocumentsAssumption DEF Doc
  <2>3. MergedDocs = {1}
    BY <2>1, <2>2 DEF MergedDocs
  <2>4. DOMAIN lists = ListFields /\ \A field \in ListFields : lists[field] = Owned(1, field)
    BY <2>1 DEF BaseLists
  <2>5. \A field : Sources(field) \cap {1} = {1}
    BY <2>2 DEF Sources
  <2>6. \A field \in ListFields : Owned(1, field) \in ListOf({1})
    BY <2>1, <2>2, OwnedIs
  <2>7. \A field \in ListFields : \A i \in DOMAIN Owned(1, field) : Owned(1, field)[i].doc = 1
    BY <2>6, ListOfIs
  <2>8. ASSUME NEW field \in ListFields
        PROVE  /\ NamesIn(lists[field]) = UNION {NamesIn(Owned(d, field)) : d \in Sources(field) \cap MergedDocs}
               /\ InOrder(lists[field]) /\ OneOwner(lists[field])
    BY <2>3, <2>4, <2>5, <2>7 DEF InOrder, OneOwner
  <2>9. ASSUME NEW field \in {"servers", "security"}, NEW d \in Doc
        PROVE  Cardinality(From(lists[field], d)) =
                 IF d \in Sources(field) \cap MergedDocs THEN Len(Owned(d, field)) ELSE 0
    <3> DEFINE own == Owned(1, field)
    <3>1. field \in ListFields
      BY DEF ListFields
    <3>2. lists[field] = own /\ DOMAIN own = 1..Len(own) /\ Len(own) \in Nat /\ \A i \in DOMAIN own : own[i].doc = 1
      <4>1. own \in ListOf({1})
        BY <2>6, <3>1
      <4>2. DOMAIN own = 1..Len(own) /\ Len(own) \in Nat
        <5> HIDE DEF own
        <5> QED
          BY <4>1 DEF ListOf
      <4> QED
        BY <2>4, <2>7, <3>1, <4>2
    <3> HIDE DEF own
    <3>3. From(own, d) = IF d = 1 THEN 1..Len(own) ELSE {}
      BY <3>2 DEF From
    <3>4. Cardinality(1..Len(own)) = Len(own) /\ Cardinality({}) = 0
      <4> DEFINE m == Len(own)
      <4>1. m \in Nat /\ 1 \in Int /\ m \in Int
        BY <3>2
      <4> HIDE DEF m
      <4>2. Cardinality(1..m) = m
        BY <4>1, FS_Interval
      <4> QED
        BY <4>2, FS_EmptySet DEF m
    <3>5. d \in Sources(field) \cap MergedDocs <=> d = 1
      BY <2>3, <2>5
    <3> QED
      BY <3>2, <3>3, <3>4, <3>5 DEF own
  <2>10. ListsMerged(MergedDocs)
    BY <2>8, <2>9 DEF ListsMerged, ListFields
  <2> QED
    BY <2>1, <2>2, <2>3, <2>4, <2>6, <2>10 DEF ListInv, ListOf
<1>2. ListInv /\ [JoinNext]_joinVars => ListInv'
  <2> SUFFICES ASSUME ListInv, [JoinNext]_joinVars PROVE ListInv'
    OBVIOUS
  <2>1. CASE EndDocument
    BY <2>1, ListStep
  <2>2. CASE JoinSchema
    <3>1. UNCHANGED <<request, lists>> /\ pc = "merge" /\ pc' \in {"merge", "failed"} /\ doc' = doc
      BY <2>2, SchemaStaysInMerge DEF others
    <3> QED
      BY <3>1, ListsStay DEF ListInv, MergedDocs, Doc
  <2>3. CASE FinishSchemas
    <3>1. UNCHANGED <<request, lists>> /\ pc \notin {"merge", "failed"} /\ pc' \notin {"merge", "failed"}
      BY <2>3 DEF FinishSchemas, Drop, EndCollapse, RewriteDocument, RewriteUnowned, Deduplicate, others
    <3> QED
      BY <3>1, ListsStay DEF MergedDocs, Doc
  <2>4. CASE Refused \/ Start \/ RefuseForms \/ SchemasRefuse \/ Deliver \/ Over \/ UNCHANGED joinVars
    <3>1. UNCHANGED <<request, lists, pc, doc>>
      BY <2>4 DEF Refused, Start, RefuseForms, SchemasRefuse, Joining, Deliver, Over, joinVars, others, vars
    <3> QED
      BY <3>1, ListsStay DEF ListInv, MergedDocs, Doc
  <2>5. CASE \E e \in left : InsertEntry(e) \/ Unheard(e) \/ Answered(e)
    <3>1. PICK e \in left : TakeEntry(e)
      BY <2>5 DEF InsertEntry, Unheard, Answered
    <3>2. UNCHANGED <<request, lists, pc, doc>>
      BY <3>1 DEF TakeEntry, Joining, vars
    <3> QED
      BY <3>2, ListsStay DEF ListInv, MergedDocs, Doc
  <2> QED
    BY <2>1, <2>2, <2>3, <2>4, <2>5 DEF JoinNext
<1> QED
  BY <1>1, <1>2, PTL DEF JoinSpec

\* The lists of every delivered document hold what all documents to be merged
\* bring, in their order, nothing lost or twice, and each name with one owner.
THEOREM ListsAlwaysAsAsked == JoinSpec => []ListsAsAsked
<1>1. EntryInv /\ ListInv => ListsAsAsked
  <2> SUFFICES ASSUME EntryInv, ListInv, step = "delivered" PROVE DOMAIN lists = ListFields /\ ListsMerged(Doc)
    BY DEF ListsAsAsked
  <2>1. MergedDocs = Doc
    BY DEF EntryInv, DeliveredInv, MergedDocs
  <2> QED
    BY <2>1 DEF ListInv
<1> QED
  BY <1>1, EntryInvariant, ListInvariant, PTL

\* Every join delivers, under each name and in each list, what its options ask for
\* (joiner/joiner.go), or refuses for a cause, with the same exception.
THEOREM AlwaysDeliveredAsAsked == JoinSpec => []DeliveredAsAsked
<1>1. EntriesAsAsked /\ ListsAsAsked => DeliveredAsAsked
  BY DEF DeliveredAsAsked
<1> QED
  BY <1>1, EntriesAlwaysAsAsked, ListsAlwaysAsAsked, PTL

===============================================================================
