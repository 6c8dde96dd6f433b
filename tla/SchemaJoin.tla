----------------------------- MODULE SchemaJoin -----------------------------
(***************************************************************************)
(* How the joiner merges the schemas of several documents into one (joiner *)
(* package: mergeSchemas in oas3.go and its OAS 2.0 twin, rename_scope.go, *)
(* collapse.go, rewriter.go, and the schema branch of                      *)
(* collision_handler.go).                                                  *)
(*                                                                         *)
(* Documents are merged in order, the schemas of one document in no order  *)
(* (a Go map).  A collision of names is settled by the configured strategy *)
(* or by a caller's handler, and renames are recorded per document.  When  *)
(* all documents are merged, deduplicate-or-rename withdraws the renames   *)
(* it did not need (the collapse), the references of each document are     *)
(* rewritten under its own renames, and semantic deduplication may remove  *)
(* equal schemas.                                                          *)
(*                                                                         *)
(* A schema has a shape (everything that is not a reference) and the names *)
(* it refers to; a document has, beside its schemas, one path item that    *)
(* refers to each of them.                                                 *)
(***************************************************************************)
EXTENDS Naturals, Sequences, FiniteSets

CONSTANTS
    N,                  \* number of documents
    Token,              \* what schema names are made of
    Shape, Empty,       \* Empty is the shape of a schema without constraints
    CustomShape,        \* the shape of a schema made by the collision handler
    Inputs,             \* the document lists the join may be given
    Strategies,         \* the schema strategies the join may be configured with
    EquivalenceMode,    \* "none", "shallow" or "deep"
    HandlerAnswers,     \* what a collision handler may answer, given the strategy; {} without one
    Prefix,             \* Prefix[d]: namespace prefix of document d, or NoPrefix
    NoPrefix,
    AlwaysApplyPrefix,
    Template,           \* Template[d]: the token the rename template adds for d
    Counter,            \* the tokens uniqueSchemaName may add: 2, 3, ...
    SemanticDeduplication

Doc  == 1..N
Name == Seq(Token)

ASSUME DocumentsAssumption == N \in Nat \ {0}
ASSUME InputsAssumption ==
    \A input \in Inputs : \A d \in Doc : DOMAIN input[d].schemas \subseteq Name

VARIABLES
    docs,       \* the parsed documents: [schemas, queryOnly]
    strategy,   \* the effective schema strategy
    pc,         \* the stage of the join
    doc,        \* the document being merged or rewritten
    todo,       \* names of doc still to merge
    target,     \* joined.Components.Schemas: name -> object
    refs,       \* refs[o]: the names a stored object refers to, as spelled now
    uses,       \* uses[d][n]: how the path item of d spells now what it spelled n
    renames,    \* renameScope.byDoc
    deferred,   \* JoinResult.deferred
    generated,  \* JoinResult.generated
    alias,      \* what the collapse removes: name -> canonical name
    reported,   \* the names that rename warnings and events reported
    meant       \* history: the object that now stands for each merged object

stores == <<target, refs, meant>>
given  == <<docs, strategy>>
vars == <<given, pc, doc, todo, stores, uses, renames, deferred, generated, alias, reported>>

\* A *parser.Schema: the schema document doc wrote under name, or the one the
\* collision handler made when that schema collided, which no document owns.
Object    == [doc : Doc, name : Name, custom : BOOLEAN]
Obj(d, n) == [doc |-> d, name |-> n, custom |-> FALSE]

Spelled(d) == DOMAIN docs[d].schemas
Written(o) == docs[o.doc].schemas[o.name]
ShapeOf(o) == IF o.custom THEN CustomShape ELSE Written(o).shape

Put(f, k, v)   == [x \in DOMAIN f \cup {k} |-> IF x = k THEN v ELSE f[x]]
Without(f, ks) == [x \in DOMAIN f \ ks |-> f[x]]
Image(f)       == {f[x] : x \in DOMAIN f}
Lookup(f, x)   == IF x \in DOMAIN f THEN f[x] ELSE x
Mapped(f, seq) == [i \in DOMAIN seq |-> Lookup(f, seq[i])]

-----------------------------------------------------------------------------
\* Names.

\* generatePrefixedSchemaName and generateRenamedSchemaName.
Prefixed(d, n)     == IF Prefix[d] = NoPrefix THEN n ELSE <<Prefix[d]>> \o n
FromTemplate(d, n) == Append(n, Template[d])

\* The name a schema of document d is stored under when it is free.
Effective(d, n) == IF AlwaysApplyPrefix THEN Prefixed(d, n) ELSE n

\* renamedRightName, and the choice rename-left makes.
RightCandidate(d, n) ==
    IF Prefix[d] # NoPrefix /\ ~AlwaysApplyPrefix
    THEN Prefixed(d, n)
    ELSE FromTemplate(d, Effective(d, n))

LeftCandidate(d, k) ==
    IF Prefix[d] # NoPrefix THEN Prefixed(d, k) ELSE FromTemplate(d, k)

\* uniqueSchemaName: the candidate, or the first of candidate_2, candidate_3,
\* ... that target does not hold (none once Counter is exhausted).
Unique(candidate) ==
    LET numbered(i) == Append(candidate, Counter[i])
        taken(i)    == numbered(i) \in DOMAIN target
    IN
    IF candidate \notin DOMAIN target
    THEN {candidate}
    ELSE {numbered(i) : i \in {i \in DOMAIN Counter : ~taken(i) /\ \A j \in 1..i-1 : taken(j)}}

-----------------------------------------------------------------------------
\* renameScope.

\* The renames of the current document once its prefix is registered, which
\* happens before the name is looked up.
WithPrefix(n) ==
    IF AlwaysApplyPrefix /\ Prefix[doc] # NoPrefix
    THEN [renames EXCEPT ![doc] = Put(@, n, Effective(doc, n))]
    ELSE renames

\* registerRight
RegisterRight(n, newName) == [renames EXCEPT ![doc] = Put(@, n, newName)]

\* registerLeft: earlier documents that reached oldName follow it.
RegisterLeft(scope, oldName, newName) ==
    [e \in Doc |->
        LET followed == [s \in DOMAIN scope[e] |->
                            IF scope[e][s] = oldName THEN newName ELSE scope[e][s]]
        IN
        IF e >= doc THEN scope[e]
        ELSE IF oldName \in DOMAIN followed THEN followed
        ELSE Put(followed, oldName, newName)]

\* Mutant: the rename is not withdrawn.
NotRedirected(d, from, to) == {renames}

\* redirect: the possible results, one for each rename onto from that the
\* search may meet first.
Redirected(d, from, to) ==
    LET onto == {s \in DOMAIN renames[d] : renames[d][s] = from} IN
    IF onto = {}
    THEN {[renames EXCEPT ![d] = Put(@, from, to)]}
    ELSE {[renames EXCEPT ![d] = IF s = to THEN Without(@, {s}) ELSE Put(@, s, to)] : s \in onto}

\* generatedNames, mergedRenames and empty.
GeneratedNames == UNION {Image(renames[d]) : d \in Doc}
MergedRenames ==
    [n \in UNION {DOMAIN renames[d] : d \in Doc} |->
        LET last == CHOOSE d \in Doc :
                /\ n \in DOMAIN renames[d]
                /\ \A e \in Doc : n \in DOMAIN renames[e] => e =< d
        IN renames[last][n]]
NoRenames == \A d \in Doc : renames[d] = <<>>

-----------------------------------------------------------------------------
\* Equivalence (compareSchemas): a schema without constraints equals nothing,
\* not even itself.

SameShape(o, p) == ShapeOf(o) = ShapeOf(p) /\ ShapeOf(o) # Empty

\* An incoming schema still refers to what its document wrote.
RefsOf(o) == IF o \in DOMAIN refs THEN refs[o] ELSE Written(o).refs

\* CompareSchemasWithOptions: references as they are spelled.
Equivalent(o, p, mode) ==
    /\ mode # "none"
    /\ SameShape(o, p)
    /\ mode = "deep" => RefsOf(o) = RefsOf(p)

\* Mutant: references are compared as they are spelled.
InterchangeableAsSpelled(o, p) == Equivalent(o, p, "deep")

\* partitionEquivalent: the hash reads references as they are spelled, the
\* comparison reads each through the renames of its document.
Interchangeable(o, p) ==
    /\ Equivalent(o, p, "deep")
    /\ Mapped(renames[o.doc], refs[o]) = Mapped(renames[p.doc], refs[p])

\* canonicalName: a name no rename generated, if the class has one.  The
\* alphabet breaks ties; here any tie may win.
Best(class, made) == IF class \subseteq made THEN class ELSE class \ made

\* For each class of at least two names one name stays, and the others become
\* its aliases.
AliasMaps(classes, made) ==
    LET several == {K \in classes : \E a, b \in K : a # b}
        names   == UNION several
        keeps   == {c \in [several -> names] : \A K \in several : c[K] \in Best(K, made)}
        kept(c, a) == c[CHOOSE K \in several : a \in K]
    IN {[a \in names \ Image(c) |-> kept(c, a)] : c \in keeps}

-----------------------------------------------------------------------------
\* mergeSchemas: one action per way of treating the next schema of the
\* current document, whichever the map iteration gives.

Key(n)     == Effective(doc, n)
Left(n)    == target[Key(n)]
Right(n)   == Obj(doc, n)
Clashes(n) == Key(n) \in DOMAIN target
Taking(n)  == pc = "merge" /\ n \in todo /\ todo' = todo \ {n}

\* o goes to key k; whatever was meant by an object it replaces, it stands for.
Store(k, o, spelledRefs) ==
    /\ target' = Put(target, k, o)
    /\ refs' = Put(refs, o, spelledRefs)

StandsFor(f, old, new) == [x \in DOMAIN f |-> IF f[x] = old THEN new ELSE f[x]]

Insert(n) ==
    /\ Taking(n) /\ ~Clashes(n)
    /\ Store(Key(n), Right(n), Written(Right(n)).refs)
    /\ meant' = Put(meant, Right(n), Right(n))
    /\ renames' = WithPrefix(n)
    /\ UNCHANGED <<given, pc, doc, uses, deferred, generated, alias, reported>>

KeepLeft(n) ==
    /\ Taking(n)
    /\ meant' = Put(meant, Right(n), Left(n))
    /\ renames' = WithPrefix(n)
    /\ UNCHANGED <<given, pc, doc, target, refs, uses, deferred, generated, alias, reported>>

Replace(n, o, spelledRefs) ==
    /\ Taking(n)
    /\ Store(Key(n), o, spelledRefs)
    /\ meant' = Put(StandsFor(meant, Left(n), o), Right(n), o)
    /\ renames' = WithPrefix(n)
    /\ UNCHANGED <<given, pc, doc, uses, deferred, generated, alias, reported>>

KeepRight(n) == Replace(n, Right(n), Written(Right(n)).refs)

\* The handler's own schema, built from the incoming one.
KeepCustom(n) == Replace(n, [Right(n) EXCEPT !.custom = TRUE], Written(Right(n)).refs)

RenameRight(n, candidate) ==
    /\ Taking(n)
    /\ \E newName \in Unique(candidate) :
         /\ Store(newName, Right(n), Written(Right(n)).refs)
         /\ renames' = RegisterRight(n, newName)
         /\ reported' = reported \cup {newName}
    /\ meant' = Put(meant, Right(n), Right(n))
    /\ UNCHANGED <<given, pc, doc, uses, deferred, generated, alias>>

\* deduplicate-or-rename: rename now, decide and report later.
RenameAndDefer(n) ==
    /\ Taking(n)
    /\ \E newName \in Unique(RightCandidate(doc, n)) :
         /\ Store(newName, Right(n), Written(Right(n)).refs)
         /\ renames' = RegisterRight(n, newName)
         /\ deferred' = deferred \cup {[name |-> Key(n), newName |-> newName]}
    /\ meant' = Put(meant, Right(n), Right(n))
    /\ UNCHANGED <<given, pc, doc, uses, generated, alias, reported>>

\* The candidate comes from the document that contributed the left schema
\* (originOf), which for a handler's own schema is the one that was incoming.
RenameLeft(n) ==
    /\ Taking(n)
    /\ \E newName \in Unique(LeftCandidate(Left(n).doc, Key(n))) :
         /\ target' = Put(Put(target, newName, Left(n)), Key(n), Right(n))
         /\ renames' = RegisterLeft(WithPrefix(n), Key(n), newName)
         /\ reported' = reported \cup {newName}
    /\ refs' = Put(refs, Right(n), Written(Right(n)).refs)
    /\ meant' = Put(meant, Right(n), Right(n))
    /\ UNCHANGED <<given, pc, doc, uses, deferred, generated, alias>>

Refuse(n) ==
    /\ Taking(n)
    /\ pc' = "failed"
    /\ UNCHANGED <<given, doc, stores, uses, renames, deferred, generated, alias, reported>>

\* The strategy switch.
ByStrategy(n) ==
    \/ strategy \in {"accept-left", "fail-on-paths"} /\ KeepLeft(n)
    \/ strategy = "accept-right" /\ KeepRight(n)
    \/ strategy = "fail" /\ Refuse(n)
    \/ strategy = "deduplicate" /\ Equivalent(Left(n), Right(n), EquivalenceMode) /\ KeepLeft(n)
    \/ strategy = "deduplicate" /\ ~Equivalent(Left(n), Right(n), EquivalenceMode) /\ Refuse(n)
    \/ strategy = "rename-left" /\ RenameLeft(n)
    \/ strategy = "rename-right" /\ RenameRight(n, RightCandidate(doc, n))
    \/ strategy = "deduplicate-or-rename" /\ RenameAndDefer(n)

\* applySchemaResolution.  A handler that returns an error counts as one that
\* answers "continue".
ByHandler(n) ==
    \/ "accept-left" \in HandlerAnswers[strategy] /\ KeepLeft(n)
    \/ "deduplicate" \in HandlerAnswers[strategy] /\ KeepLeft(n)
    \/ "accept-right" \in HandlerAnswers[strategy] /\ KeepRight(n)
    \/ "rename" \in HandlerAnswers[strategy] /\ RenameRight(n, FromTemplate(doc, Key(n)))
    \/ "custom" \in HandlerAnswers[strategy] /\ KeepCustom(n)
    \/ "fail" \in HandlerAnswers[strategy] /\ Refuse(n)

Collide(n) ==
    /\ Clashes(n)
    /\ \/ (HandlerAnswers[strategy] = {} \/ "continue" \in HandlerAnswers[strategy]) /\ ByStrategy(n)
       \/ ByHandler(n)

NextDocument ==
    /\ pc = "merge" /\ todo = {} /\ doc < N
    /\ doc' = doc + 1
    /\ todo' = Spelled(doc + 1)
    /\ UNCHANGED <<given, pc, stores, uses, renames, deferred, generated, alias, reported>>

-----------------------------------------------------------------------------
\* The collapse (collapse.go).

\* Collisions both of whose names hold a document's schema.
Settled(k) == k \in DOMAIN target /\ ~target[k].custom
Pairs      == {x \in deferred : Settled(x.name) /\ Settled(x.newName)}
Members    == UNION {{x.name, x.newName} : x \in Pairs}

\* collapseGroups: names connected by collisions.
Group(a) ==
    {b \in Members : \A S \in SUBSET Members :
        (a \in S /\ \A x \in Pairs : x.name \in S <=> x.newName \in S) => b \in S}

\* The views the comparison reads through are taken here and not followed
\* while names are redirected: all classes are decided at once.
Classes == {{b \in Group(a) : Interchangeable(target[a], target[b])} : a \in Members}

EndMerge ==
    /\ pc = "merge" /\ todo = {} /\ doc = N
    /\ generated' = GeneratedNames
    /\ alias' \in IF deferred = {} THEN {<<>>} ELSE AliasMaps(Classes, GeneratedNames)
    /\ pc' = IF NoRenames THEN "dedupe" ELSE "collapse"
    /\ UNCHANGED <<given, doc, todo, stores, uses, renames, deferred, reported>>

Undropped == DOMAIN alias \cap DOMAIN target

\* collapseEquivalent: redirect, then delete.
Drop(a) ==
    /\ pc = "collapse" /\ a \in Undropped
    /\ renames' \in Redirected(target[a].doc, a, alias[a])
    /\ target' = Without(target, {a})
    /\ meant' = StandsFor(meant, target[a], target[alias[a]])
    /\ UNCHANGED <<given, pc, doc, todo, refs, uses, deferred, generated, alias, reported>>

\* reportDeferredRenames
EndCollapse ==
    /\ pc = "collapse" /\ Undropped = {}
    /\ reported' = reported \cup
         {x.newName : x \in {x \in deferred : Lookup(alias, x.name) # Lookup(alias, x.newName)}}
    /\ deferred' = {}
    /\ pc' = "rewrite" /\ doc' = 1
    /\ UNCHANGED <<given, todo, stores, uses, renames, generated, alias>>

-----------------------------------------------------------------------------
\* The rewrite (renameScope.rewrite, rewriter.go).

\* rewritePathItem reads the eight fixed methods of a path item, not the
\* query operation nor the additional ones.
Rewritten(d, f) ==
    IF docs[d].queryOnly THEN uses[d] ELSE [n \in DOMAIN uses[d] |-> Lookup(f, uses[d][n])]

\* Mutant: the renames of one document rewrite every entry.
RewriteEverything ==
    /\ pc = "rewrite" /\ doc =< N
    /\ refs' = [o \in DOMAIN refs |->
         IF o \in Image(target) THEN Mapped(renames[doc], refs[o]) ELSE refs[o]]
    /\ uses' = [d \in Doc |-> Rewritten(d, renames[doc])]
    /\ doc' = doc + 1
    /\ UNCHANGED <<given, pc, todo, target, meant, renames, deferred, generated, alias, reported>>

\* One pass over the entries document doc contributed.
RewriteDocument ==
    /\ pc = "rewrite" /\ doc =< N
    /\ refs' = [o \in DOMAIN refs |->
         IF ~o.custom /\ o.doc = doc /\ o \in Image(target) THEN Mapped(renames[doc], refs[o]) ELSE refs[o]]
    /\ uses' = [uses EXCEPT ![doc] = Rewritten(doc, renames[doc])]
    /\ doc' = doc + 1
    /\ UNCHANGED <<given, pc, todo, target, meant, renames, deferred, generated, alias, reported>>

RewriteUnowned ==
    /\ pc = "rewrite" /\ doc > N
    /\ refs' = [o \in DOMAIN refs |->
         IF o.custom THEN Mapped(MergedRenames, refs[o]) ELSE refs[o]]
    /\ pc' = "dedupe"
    /\ UNCHANGED <<given, doc, todo, target, uses, meant, renames, deferred, generated, alias, reported>>

\* Semantic deduplication compares every schema as it is spelled by now, once.
Duplicates == {{b \in DOMAIN target : Equivalent(target[a], target[b], "deep")} : a \in DOMAIN target}

Deduplicate ==
    /\ pc = "dedupe"
    /\ \E same \in IF SemanticDeduplication THEN AliasMaps(Duplicates, generated) ELSE {<<>>} :
         /\ target' = Without(target, DOMAIN same)
         /\ refs' = [o \in DOMAIN refs |-> Mapped(same, refs[o])]
         /\ uses' = [d \in Doc |-> Rewritten(d, same)]
         /\ meant' = [x \in DOMAIN meant |->
              LET a == {a \in DOMAIN same : target[a] = meant[x]} IN
              IF a = {} THEN meant[x] ELSE target[same[CHOOSE b \in a : TRUE]]]
    /\ pc' = "done"
    /\ UNCHANGED <<given, doc, todo, renames, deferred, generated, alias, reported>>

Finished == pc \in {"done", "failed"} /\ UNCHANGED vars

-----------------------------------------------------------------------------

Init ==
    /\ docs \in Inputs /\ strategy \in Strategies
    /\ pc = "merge" /\ doc = 1 /\ todo = Spelled(1)
    /\ target = <<>> /\ refs = <<>> /\ meant = <<>>
    /\ uses = [d \in Doc |-> [n \in Spelled(d) |-> n]]
    /\ renames = [d \in Doc |-> <<>>]
    /\ deferred = {} /\ generated = {} /\ alias = <<>> /\ reported = {}

Next ==
    \/ \E n \in todo : Insert(n) \/ Collide(n)
    \/ NextDocument \/ EndMerge
    \/ \E a \in DOMAIN alias : Drop(a)
    \/ EndCollapse
    \/ RewriteDocument \/ RewriteUnowned
    \/ Deduplicate
    \/ Finished

Spec == Init /\ [][Next]_vars

-----------------------------------------------------------------------------
\* Properties.

TypeOK ==
    /\ pc \in {"merge", "collapse", "rewrite", "dedupe", "done", "failed"}
    /\ doc \in 1..N+1
    /\ pc = "merge" => doc \in Doc /\ todo \subseteq Spelled(doc)
    /\ DOMAIN target \subseteq Name /\ Image(target) \subseteq DOMAIN refs
    /\ DOMAIN refs \subseteq Object
    /\ \A d \in Doc : DOMAIN renames[d] \subseteq Spelled(d) \cup Name /\ Image(renames[d]) \subseteq Name

\* The object every reference of a document is about, and what it finds.
Means(d, n)  == meant[Obj(d, n)]
Finds(k, o)  == k \in DOMAIN target /\ target[k] = o

\* While documents are merged and collapsed, each document's renames lead
\* every name it spells to the schema that stands for its own.
RenamesFollowSchemas ==
    pc \in {"merge", "collapse"} =>
        \A x \in DOMAIN meant : Finds(Lookup(renames[x.doc], x.name), meant[x])

\* In the joined document every reference, of a path or of a schema, finds the
\* schema that stands for the one its document meant.
ReferencesKeepTheirMeaning ==
    pc = "done" =>
        /\ \A d \in Doc : \A n \in Spelled(d) : Finds(uses[d][n], Means(d, n))
        /\ \A o \in Image(target) : ~o.custom =>
             \A i \in DOMAIN refs[o] : Finds(refs[o][i], Means(o.doc, Written(o).refs[i]))

\* A schema stands for another only if the two have the same shape and their
\* references are about the same schemas of the joined document; what a handler
\* made stands for what it says, and so does what another strategy accepts.
MergedSchemasAgree ==
    pc = "done" /\ strategy \in {"rename-left", "deduplicate-or-rename"} =>
        \A x \in DOMAIN meant :
            LET o == meant[x] IN
            /\ o \in Image(target)
            /\ o # x /\ ~o.custom =>
                 /\ SameShape(x, o)
                 /\ Len(Written(x).refs) = Len(Written(o).refs)
                 /\ \A i \in DOMAIN Written(x).refs :
                      Means(x.doc, Written(x).refs[i]) = Means(o.doc, Written(o).refs[i])

\* At most one source name of a document maps onto the name a collapse removes.
RedirectIsUnambiguous ==
    pc = "collapse" =>
        \A a \in Undropped :
            Cardinality({s \in DOMAIN renames[target[a].doc] : renames[target[a].doc][s] = a}) =< 1

\* Every name a rename warning reported is a name of the joined document.  The
\* code does not keep it, so no run lists it: a collapse can remove the name.
ReportedNamesExist == pc = "done" => reported \subseteq DOMAIN target

-----------------------------------------------------------------------------
\* The inductive invariant the theorems rest on.

\* Of the settings, handlers may overturn two.  rename-left relies on a
\* document's own schemas being where the strategy puts them, which a
\* handler's rename breaks; the collapse relies on every schema but a
\* handler's own standing for itself, which the accepting answers break.
HandlersRespectStrategy ==
    /\ "rename-left" \in Strategies => "rename" \notin HandlerAnswers["rename-left"]
    /\ "deduplicate-or-rename" \in Strategies =>
         HandlerAnswers["deduplicate-or-rename"] \cap {"accept-left", "accept-right", "deduplicate"} = {}

\* The schema o was made from has been merged.
Merged(o) ==
    /\ o.doc \in Doc /\ o.name \in Spelled(o.doc)
    /\ pc = "merge" => o.doc =< doc /\ (o.doc = doc => o.name \notin todo)

\* Objects come from schemas already merged and no object has two names; the
\* documents to come have no renames yet.
StoreInv ==
    /\ docs \in Inputs /\ strategy \in Strategies
    /\ pc = "merge" => doc \in Doc /\ todo \subseteq Spelled(doc)
    /\ \A x \in DOMAIN meant : x = Obj(x.doc, x.name) /\ Merged(x)
    /\ \A k \in DOMAIN target : Merged(target[k])
    /\ \A k, l \in DOMAIN target : target[k] = target[l] => k = l
    /\ DOMAIN renames = Doc
    /\ pc = "merge" => \A s \in todo : s \notin DOMAIN renames[doc]
    /\ pc = "merge" => \A d \in Doc : d > doc => DOMAIN renames[d] = {}

\* rename-left: the current document finds its schemas where it put them.
LeftInv ==
    (pc = "merge" /\ strategy = "rename-left") =>
        \A x \in DOMAIN meant : x.doc = doc => Lookup(renames[doc], x.name) = Key(x.name)

\* deduplicate-or-rename, before the collapse.
StandsForItself(k) == target[k] \in DOMAIN meant /\ meant[target[k]] = target[k]
RenamesAreMerged   == \A d \in Doc : \A s \in DOMAIN renames[d] : Obj(d, s) \in DOMAIN meant

DeferInv ==
    pc = "merge" =>
        IF strategy = "deduplicate-or-rename"
        THEN /\ \A x \in DOMAIN meant : meant[x] = x \/ meant[x].custom
             /\ RenamesAreMerged
             /\ \A k \in DOMAIN target : Settled(k) => StandsForItself(k)
        ELSE deferred = {}

\* The collapse, while it has a name left to remove.
DropInv ==
    (pc = "collapse" /\ Undropped # {}) =>
        /\ \A a \in DOMAIN alias : alias[a] \in DOMAIN target \ DOMAIN alias
        /\ \A a \in Undropped :
             /\ StandsForItself(a)
             /\ \A x \in DOMAIN meant : meant[x] = target[a] => x = target[a]
        /\ RenamesAreMerged

JoinInv ==
    pc \in {"merge", "collapse"} =>
        StoreInv /\ LeftInv /\ DeferInv /\ DropInv /\ RenamesFollowSchemas
-----------------------------------------------------------------------------
\* The invariant of references, which the merge's own rests under.

\* Every reference of a document is to one of its own schemas, and none is
\* under a query operation, which the rewrite does not reach.
DocumentsAreClosed ==
    \A input \in Inputs : \A d \in Doc :
        /\ ~input[d].queryOnly
        /\ \A n \in DOMAIN input[d].schemas : input[d].schemas[n].refs \in Seq(DOMAIN input[d].schemas)

\* Every schema that was merged stands for something, and what is stored has
\* its references listed.
AccountInv ==
    /\ docs \in Inputs /\ doc \in Nat
    /\ DOMAIN uses = Doc /\ \A d \in Doc : DOMAIN uses[d] = Spelled(d)
    /\ \A k \in DOMAIN target : target[k] \in DOMAIN refs /\ Merged(target[k])
    /\ \A d \in Doc : \A n \in Spelled(d) : Merged(Obj(d, n)) => Obj(d, n) \in DOMAIN meant

\* A document's references are as it wrote them, or as its renames make them.
Rewrote(d)   == pc = "rewrite" /\ d < doc
Spelling(o)  == IF Rewrote(o.doc) THEN Mapped(renames[o.doc], Written(o).refs) ELSE Written(o).refs
SpellingInv ==
    pc \in {"merge", "collapse", "rewrite"} =>
        /\ \A d \in Doc : \A n \in Spelled(d) : uses[d][n] = IF Rewrote(d) THEN Lookup(renames[d], n) ELSE n
        /\ \A k \in DOMAIN target : ~target[k].custom => refs[target[k]] = Spelling(target[k])

\* What the merge and the collapse leave to the later stages.
OneNameEach == \A k, l \in DOMAIN target : target[k] = target[l] => k = l
FollowInv ==
    /\ pc \in {"rewrite", "dedupe"} => OneNameEach
    /\ pc = "rewrite" => \A x \in DOMAIN meant : Finds(Lookup(renames[x.doc], x.name), meant[x])

\* Once all references are rewritten, they find what they mean.
FoundInv ==
    pc \in {"dedupe", "done"} =>
        /\ \A d \in Doc : \A n \in Spelled(d) : Finds(uses[d][n], Means(d, n))
        /\ \A k \in DOMAIN target :
             LET o == target[k] IN ~o.custom =>
                /\ DOMAIN refs[o] = DOMAIN Written(o).refs
                /\ \A i \in DOMAIN refs[o] : Finds(refs[o][i], Means(o.doc, Written(o).refs[i]))

ReferenceInv == JoinInv /\ (pc # "failed" => AccountInv /\ SpellingInv /\ FollowInv /\ FoundInv)

\* Handlers of the strategies that move schemas may supply their own, or refuse.
HandlersOnlySupply ==
    \A s \in Strategies \cap {"rename-left", "deduplicate-or-rename"} :
        HandlerAnswers[s] \subseteq {"continue", "custom", "fail"}

\* Semantic deduplication does not take a schema that a handler made for one of
\* a document's.
CustomStaysApart ==
    SemanticDeduplication =>
        \A input \in Inputs : \A d \in Doc : \A n \in DOMAIN input[d].schemas :
            input[d].schemas[n].shape # CustomShape

\* x may be replaced by o: they say the same, and of the same schemas.
Agrees(x, o) ==
    /\ SameShape(x, o)
    /\ Len(Written(x).refs) = Len(Written(o).refs)
    /\ \A i \in DOMAIN Written(x).refs : Means(x.doc, Written(x).refs[i]) = Means(o.doc, Written(o).refs[i])

AgreeInv ==
    (pc # "failed" /\ strategy \in {"rename-left", "deduplicate-or-rename"}) =>
        /\ \A x \in DOMAIN meant : x = Obj(x.doc, x.name) /\ x.doc \in Doc /\ x.name \in Spelled(x.doc)
        /\ pc = "merge" => \A x \in DOMAIN meant : meant[x] = x \/ meant[x].custom
        /\ \A x \in DOMAIN meant : meant[x] = x \/ meant[x].custom \/ Agrees(x, meant[x])
        /\ pc = "collapse" => \A a \in Undropped : Agrees(target[a], target[alias[a]])
        /\ pc \notin {"merge", "collapse"} => \A x \in DOMAIN meant : meant[x] \in Image(target)
=============================================================================
