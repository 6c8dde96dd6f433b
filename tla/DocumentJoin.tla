---------------------------- MODULE DocumentJoin ----------------------------
(***************************************************************************)
(* A whole join: how the documents and the options of a call reach the     *)
(* joiner, how everything but the schemas is merged, and what the caller   *)
(* is told (joiner package: joiner_options.go, joiner.go, helpers.go,      *)
(* mergeMap in oas3.go, oas2.go, collision_handler.go, collision.go,       *)
(* warnings.go; and the join command and tool).  The schemas of each       *)
(* document are merged by the actions of SchemaJoin, at their place in the *)
(* order of the sections, and everything after the merge is SchemaJoin's.  *)
(*                                                                         *)
(* An entry is a section and a name; its value is the document that wrote  *)
(* it.  request holds everything the call brings beside the schemas.       *)
(***************************************************************************)
EXTENDS SchemaJoin

CONSTANT Joins          \* the calls: [docs, strategy, request]

\* An entry is a section and a name.
IsEntry(e) == e = <<e[1], e[2]>>

\* The lists of a document that are merged.
ListFields == {"servers", "security", "schemes", "tags"}

\* joinWithOverlays: the overlays for all documents in order, then the
\* document's own.
OverlaysFor(call, d) == Append(call.preOverlays, call.specOverlays[d])
Brought(call, d)     == call.entries[d] \cup UNION {OverlaysFor(call, d)[i].adds : i \in DOMAIN OverlaysFor(call, d)}

ASSUME JoinsAssumption ==
    \A j \in Joins : /\ j.docs \in Inputs /\ j.strategy \in Strategies
                     /\ \A d \in Doc : \A e \in Brought(j.request, d) : IsEntry(e)
                     /\ j.request.lists \in [Doc -> [ListFields -> Seq(STRING)]]

VARIABLES
    request,    \* the call
    step,       \* "asked", "joining", "delivered" or "refused"
    parts,      \* parts[d]: the entries of document d, after overlays
    left,       \* the entries of doc that are not merged yet
    joined,     \* the joined document: entry -> [doc, custom]
    origins,    \* JoinResult.origins
    lists,      \* servers, security requirements, tags and schemes of the joined document
    told,       \* warnings and events, and the error of a collision
    answered    \* history: what the handler answered to each collision

others   == <<request, step, parts, left, joined, origins, lists, told, answered>>
joinVars == <<vars, others>>

-----------------------------------------------------------------------------
\* Sections.

\* The order in which the sections of a document are merged.
Order2 == <<"paths", "schemas", "parameters", "responses", "securityDefinitions">>
Order3 == <<"paths", "webhooks", "schemas", "responses", "parameters", "examples", "requestBodies",
            "headers", "securitySchemes", "links", "callbacks", "callbackRefs", "pathItems", "mediaTypes">>
IsSwagger == request.version[1] = "2.0"
Order     == IF IsSwagger THEN Order2 ELSE Order3

\* CollisionType
TypeOf(section) ==
    CASE section \in {"paths", "pathItems"}        -> "path"
      [] section = "webhooks"                      -> "webhook"
      [] section \in {"callbacks", "callbackRefs"} -> "callback"
      [] section = "responses"                     -> "response"
      [] section = "parameters"                    -> "parameter"
      [] section = "examples"                      -> "example"
      [] section = "requestBodies"                 -> "requestBody"
      [] section = "headers"                       -> "header"
      [] section = "links"                         -> "link"
      [] section = "mediaTypes"                    -> "mediaType"
      [] section \in {"securitySchemes", "securityDefinitions"} -> "securityScheme"

IsPathLike(e) == e[1] \in {"paths", "webhooks"}
KindOf(e)     == IF IsPathLike(e) THEN "path" ELSE "component"

-----------------------------------------------------------------------------
\* The settings: each front gives the joiner a strategy for each kind.

DefaultConfig == [path |-> "fail", component |-> "accept-left"]

\* JoinWithOptions fills in what is not given, so that getEffectiveStrategy
\* falls back to the default strategy only in a configuration given whole.
Effectual(kind) ==
    IF request.given[kind] # "" THEN request.given[kind]
    ELSE IF request.front = "config" THEN request.given.default
    ELSE DefaultConfig[kind]

\* applyOptions to JoinParsed: what refuses a call before anything is merged.
SameFamily(v, w) == v = w \/ "2.0" \notin {v, w}
Unjoinable ==
    \/ request.front = "command" /\ request.overInput
    \/ request.badOverlay
    \/ \E d \in Doc : request.broken[d] \/ ~SameFamily(request.version[1], request.version[d])

\* Each overlay removes some entries and then adds others.
Prepared(d) ==
    LET overlays   == OverlaysFor(request, d)
        Back(e, i) == \E k \in DOMAIN overlays : k >= i /\ e \in overlays[k].adds
    IN  {e \in Brought(request, d) :
            \A i \in DOMAIN overlays : e \in overlays[i].removes => Back(e, i)}

\* The overlay on the result.
Overlaid(entries, overlay) == (entries \ overlay.removes) \cup overlay.adds

-----------------------------------------------------------------------------
\* What the caller is told.

Note(kind, outcome, e, first, second) ==
    [kind |-> kind, outcome |-> outcome, entry |-> e, first |-> first, second |-> second]

Nobody == 0

\* Another minor version than the base's, and a name that says nothing.
EarlyNotes ==
    {Note("warning", "version", <<>>, 1, d) : d \in {d \in Doc : request.version[d] # request.version[1]}}
      \cup {Note("warning", "generic name", <<>>, Nobody, d) : d \in {d \in Doc : request.unnamed[d]}}

Event(outcome, e, first) == IF request.report THEN {Note("event", outcome, e, first, doc)} ELSE {}

\* A strategy tells of paths and webhooks alone, and in no event.
StrategyNotes(e, outcome, first) ==
    IF IsPathLike(e) THEN {Note("warning", outcome, e, first, doc)} ELSE {}

\* applyPathResolution and applyComponentResolution.
ResolutionNotes(e, answer, first) ==
    CASE answer = "accept-left"  -> Event("kept-left", e, first)
      [] answer = "accept-right" -> Event("kept-right", e, first)
      [] answer = "deduplicate"  -> Event("deduplicated", e, first)
      [] answer = "custom"       -> Event("custom", e, first)
AnswerNotes(e, answer, first) ==
    ResolutionNotes(e, answer, first) \cup
      CASE answer = "custom"      -> {}
        [] e[1] = "paths"         -> {Note("warning",
                                          IF answer = "accept-right" THEN "overwritten" ELSE "kept", e, first, doc)}
        [] answer = "deduplicate" -> {Note("warning", "deduplicated", e, Nobody, doc)}
        [] OTHER                  -> {}

-----------------------------------------------------------------------------
\* Merging an entry.

Waiting(section) ==
    IF section = "schemas" THEN todo # {} ELSE \E e \in left : e[1] = section

\* The sections before this one are merged.
Turn(section) ==
    \A i \in DOMAIN Order : Waiting(Order[i]) => \E k \in 1..i : Order[k] = section

\* Mutant: a callback that arrives where a reference is stored goes unnoticed.
FormsClashUnseen ==
    \E e \in parts[doc] : e[1] = "callbackRefs" /\
        (<<"callbacks", e[2]>> \in parts[doc] \/ <<"callbacks", e[2]>> \in DOMAIN joined)

\* Callback objects and references to them are two maps under one name.
FormsClash ==
    LET Names(section)  == {e[2] : e \in {e \in parts[doc] : e[1] = section}}
        Stored(section) == {e[2] : e \in {e \in DOMAIN joined : e[1] = section}}
    IN  \/ Names("callbackRefs") \cap (Names("callbacks") \cup Stored("callbacks")) # {}
        \/ Names("callbacks") \cap Stored("callbackRefs") # {}

Joining == step = "joining" /\ pc = "merge" /\ UNCHANGED vars
TakeEntry(e) ==
    /\ Joining /\ e \in left /\ Turn(e[1])
    /\ TypeOf(e[1]) = "callback" => ~FormsClash
    /\ left' = left \ {e}
    /\ UNCHANGED <<request, parts, lists>>

OriginKey(e) == IF e[1] = "callbackRefs" THEN <<"callbacks", e[2]>> ELSE e
OriginOf(e)  == IF OriginKey(e) \in DOMAIN origins THEN origins[OriginKey(e)] ELSE 1

\* Mutant: the origin stays with the first document.
StoreWithoutOrigin(e, custom) ==
    /\ joined' = Put(joined, e, [doc |-> doc, custom |-> custom])
    /\ origins' = IF OriginKey(e) \in DOMAIN origins THEN origins ELSE Put(origins, OriginKey(e), doc)

StoreEntry(e, custom) ==
    /\ joined' = Put(joined, e, [doc |-> doc, custom |-> custom])
    /\ origins' = Put(origins, OriginKey(e), doc)

InsertEntry(e) ==
    /\ TakeEntry(e) /\ e \notin DOMAIN joined
    /\ StoreEntry(e, FALSE)
    /\ UNCHANGED <<step, told, answered>>

\* handleCollision and shouldOverwrite.
ByStrategyOf(e) ==
    LET wanted == Effectual(KindOf(e)) IN
    \/ /\ wanted = "accept-left" \/ (wanted = "fail-on-paths" /\ ~IsPathLike(e))
       /\ told' = told \cup StrategyNotes(e, "kept", OriginOf(e))
       /\ UNCHANGED <<step, joined, origins>>
    \/ /\ wanted = "accept-right"
       /\ StoreEntry(e, FALSE)
       /\ told' = told \cup StrategyNotes(e, "overwritten", OriginOf(e))
       /\ UNCHANGED step
    \/ /\ wanted = "fail" \/ (wanted = "fail-on-paths" /\ IsPathLike(e))
       /\ step' = "refused"
       /\ told' = told \cup {Note("error", "collision", e, OriginOf(e), doc)}
       /\ UNCHANGED <<joined, origins>>
    \/ /\ wanted \notin {"accept-left", "accept-right", "fail", "fail-on-paths"}
       /\ step' = "refused"
       /\ UNCHANGED <<joined, origins, told>>

\* No entry but a schema can be renamed, and only a path can be replaced by a
\* value of the handler's own.
ByAnswer(e, answer) ==
    \/ /\ answer \in {"accept-left", "deduplicate"}
       /\ told' = told \cup AnswerNotes(e, answer, OriginOf(e))
       /\ UNCHANGED <<step, joined, origins>>
    \/ /\ answer = "accept-right" \/ (answer = "custom" /\ e[1] = "paths")
       /\ StoreEntry(e, answer = "custom")
       /\ told' = told \cup AnswerNotes(e, answer, OriginOf(e))
       /\ UNCHANGED step
    \/ /\ answer \in {"fail", "rename"} \/ (answer = "custom" /\ e[1] # "paths")
       /\ step' = "refused"
       /\ UNCHANGED <<joined, origins, told>>

\* shouldInvokeHandler: no types means all.
Heard(e) == request.answers # {} /\ (request.hears = {} \/ TypeOf(e[1]) \in request.hears)

Unheard(e) ==
    /\ TakeEntry(e) /\ e \in DOMAIN joined /\ ~Heard(e)
    /\ ByStrategyOf(e)
    /\ UNCHANGED answered

Answered(e) ==
    /\ TakeEntry(e) /\ e \in DOMAIN joined /\ Heard(e)
    /\ \E answer \in request.answers :
         /\ IF answer = "continue" THEN ByStrategyOf(e) ELSE ByAnswer(e, answer)
         /\ answered' = Put(answered, <<e, doc>>, answer)

\* mergeAllCallbacks asks neither the handler nor the strategy.
RefuseForms ==
    /\ Joining /\ Turn("callbacks") /\ FormsClash
    /\ step' = "refused"
    /\ UNCHANGED <<request, parts, left, joined, origins, lists, told, answered>>

-----------------------------------------------------------------------------
\* The lists of a document: its elements are [name, doc].

Owned(d, field) == [i \in DOMAIN request.lists[d][field] |-> [name |-> request.lists[d][field][i], doc |-> d]]
NamesIn(list)   == {list[i].name : i \in DOMAIN list}

AddNew(list, x) == IF x.name \in NamesIn(list) THEN list ELSE Append(list, x)

\* The elements of another list are added in their order.
AddAll(list, more) ==
    LET upTo[i \in Nat] == IF i = 0 THEN list ELSE AddNew(upTo[i - 1], more[i])
    IN  upTo[Len(more)]

\* mergeTags
TagsWith(tags, d) ==
    IF request.dedupTags THEN AddAll(tags, Owned(d, "tags")) ELSE tags \o Owned(d, "tags")

\* The arrays of OAS 3.x are appended, those of 2.0 are united (mergeUniqueStrings);
\* security requirements are appended in both.
ListsWith(d) ==
    [servers  |-> IF request.mergeArrays /\ ~IsSwagger THEN lists.servers \o Owned(d, "servers") ELSE lists.servers,
     security |-> IF request.mergeArrays THEN lists.security \o Owned(d, "security") ELSE lists.security,
     schemes  |-> IF request.mergeArrays /\ IsSwagger
                  THEN AddAll(<<>>, lists.schemes \o Owned(d, "schemes"))
                  ELSE lists.schemes,
     tags     |-> TagsWith(lists.tags, d)]

BaseLists == [field \in ListFields |-> Owned(1, field)]

\* Host and base path are the first document's.
HostNotes(d) ==
    IF IsSwagger /\ request.host[d] \notin {"", request.host[1]} THEN {Note("warning", "host ignored", <<>>, 1, d)} ELSE {}

-----------------------------------------------------------------------------
\* The join.

Refused ==
    /\ step = "asked" /\ Unjoinable
    /\ step' = "refused"
    /\ UNCHANGED <<vars, request, parts, left, joined, origins, lists, told, answered>>

Start ==
    /\ step = "asked" /\ ~Unjoinable
    /\ step' = "joining"
    /\ parts' = [d \in Doc |-> Prepared(d)]
    /\ left' = Prepared(1)
    /\ told' = EarlyNotes
    /\ UNCHANGED <<vars, request, joined, origins, lists, answered>>

JoinSchema ==
    /\ step = "joining" /\ Turn("schemas")
    /\ \E n \in todo : Insert(n) \/ Collide(n)
    /\ UNCHANGED others

EndDocument ==
    /\ step = "joining" /\ pc = "merge" /\ left = {}
    /\ \/ NextDocument /\ left' = parts[doc + 1]
       \/ EndMerge /\ left' = {}
    /\ lists' = IF doc = 1 THEN lists ELSE ListsWith(doc)
    /\ told' = IF doc = 1 THEN told ELSE told \cup HostNotes(doc)
    /\ UNCHANGED <<request, step, parts, joined, origins, answered>>

FinishSchemas ==
    /\ step = "joining"
    /\ \/ \E a \in DOMAIN alias : Drop(a)
       \/ EndCollapse \/ RewriteDocument \/ RewriteUnowned \/ Deduplicate
    /\ UNCHANGED others

SchemasRefuse ==
    /\ step = "joining" /\ pc = "failed"
    /\ step' = "refused"
    /\ UNCHANGED <<vars, request, parts, left, joined, origins, lists, told, answered>>

\* The overlay on the result may remove what was joined and add values of its own.
Deliver ==
    /\ step = "joining" /\ pc = "done"
    /\ step' = "delivered"
    /\ joined' = [e \in Overlaid(DOMAIN joined, request.postOverlay) |->
          IF e \in request.postOverlay.adds THEN [doc |-> Nobody, custom |-> TRUE] ELSE joined[e]]
    /\ UNCHANGED <<vars, request, parts, left, origins, lists, told, answered>>

Over == step \in {"delivered", "refused"} /\ UNCHANGED joinVars

JoinInit ==
    /\ \E j \in Joins : docs = j.docs /\ strategy = j.strategy /\ request = j.request
    /\ Init
    /\ step = "asked"
    /\ parts = [d \in Doc |-> {}] /\ left = {}
    /\ joined = <<>> /\ origins = <<>> /\ answered = <<>>
    /\ lists = BaseLists
    /\ told = {}

JoinNext ==
    \/ Refused \/ Start
    \/ \E e \in left : InsertEntry(e) \/ Unheard(e) \/ Answered(e)
    \/ RefuseForms
    \/ JoinSchema \/ EndDocument \/ FinishSchemas \/ SchemasRefuse
    \/ Deliver
    \/ Over

JoinSpec == JoinInit /\ [][JoinNext]_joinVars

-----------------------------------------------------------------------------
\* What became of an entry.

\* What was asked for a collision, of whoever was to be asked first.
Deferring(e, d) == <<e, d>> \notin DOMAIN answered \/ answered[<<e, d>>] = "continue"
Asked(e, d)     == IF Deferring(e, d) THEN Effectual(KindOf(e)) ELSE answered[<<e, d>>]

Holders(e)     == {d \in Doc : e \in parts[d]}
Before(e, d)   == {h \in Holders(e) : h < d}
TakesRight(e, d) == Asked(e, d) = "accept-right" \/ (~Deferring(e, d) /\ Asked(e, d) = "custom")

\* Of some documents that have e, h is the last that was to replace another's
\* value, or the first if none was.
Stands(e, among, h) ==
    /\ h \in among
    /\ \A k \in among : k > h => ~TakesRight(e, k)
    /\ (\A k \in among : h =< k) \/ TakesRight(e, h)

\* The document whose value stands for an entry once those before d are merged.
Standing(e, d) == CHOOSE h \in Before(e, d) : Stands(e, Before(e, d), h)

\* The collisions met so far.
Met == {x \in (DOMAIN joined) \X Doc :
          /\ x[2] \in Holders(x[1])
          /\ \E k \in Holders(x[1]) : k < x[2]
          /\ x[2] < doc \/ (x[2] = doc /\ x[1] \notin left)}

\* A collision that whoever decides does not allow.
Forbidden(e, d) ==
    LET asked == Asked(e, d) IN
    IF Deferring(e, d)
    THEN asked # "accept-left" /\ asked # "accept-right" /\ (asked = "fail-on-paths" => IsPathLike(e))
    ELSE asked \in {"fail", "rename"} \/ (asked = "custom" /\ e[1] # "paths")

-----------------------------------------------------------------------------
\* Properties.

FormsMix == \E name \in {e[2] : e \in UNION {parts[d] : d \in Doc}} :
    \E d, k \in Doc : <<"callbacks", name>> \in parts[d] /\ <<"callbackRefs", name>> \in parts[k]

\* What a caller has asked for, for collisions of a kind nobody answers for: its
\* own strategy, else the default strategy ("Set strategies globally
\* (DefaultStrategy) or per component type", joiner/doc.go:71), else what
\* DefaultConfig says, which a configuration given whole replaces.
Wanted(kind) ==
    IF request.given[kind] # "" THEN request.given[kind]
    ELSE IF request.given.default # "" THEN request.given.default
    ELSE IF request.front = "config" THEN "" ELSE DefaultConfig[kind]

\* WithDefaultStrategy "sets the global collision strategy" (joiner_options.go:391),
\* yet JoinWithOptions fills in a strategy of every kind (joiner_options.go:83-86)
\* and so passes the given default over: the joiner is not held to a default
\* strategy that is given beside no configuration.
DefaultPassedOver(kind) ==
    request.front # "config" /\ request.given[kind] = "" /\ request.given.default # ""

\* A kind goes by what was asked for it. Of the kinds for which no default was
\* passed over, a delivered document holds, under every name that a document has
\* after its overlays, what was asked to stand there, over all the collisions
\* the name went through; it holds no callback in two forms; and a call is
\* refused exactly where something it asks cannot be had.
EntriesAsAsked ==
    /\ \A kind \in {"path", "component"} : ~DefaultPassedOver(kind) => Effectual(kind) = Wanted(kind)
    /\ step = "delivered" =>
         /\ ~Unjoinable /\ ~FormsMix
         /\ \A x \in Met : DefaultPassedOver(KindOf(x[1])) \/ ~Forbidden(x[1], x[2])
         /\ \A e \in UNION {parts[d] : d \in Doc} :
              /\ ~DefaultPassedOver(KindOf(e))
              /\ e \notin request.postOverlay.removes \cup request.postOverlay.adds
              => e \in DOMAIN joined /\ joined[e].doc = Standing(e, N + 1)
         /\ DOMAIN joined \subseteq (UNION {Prepared(d) : d \in Doc}) \cup request.postOverlay.adds
    /\ step = "refused" =>
         \/ Unjoinable \/ FormsMix \/ pc = "failed"
         \/ \E x \in Met : DefaultPassedOver(KindOf(x[1])) \/ Forbidden(x[1], x[2])

\* Whose lists make up the joined one.
Sources(field) ==
    IF \/ field = "tags"
       \/ /\ request.mergeArrays
          /\ field = "servers" => ~IsSwagger
          /\ field = "schemes" => IsSwagger
    THEN Doc ELSE {1}
From(list, d)   == {i \in DOMAIN list : list[i].doc = d}
InOrder(list)   == \A i, k \in DOMAIN list : i < k => list[i].doc =< list[k].doc
OneOwner(list)  == \A i, k \in DOMAIN list : list[i].name = list[k].name => list[i].doc = list[k].doc

\* What the lists are once those of some documents are merged.
ListsMerged(among) ==
    /\ \A field \in ListFields :
         /\ NamesIn(lists[field]) = UNION {NamesIn(Owned(d, field)) : d \in Sources(field) \cap among}
         /\ InOrder(lists[field])
    /\ \A field \in {"servers", "security"}, d \in Doc :
         Cardinality(From(lists[field], d)) = IF d \in Sources(field) \cap among THEN Len(Owned(d, field)) ELSE 0
    /\ request.mergeArrays => OneOwner(lists.schemes)
    /\ request.dedupTags => OneOwner(lists.tags)

\* The servers, requirements, schemes and tags of a delivered document are those
\* of all documents in their order, when they are to be merged, and of tags and
\* schemes with one name the first document's.
ListsAsAsked == step = "delivered" => DOMAIN lists = ListFields /\ ListsMerged(Doc)

\* A join delivers, in entries and in lists, what its options ask for (but for
\* the default strategy that JoinWithOptions passes over, see DefaultPassedOver).
DeliveredAsAsked == EntriesAsAsked /\ ListsAsAsked

\* Whoever is told of a collision is told which document had the value that
\* was kept, replaced or in the way, however often the name changed hands; and
\* every collision of a path or a webhook that is settled without the handler
\* is told, as is every one that a handler settles for a report.
LosersAreNamed ==
    /\ \A t \in told : t.entry # <<>> /\ t.first # Nobody => t.first = Standing(t.entry, t.second)
    /\ \A x \in Met : step # "refused" /\ Deferring(x[1], x[2]) /\ IsPathLike(x[1]) =>
         \E t \in told : t.kind = "warning" /\ t.entry = x[1] /\ t.second = x[2] /\ t.first # Nobody
    /\ \A x \in Met : step # "refused" /\ ~Deferring(x[1], x[2]) /\ request.report =>
         \E t \in told : t.kind = "event" /\ t.entry = x[1] /\ t.second = x[2]

-----------------------------------------------------------------------------
\* The inductive invariant the theorems rest on.

\* The joiner has come past e in document d.
Passed(e, d) ==
    /\ d \in Holders(e)
    /\ pc \in {"merge", "failed"} => d < doc \/ (d = doc /\ e \notin left)
PassedIn(e)   == {d \in Doc : Passed(e, d)}
Entries       == UNION {parts[d] : d \in Doc}
Collided(e, d) == Passed(e, d) /\ \E k \in Doc : Passed(e, k) /\ k < d

\* Documents change only by the overlays on them, before the join starts.
PartsInv ==
    /\ DOMAIN parts = Doc /\ \A d \in Doc : \A e \in parts[d] : IsEntry(e)
    /\ pc \in {"merge", "failed"} => doc \in Doc /\ left \subseteq parts[doc]
    /\ step = "asked" => /\ pc = "merge" /\ doc = 1 /\ Entries = {} /\ left = {}
                         /\ \A d \in Doc : \A e \in Prepared(d) : IsEntry(e)
    /\ step = "joining" => ~Unjoinable /\ \A d \in Doc : parts[d] = Prepared(d)

\* What is joined by now is what should stand, its origin is known, and no name
\* is that of two callbacks.
JoinedInv ==
    /\ \A e \in DOMAIN joined : PassedIn(e) # {}
    /\ \A e \in Entries : PassedIn(e) # {} => e \in DOMAIN joined
    /\ \A e \in DOMAIN joined :
         /\ Stands(e, PassedIn(e), joined[e].doc)
         /\ OriginKey(e) \in DOMAIN origins /\ origins[OriginKey(e)] = joined[e].doc
    /\ \A e, f \in DOMAIN joined : OriginKey(e) = OriginKey(f) => e = f

\* Nobody has answered for what is to come, and what was met was allowed.
AnswerInv ==
    /\ \A x \in DOMAIN answered : x = <<x[1], x[2]>> /\ Passed(x[1], x[2])
    /\ \A e \in Entries, d \in Doc : Collided(e, d) => ~Forbidden(e, d)

\* Who is named in what was told, and what must have been told.
NamedInv ==
    \A t \in told : t.entry # <<>> =>
        /\ t.second \in Doc /\ (pc \in {"merge", "failed"} => t.second =< doc)
        /\ t.first # Nobody => Stands(t.entry, Before(t.entry, t.second), t.first)

ToldOf(e, d) ==
    /\ Deferring(e, d) /\ IsPathLike(e) =>
         \E t \in told : t.kind = "warning" /\ t.entry = e /\ t.second = d /\ t.first # Nobody
    /\ ~Deferring(e, d) /\ request.report =>
         \E t \in told : t.kind = "event" /\ t.entry = e /\ t.second = d
ToldInv == \A e \in Entries, d \in Doc : Collided(e, d) => ToldOf(e, d)

DeliveredInv ==
    /\ pc = "done"
    /\ ~Unjoinable /\ ~FormsMix
    /\ \A d \in Doc : parts[d] = Prepared(d)
    /\ \A e \in Entries, d \in Doc : Collided(e, d) => ~Forbidden(e, d)
    /\ \A e \in Entries \ (request.postOverlay.removes \cup request.postOverlay.adds) :
         e \in DOMAIN joined /\ Stands(e, Holders(e), joined[e].doc)
    /\ DOMAIN joined \subseteq Entries \cup request.postOverlay.adds
RefusedInv == Unjoinable \/ FormsMix \/ pc = "failed" \/ \E x \in Met : Forbidden(x[1], x[2])

\* The lists of the documents before this one are merged, and the first one's.
MergedDocs == IF pc \in {"merge", "failed"} THEN {1} \cup {d \in Doc : d < doc} ELSE Doc
ListInv ==
    /\ DOMAIN lists = ListFields
    /\ request.lists \in [Doc -> [ListFields -> Seq(STRING)]]
    /\ \A field \in ListFields : lists[field] \in Seq([name : STRING, doc : MergedDocs])
    /\ pc = "merge" => doc \in Doc
    /\ ListsMerged(MergedDocs)

EntryInv ==
    /\ step \in {"asked", "joining", "delivered", "refused"}
    /\ step \in {"asked", "joining"} => PartsInv /\ JoinedInv /\ AnswerInv
    /\ NamedInv
    /\ step # "refused" => ToldInv
    /\ step = "delivered" => DeliveredInv
    /\ step = "refused" => RefusedInv
=============================================================================
