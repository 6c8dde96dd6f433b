-------------------------------- MODULE Walker --------------------------------
(***************************************************************************)
(* One walk of a document by the package walker: the handlers it calls, in *)
(* which order, what their answers do to the rest of the walk, and the     *)
(* stack of parents, the schemas on the way and the stop flag it keeps.    *)
(*                                                                         *)
(* The document is a graph of typed nodes.  The Go call stack is a         *)
(* sequence of frames, each with the children its function has still to    *)
(* look at.  Schemas may be shared and may contain themselves; the other   *)
(* nodes form a tree.  Handlers do not change the document.                *)
(***************************************************************************)
EXTENDS Naturals, Sequences, FiniteSets, SequencesExt

CONSTANTS
    Walks,          \* [doc, handlers]: documents, records [version, kind, kids, refs]
                    \* with a root "doc", and the handlers a caller registers
    MaxSchemaDepth, \* WithMaxSchemaDepth
    Unwalked        \* [kind, at] of the children the walker is known not to visit

ASSUME DepthAssumption == MaxSchemaDepth \in Nat \ {0}

\* What holds the nodes that group others.
Holders == [path |-> {"document"}, webhook |-> {"document"}, pathItem |-> {"document", "path", "callback"},
            operation |-> {"pathItem", "webhook"}, callback |-> {"document", "operation"},
            document |-> {}]
IsPlaced(d) ==
    \A n \in DOMAIN d.kind : \A i \in DOMAIN d.kids[n] :
        LET kid  == d.kids[n][i]
            kind == d.kind[kid.node]
        IN  /\ kind \in DOMAIN Holders => d.kind[n] \in Holders[kind]
            /\ kind = "callback" /\ d.kind[n] = "operation" => kid.at = "callbacks"

\* In a schema there are schemas, and values that hold none.
IsDocument(d) ==
    /\ "doc" \in DOMAIN d.kind /\ d.kind["doc"] = "document"
    /\ DOMAIN d.kids = DOMAIN d.kind
    /\ \A n \in DOMAIN d.kind :
           /\ d.kids[n] \in Seq([at : STRING, node : DOMAIN d.kind, key : Seq(STRING)])
           /\ d.kind[n] = "schema" =>
                  \A i \in DOMAIN d.kids[n] :
                      d.kind[d.kids[n][i].node] \in {"schema", "mapRef", "externalDocs"}
ASSUME DocumentsAssumption == \A walk \in Walks : IsDocument(walk.doc) /\ IsPlaced(walk.doc)

VARIABLES
    doc, registered,
    phase,          \* "start", "walking" or "done"
    stack,          \* frames [node, depth, wc, todo], wc the node's walkState
    parents,        \* parentStack, shared by every walkState
    visiting,       \* visitedSchemas
    stopped,
    log             \* history: the handler calls made

vars == <<doc, registered, phase, stack, parents, visiting, stopped, log>>

-------------------------------------------------------------------------------
(* The fields of each kind of node, in the order its function looks at them. *)
(* A guarded field is one before whose elements w.stopped is tested; the     *)
(* test that finds it set returns from the function of that scope, "node"    *)
(* being the function of the node itself.                                    *)

Guarded(at, scope)   == [at |-> at, scope |-> scope, guarded |-> TRUE]
Unguarded(at, scope) == [at |-> at, scope |-> scope, guarded |-> FALSE]
InTurn(ats)          == [i \in DOMAIN ats |-> Guarded(ats[i], "node")]
EachAlone(ats)       == [i \in DOMAIN ats |-> Guarded(ats[i], ats[i])]

DocumentFields2 == InTurn(<<"info", "externalDocs", "paths", "schemas", "parameters",
                            "responses", "securitySchemes", "tags">>)
DocumentFields3 == InTurn(<<"info", "externalDocs", "servers", "paths", "webhooks">>)
ComponentFields == InTurn(<<"schemas", "responses", "parameters", "requestBodies", "headers",
                            "securitySchemes", "links">>)
LaterComponents == InTurn(<<"callbacks", "callbackRefs", "examples", "pathItems">>)
TagFields       == InTurn(<<"tags">>)
PathFields      == InTurn(<<"pathItem">>)

PathItemFields2 == InTurn(<<"parameters", "operation">>)

\* Mutant: the loop over the operations does not look at w.stopped.
MethodsUnguarded == <<Unguarded("operation", "node"), Guarded("query", "node"),
                      Guarded("additional", "node")>>
MethodFields    == InTurn(<<"operation", "query", "additional">>)
PathItemFields3 == InTurn(<<"parameters">>) \o MethodFields
WebhookFields   == MethodFields

ResponsesFields  == <<Unguarded("default", "responses"), Guarded("codes", "responses")>>
OperationFields2 == InTurn(<<"externalDocs", "parameters">>) \o ResponsesFields

OperationFields3 == InTurn(<<"externalDocs", "parameters">>)
                    \o <<Unguarded("requestBody", "node")>> \o ResponsesFields
                    \o InTurn(<<"callbacks", "callbackRefs">>)

ResponseFields2  == EachAlone(<<"headers">>) \o <<Unguarded("schema", "node")>>
ResponseFields3  == EachAlone(<<"headers", "content", "links">>)
RequestFields    == EachAlone(<<"content">>)
ParameterFields  == <<Unguarded("schema", "node")>> \o EachAlone(<<"content", "examples">>)
HeaderFields     == <<Unguarded("schema", "node")>> \o EachAlone(<<"content", "examples">>)
MediaTypeFields  == <<Unguarded("schema", "node")>> \o EachAlone(<<"examples">>)
CallbackFields   == InTurn(<<"expressions">>)

PropertyFields ==
    <<Guarded("properties", "object"), Guarded("patternProperties", "object")>>
    \o EachAlone(<<"additionalProperties", "unevaluatedProperties">>)
    \o <<Unguarded("propertyNames", "object"), Guarded("dependentSchemas", "object")>>
ArrayFields ==
    EachAlone(<<"items", "additionalItems">>)
    \o <<Guarded("prefixItems", "array")>> \o EachAlone(<<"unevaluatedItems">>)
    \o <<Unguarded("contains", "array")>>
CompositionFields ==
    <<Guarded("allOf", "composition"), Guarded("anyOf", "composition"),
      Guarded("oneOf", "composition"), Unguarded("not", "composition")>>
ConditionFields ==
    <<Unguarded("if", "conditions"), Unguarded("then", "conditions"),
      Unguarded("else", "conditions")>>
OtherSchemaFields == <<Unguarded("contentSchema", "misc"), Guarded("$defs", "misc")>>
SchemaFields == PropertyFields \o ArrayFields \o CompositionFields \o ConditionFields
                \o OtherSchemaFields

Fields(version, kind) ==
    CASE kind = "document"    -> IF version = 2 THEN DocumentFields2
                                 ELSE DocumentFields3 \o ComponentFields
                                      \o LaterComponents \o TagFields
      [] kind = "path"        -> PathFields
      [] kind = "webhook"     -> WebhookFields
      [] kind = "pathItem"    -> IF version = 2 THEN PathItemFields2 ELSE PathItemFields3
      [] kind = "operation"   -> IF version = 2 THEN OperationFields2 ELSE OperationFields3
      [] kind = "response"    -> IF version = 2 THEN ResponseFields2 ELSE ResponseFields3
      [] kind = "requestBody" -> RequestFields
      [] kind = "parameter"   -> ParameterFields
      [] kind = "header"      -> HeaderFields
      [] kind = "mediaType"   -> MediaTypeFields
      [] kind = "callback"    -> CallbackFields
      [] kind = "schema"      -> SchemaFields
      [] OTHER                -> <<>>

\* Kinds whose function looks for a $ref, pushes itself as a parent, and has
\* a handler for after its children.
ReportsRef   == {"pathItem", "parameter", "header", "requestBody", "response", "schema",
                 "example", "link", "securityScheme", "callbackRef", "mapRef"}
PushesParent == {"pathItem", "operation", "parameter", "header", "mediaType",
                 "requestBody", "response", "schema"}
HasPost      == {"document", "pathItem", "operation", "requestBody", "response",
                 "callback", "schema"}
Handlers     == {"typedDocument", "document", "info", "externalDocs", "server", "tag", "path",
                 "pathItem", "operation", "parameter", "requestBody", "response", "schema",
                 "securityScheme", "header", "mediaType", "link", "callback", "example",
                 "ref", "mapRefs", "skipped", "post"}
HandlerOf(kind) == IF kind = "webhook" THEN "pathItem" ELSE kind

-------------------------------------------------------------------------------
(* The walk.                                                                 *)

Kind(n) == doc.kind[n]
Top     == stack[Len(stack)]
Below   == Front(stack)

\* The elements of a sequence at some of its places, in their order.
Chosen(s, places) ==
    LET upTo[i \in Nat] ==
            IF i = 0 THEN <<>>
            ELSE IF i \in places THEN Append(upTo[i - 1], s[i]) ELSE upTo[i - 1]
    IN  upTo[Len(s)]

\* The children of node n of d that its function will look at, with their fields.
Item(kid, f) == [child |-> kid.node, key |-> kid.key, field |-> f]
Todo(d, n) ==
    LET kids     == d.kids[n]
        fields   == Fields(d.version, d.kind[n])
        Items(f) == Chosen([i \in DOMAIN kids |-> Item(kids[i], f)],
                           {i \in DOMAIN kids : kids[i].at = f.at})
    IN  FlattenSeq([i \in DOMAIN fields |-> Items(fields[i])])

Answers(handler) == IF handler \in registered THEN {"Continue", "SkipChildren", "Stop"}
                                              ELSE {"none"}

-------------------------------------------------------------------------------
(* What a handler is told of where it is.  A state is cloned for each child  *)
(* and one of its fields is set or cleared; the others are those of the node *)
(* around it, however far up they were set.                                  *)

NoContext ==
    [path |-> <<>>, method |-> <<>>, status |-> <<>>, name |-> <<>>, component |-> FALSE]

ComponentSections == {"schemas", "responses", "parameters", "requestBodies", "headers",
                      "securitySchemes", "links", "callbacks", "callbackRefs", "examples",
                      "pathItems"}
InComponents(kind, at) == kind = "document" /\ at \in ComponentSections

\* A webhook's name and a callback's expression are path templates too.
SetsPath(at)         == at \in {"paths", "webhooks", "expressions"}
SetsMethod(at)       == at \in {"operation", "query", "additional"}
SetsStatus(kind, at) == kind = "operation" /\ at \in {"default", "codes"}

\* The items of a list, and the bodies of a callback's operations, are left with the
\* name of whatever around them has one.
SetsName(kind, at) ==
    \/ InComponents(kind, at) /\ at # "callbackRefs"
    \/ at \in {"headers", "content", "links", "examples", "callbacks", "properties", "$defs"}
ClearsName(kind, at) == kind = "schema" \/ at = "schema"

Context(wc, kind, item) ==
    LET at == item.field.at
    IN  [path      |-> IF SetsPath(at) THEN item.key ELSE wc.path,
         method    |-> IF SetsMethod(at) THEN item.key ELSE wc.method,
         status    |-> IF SetsStatus(kind, at) THEN item.key ELSE wc.status,
         name      |-> IF SetsName(kind, at) THEN item.key
                       ELSE IF ClearsName(kind, at) THEN <<>> ELSE wc.name,
         component |-> wc.component \/ InComponents(kind, at)]

-------------------------------------------------------------------------------
\* A handler is called with the parent on top of the stack, if it is registered.
Called(event, n, wc, answer) ==
    IF answer = "none" THEN <<>>
    ELSE <<[event |-> event, node |-> n, wc |-> wc, answer |-> answer, late |-> stopped,
            parent |-> IF parents = <<>> THEN "none" ELSE Last(parents),
            within |-> [i \in DOMAIN stack |-> stack[i].node]]>>

SchemaDepth(item) ==
    IF Kind(Top.node) = "schema" /\ Kind(item.child) = "schema" THEN Top.depth + 1 ELSE 0

\* Why a schema is not entered.
Skipped(n, depth) ==
    IF Kind(n) # "schema" THEN "none"
    ELSE IF depth > MaxSchemaDepth THEN "depth"
    ELSE IF n \in visiting THEN "cycle" ELSE "none"

\* walkSchema goes by the handler's answer, the other functions by w.stopped too.
GoesOn(n, answer) ==
    /\ answer \in {"none", "Continue"}
    /\ answer = "Continue" /\ Kind(n) # "schema" => ~stopped

Frame(n, depth, wc) == [node |-> n, depth |-> depth, wc |-> wc, todo |-> Todo(doc, n)]
Rest                == Below \o <<[Top EXCEPT !.todo = Tail(@)]>>

\* The typed document handler, then the generic one, unless the first stops.
VisitDocument ==
    /\ phase = "start"
    /\ \E typed \in Answers("typedDocument"), generic \in Answers("document") :
          /\ log' = Called("visit", "doc", NoContext, typed)
                    \o (IF typed = "Stop" THEN <<>> ELSE Called("visit", "doc", NoContext, generic))
          /\ stopped' = ("Stop" \in {typed, generic})
          /\ IF {typed, generic} \subseteq {"none", "Continue"}
             THEN phase' = "walking" /\ stack' = <<Frame("doc", 0, NoContext)>>
             ELSE phase' = "done" /\ UNCHANGED stack
    /\ UNCHANGED <<doc, registered, parents, visiting>>

\* What is left of a frame when a guarded field finds the walk stopped: the
\* function of the field's scope returns.
Later(todo) ==
    LET scope == Head(todo).field.scope
    IN  IF scope = "node" THEN <<>>
        ELSE Chosen(todo, {i \in DOMAIN todo : todo[i].field.scope # scope})

\* A guarded field ends its function once the walk is stopped.
Abandon ==
    /\ phase = "walking"
    /\ Top.todo # <<>>
    /\ Head(Top.todo).field.guarded /\ stopped
    /\ stack' = Below \o <<[Top EXCEPT !.todo = Later(@)]>>
    /\ UNCHANGED <<doc, registered, phase, parents, visiting, stopped, log>>

\* The answers of the handler of references to n.
RefAnswers(n) ==
    IF n \in doc.refs /\ Kind(n) \in ReportsRef /\ (Kind(n) = "mapRef" => "mapRefs" \in registered)
    THEN Answers("ref") ELSE {"none"}

\* The parents while n is walked.
Push(n, answer) ==
    IF Kind(n) \in PushesParent /\ GoesOn(n, answer) THEN Append(parents, n) ELSE parents

\* The next child: its reference, the schema guards, its handler, its own frame.
Visit ==
    /\ phase = "walking"
    /\ Top.todo # <<>>
    /\ LET item  == Head(Top.todo)
           n     == item.child
           depth == SchemaDepth(item)
           wc    == Context(Top.wc, Kind(Top.node), item)
           why   == Skipped(n, depth)
       IN  /\ ~(item.field.guarded /\ stopped)
           /\ \E ref \in RefAnswers(n) :
                \/ /\ ref = "Stop"
                   /\ log' = log \o Called("ref", n, wc, ref)
                   /\ stopped' = TRUE
                   /\ stack' = Rest
                   /\ UNCHANGED <<parents, visiting>>
                \/ /\ ref # "Stop" /\ why # "none"
                   /\ log' = log \o Called("ref", n, wc, ref)
                             \o Called("skipped", n, wc, IF "skipped" \in registered THEN why ELSE "none")
                   /\ stack' = Rest
                   /\ UNCHANGED <<parents, visiting, stopped>>
                \/ /\ ref # "Stop" /\ why = "none"
                   /\ \E answer \in Answers(HandlerOf(Kind(n))) :
                        /\ log' = log \o Called("ref", n, wc, ref) \o Called("visit", n, wc, answer)
                        /\ stopped' = (stopped \/ answer = "Stop")
                        /\ parents' = Push(n, answer)
                        /\ IF GoesOn(n, answer)
                           THEN /\ stack' = Append(Rest, Frame(n, depth, wc))
                                /\ visiting' = visiting \cup (IF Kind(n) = "schema" THEN {n} ELSE {})
                           ELSE stack' = Rest /\ UNCHANGED visiting
    /\ UNCHANGED <<doc, registered, phase>>

\* The post handler of n, if its children were all walked.
PostAnswer(n) ==
    IF Kind(n) \in HasPost /\ "post" \in registered /\ ~stopped THEN "post" ELSE "none"

\* Mutant: a schema stays marked when its function has returned.
LeaveMarked ==
    /\ phase = "walking"
    /\ Top.todo = <<>>
    /\ log' = log \o Called("post", Top.node, Top.wc, PostAnswer(Top.node))
    /\ parents' = IF Kind(Top.node) \in PushesParent THEN Front(parents) ELSE parents
    /\ stack' = Below
    /\ phase' = IF Below = <<>> THEN "done" ELSE phase
    /\ UNCHANGED <<doc, registered, stopped, visiting>>

\* Nothing left of a node: its post handler, then the deferred pop and delete.
Leave ==
    /\ phase = "walking"
    /\ Top.todo = <<>>
    /\ log' = log \o Called("post", Top.node, Top.wc, PostAnswer(Top.node))
    /\ parents' = IF Kind(Top.node) \in PushesParent THEN Front(parents) ELSE parents
    /\ visiting' = visiting \ {Top.node}
    /\ stack' = Below
    /\ phase' = IF Below = <<>> THEN "done" ELSE phase
    /\ UNCHANGED <<doc, registered, stopped>>

Init ==
    /\ \E walk \in Walks : doc = walk.doc /\ registered = walk.handlers
    /\ phase = "start"
    /\ stack = <<>> /\ parents = <<>> /\ visiting = {}
    /\ stopped = FALSE
    /\ log = <<>>

\* The walk has returned.
Done == phase = "done" /\ UNCHANGED vars

Next == VisitDocument \/ Visit \/ Abandon \/ Leave \/ Done

Spec == Init /\ [][Next]_vars

-------------------------------------------------------------------------------
(* Properties.                                                               *)

Nodes    == DOMAIN doc.kind
OnStack  == [i \in DOMAIN stack |-> stack[i].node]
Calls    == {log[i] : i \in DOMAIN log}

\* Type invariant: a walk has frames exactly while it runs, no frame deeper than
\* the limit, and only schemas are marked as being on the way.
TypeOK ==
    /\ phase \in {"start", "walking", "done"}
    /\ phase = "walking" <=> stack # <<>>
    /\ \A i \in DOMAIN stack : stack[i].node \in Nodes /\ stack[i].depth <= MaxSchemaDepth
    /\ visiting \subseteq {n \in Nodes : Kind(n) = "schema"}
    /\ stopped \in BOOLEAN

\* The parent a handler is told is the nearest enclosing node that the walker
\* tracks, whatever returned early before: every push has met its pop.
ParentIsNearest ==
    parents = Chosen(OnStack, {i \in DOMAIN stack : Kind(stack[i].node) \in PushesParent})

\* A schema is never walked inside itself; one is reported as a cycle only
\* where it encloses itself, and as too deep only below the limit, so that a
\* schema which is merely shared is walked at each of its places.
CyclesAreCut ==
    \A c \in Calls : Kind(c.node) = "schema" /\ c.event \in {"visit", "skipped"} =>
        LET around == ToSet(c.within)
            Deep   == Cardinality({i \in DOMAIN c.within : Kind(c.within[i]) = "schema"})
        IN  \/ c.event = "visit" /\ c.node \notin around /\ Deep <= MaxSchemaDepth
            \/ c.event = "skipped" /\ c.answer = "cycle" /\ c.node \in around
            \/ c.event = "skipped" /\ c.answer = "depth" /\ Deep > MaxSchemaDepth

\* Post handlers close what pre handlers opened, innermost first, each node
\* whose handler answered Continue exactly once; none for a node whose
\* children were skipped, and none after a Stop.
Walk == [doc |-> doc, handlers |-> registered]
Counts(walk, n) == LET kind == walk.doc.kind[n]
                   IN  kind \in HasPost \ {"document"} /\ HandlerOf(kind) \in walk.handlers
Opens(walk, c)  == /\ c.event = "visit" /\ c.answer = "Continue" /\ Counts(walk, c.node)
                   /\ c.late => walk.doc.kind[c.node] = "schema"
Closes(walk, c) == c.event = "post" /\ Counts(walk, c.node)
Nest(walk, nest, c) ==
    IF Opens(walk, c) THEN [nest EXCEPT !.open = Append(@, c.node)]
    ELSE IF ~Closes(walk, c) THEN nest
    ELSE IF nest.open # <<>> /\ Last(nest.open) = c.node THEN [nest EXCEPT !.open = Front(@)]
    ELSE [nest EXCEPT !.broken = TRUE]
Nested(walk, calls) ==
    LET after[i \in Nat] == IF i = 0 THEN [open |-> <<>>, broken |-> FALSE]
                            ELSE Nest(walk, after[i - 1], calls[i])
    IN  after[Len(calls)]
HandlersNest ==
    /\ \A c \in Calls : c.event = "post" => ~c.late
    /\ phase = "done" /\ "post" \in registered =>
           ~Nested(Walk, log).broken /\ (~stopped => Nested(Walk, log).open = <<>>)

\* What a handler is told of where it is agrees with the tree that is walked:
\* the parent it can ask for, and the post handlers that end what it began.
HandlersFollowTree == ParentIsNearest /\ HandlersNest

\* A caller that listens to everything and always answers Continue hears of
\* each child of each node it heard of, and of each reference in them, except
\* for the children the walker is known not to visit.
NothingMissed ==
    phase = "done" /\ registered = Handlers
      /\ (\A c \in Calls : c.answer \notin {"Stop", "SkipChildren"}) =>
        \A c \in Calls : c.event = "visit" =>
            \A i \in DOMAIN doc.kids[c.node] :
                LET kid   == doc.kids[c.node][i]
                    Heard(events) == \E d \in Calls : d.node = kid.node /\ d.event \in events
                IN  <<Kind(c.node), kid.at>> \notin Unwalked =>
                    /\ Heard({"ref", "visit", "skipped"})
                    /\ kid.node \in doc.refs => <<Kind(kid.node), "$ref">> \in Unwalked \/ Heard({"ref"})

\* Guards cut circles and nothing else: no schema is walked inside itself, and
\* no node is left out that the walker is not known to leave out.
EachNodeWalked == CyclesAreCut /\ NothingMissed

\* The handlers hear of the whole tree, and of nothing but the tree.
WalkFollowsTree == HandlersFollowTree /\ EachNodeWalked

\* After a Stop the walk does not get out of the operation, path item, callback
\* or component in which a handler answered it.
StopEndsOuterWalk ==
    \A i, j \in DOMAIN log :
        log[i].answer = "Stop" /\ i < j =>
            LET around == ToSet(log[j].within)
                at     == ToSet(log[i].within) \cup {log[i].node}
            IN  /\ {n \in at : Kind(n) \in {"path", "webhook", "pathItem", "operation", "callback"}}
                      \subseteq around
                /\ (at \ {"doc"}) \cap around # {}

\* "Stop stops the walk immediately. No more nodes will be visited."
\* The code does not keep it, so no run lists it: of the places a schema holds
\* others in, several are walked without asking whether the walk is stopped.
NothingAfterStop == \A c \in Calls : ~c.late

-------------------------------------------------------------------------------
(* What the theorems rest on.                                                *)

\* Each frame is a call for a node of the document, with some of its children
\* left to look at.
FrameInv ==
    /\ doc \in {walk.doc : walk \in Walks}
    /\ phase = "walking" <=> stack # <<>>
    /\ stopped \in BOOLEAN
    /\ phase = "start" => log = <<>> /\ ~stopped /\ parents = <<>> /\ visiting = {}
    /\ log \in Seq(Calls)
    /\ \A c \in Calls : c.node \in Nodes
    /\ stack \in Seq(Range(stack))
    /\ \A i \in DOMAIN stack :
           LET f == stack[i] IN
           /\ f = [node |-> f.node, depth |-> f.depth, wc |-> f.wc, todo |-> f.todo]
           /\ f.node \in Nodes /\ f.todo \in Seq(Range(Todo(doc, f.node)))

\* The schemas on the way are marked and each there once, one inside the other.
SchemaFrames == {i \in DOMAIN stack : Kind(stack[i].node) = "schema"}
GuardInv ==
    /\ visiting = {stack[i].node : i \in SchemaFrames}
    /\ \A i, j \in SchemaFrames : stack[i].node = stack[j].node => i = j
    /\ \A i \in SchemaFrames :
           /\ stack[i].depth \in 0..MaxSchemaDepth
           /\ Cardinality({j \in SchemaFrames : j <= i}) = stack[i].depth + 1
    /\ \A i \in SchemaFrames, j \in DOMAIN stack :
           i < j => j \in SchemaFrames \/ (j = Len(stack) /\ stack[j].todo = <<>>)

\* What was opened and not closed is on the stack, until a Stop.
NestInv ==
    /\ \A c \in Calls : c.event = "post" => ~c.late
    /\ "post" \in registered =>
           /\ ~Nested(Walk, log).broken
           /\ ~stopped => Nested(Walk, log).open
                            = Chosen(OnStack, {i \in DOMAIN stack : Counts(Walk, stack[i].node)})

\* Children that were not heard of yet are still to be looked at.
Listening == registered = Handlers /\ \A c \in Calls : c.answer \notin {"Stop", "SkipChildren"}
HeardOf(kid) ==
    /\ \E c \in Calls : c.node = kid.node /\ c.event \in {"ref", "visit", "skipped"}
    /\ kid.node \in doc.refs =>
           <<Kind(kid.node), "$ref">> \in Unwalked \/ \E c \in Calls : c.node = kid.node /\ c.event = "ref"
HeardInv ==
    Listening =>
        /\ ~stopped
        /\ \A c \in Calls : c.event = "visit" =>
               \A i \in DOMAIN doc.kids[c.node] :
                   LET kid == doc.kids[c.node][i] IN
                   <<Kind(c.node), kid.at>> \in Unwalked \/ HeardOf(kid)
                       \/ \E j \in DOMAIN stack : stack[j].node = c.node
                             /\ \E item \in Range(stack[j].todo) : item.child = kid.node

\* What groups others does so from the document down, and while one of those is
\* walked the ones around it have nothing left that a stopped walk looks at.
Outer     == DOMAIN Holders
Shut(f)   == f.guarded /\ f.scope = "node"
Shuts(t)  == \A item \in Range(t) : Shut(item.field)
OuterInv ==
    \A i \in DOMAIN stack :
        LET todo == stack[i].todo IN
        /\ stack[i].node = "doc" <=> i = 1
        /\ Kind(stack[i].node) = "operation" =>
               \A a, b \in DOMAIN todo : a <= b /\ todo[a].field.at = "callbacks" => Shut(todo[b].field)
        /\ Kind(stack[i].node) \in Outer =>
               \A j \in DOMAIN stack : j < i => Kind(stack[j].node) \in Outer /\ Shuts(stack[j].todo)

\* After a Stop nothing is looked at any more, or the walk has not left what groups
\* others around the node where a handler answered it.
StopInv ==
    \A c \in Calls : c.answer = "Stop" =>
        /\ stopped
        /\ \/ \A i \in DOMAIN stack : Shuts(stack[i].todo)
           \/ /\ Kind(c.node) \notin Outer /\ 2 \in DOMAIN c.within
              /\ \A i \in DOMAIN c.within :
                     i <= 2 \/ Kind(c.within[i]) \in Outer => i \in DOMAIN stack /\ stack[i].node = c.within[i]

\* The fields that no function looks at are among those that are left out, and
\* so are the references that none reports.
GapsIn(d) ==
    \A n \in DOMAIN d.kind :
        /\ \A i \in DOMAIN d.kids[n] :
               LET kid == d.kids[n][i] IN
               <<d.kind[n], kid.at>> \in Unwalked \/ \E f \in Range(Fields(d.version, d.kind[n])) : f.at = kid.at
        /\ n \in d.refs => <<d.kind[n], "$ref">> \in Unwalked \/ d.kind[n] \in ReportsRef
        /\ HandlerOf(d.kind[n]) \notin Handlers => n \in d.refs /\ d.kind[n] \in ReportsRef
GapsAreKnown == \A walk \in Walks : GapsIn(walk.doc)
===============================================================================
