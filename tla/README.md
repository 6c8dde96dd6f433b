# oastools in TLA+

oastools parses, validates, fixes, joins, converts, compares and generates from
OpenAPI documents; it is a Go library, a command line and an MCP server over the
same packages. This directory models the parts whose correctness depends on an
order of steps rather than on a rule per construct, checks them with TLC on
small instances, and proves the properties that matter most with TLAPS for every
value of the constants.

| module | models | used by |
|---|---|---|
| `SpecCache` | the MCP server's cache of parsed specifications | `CacheProofs` |
| `ResolveContract` | what a resolved input promises, with no cache | instantiated by `SpecCache` |
| `CacheProofs` | 12 theorems: 7 about the spec cache, 5 about the generated client's cache and tokens | |
| `SchemaJoin` | how the joiner merges schemas | `DocumentJoin` |
| `DocumentJoin` | a whole join: options, overlays, every other section, what the caller is told | `MCSchemaJoin`, `JoinProofs` |
| `JoinProofs` | 16 theorems: renames are followed, references keep their meaning, what is merged agrees, a whole join implements `SchemaJoin`, each name and each list holds what was asked, losers are named | |
| `RefResolver` | how the parser inlines `$ref` | `MCRefResolver`, `RefResolverProofs` |
| `RefResolverProofs` | 5 theorems: circularity marks, what a resolved document is | |
| `InductionLemmas` | lemmas: induction over numbers, recursive functions exist | the proofs about sequences and paths |
| `Overlay` | applying an overlay in place; what its actions promise, on trees | `MCOverlay` |
| `Traversals` | the places of a document, and which of them each tool visits | `DocumentTools`, `FieldTables` |
| `DocumentTools` | sequences of fixes, joins, conversions and validations | `MCDocumentTools`, `DocumentToolsProofs` |
| `DocumentToolsProofs` | 5 theorems: what a reference means through any of them, losses reported, what pruning leaves, verdicts | |
| `PlainTables`, `FieldTables` | the fields each decoder, marshaller, copy and comparison handles | `DocumentValues`, `DocumentChecks` |
| `DocumentValues` | a value read, copied, edited, compared and written | `MCDocumentValues`, `DocumentValuesProofs` |
| `DocumentValuesProofs` | 3 theorems: what a file holds is what was meant, copies stay apart, comparisons are exact | |
| `Walker` | one walk of a document, with its handlers and their contexts | `WalkQueries`, `WalkerProofs` |
| `WalkerProofs` | 5 theorems: frames, nesting of handlers, completeness, what a Stop ends | |
| `WalkQueries` | the walk commands and tools: queries over a walk, filters, groups, pages | `MCWalker` |
| `GeneratedClient` | the discovery cache and token refresh of generated clients | `CacheProofs` |
| `SchemaData`, `WireFormats` | data and what is looked up in a schema; how parameters travel | `RequestMatching`, `SchemaChecks` |
| `RequestMatching` | which template, operation, parameters and schemas apply to a request | `BuiltServer` |
| `SchemaChecks` | which data a schema lets through | `ServedRequests` |
| `BuiltServer` | a server made by the builder, and one request through it | `ServedRequests`, `BuiltServerProofs` |
| `ServedRequests` | what the HTTP validator finds in each part of a request, in a built server, and what a request means to say | `MCBuiltServer` |
| `BuiltServerProofs` | 3 theorems: registered handlers are reached, by the operation that judged, and what they write arrives | |
| `DocumentChecks` | what the structure check and the validator report | `DocumentRepairs`, `DocumentConversions` |
| `DocumentRepairs` | what the fixer repairs | `FrontEnds` |
| `DocumentConversions` | what the converter keeps, respells, loses and says | `FrontEnds` |
| `FrontEnds` | parse, validate, fix and convert, as commands, tools and calls | `MCFrontEnds` |
| `GenerationPlan` | what the code generator decides first: settings, Go names, the split over files | `Generator` |
| `Generator` | the generator's phases, and what the files of the package declare and mention | `MCGenerator` |
| `TypeSchemas` | Go types as schemas: names, the cache of types, reflection | `Builder` |
| `Builder` | a script of calls on a builder, and the documents it builds | `MCBuilder` |

The `MC*` modules define the small sets of the runs; every other constant is in
a `.cfg`. `SpecCache` and `GeneratedClient` are run as they are. `PROJECT.json` maps each definition to the lines it stands for. A
definition commented "Mutant" is a mistake the code could have made, kept to show
that a property notices it; no specification uses it.

## 1. Inventory

### MCP server: spec cache (`internal/mcpserver/input.go`) - modelled

State: `specCache.entries` under a mutex, each with the parse result, `insertAt`
(moved by every use) and `expiresAt` (never moved); `sweeperStarted`; the
goroutine of the sweeper with its context. Operations: `specInput.resolve`
(`makeCacheKey`, `get`, parse, `putWithTTL`), `startSweeper`, `sweep`. Tool
handlers call `resolve` concurrently; files and URLs change meanwhile. Hard: the
file is stat'ed for the key, looked up and read in three steps with no lock
between; several calls may store at a full cache; ticker and cancellation are
ready at once. Correct when a caller cannot tell that there is a cache except by
the age of what a URL served, the cache stays within its size, the least
recently used entry goes first, and one sweeper exists and stops.

### Joiner: schemas (`joiner/`) - partly modelled

State: the joined document's schemas, `renameScope` (renames per document), the
deferred collisions of deduplicate-or-rename, and the origin of each schema.
Operations: merge a document's schemas under one of eight strategies or a
caller's handler, rename left or right, collapse renames that were not needed,
rewrite references per document, semantic deduplication. Hard: Go maps give the
schemas in any order, names that the template makes collide with names that
documents spell, a schema may be moved several times, and references are
compared while they are still spelled in the names of their own documents.
Correct when every reference of the result finds the schema that stands for the
one its document meant.

### Joiner: everything else (`joiner/`, the join command and tool) - partly modelled

State: the joined document, `JoinResult.origins` (which document wrote each
entry), its warnings and, for a report, its events. Operations: turn options, a
configuration, flags or arguments into a strategy per kind of entry, refuse what
cannot be joined, apply overlays to all documents, to one and to the result,
merge every section by `mergePathsMap` or `mergeMap`, merge the lists. Hard: an
entry changes hands in a dozen places, each of which must note it; callbacks are
two maps under one set of names; a collision may be settled by the handler, by
the strategy of its kind or by one for all. Correct when what was asked for
a name stands under it, or the call is refused, and whoever is told of a
collision is told the right documents.

### Parser: reference resolver (`parser/resolver.go`) - partly modelled

State: the tree of maps being rewritten, `resolving`, `documents`,
`hasCircularRefs`. Operations: one recursion, run once sharing the maps it
inlines and, if that meets a circle or an error, again on a fresh tree copying
them. Hard: the tree is traversed in random order while it is rewritten, so that
a target is inlined before, while or after its own references are. Correct when
each inlined reference has the content its target has in the files, only
circular references are left, they are reported, and no map contains itself.

### Overlay and JSONPath (`overlay/`, `internal/jsonpath/`) - partly modelled

State: a deep copy of the document and the overlay's actions. `ApplyParsed`
applies the actions in order; `mergeDeep` stores update values by reference;
`DryRun` previews every action against the copy that none has changed. Correct
when an action changes what its target matches and nothing else.

### Fixer (`fixer/`), converter (`converter/`), validator (`validator/`) - partly modelled

State: the document and a list of fixes or issues. The fixer's pipeline stubs
missing references, renames invalid names, prunes schemas and paths, in an order
that is part of its correctness; the converter builds a document of another
version object by object; the validator visits the references it knows of. Each
has traversals of its own, a function per kind of object, so the hard part is
that they agree: a reference that one tool rewrites must be where the next one
looks for it. Correct when a reference means the same component after any
sequence of tools, what is dropped is reported, and the validator says whether
what is left resolves.

### Parser: reading, copying, comparing, writing (`parser/`) - partly modelled

State: the document, the map it was parsed into, the order of its source. Every
object has decoders (struct tags, `UnmarshalJSON`, `decodeFromMap`), marshallers
(tags, a map built key by key, ordered), `DeepCopyInto` and `Equals`; beside them
the differ and the joiner's comparison and hash. Correct when all of them handle
the same fields in the same way.

### Walker (`walker/`) - partly modelled

State: the walk state (path template, method, status, name, whether below a
component), the parent stack shared by cloned states, the schemas on the way, the
stop flag. Handlers answer Continue, SkipChildren or Stop. The walk commands and
tools register handlers that collect what they are told and then filter, group
and page it. Correct when a stop ends the walk, the parent stack is what encloses
the node, every node is visited once unless skipped, cycles end, and a query is
answered with the nodes it asks for, once each, with the context they have.

### Generated clients (`generator/oidc_discovery.go`, `generator/oauth2_flows.go`) - partly modelled

The only locks in what the generator writes: a configuration cached behind a
read-write lock with a second check under the write lock, and a token that each
request may refresh behind a mutex. Correct when cleared configurations stay
away, nobody fetches or refreshes what another just did, and every call ends.

### Built servers and the HTTP validator (`builder/server*.go`, `httpvalidator/`) - partly modelled

State: the document under construction, the ids seen, the handlers by path and
method; of a built server the routes, the validator and its two switches; of a
request its body, which can be read once. Operations: `AddOperation`, `Handle`,
`BuildServer`, then per request recovery, validation (path, query, headers,
cookies, body), router, dispatcher, handler, answer. Hard: seven parameter styles
in four places, keywords that depend on one another and on Go types, a validator
and a router that match paths on their own, registrations in any order. Correct
when a request passes exactly if the values it means conform, and reaches the
handler registered for it with those values.

### Builder (`builder/`) - partly modelled

State: the document under construction, the cache of types and the names they
have, the operation ids seen, the errors gathered, the aliases of schemas that
deduplication removed. Operations: options of `New`, `AddOperation`,
`AddWebhook`, `AddResponse`, `AddParameter`, `RegisterType`, `DeduplicateSchemas`,
`BuildOAS2`, `BuildOAS3` and so on, in any order and more than once. Hard: types
refer to each other and to themselves, so a name must be known before its schema
is; several types may want one name; a call never fails, its error shows in
`Build`. Correct when each type met is described under a name of its own, each
operation is what its options say, and a document comes out exactly when nothing
that was asked for is impossible.

### Generator (`generator/`, the generate command) - partly modelled

State: the settings, the split plan, the Go names taken so far, the files of the
result. One call runs a dozen phases, each of which walks the document on
its own and takes names by rules of its own; past a limit the types and operations
are spread over files by a plan made in yet another walk. Correct when the package
declares what the document and the options owe once, mentions nothing that it does
not declare, enforces the security that is asked for, and is the same every time.

### Commands and tools (`cmd/oastools/commands/`, `internal/mcpserver/tools_*.go`) - partly modelled

State: the user's file. parse, validate, fix and convert each read it, call one
package, print, and may write it again; the MCP server's tools do the same for an
agent. Hard: the structure check, the validator's five passes, the fixer and the
converter each know the rules of four versions of the specification on their
own, with traversals of their own. Correct when validate reports every mistake
and nothing else, what fix is meant for is gone after it, and a conversion gives
a valid document or says what is wrong.

### Left out

The bodies of generated functions, the tools that overlay, compare and generate,
error types, code generation, test harnesses. Each is listed in `PROJECT.json` with
its reason; section 16 says what stops a model of it.

### How the parts meet

Every package starts from a `parser.ParseResult` and returns a document; none
keeps one between calls except the spec cache, which gives the same
`*ParseResult` to every handler that hits it. The joiner, the fixer and the
converter each rewrite references, with code of their own. Overlays run before
and after a join or a conversion. The only concurrency inside the repository is
in the MCP server, the pattern cache, pools and generated clients.

## 2. `SpecCache` and `ResolveContract`

`calls[p]` is one `resolve` call: `Begin` validates the input and computes the
key (a file's key carries its modification time), `GetHit`/`GetMiss` are
`specCacheStore.get`, `Read`/`ReadFails` the parse, `Put` is `putWithTTL`.
Between any two of them other calls, the sweeper and the world may act. Fields
named `since`, `at`, `putAt`, `usedAt` are history. `version[s]` stands for both
the content and the modification time of a file, so a rewrite that keeps the
modification time is outside the model. `StartSweeper`, `TickerFires`, `Sweep`,
`Return` and `Exit` are `startSweeper` and its goroutine, with the deferred
`sweeperStarted.Store(false)` as a step of its own. The world (`Tick`, `Change`,
`Vanish`) is external.

`ResolveContract` has no cache: a file's answer is its content at some moment of
the call, a URL's is anything it has served, an inline document's is itself.
`SpecCache` implements it under `Contract == INSTANCE ... WITH request <- ...`.
The contract implies `FileResultsCurrent` (a file's answer is no older than its
call), which no run repeats; it is proved by itself, for any number of calls.

| run | bounds | shows |
|---|---|---|
| `cache` | 1 call at a time, 1 file and 1 URL with 1 change each, 1 inline document that is too long, 2 entries, 2 ticks, TTL 1, 1 context, 1 goroutine | all properties below |

`HitsWithinTTL`, `EvictsLeastRecentlyUsed`, `ImplementsContract` and, together as
`SweepersSweepAndStop`, `ExpiredEntriesGo` and `CancelledSweepersStop`. A file that changes once gives two
keys and the URL a third for two entries, so that eviction has to choose; the file
may change between the `os.Stat` and the read, so that an entry is stored under an
outdated key; a use between two ticks would let a moved deadline show. One call at
a time is what TLC affords beside the liveness properties. Several calls at once,
which miss on one key, hit what another stored or store at the capacity together,
are covered by the theorems of section 14, which state the three safety properties
(and `OneSweeper`, that no two goroutines sweep at once) for any number of calls,
sources and goroutines; instances with two calls were also explored while the
invariants were looked for. `MaxClock` and `MaxVersion` bound time and changes, so
the system stops when they are used up: the run does not check deadlock.

Fairness: a goroutine that can go on does (weak fairness of `TickerFires`,
`Sweep`, `Exit`). `Return` is strongly fair because Go's `select` picks among
ready cases at random, so that a ticker that keeps firing does not hide
`ctx.Done` for ever. Nothing is assumed of calls, of time or of the world.

## 3. `SchemaJoin` and `DocumentJoin`

An object is a schema: the one document `doc` wrote under `name`, or the one a
handler made when that schema collided. It has a shape (all that is not a
reference) and the names it refers to; a path item per document refers to all of
its schemas. `Insert` and `Collide` are the body of the loop in `mergeSchemas`,
for whichever schema the map gives next; `RenameRight`, `RenameLeft`,
`RenameAndDefer`, `KeepLeft`, `KeepRight`, `KeepCustom` and `Refuse` are what
strategies and handlers do. `EndMerge`, `Drop` and `EndCollapse` are collapse.go,
`RewriteDocument` and `RewriteUnowned` are `renameScope.rewrite`, `Deduplicate`
is the semantic deduplication. `meant` is history: the object that now stands for
each one merged.

`DocumentJoin` extends `SchemaJoin`: `JoinSchema`, `EndDocument` and
`FinishSchemas` take its actions at their place in the order of the sections. Of
every other entry only the document that wrote it counts, so its value is that
document. `Effectual` is what `JoinWithOptions` and the front make of the
strategies; `Refused` and `Start` are the checks before a join, overlays
included; `InsertEntry`, `Unheard` and `Answered` are the loops of `mergeMap`,
`mergePathsMap` and the webhooks, `RefuseForms` is `mergeAllCallbacks`,
`ListsWith` the tags, servers, requirements and schemes, `Deliver` the overlay on
the result. The handler of schemas is `HandlerAnswers`, that of the rest comes
with the call. `answered` is history. `EntriesAsAsked` (names) and
`ListsAsAsked` (tags, servers and the like), together `DeliveredAsAsked`, compare
the result with definitions that look at all documents at once (`Stands`,
`ListsMerged`). What strategy a kind of entry was asked to go by is `Wanted`, from
what joiner/doc.go says of defaults and not from `Effectual`. One case is excepted
by name, `DefaultPassedOver`: a default strategy given to `JoinWithOptions` without
one for the kind (section 15).

| run | bounds | shows |
|---|---|---|
| `join_schemas` | 3 documents of 1 to 3 schemas; rename-left and deduplicate-or-rename with a prefix for all, semantic deduplication and a handler that may supply schemas; the accepting strategies and rename-right with a handler that may answer anything, one template name for all | `RenamesFollowSchemas`, `ReferencesKeepTheirMeaning`, `MergedSchemasAgree` |
| the same run | 3 documents with one schema and: every other section in two or three of them, by every strategy and every answer, heard for all types or for two; callbacks in two forms; every front with and without each strategy; versions, hosts, unnamed and broken documents; lists with repeated names; overlays that add or remove a path | `DeliveredAsAsked`, `LosersAreNamed` |

Two documents make one collision; the third is what meets a name that was
already generated, moved or deferred. Two schemas with a reference from one to
the other, to itself or to none are what the comparison can tell apart; the
schemas without constraints are those that equal nothing. Some documents spell
`A_2`, the very name the template makes of `A` for the second document.

What the abstraction loses: the alphabet does not break ties between canonical
names (any may win), references go to whole schemas, and an equality that
semantic deduplication finds between references as they are spelled is taken as
it is.

`HandlerAnswers` says for each strategy what a handler may answer: anything, but
under rename-left and deduplicate-or-rename, where, as in the proofs,
`HandlersRespectStrategy` excludes the answers that undo the strategy's own
bookkeeping: "rename" under rename-left, and the accepting answers under
deduplicate-or-rename. With those TLC finds lost references; nothing in the
repository says what they should do, so they are recorded as hazards.

## 4. `RefResolver`

The heap maps addresses to nodes; an address is the file a map was read from and
the keys to it, extended when content is copied further down. A stack frame is a
call of `resolveRefsRecursive`: the reference it resolves, and the nodes its loop
has still to visit, in any order. `Inline`, `LeaveCircular`, `CannotResolve`,
`Descend`, `TooDeep` and `Return` are the paths through that function; `Shared`
and `Deep` are its two ways to copy a target's keys; `Fallback` is the second
pass of `resolveRefsInMap`. `meant` is history: where a node was written.

A subtle case is a reference inside its own target. The copying pass then copies
the value that holds the reference while the copy is being made, with whichever
keys the loop has already written: `Deep` takes every possibility.

| run | inputs | shows |
|---|---|---|
| `resolver_refs` | documents of 2 and 3 schemas with self, mutual, nested and whole-document references, shared targets, rings of two files, missing and scalar targets; depth 15, 2 external files | `ResolvedAsDocumented` (`InlinedAsWritten` and `OnlyCircularRefsRemain`), `NoPointerCycles` |

Circles of one, two and three schemas, a target met twice, a reference nested in
its target and a ring through two files are the situations the recursion
distinguishes; larger documents repeat them. The depth limit (100 in the code)
is 15 so that the copying pass can reach it: `TooDeep` fires, and
`NoPointerCycles` holds of what is left. In `resolver_refs` no reference leads to
another reference or past one and no external file uses `#/...` (`IsDirect`);
section 15 says what happens otherwise. The runs of sections 3 and
4 check deadlock: their final states stutter.

Not modelled: HTTP references and the TTL of their cache, relative URLs, base
directory checks, JSON Pointer escapes, array indices, source maps.

## 5. `Overlay`

A map is an identity, a slice a backing array with a length, and `TreeOf` is what
a reader of the document sees. The steps are the calls of the traversals that
`applyAction` starts: `Get` for the matches, `Modify`, the recursive descent and
`Remove`, with the function they apply run at each slot; which key a loop takes
next is Go's choice. A change a step makes is seen by what comes later, because
the values are shared. `expected` is history: the tree that the actions applied
so far promise, worked out on trees (`Result`), where nothing is shared.

Run `overlay`: every kind of target (child, index, negative index, wildcard,
filter, recursive descent, root, none) with every kind of update and removal
alone, and pairs whose first action stores its update in one place. 6 levels of
recursive descent, more than the documents have. Property: `AppliedAsWritten`. What happens when one update is stored in several places
is in section 15. Overlays are taken to be validated, filters are an equality
with a scalar, `Set` has no caller, and the dry run is left out: it previews
every action against the unmodified copy by design (apply.go:119).

## 6. `Traversals` and `DocumentTools`

A place is a path of fields from the document down; `Traversals` has, for each
tool, the fields each of its traversal functions follows. `DocumentTools` keeps
one reference at one place, and the components of the section it points into:
what a tool does to a reference depends on its place alone, so one reference,
with every place tried, stands for all. The actions are the steps of
`applyFixPipeline`, the joiner's rename of a colliding schema, the three
directions of conversion and the validator, in any sequence.

Run `doc_tools`: every place of versions 2.0, 3.0, 3.1 and 3.2 up to seven steps
deep, three tools one after another. Schemas are taken apart in the pool and in
one place outside it, since every traversal uses one function for all schemas; a
few places take every spelling of the name, a neighbour that already has the
clean name, an unused host, an empty path item. Three tools are a fix, then a
join or a conversion, then a validation; none of them keeps state between calls.

Every tool passes over some places. `Gaps` lists them as sets of fields, and no
entry can be left out: without any one of them TLC finds a violation. That nothing
else is passed over, at any depth, is proved (section 14).

| tool | passes over | where |
|---|---|---|
| stub | `mediaTypes`, item and nested encodings; a percent-encoded reference is taken for missing | `fixer/refs.go`, `stub_missing_refs.go:80` |
| rename | `mediaTypes`, additional operations, encodings, item schemas | `fixer/oas3.go:158` |
| prune | `mediaTypes`, item schemas, nested encodings; a mapping value that is a bare name outside the pool | `fixer/prune.go:70` |
| join | query and additional operations; percent-encoded references | `joiner/rewriter.go:497` |
| to 3.x | a response that is itself a reference | `converter/helpers.go:239` |
| to 2.0 | responses, path items and bodies that are references; a reference to a header in a percent-encoded spelling, which is not inlined (`converter/helpers.go:217`); the sections 2.0 lacks; encodings; item schemas of default responses | `converter/` |
| validate | content of parameters and headers, callbacks, `pathItems`, `mediaTypes`, encodings, item schemas, discriminator targets, a webhook's own parameters, percent-encoded references | `validator/refs.go:428` |

Once a tool has met what it passes over, `trusted` is false and nothing is
claimed any more, except where a conversion loses a reference and reports it.
Left out: what section 11 has instead (the fixes that change no reference, what a
conversion does to other fields), a dry run's stubs (it skips them,
pipeline.go:22), a mapping that names two spellings of one component. Fixing twice is not fixing
once: a stub made in the first pass may be renamed in the second. Two details
follow the code rather than what one expects: a body parameter that is a
reference stays a parameter in 3.x, and of several media types the one kept in
2.0 is the first in map order.

## 7. `FieldTables` and `DocumentValues`

`FieldTables`, and `PlainTables` for the objects that hold neither a schema nor a
reference (info, tags, servers, security schemes, examples, links, XML and so
on), are read off the code: for each object, the fields that its struct tags, `UnmarshalJSON`, `decodeFromMap`, `MarshalJSON`, `DeepCopyInto`, `Equals`,
the differ, `compareDeep` and `hashSchema` handle. `DocumentValues` keeps one
value at one place, held by the file, by the document and by a copy of it, and
lets any sequence of reads, edits, copies, adoptions of the copy and writes act
on it. `meant` is what each would hold if nothing were lost.

The values are chosen for what the code tells apart: two objects that differ in
a plain field (`A`, `B`) or in an extension (`X`), references, tuples, entries
without a value, an empty list, booleans as bare values and as `BoolForm`. The
routes in are the struct tags, the JSON text and the map that references were
resolved in; those out are JSON, YAML and the order of the source.

Run `values`: every field of every kind of object under one parent of that kind
(two for schemas, links, path items and media types), with every value, in 2.0, 3.0 and
3.2, one edit at each place and two at four of them. What a read, a copy or a
write does depends on the value it gets and not on how it came about, so one
edit reaches every pair of values; two of them tell replacing from changing in
place. A read is always possible: there is no final state.

`Known` lists what is lost, each entry needed:
- `null` in `Operation.responses` becomes a blank response when tags or JSON are
  read, and disappears when the map is (decode_helpers.go:143 says "all three
  paths must agree"); a field of any type that is `null` is lost by all three;
- `security: []`, which overrides the document's requirements with none, is
  left out of YAML: `omitempty` takes it for empty;
- a write in the order of the source writes the map as parsed, whatever the
  document has become ("Minimizing diffs when editing and re-serializing specs",
  ordered_marshal.go);
- a copy drops entries without a value, except those of `paths`, and shares
  tuples with its original (parser.go:207-216: "modify a parsed document without
  affecting the original");
- `Equals` takes absent and empty `security` for the same.

`Overlooked` lists what the differ does not report: the components it has no
comparison for, parameters of a path item, query and additional operations,
callbacks, security of an operation, content, headers' schemas, responses'
schemas in 2.0, `patternProperties`, `$defs`, encodings, item schemas,
discriminator mappings, most of a security scheme, a link's parameters, body and server, contact and license, variables
and names of servers, the newer fields of tags, the plain fields of path items
and media types, and the difference of two values that have no field it compares
(`Fieldless`: a reference, a boolean schema, a blank response; it reads neither
`Ref` nor the boolean); `doc.go:20` says of the simple mode that it
"Reports all semantic differences". It reports as a change what is only spelled
differently, a bare boolean and a `BoolForm`. It dereferences entries without a
value, so they are outside its property. Severities are left out (a simple
difference has severity 0, which is `SeverityError`; that a limit is removed is
never reported).

## 8. `Walker` and `WalkQueries`

The document is a graph of typed nodes, the Go stack a sequence of frames with
the children each function has still to look at, in the code's order; a frame's
function tests `stopped` before some of them, and `Abandon` is the return it
then takes. Handlers are any of four sets, and answer Continue, SkipChildren or
Stop at each call. `log` is history.

Run `walker`: nine small documents that together use every field, shared and
recursive schemas, a depth limit of 2 that one document exceeds. `Unwalked` has
what the walker does not visit: the `$ref` and the parameters of a webhook's
path item, encodings and item schemas, `components.mediaTypes` (deep_dive.md:848
lists it as supported), servers of path items and operations, `externalDocs` of
tags and schemas. Not modelled: the pool contexts come from, and handlers that
change the document.

A frame carries the context as the walk functions clone and set it. It goes
down a document and only some fields are set or cleared at each step, so that
a node may be reported with what belongs to something around it; who filters by
path, method or status then gets the wrong rows. `WalkQueries` is what reads the
contexts: each `walk` command of the CLI and each `walk_*` tool of the MCP server
is a query, `Walking` the steps of its one walk, and `WalkCommand` and `WalkTool`
what the handler does once the walk is over: collect, filter (`Matches`,
`MatchPath`, `MatchFilter`, each as the front end that uses it writes it), list
or group, sort, cut out a page. A tool's client asks for page after page until
one is empty, and each call walks the document again, `told` being what it has
been given so far. Groups come out of a map: before sorting they are in any
order. A text is a sequence of parts (the segments of a path, the characters of a
status code), enough to tell every pattern from every other that a filter tells
apart.

`WalkFollowsTree` is `HandlersFollowTree` (where a handler is told it is) and
`EachNodeWalked` (of what it hears); `StopEndsOuterWalk` says what a stop ends.
`EveryRowOnce` compares all that was told with the nodes that the query asks for,
whose path, method, status and name are read off the way to each node in the
document (`Meaning`), not from the walk. The code departs from it in eight ways,
which `Misread` names and each of which a query or a document of the run shows:
`**` in a command's path, patterns in a name, the case of a scheme's name, the
extensions a tool cannot express, nodes without a path, the method of a
callback's parameters, what the tool for paths lists besides paths, and what the
walker does not visit. Left one out of `Misread`, TLC finds the row.

The run asks more than a thousand queries of two documents, `Shop` (3.x, with a
callback, a webhook and components) and `Store` (2.0): every filter alone, by
values of either case, patterns, broken patterns and all forms of extension
filters; some pairs of filters; each way to group, with and without detail and
resolving. A page has at most 3 rows, 2 with detail, or the 1 or 4 (9 cut to the
limit) that was asked for, so that most answers take several. Not modelled: rendering and output formats, the totals
next to a page, parsing and resolving the document, offsets that overflow.

## 9. `GeneratedClient`

One module for the two lock protocols in generated text. Threads call
`GetConfiguration`, `ClearCache` and the token's request editor; answers may be
lost, the provider may rotate its refresh tokens or leave them out. Run
`generated_client`: two threads, 4 units of time, TTLs 0 and 2, lifetimes 0 and
1, 2 clears, 3 tokens: a token expires during a request, and a clear falls into
a fetch, between its two checks and after it. `NothingSpentIsUsed` is
`ClearForgets` for configurations and `RedeemedOnce` for refresh tokens.

Fairness: `Acquire` is strongly fair, since Go's mutexes hand over to a waiting
goroutine in the end, and `Proceed` weakly, since an answer or the client's 30
second timeout comes. With these `CallsEnd`. A caller waits for the lock whether
or not its context is done. A client whose answer was lost after the provider
rotated its token can never refresh again; nothing in the text says otherwise.

## 10. `BuiltServer`

`AddOperation`, `Handle` and `BuildServer` run a script of calls on the builder
(`made` counts those made);
`Send` is a client that encodes what it means in the styles the document gives;
`Enter`, the five `Validate...` steps and `Judge` are the validation layer,
`Route`, `Dispatch`, `Run` and `Recover` the others. `SetSwitches` writes the two
public fields of the validator, which `ServerResult` exposes, while a request is
being judged. `WireFormats` has both directions of every style, `SchemaChecks`
both what the code tests and what the keywords mean by their own definitions.
What one of the five parts finds is a constant of `BuiltServer` (`PartOf`): which
operation judges a request, which handler gets it and what the client is sent do
not depend on it, so the theorems hold for any. `ServedRequests` defines it as the
code does (`Part`), and the run checks that. `TextRank` is
the order Go's string comparison gives to segments.

Run `built_server`: about 330 setups. Every keyword against every kind of datum
as a JSON body; every style, exploded or not, in its place, with every kind of
value, and texts that hold the separators; overlapping templates, spellings of
methods, operations and handlers registered apart or after the server was built;
typed handlers with every kind of answer, net/http handlers with writes in
several orders, panics with and without recovery; two settings of the switches
during one request. Requests do not meet except at the switches, so one at a time
is enough.

`JudgesByMeaning` excepts what `Delicate`, `Carried` and `Legible` describe, each
part needed: a value that its style cannot carry (a separator inside an item, an
empty list), a text that also spells a value of another type, and keywords the
validator treats otherwise than they are defined (an integer enumeration read from
Go never equals a number of a JSON body). Fairness: a request runs in a goroutine of its own, so that it does
not stay for ever before one of its steps. Not modelled: `ValidateResponse` and the
testing helpers. How types become schemas is in section 13.

## 11. `DocumentChecks`, `DocumentRepairs`, `DocumentConversions`, `FrontEnds`

A document is an ordinary one with a single peculiarity: a field, at the end of a
path from the document down, and what is odd about it ("missing", "malformed",
"used" although the version may lack it, and some forty more), or an alias where
the object should be. `DocumentChecks` has the parser's structure check and the
passes of the validator, one operator per function of the code, and for each pass
the fields its traversal follows. `DocumentRepairs` is the part of the fixer's
pipeline that follows no reference, `DocumentConversions` the four directions of
conversion: what each object's function copies, what it respells, what it reports
and how gravely. In `FrontEnds` a user runs commands on the file: `HandleParse`,
`HandleValidate`, `HandleFix`, `HandleConvert` with their flags, the server's
three tools, and a program that calls `FixWithOptions`. `last` is what the command
was given, did and said.

What is right is stated apart from the code, in `Fits`, `Permitted`, `Applies`
and `Wrong`: the versions that have each field, and what they allow, from the
version tables of section 6. The properties, the first two together as
`FoundAndFixed` and the others as `ConvertedWithoutHarm`:

- `ValidateIsRight`: every mistake is reported wherever it is, and nothing else.
- `FixedIsValid`: what validate reported before and the fix was enabled for is
  reported no more.
- `ConversionsSpeak`: what a conversion within 3.x or up from 2.0 loses, or keeps
  where the new version has no such thing, comes with an issue `--strict`
  refuses.
- `ConvertedIsValid`: a valid document converted to 2.0 with nothing said is
  valid.

Run `front_ends`: every field of every kind of object with every peculiarity the
code tells apart, in 2.0, 3.0, 3.1 and 3.2, at every place up to eight steps deep
where the traversals differ (schemas are taken apart in the pool and in one
parameter, encodings in one body: each traversal has one function for them).
One command suffices to compare a command with the rules; two are run on what a
fix is meant for or a conversion respells (`Narrow`), so that a repaired or
converted document meets the next command. The lists are the places that each
command is known to get wrong; everywhere else the properties hold.

| list | what it has |
|---|---|
| `UncheckedPlaces` | schemas under keywords `validateNestedSchemas` does not follow (schema.go:289: `patternProperties`, `prefixItems`, `if` and so on); in 2.0, all schemas outside `definitions`; request bodies inside callbacks (schema_traversal.go:41 leaves them to a pass that does not go there); parameters' names, places and schemas in path items, in `components` and in callbacks; the media types of everything but request bodies; servers that are not the document's; security requirements of webhooks and `pathItems`; descriptions of responses in operations; the device flow's addresses; fields of 3.1 in 3.0 |
| `UnfoundedPlaces` | an alias among `components.responses`, or a response of 3.2, must have a description (oas3.go:311, oas2.go:252) |
| `UnrepairedPlaces` | CSV enums in headers, callbacks, webhooks, path items' parameters, query operations and encodings, and those that mix texts with and without commas (enum_csv.go:135, 301); identifiers in `pathItems` (operationid.go:32); `required` in webhooks (pathparam_required.go:60) |
| `UnspokenPlaces` | down to 3.0, everything 3.1 introduced; the boolean `exclusiveMinimum` and, where it is not looked for, `nullable` kept after 3.0; fields of 3.2 in callbacks, default responses and encodings' headers (oas32_features.go:200); 2.0's `collectionFormat` of nested items, `schemes` of operations, examples of responses and items of headers, and a 2.0 response that is an alias, whose reference is dropped (helpers.go:238) |
| `InvalidPlaces` | boolean schemas, the contents of `prefixItems`, missing responses and aliased security schemes, which 2.0 does not have |

What 2.0 has no place for is dropped without a word more often than not
(`xml`, `examples`, `servers` of operations, the references of aliased responses,
bodies and security schemes, and so on), so that `ConversionsSpeak` is about the
other targets.

What the abstraction loses: two peculiarities never meet, except identifiers that
two operations share and query strings beside query parameters; warnings, strict
validation and texts; in `oas32.go:222` the rule for `defaultMapping` speaks only
of declared properties, which is modelled as it is. These modules have no
theorem: they are tables that TLC enumerates.

## 12. `GenerationPlan` and `Generator`

A file is kept as the names it declares and the names it mentions: that is what
the phases have to agree about, and what the Go compiler would complain of.
`GenerationPlan` has the settings (`SettingsFromFile` and `SettingsFromInput` are
the two ways through `HandleGenerate`), the method names, and the splitter:
`Planned` is its walk, `GroupByTag`, `GroupByPathPrefix` and `GroupAlphabetically`
its three ways to group, `BuildFileGroups` what goes where. `Generator` has one
action per phase of `GenerateParsed`, the command around it, and `Write`, which
puts files of one name over each other. Whatever the code does by ranging over a
map is any order, or any of those that share a name: which media type of a body or
a reply each function picks (`BodyTypes`, `Results`, `Replies`, one choice per
call), which of two OIDC providers gives the discovery file its address, in which
order a requirement's schemes are written. `Clock` is the time the README bears.
The binder takes a type from a body's content as well, but its template never
writes it. `Again` is a user who runs the same command a second time.

What is owed is stated apart from the phases (`Owed`): per schema, operation and
security scheme, the names that the options ask for. `NamesApart`, `FilesApart`
and `PlanKeepsAll` name what the generator does not look after: two things that
want one Go name, two groups that get one file, a file the go tool leaves out, an
operation the splitter does not know.

Run `generator`: twenty-one documents, one for each way in which names, groups,
contents and requirements can meet, in 2.0, 3.0 and 3.2, under sixteen sets of
flags, through three doors, each twice. A limit of a few operations makes the splitter work. The
system stops when both runs are over, so deadlock is not checked.

- `PackageIsWhole`: `DeclaresAsOwed` (each name that is owed, once, and no other),
  `NothingUndeclared` (even where names clash) and `ReadmeIsTrue`.
- `ClashesAreSettledOnce`: of the operations with one method name the interface,
  responses, binder, router and stubs all choose the same (`ServerFilesAgree`); the
  client method and the request type of a name are declared once, except in a
  package that is not split (`DeclaredOnce`, `WrittenForEach`; section 15); and the
  user hears of what is left out, and of nothing else but endpoints without TLS
  (`SkippedIsReported`, `InsecureEndpoints`).
- `EnforcedAsAsked`: the verdict of the generated `ValidateOperation`, asked by the
  operation's id or by its method name, is the document's, for every choice of
  schemes and scopes a caller may have. Excepted are the calls that find no entry
  (`NoEntryFor`) and requirements that name several schemes (section 15).
- `SameCommandSamePackage`: the doors lead to the same settings (`DoorsAgree`), and a
  second run writes the same files but for the date of the README (`Repeatable`).
  That holds where names do not clash and no choice is left to the order of a map:
  `OneMediaType`, `OneSchemeEach` and `OneProvider`, each needed.

Not modelled: the Go type that is written for a schema, the bodies of functions
(but for those of section 9), enum constants, layout.

## 13. `TypeSchemas` and `Builder`

`Types` tells of each type what `reflect` would; `NameFor` is what `schemaName`
makes of it under the naming options, `Generate` the reflection with its cache and
its mark for types under way. In `Builder` a program
makes a script of calls. `AddOperation` goes through the stages of the code:
options are gathered, then the request body, the responses (in any order, since
they are in a map), the parameters and the form are processed, each of which may
meet new types, then the operation is put in its place under its version's rules.
`DeduplicateSchemas` and the three ways to build are the other calls.

The properties follow a type into the document that was built, and start from the
script and not from the builder's state:

- `TypesDescribed`: wherever a type was asked for there is a schema that describes
  it, through every reference, as `encoding/json` would write it;
- `OperationsAsAsked`: each operation is what its options say, the last of those
  that contradict each other, and what a starting document had is still there;
- `BuiltWhenRight`: a document comes out exactly when no call asked for the
  impossible, and its operation ids are distinct; `LetPass` is what comments say a
  build refuses and the code does not (section 15).

Run `builder`: pairs of what can meet, that is two of fourteen types (two with one
name, one recursive, two that contain each other, embedded, generic, anonymous),
two of eleven lists of options, an operation and another call, in the four
versions, with fifteen namings, a document to start from in two versions,
deduplication never, by hand or at the end. Longer scripts repeat these. `NamesApart` and `DedupedLast`
except what section 15 lists. Scripts end, so deadlock is not checked.

Not modelled: descriptions, examples and summaries, texts of errors, headers and
extensions of responses.

## 14. What is proved

TLAPS checks these for any number of documents, calls, files, names and limits.
The assumptions are the named `ASSUME`s of the modules, and TLC evaluates them in
the runs.

*The cache* (`CacheProofs`). `TypeCorrect`; `FileResultsAreCurrent` and
`CacheRefinesContract` from `SourceInv`: an entry under a file's key holds the
version the key names or a later one, and only a call that saw the older version
asks for that key, so a later content is still content of its time. Without the
second half the entry alone would look wrong. `CacheWithinCapacity` also proves
the cache finite, since a bound on `Cardinality` says nothing of an infinite set.
`HitsAreWithinTTL` and `LiveEntriesLeaveInLRUOrder` (an action property) from
`ExpiryInv`: a use moves `insertAt` and leaves `expiresAt` at its store plus its
TTL. `AtMostOneSweeper` is inductive as it stands.

*The joiner* (`JoinProofs`). `JoinInvariant` proves `JoinInv` inductive
under `HandlersRespectStrategy`; `RenamesAlwaysFollow` and
`RedirectAlwaysUnambiguous` follow. Its parts: `StoreInv` (no object has two
names, renames concern merged schemas), `LeftInv` (under rename-left the current
document's schemas are where it put them), `DeferInv` (before the collapse each
schema but a handler's stands for itself) and `DropInv` (while names are removed,
the canonical ones stay). `RenamesFollowSchemas` alone is not inductive: a schema
stored under two names could be replaced under one of them while renames lead to
the other, and `StoreInv` excludes that.

*The references* (`JoinProofs`). `ReferencesAlwaysKeepMeaning`, from
`ReferenceInvariant`. The property speaks of the end, where the schemas have been
renamed, replaced, collapsed, rewritten and deduplicated; `ReferenceInv` says of
each stage what the next one needs: `AccountInv` (every merged schema stands for
something), `SpellingInv` (until its document is rewritten a reference is as it
was written), `FollowInv` (after the collapse each object has one name and the
renames of a document lead to what its names mean) and `FoundInv` (once all is
rewritten references find what they mean; deduplication keeps that).
`MergedSchemasAlwaysAgree`, from `AgreeInvariant`: the comparison of the collapse
looks at spelled references through redirected views, so `AgreeInv` says what it
means in terms of the schemas that are meant, for each group still to be dropped.
Besides `HandlersRespectStrategy` they assume

- `DocumentsAreClosed`: references are to schemas of the document itself, and none
  stands where the rewriter does not go (a query operation; section 15). A
  dangling reference may find another document's schema, which is not a change of
  meaning but has no meaning to keep;
- `HandlersOnlySupply` (the second theorem only): under the strategies that move
  schemas a handler continues, supplies a schema or fails;
- `CustomStaysApart` (the second only): semantic deduplication does not hold a
  supplied schema for a document's, which would be the handler's doing.

`MCSchemaJoin` has TLC evaluate all of them (`TheoremsApply`), so the theorems are
about the very calls the run explores.

*The whole join* (`JoinProofs`). `JoinImplementsSchemaJoin`: each action
of `DocumentJoin` is one of `SchemaJoin` or leaves its variables alone, so what is
proved of the schemas also holds when refusals, overlays, other sections and lists
come between them (`RenamesFollowInJoins`, `ReferencesKeepMeaningInJoins`,
`MergedSchemasAgreeInJoins`).

`EntriesAlwaysAsAsked` and `LosersAlwaysNamed` come from `EntryInvariant`, which
needs no assumption but those on the constants. That each kind goes by the strategy
it was asked to, but for `DefaultPassedOver`, follows from `Effectual` and `Wanted`
alone. The two properties are about
results, and neither is inductive: what stands for a name depends on all documents
passed, on the answers to come, and on the recorded origin of what stands. So
`EntryInv` says, for the documents passed so far, that what is joined is what
should stand (`Stands`), that its recorded origin is its document and that no two
entries share an origin (`JoinedInv`); that answers were given and collisions met
only where the join has been (`AnswerInv`); that who was told was told right
(`NamedInv`) and nobody was left out (`ToldInv`); and what of it survives delivery
(`DeliveredInv`) or a refusal (`RefusedInv`). The steps turn on two lemmas:
of the documents past a name one at most is the last that was to replace another,
or the first if none was (`StandingIs`), so that one more document changes what
stands only as the strategy or the handler says; and the answers that were given
before do not change (`AnswersHold`).

`ListsAlwaysAsAsked` comes from `ListInv`, which says of the documents merged so far
what the property says of all of them: a list is merged when its document ends, and
by then one document after the other has been. Two things make it inductive. All of
the elements so far are of documents before the one that is merged, so what it adds
comes last and is counted for it alone (`ListCounted`); this is why the invariant has
`MergedDocs` in its types. And uniting two lists (`AddAll`) keeps the first in front
and adds only names that it does not have (`AddAllKeeps`), by induction over the list
that is added. The base document's own lists are not united with anything: a name
may be twice in them, and has one owner still.

`AlwaysDeliveredAsAsked` is `EntriesAlwaysAsAsked` and `ListsAlwaysAsAsked` in one,
the property of the run.

*The resolver* (`RefResolverProofs`). `MarksFollowStack`: the marked references
are those on the stack, each once. Hence at most as many references are nested
as are written, whatever is inlined into what.

*What a resolved document is* (`RefResolverProofs`). The three properties of
`resolver_refs`, for any documents, limits and orders of traversal. The inductive
invariant is `ResolverInv`, and its parts follow the two passes:

- `HeapInv`: what a map holds is in memory, and in the copying pass the heap is a
  tree, each map at the address its keys spell;
- `TreeInv`, of the copying pass. Two nodes waiting on the stack are never one
  above the other (`OnceInv`), so a copy overwrites nothing that was visited, and
  nothing is visited twice. There is a set B of visited maps (`Seen`) that, with
  what waits, contains the document; a map of B holds no reference, or one that was
  inlined further up: that a circular reference was left at a place means that its
  mark came from a frame above that place (`OwnerInv`, with `MarksFollowStack`);
- `GraphInv`, of the sharing pass, until it meets a circular reference or fails.
  What the heap loses as a tree it keeps as a graph without circles: there is a set
  D of maps that are done with, lead only to each other, and have in each subset a
  map that leads out of it (`DoneWith`), and each frame answers for the values of
  its own map. A map joins D when its frame returns, last, so that no circle closes.

`OnlyCircularRefsEverRemain` follows, as what is reached from the root in any
number of steps is in B or D when the stack is empty. So does
`NeverPointerCycles`: in D a path meets no map twice, and in a tree every step
goes deeper, while a path with as many steps as there are maps would meet one
twice. After a sharing pass that failed or was circular nothing is claimed of
the heap, because `Fallback` starts from a fresh copy; that is the case the
second theorem needs `NeedsFallback` for. A copying pass that fails leaves a tree.

`AlwaysInlinedAsWritten` adds `WrittenInv`: a map without a reference has, value by
value, what it stands for in the files. It assumes `InputsAreDirect`: references
lead to no reference nor past one, and a `#/...` is in the document itself.
Neither half can be spared: TLC finds the empty map without the first (`Alias`),
and without the second a reference in an external file is looked up in the document
(section 15). `MCRefResolver` has TLC evaluate the condition on the inputs of
`resolver_refs`. The theorem covers failures too: what was inlined before the error
is right. `AlwaysResolvedAsDocumented` joins it to `OnlyCircularRefsEverRemain`.

*Induction* (`InductionLemmas`). The library's induction theorems take an operator
as a parameter. Two of its facts that take none, that `<` on the naturals is
well-founded and that a well-founded relation has minimal elements, give induction
in the form of sets (`Induct`: a set with 0 that is closed under successor is
`Nat`) and the existence of recursive functions (`Recursion`), which is what the
lookup of a path (`Found`) and reachability (`After`) need, and the walker's
and the joiner's recursive functions over a sequence (`Chosen`, `Nested`, `AddAll`).

*The walker* (`WalkerProofs`). The theorems are about `Spec`, one walk; the run
explores it under `QuerySpec`, whose other steps start further walks. `FrameInv`
(`FramesAlwaysOfNodes`): each frame is of a node, with some of its children left,
so no child is looked at that the node does not have. Five more invariants rest
on it:

- `NestInv`, for `HandlersAlwaysFollowTree`. `HandlersNest` is about a whole log;
  `NestInv` reads the log so far as brackets and says that the ones still open are,
  in order, the nodes of the stack that have a post handler and whose pre handler is
  registered. A schema may be entered after a Stop (section 15), opens a bracket then
  and is never closed, which is why what is open is known only until a Stop while
  nothing is ever closed out of order. `ParentIsNearest` is inductive with `FrameInv`:
  what is pushed when a frame is entered is what `Leave` pops;
- `GuardInv`, for the guards: the marked schemas are those on the stack, each once,
  the depth of each is the number of schemas around it, and a schema
  leads to schemas and values without children only. Without the last, which is
  `IsDocument`, the depth would start again from 0 inside and a chain could be longer
  than the limit;
- `HeardInv`, for completeness: of each child of a node that was visited the caller
  has heard, or it still waits in a frame of that node. So nothing is left out when the
  stack is empty. It needs `GapsAreKnown`: every field in which a document has a child
  is in the tables or in `Unwalked`. That is a statement about the tables, which
  `MCWalker` has TLC evaluate (`NoOtherGaps`);
- `OuterInv` and `StopInv`, for `StopAlwaysEndsOuterWalk`. Paths, webhooks, path
  items, operations and callbacks group other nodes, and after a Stop the walk goes on
  inside a group as its function does and nowhere around it. `OuterInv`: the groups
  are the lower part of the stack, and while a group is walked the ones around it have
  only fields left that are guarded by the walk itself (`Shuts`). For an operation,
  whose parameters, body and responses are not guarded so, this is because
  `callbacks` come last in its table (`TodoOrder`). `StopInv`: after a Stop either
  nothing left on the stack is looked at, or the groups around the node that answered
  it have not been left. Which kinds hold which is `IsPlaced`, from the Go types; TLC
  evaluates it on the documents of the run.

`EachNodeAlwaysWalked` follows from `GuardInv` and `HeardInv`, and with
`HandlersAlwaysFollowTree` gives `WalkAlwaysFollowsTree`, the property of the run.

*The generated clients* (`CacheProofs`, which holds the theorems about both caches; the two modules share
no state). `ClearedIsGone` and
`OnlyStaleIsFetched` from `CacheInv`: who is past the second check holds the
lock, so that nobody stores or clears meanwhile; `ClearForgets` alone says
nothing of an answer still on its way. `RefreshTokensUsedOnce` from
`RefreshInv`: who redeems holds the mutex and sends the token as it is now.
`SpentIsNeverUsed` is the first and the last in one.

*The document tools* (`DocumentToolsProofs`). For any set of documents, places of
any depth and any number of tools one after another; `InputsAssumption` says only
that a place follows the fields its version has, and that the reference is one such
a place can hold. `ToolsKeepMeaning`, `ToolsReportLosses`, `ToolsLeaveUsed` and
`ToolsValidateRightly` state the four properties of the run, from `ToolsInv`. They
turn on three kinds of facts.

- *Places.* Each tool has traversals of its own, tables from a kind of object to the
  fields its function follows. A place is a path of steps of the grammar
  (`IsPlace`), and the coverage lemmas (`RenameReaches`, `RewriteReaches`,
  `CollectReaches`, `PoolFollowed`, `CheckReaches`, `PromotesAll`) say that a tool
  reaches every place that has none of the fields of its row in `Gaps`. A tool reaches
  a place if it follows each of its steps, so these are facts about the tables,
  proved kind by kind, and depth does not enter.
- *Conversions.* A conversion builds another document, so the reference moves. A
  place of one version that the conversion follows to its end is a place of the other
  (`ConvertedPlace`): `PromotedPlace` and `DemotedPlace` are recursive functions over
  a path, and what each step is turned into can follow what the steps before it were
  turned into (`PromotedIs`, `DemotedIs`, `PutsTogether`).
- *Names.* `StubMeans`, `RenameMeans`, `PruneMeans` and `JoinMeans`: if a text denotes
  a component before a step that reaches it, the new text denotes the same one after.

`ReferenceKeepsMeaning` is not inductive. A rename could move two components to one
name, and then each reference would denote what one of them was; `Named` excludes it
by `Apart`: of the names that a rename would move to one place at most one is taken.
A reference that means nothing yet must not come to mean something by accident
(`Unmeant`), for a stub is to be made for it. `Placed` says that the reference is
where its version has one, `Swept` what a pruning has left while the pipeline still
runs, and `Shape` the order of that pipeline, without which a stub might be made
after the pruning that judged it. TLC checked `ToolsInv` on the inputs of the run
and on wider ones, with places of other shapes and more neighbours.

*Built servers* (`BuiltServerProofs`). For any scripts of calls, templates, calls and
results of the five parts. `BuildInv` follows the script: the operations added so far
are in the document (`PathsKept`), the handlers registered and not withdrawn after
are under their keys (`HandlersKept`), and once the server has been built its routes
hold what was there then (`RoutesFixed`), although the builder goes on.
`ServerInv` adds how the request got where it is: it was judged by the operation
that the document has for it (`JudgedRightly`), and a handler has it only by its
route (`HandledRightly`). `ServerJudgesByOperation` needs that the validator, which
sorts the templates of the document (`MatchPath`), and the router, which sorts those
it was built with (`RoutePath`), choose the same. Both choose the first of a list
sorted by specificity, length and text, so the lemmas are that this is a strict
total order on templates of one length, as those that fit one path are
(`TriedOneWay`, `TriedThrough`, from `SortsOneWay`, `SortsThrough` and
`TextRankAssumption`: no two segments have one text), that a finite set then has a first (`MatchFirst`), and that the first of all,
if it is in a subset, is the first of that (`MatchWithin`). The property excepts an
operation that the builder sets after the server is built, since the document is
shared and the routes are not.
`ServerReplaysAnswers`: what the recorder keeps of any sequence of writes and replays
is what `net/http` sends (`ReplayAgrees`, by induction on the writes), if they are in
order: the status at most once, and before any text.

*The values* (`DocumentValuesProofs`). For places of any depth in documents of the
four versions, every value that a file can have there and any number of edits;
`InputsAssumption` says no more than that. `FilesRoundTrip`, `CopiesStayApart` and
`ComparisonsAreExact` state the three properties of the run, from `ValuesInv`.

- *Tables.* Each route in, each format out, the copy and the comparisons have tables
  of their own, and each must have every field of every kind of object that the
  version knows. `TablesReach` says so of all of them, for it must hold of every
  step of a place; it rests on one lemma per table (`DecodesAll`, `CopiesAll` and so
  on), proved kind by kind and not assumed. What the differ leaves out is compared
  with `Overlooked` in the same way (`DiffersOrOverlooks`, `ReportedIs`), with the kinds that can only be below an overlooked field
  (`Below`, `BelowIsOverlooked`), and what the joiner compares and hashes with the
  fields that can be in a schema (`SchemaPart`, `JoinerIs`).
- *The invariant.* `RoundTrip` alone is not inductive: it says nothing of the document
  that a file is written from, nor of the map kept from the last read, which a write
  in the order of the source writes. `ValuesInv` adds that the document and the copy
  hold what was meant in one of the two spellings of a boolean, that files and the
  map have the bare one, and that all a document and its copy can share is a tuple
  both hold. TLC checked it on the inputs of the run.

The proof did not go through at first: `Overlooked` did not have the parameters, the
body and the server of a link, of which `diffLinkUnified` (unified_response.go:10)
compares nothing. The run had links only among the components, which the differ does
not compare at all; it now has those of responses too, and finds the same.

Only model-checked:

- liveness (`SweepersSweepAndStop`, `CallsEnd`, `EveryCallEnds`), which
  with fairness and ENABLED is out of the prover's reach;
- `AppliedAsWritten`, `JudgesByMeaning` and `ArgumentsArrive`: they compare two
  recursions over trees, schemas or data, which is induction over data, for every
  keyword or style in turn;
- `EveryRowOnce`, whose patterns and ways through a document are recursive operators;
- the properties of `Builder`, whose `Describes` follows a type and its schema down
  together, again by recursion over data, and those of `Generator`, which compare
  folds over the files with sets over the document, under every combination of
  flags and of clashing names;
- the properties of `FrontEnds`, which compare the tables of checks, repairs and
  conversions entry by entry; TLC looks at every entry, and a proof would repeat that
  enumeration.

## 15. Where the code departs from what is said of it

Each of these was met while modelling, and TLC showed it: the models allow it, and
where a property holds only outside of it the property says so. No run is kept for
one, since every run here checks what the code does get right.

Resolving and joining:

- `Alias`: the loop that copies a target's keys into the map of the reference
  copies the target's own `$ref` too, and the deletion after the loop removes it
  (resolver.go:520). A reference to a schema that is itself a reference becomes an
  empty map, unless its target happened to be visited before (parser/doc.go:106:
  "all other references are fully inlined").
- `JoinWithOptions` fills in the strategies for paths, schemas and components that
  were not given (joiner_options.go:83), so the default strategy is never asked:
  with `WithDefaultStrategy(accept-right)` alone components stay the first
  document's and paths fail. joiner/doc.go:71 offers it ("Set strategies globally
  (DefaultStrategy) or per component type"). A `JoinerConfig` given whole, with
  empty strategies, does heed it. `DeliveredAsAsked` excepts it (`DefaultPassedOver`).

The generator:

- Client methods get lost. `groupAlphabetically` stores each chunk under the
  initials of its first and last operation, and a second chunk of the same initials
  replaces the first (file_splitter.go:482); the splitter does not know QUERY
  operations; the file of a group called "test" is `client_test.go`, no part of the
  package. docs/cli-reference.md:1168: "Methods for each operation in the
  specification".
- The stubs return `any` or `*<Method>Response` where the interface has the
  operation's type or `*http.Response` (base_code_generator.go:353), so `StubServer`
  is no "type implementing `ServerInterface`" (docs/cli-reference.md:1200);
  examples/petstore/stdlib/server.go:22 and server_stubs.go:158 show it.
- In a package that is not split the second operation of a method name declares
  client method and request type again, and the package does not build:
  `generatedMethods` is asked whether the interface has the name, not whether this
  operation gave it (oas3_generator.go:683; 682 has "Skip if method was not added to
  interface (was filtered as duplicate)", 709 "to exclude duplicates from request type
  generation").
- Each scheme of a requirement becomes an entry of its own and one of them is
  enough (security_enforce.go:199), where the comment at 180 has "Within each
  requirement, multiple schemes may be required (AND relationship)"; the entries
  come in the order of a map, so that the file differs from run to run.
- The table of requirements knows neither QUERY nor custom methods
  (security_enforce.go:325), and `ValidateOperation` lets pass what it does not
  know. Its keys are Go method names, where the generated text speaks of operation
  ids (security_enforce.go:177, readme_generator.go:413): asked by an id that is
  no such name, it asks for nothing.
- Of several media types the first in map order gives a body or a reply its type
  (oas3_generator.go:564-635, 1126), each time anew, so that files differ from run
  to run and the default implementation may return another type than the interface;
  of several OIDC providers the first in map order gives the discovery file its
  address, and only that one is looked at for TLS (security_gen_shared.go:221). The
  README bears the time (364).
- Without a client no security file is written (security_gen_shared.go:580), so
  `WithServer` and `WithSecurityEnforce`, as generator/doc.go:103 has them, enforce
  nothing.

The builder:

- `AddWebhook` asks for no version, where builder.go:252 has "Returns an error during
  Build if used with OAS versions earlier than 3.1", and drops extensions and
  content types; neither `BuildOAS2` nor `BuildOAS3` returns an error when
  required fields are missing (builder.go:361, 438);
  `AddResponse` keeps `content` in 2.0; a form parameter takes only the type and
  format of `WithParamSchema`; once a limit is set, the copied schema is without
  `const`, `prefixItems` and others.
- Names: two types of one package name and name, and all anonymous structs, have
  one name and the later one wins; `RegisterTypeAs` is ignored for a type that is
  in the cache and leaves a recursive type's reference to itself dangling; nested
  generics lose the outer argument's name; "/" is not escaped.
- Reflection: a pointer to a struct is not nullable, a shadowed field of an embedded
  struct stays `required`, an embedded struct with a name of its own is promoted
  all the same, an unexported one is skipped.
- Deduplication: by hand before another call that meets a removed type, or twice,
  it leaves references that dangle; QUERY operations are not rewritten; duplicates
  that show only after the first round stay.
- `FromDocument` drops webhooks, extensions and other components, knows none of the
  operation ids, and shares its path items with the document it was given.

Others:

- `QueryDocuments`: `rewritePathItem` (rewriter.go:497) visits neither the
  `query` operation of a path item nor its additional operations; references
  there keep a name that was renamed and find another document's schema.
- `ReportedNamesExist`: when documents 2 and 3 disagree with 1 and agree with
  each other, the collapse (collapse.go:79) merges the two renamed schemas, and
  the warning for one of them reports a name the joined document lacks.
- Joins: a collision of a component that is settled by a strategy is neither
  warned about nor in the report, whose events come from schemas and from
  handlers alone; after an overlay on the result the statistics are still those of
  the document before it; documents given parsed come before those given as
  files, whatever the order of the options.
- `External`: content inlined from another file is resolved against the parsed
  document (resolver.go:524), so a `#/...` in it finds that document's schema or
  none.
- `Pairs`: the copying pass copies targets with what was inlined into them
  before, whose circular references are then inlined again (resolver.go:517).
  Nesting outgrows the number of references and the depth limit leaves some
  unresolved. The limit itself counts levels of maps, although the whitepaper
  calls it a limit on nested `$ref`.
- `NothingAfterStop`: the walker looks into several keywords of a schema without
  asking whether it was stopped (walk_shared.go:363).
- Walk queries: the tool that lists paths says it collects only path items of
  `paths` (tools_walk_paths.go: "Only collect top-level path items (not component
  pathItems or callbacks)") and lists webhooks and the expressions of callbacks
  too; a parameter of a callback's path item is told the method of the operation
  around the callback, where collectors.go:174 has "empty if path-level"; a tool's
  pattern `/**` matches what has no path at all; docs/mcp-server.md:494 says that
  `type=string` does not match `[string, null]`, and it does. The two front ends
  differ: `**` and patterns for names exist only in the tools, the case of a security
  scheme's name counts only in the command, a combination of extensions finds
  nothing in a tool, `key=` asks for an empty value in a command and for any in a
  tool.
- Converting drops references that stand for a whole object, and no issue is added
  (converter/deep_dive.md:729: "All component references are updated during
  conversion:"): up to 3.x that of a response, which becomes one without content
  (`convertOAS2ResponseToOAS3Old`, converter/helpers.go:238); down to 2.0 that of a
  response (helpers.go:272), of a request body, which is left out
  (oas3_to_oas2.go:290), and of a security scheme (348). A reference to a header is
  inlined, but not if it is percent-encoded (helpers.go:217).
- Built servers: a server of a 2.0 builder does not enforce the limits of its
  parameters; a handler registered with a lower-case method is under a key that
  nothing routes and answers 501; QUERY operations of 3.2 get no route; a strict
  validator refuses every request without a Content-Type, and lets one whose
  required body is absent pass; `WithNotFoundHandler`, `WithMethodNotAllowedHandler`
  and `IncludeResponseValidation` have no effect; the recorder keeps the last
  status a handler sets where net/http keeps the first; a body that was validated
  has been read to its end (httpvalidator/request.go:372) and does not reach the
  handler, although builder/doc.go:544 offers it.
- Dry runs: missing path parameters, renames, CSV enums and pruning change the
  document in a dry run too (`IgnoreDryRun`; fixer.go:171: "collects fixes without
  modifying the document"); the commands do not write it, a program that asks for
  a preview gets it changed.
- `fix` exits with 1 for errors that it has just repaired: the exit code is that
  of the errors the parser found first (fix.go:392; docs/cli-reference.md:374:
  "the document still has errors no fix covers").
- Validation and conversion: the lists of section 11.
- `Shared`: an update with several matches stores one map in all of them
  (apply.go:317), and a later action on one of them changes the others.

Hazards no property covers, for one reason or another:

| where | what | why not |
|---|---|---|
| mcpserver/input.go:74 | a slow fetch stores an older URL answer over a newer one | the contract allows it: a URL's answer is anything it has served |
| mcpserver/input.go:116 | `startSweeper` is refused while a cancelled goroutine has not run its deferred store | in the model, and by design of the flag; that no two sweep is proved (`AtMostOneSweeper`) |
| mcpserver/input.go:223 | every hit gives the same `*ParseResult` | needs every tool's handler to be read-only; what tools change is not modelled |
| joiner/collapse.go:57 | a handler uses a generated name that the collapse removes | the model excludes it with `HandlersRespectStrategy` |
| joiner/oas3.go:424 | a handler renames a schema into a name rename-left moves | likewise |
| joiner/rewriter.go:219 | a reference into a schema is no key of the map of renames | references are to whole schemas |
| joiner, rename under deduplicate-or-rename | what a reference then means | only `RenamesFollowSchemas` is stated for it |
| parser/resolver.go:331, 452 | expired HTTP entries, and their number | HTTP references are not modelled |
| internal/jsonpath/eval.go:394 | a filter over the items that it removes | the properties hold of the order the code uses; others are not tried |
| overlay/apply.go:119 | the preview runs every action against the unmodified copy | by design |
| fixer/pipeline.go:22 | a dry run skips the stubs and so previews other renames | stubs and dry runs are in different models |
| generator/oauth2_flows.go:303 | an answer without refresh token | the answer replaces the whole token, so the client has no refresh token afterwards and cannot refresh again; the model has that, as it has a lost answer, and nothing in the code says otherwise |
| walker/context.go:124 | a context is used after its handler returned it to the pool | pooled contexts are not modelled |

## 16. Not modelled

Of a join: the reference graph and the contexts for rename templates, which
change no schema; which references of a losing document change their meaning
when components collide; messages of handlers; source locations; the reading and
writing of files. Of the generator, the text of what it declares. Error types, code
generation, test harnesses and examples keep no state across steps; their reasons are in `PROJECT.json`.

## 17. Where it could go on

The largest parts without a model are the validation of responses and the Go types
that the generator writes for schemas: whether such a type reads and writes what
its schema allows could be compared as `DocumentValues` compares tables. Of what is modelled, `Overlay` would gain most from a proof; its trees
would have to become functions on paths, as places are in `DocumentTools`, for the
induction to be one over path lengths.

