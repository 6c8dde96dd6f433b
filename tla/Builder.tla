------------------------------ MODULE Builder ------------------------------
(***************************************************************************)
(* The builder: a program makes a script of calls on one Builder, each     *)
(* with its options, and builds a document from it, perhaps more than once.*)
(* Types become schemas as they are met, in the order of the calls and,    *)
(* within one call, in the order of Go's maps.                             *)
(*                                                                         *)
(* A document is a record [version, info, servers, tags, security, docs,   *)
(* paths, webhooks, schemas, responses, parameters, bodies, schemes, rest];*)
(* paths and webhooks go from a path to the operations by method, rest has *)
(* whatever else a document may hold. What may be absent is <<>> or <<x>>. *)
(***************************************************************************)
EXTENDS TypeSchemas

CONSTANTS
    Scripts,       \* [version, info, options, start, calls]: what a program
                   \* does; info is set by NewWithInfo or right after New
    Rank,          \* schema name -> its place in the byte order
    ValidPatterns  \* patterns that compile

VARIABLES
    script,        \* the script
    made,          \* how many of its calls were made
    config,        \* the options of New
    seen,          \* schemas and the cache of types
    content,       \* the other sections of the document under construction
    aliases,       \* schemaAliases: a removed name -> the one that stays
    ids,           \* operationIDLocations
    errors,        \* errors gathered so far
    returned,      \* the type and the schema of each registration
    built          \* the outcome of the last Build: <<>> or <<document>>

vars == <<script, made, config, seen, content, aliases, ids, errors, returned, built>>

Versions == <<"2.0", "3.0", "3.1", "3.2">>
AtLeast(v, w) ==
    LET place(x) == CHOOSE i \in DOMAIN Versions : Versions[i] = x IN place(v) >= place(w)

-----------------------------------------------------------------------------
\* Options of parameters: the last of a kind wins.

NoParamConfig ==
    [required |-> FALSE, deprecated |-> FALSE, type |-> None, format |-> None,
     schema |-> <<>>, limits |-> <<>>, wire |-> {}, extra |-> {}]

\* Options that set a field, those that set a limit, those of 2.0's wire
\* format, and extensions.
ParamOption(config1, o) ==
    CASE o.do = "set"   -> [config1 EXCEPT ![o.field] = o.value]
      [] o.do = "limit" -> [config1 EXCEPT !.limits = (o.key :> o.value) @@ @]
      [] o.do = "wire"  -> [config1 EXCEPT !.wire = @ \union {o.key}]
      [] o.do = "extra" -> [config1 EXCEPT !.extra = @ \union {o.key}]

ParamConfig(options) == FoldLeft(ParamOption, NoParamConfig, options)

\* validateParamConstraints.
Sensible(limits) ==
    /\ \A p \in {<<"minimum", "maximum">>, <<"minLength", "maxLength">>,
                 <<"minItems", "maxItems">>} :
         ToSet(p) \subseteq DOMAIN limits => limits[p[1]] <= limits[p[2]]
    /\ \A k \in {"minLength", "maxLength", "minItems", "maxItems"}
                  \intersect DOMAIN limits : limits[k] >= 0
    /\ "multipleOf" \in DOMAIN limits => limits.multipleOf > 0
    /\ "pattern" \in DOMAIN limits => limits.pattern \in ValidPatterns

-----------------------------------------------------------------------------
\* Options of operations.

NoOperation ==
    [id |-> None, tags |-> {}, deprecated |-> FALSE, params |-> <<>>,
     form |-> <<>>, body |-> <<>>, responses |-> <<>>, security |-> <<>>,
     noSecurity |-> FALSE, consumes |-> {}, produces |-> {}, extra |-> {}]

\* WithQueryParam and its like bring a type and options.
WithParam(cfg, o) ==
    LET pcfg == ParamConfig(o.options)
    IN [cfg EXCEPT !.params = Append(@,
            [name |-> o.name, in |-> o.in, type |-> o.type, schema |-> <<>>,
             config |-> <<pcfg>>, required |-> pcfg.required \/ o.in = "path"])]

\* WithParameter and WithParameterRef bring a parameter, taken as it is.
WithRawParam(cfg, o) ==
    [cfg EXCEPT !.params = Append(@,
        [name |-> o.name, in |-> o.in, type |-> None, schema |-> o.schema,
         config |-> <<>>, required |-> o.required])]

\* WithFormParam, and WithFileParam with the type "file".
WithFormParam(cfg, o) ==
    [cfg EXCEPT !.form = Append(@, [name |-> o.name, type |-> o.type,
                                    config |-> ParamConfig(o.options)])]

\* A media type per content type, to be given the schema of type, or the raw
\* schema when there is no type.
Media(o) ==
    [content |-> [c \in o.contentTypes |-> o.raw], type |-> o.type]

\* WithRequestBody, ...RawSchema and ...ContentTypes.
WithRequestBody(cfg, o) ==
    [cfg EXCEPT !.body = <<[required |-> o.required] @@ Media(o)>>]

\* WithResponse and its variants; WithResponseRef has no content.
WithResponse(cfg, o) ==
    [cfg EXCEPT !.responses = (o.code :> ([ref |-> o.ref] @@ Media(o))) @@ @]

Option(cfg, o) ==
    CASE o.do = "set" -> [cfg EXCEPT ![o.field] = o.value]
      [] o.do = "extra" -> [cfg EXCEPT !.extra = @ \union {o.key}]
      [] o.do = "param" -> WithParam(cfg, o)
      [] o.do = "rawParam" -> WithRawParam(cfg, o)
      [] o.do = "form" -> WithFormParam(cfg, o)
      [] o.do = "body" -> IF o.contentTypes = {} THEN cfg ELSE WithRequestBody(cfg, o)
      [] o.do = "response" -> IF o.contentTypes = {} /\ o.ref = None THEN cfg
                              ELSE WithResponse(cfg, o)

Configured(options) == FoldLeft(Option, NoOperation, options)

-----------------------------------------------------------------------------
\* Parameters.

\* applyTypeFormatOverrides.
Overridden(schema, pcfg) ==
    IF pcfg.schema # <<>> THEN pcfg.schema
    ELSE IF pcfg.type = None /\ pcfg.format = None THEN schema
    ELSE LET s == Copied(IF schema = <<>> THEN Blank ELSE schema[1])
         IN <<[s EXCEPT !.type = IF pcfg.type = None THEN @ ELSE pcfg.type,
                        !.format = IF pcfg.format = None THEN @ ELSE pcfg.format]>>

\* applyParamConstraintsToSchema.
Constrained(schema, pcfg) ==
    IF schema = <<>> \/ DOMAIN pcfg.limits = {} THEN schema
    ELSE <<[Copied(schema[1]) EXCEPT !.keys = pcfg.limits @@ @]>>

\* applyTypeFormatOverridesToOAS2Param.
OwnType(schema, pcfg) ==
    LET from == IF schema = <<>> THEN Blank ELSE schema[1]
        pick(a, b) == IF a = None THEN b ELSE a
    IN IF pcfg.schema # <<>>
       THEN <<pick(pcfg.schema[1].type, from.type), pcfg.schema[1].format>>
       ELSE <<pick(pcfg.type, from.type), pick(pcfg.format, from.format)>>

Param(name, in, required, schema) ==
    [name |-> name, in |-> in, required |-> required, schema |-> schema,
     type |-> None, format |-> None, limits |-> <<>>, wire |-> {}, extra |-> {}]

\* applyParamConstraintsToParam.
OnParam(param, schema, pcfg) ==
    [param EXCEPT !.type = OwnType(schema, pcfg)[1],
                  !.format = OwnType(schema, pcfg)[2],
                  !.limits = pcfg.limits, !.wire = pcfg.wire, !.extra = pcfg.extra]

\* Mutant: 3.x gets the limits of 2.0.
PlacedOnParam(v, param, schema, pcfg) ==
    LET typed == Overridden(schema, pcfg)
    IN OnParam([param EXCEPT !.schema = typed], typed, pcfg)

\* What a version makes of a parameter, its schema and its options.
Placed(v, param, schema, pcfg) ==
    LET typed == Overridden(schema, pcfg)
    IN IF v = "2.0" THEN OnParam([param EXCEPT !.schema = typed], typed, pcfg)
       ELSE [param EXCEPT !.schema = Constrained(typed, pcfg), !.extra = pcfg.extra]

\* What the options of an operation are made into, one after the other.
Gathered(v, now) ==
    [seen |-> now, errors |-> <<>>, content |-> <<>>, responses |-> <<>>, params |-> <<>>,
     form |-> IF v = "2.0" THEN <<>> ELSE <<Typed("object", None)>>]
Refused(acc) == [acc EXCEPT !.errors = Append(@, "constraint")]

\* processParameters: the type is looked at before the limits are.
Processed(acc, p, got) ==
    LET param == Param(p.name, p.in, p.required,
                       IF p.type = None THEN p.schema ELSE <<got.schema>>)
        after == [acc EXCEPT !.seen = got.seen]
    IN IF p.config = <<>> THEN [after EXCEPT !.params = Append(@, param)]
       ELSE IF ~Sensible(p.config[1].limits) THEN Refused(after)
       ELSE [after EXCEPT !.params = Append(@,
                Placed(script.version, param, param.schema, p.config[1]))]

ProcessParameters(cfg, acc) ==
    FoldLeft(LAMBDA a, p : Processed(a, p, GenerateFor(config, a.seen, p.type, None)),
             acc, cfg.params)

\* Form parameters of 2.0.
FormParameter(acc, p, got) ==
    LET schema == IF p.type \in {"file", None} THEN <<>> ELSE <<got.schema>>
        param == Param(p.name, "formData", p.config.required, schema)
    IN [acc EXCEPT !.seen = got.seen, !.form = Append(@,
            IF p.type = "file" THEN [param EXCEPT !.type = "file"]
            ELSE OnParam(param, schema, p.config))]

\* buildFormParamSchema: of a schema given as a whole, its type and format.
FormProperty(p, schema) ==
    LET pick(a, b) == IF a = None THEN b ELSE a
        given == IF p.config.schema = <<>> THEN p.config ELSE p.config.schema[1]
    IN IF p.type = "file" THEN Typed("string", "binary")
       ELSE [Constrained(<<schema>>, p.config)[1] EXCEPT
               !.type = pick(given.type, @), !.format = pick(given.format, @)]

FormField(acc, p, got) ==
    [acc EXCEPT !.seen = got.seen,
        !.form[1].props = (p.name :> FormProperty(p, got.schema)) @@ @,
        !.form[1].required = @ \union IF p.config.required THEN {p.name} ELSE {}]

\* The form: parameters, or the properties of one object.
Form(v, cfg, acc) ==
    LET with(a, p, got) == IF v = "2.0" THEN FormParameter(a, p, got)
                           ELSE FormField(a, p, got)
        step(a, p) == IF ~Sensible(p.config.limits) THEN Refused(a)
                      ELSE with(a, p, GenerateFor(config, a.seen, p.type, None))
    IN FoldLeft(step, acc, cfg.form)

FormType(form) ==
    IF \E i \in DOMAIN form : form[i].type = "file" THEN "multipart/form-data"
    ELSE "application/x-www-form-urlencoded"

-----------------------------------------------------------------------------
\* Operations.

\* The content with the schema of its type, if it has one.
Filled(media, schema) ==
    IF media.type = None THEN media.content
    ELSE [c \in DOMAIN media.content |-> <<schema>>]

RequestBody(cfg, acc) ==
    LET with(media, got) == [acc EXCEPT !.seen = got.seen,
                                        !.content = Filled(media, got.schema)]
    IN IF cfg.body = <<>> THEN acc
       ELSE with(cfg.body[1], GenerateFor(config, acc.seen, cfg.body[1].type, None))

\* The schema of the first content type that has one.
SchemaOf(contents) ==
    IF \E c \in DOMAIN contents : contents[c] # <<>>
    THEN contents[CHOOSE c \in DOMAIN contents : contents[c] # <<>>] ELSE <<>>

\* A response of 2.0 has its schema directly.
ResponseIn(v, ref, contents) ==
    IF v = "2.0"
    THEN [ref |-> ref, content |-> <<>>, schema |-> SchemaOf(contents)]
    ELSE [ref |-> ref, content |-> contents, schema |-> <<>>]

\* The responses in the order a range over the map takes them.
Responses(v, cfg, order, acc) ==
    LET with(a, code, media, got) ==
            [a EXCEPT !.seen = got.seen, !.responses =
                (code :> ResponseIn(v, media.ref, Filled(media, got.schema))) @@ @]
        step(a, code) == with(a, code, cfg.responses[code],
                              GenerateFor(config, a.seen, cfg.responses[code].type, None))
    IN FoldLeft(step, acc, order)

\* addFormParamsToRequestBody.
WithForm(body, type, schema) ==
    LET before == IF body = <<>> THEN [required |-> FALSE, content |-> <<>>] ELSE body[1]
    IN <<[before EXCEPT !.content = (type :> <<schema>>) @@ @]>>

\* An operation of its options and what they were made into.
Assembled(v, cfg, got) ==
    LET required == cfg.body # <<>> /\ cfg.body[1].required
        written == IF cfg.body = <<>> THEN <<>>
                   ELSE <<[required |-> required, content |-> got.content]>>
        bodyParam == IF cfg.body = <<>> THEN <<>>
                     ELSE <<Param("body", "body", required, SchemaOf(got.content))>>
    IN [id |-> cfg.id, tags |-> cfg.tags, deprecated |-> cfg.deprecated,
        consumes |-> cfg.consumes, produces |-> cfg.produces, extra |-> cfg.extra,
        responses |-> got.responses,
        security |-> IF cfg.noSecurity THEN <<{}>> ELSE cfg.security,
        params |-> IF v = "2.0" THEN got.params \o bodyParam \o got.form
                   ELSE got.params,
        body |-> IF v = "2.0" THEN <<>>
                 ELSE IF cfg.form = <<>> THEN written
                 ELSE WithForm(written, FormType(cfg.form), got.form[1])]

\* AddOperation and, of every version as 3.x, AddWebhook: the body, the
\* responses, the parameters, then the form.
Gone(v, now, cfg, order) ==
    Form(v, cfg, ProcessParameters(cfg,
        Responses(v, cfg, order, RequestBody(cfg, Gathered(v, now)))))

Upper == [GET |-> "get", PUT |-> "put", POST |-> "post", DELETE |-> "delete",
          OPTIONS |-> "options", HEAD |-> "head", PATCH |-> "patch",
          TRACE |-> "trace", QUERY |-> "query"]
Slot(method) ==
    IF method \in DOMAIN Upper THEN Upper[method]
    ELSE IF method \in Range(Upper) THEN method ELSE None

\* setOperation: the errors a method brings.
MethodErrors(v, slot) ==
    CASE slot = None -> <<"method">>
      [] slot = "trace" /\ ~AtLeast(v, "3.0") -> <<"unsupported">>
      [] slot = "query" /\ ~AtLeast(v, "3.2") -> <<"unsupported">>
      [] OTHER -> <<>>

\* The path item, got or created, with the operation in its place.
WithItem(items, path, slot, op, refused) ==
    LET item == IF path \in DOMAIN items THEN items[path] ELSE <<>>
    IN (path :> IF refused THEN item ELSE (slot :> op) @@ item) @@ items

-----------------------------------------------------------------------------
\* Starting, and the calls that set or add one thing.

Version == script.version

Empty == [info |-> <<>>, servers |-> <<>>, tags |-> <<>>, security |-> <<>>,
          docs |-> <<>>, paths |-> <<>>, webhooks |-> <<>>, responses |-> <<>>,
          parameters |-> <<>>, bodies |-> <<>>, schemes |-> <<>>]

BuilderOption(cfg, o) ==
    CASE o.do = "WithSchemaNaming" -> WithSchemaNaming(cfg, o.style)
      [] o.do = "WithSchemaNameTemplate" -> WithSchemaNameTemplate(cfg, o.template)
      [] o.do = "WithSchemaNameFunc" -> WithSchemaNameFunc(cfg, o.fn)
      [] o.do = "WithGeneric" -> WithGeneric(cfg, o.field, o.value)
      [] o.do = "WithGenericNamingConfig" -> WithGenericNamingConfig(cfg, o.generic)
      [] o.do = "WithSemanticDeduplication" -> WithSemanticDeduplication(cfg, o.on)
      [] o.do = "WithSchemaFieldProcessor" -> WithSchemaFieldProcessor(cfg, o.processors)

\* FromDocument and FromOAS2Document take over what they name.
TakenOver(doc) ==
    [s \in DOMAIN Empty |->
        IF s \in {"webhooks"} \union (IF doc.version = "2.0" THEN {"servers", "bodies"} ELSE {})
        THEN <<>> ELSE doc[s]]

Init ==
    /\ script \in Scripts
    /\ made = 0
    /\ config = WithNames(FoldLeft(BuilderOption, DefaultConfig, script.options))
    /\ content = IF script.start = <<>> THEN [Empty EXCEPT !.info = script.info]
                 ELSE TakenOver(script.start[1])
    /\ seen = NothingSeen(IF script.start = <<>> THEN <<>> ELSE script.start[1].schemas)
    /\ aliases = <<>> /\ ids = <<>> /\ errors = <<>> /\ returned = {} /\ built = <<>>

Call == script.calls[made + 1]
Calling(name) ==
    /\ made < Len(script.calls)
    /\ Call.call = name
    /\ made' = made + 1

\* SetInfo, SetTitle and the other setters, SetSecurity, SetExternalDocs.
Set ==
    /\ Calling("Set")
    /\ content' = [content EXCEPT ![Call.section] = Call.value]
    /\ UNCHANGED <<script, config, seen, aliases, ids, errors, returned, built>>

\* AddServer and AddTag.
Add ==
    /\ Calling("Add")
    /\ content' = [content EXCEPT ![Call.section] = Append(@, Call.item)]
    /\ UNCHANGED <<script, config, seen, aliases, ids, errors, returned, built>>

AddSecurityScheme ==
    /\ Calling("AddSecurityScheme")
    /\ content' = [content EXCEPT !.schemes = (Call.name :> Call.value) @@ @]
    /\ UNCHANGED <<script, config, seen, aliases, ids, errors, returned, built>>

\* RegisterType, and RegisterTypeAs with a name.
RegisterType ==
    /\ Calling("RegisterType")
    /\ \E got \in {GenerateFor(config, seen, Call.type, Call.name)} :
         /\ seen' = got.seen
         /\ returned' = returned \union {<<Call.type, got.schema>>}
    /\ UNCHANGED <<script, config, content, aliases, ids, errors, built>>

\* AddResponse: with content, whatever the version.
ResponseOf(contentType, schema) ==
    [ref |-> None, content |-> (contentType :> <<schema>>), schema |-> <<>>]
AddResponse ==
    /\ Calling("AddResponse")
    /\ \E got \in {GenerateFor(config, seen, Call.type, None)} :
         /\ seen' = got.seen
         /\ content' = [content EXCEPT !.responses =
                (Call.name :> ResponseOf(Call.contentType, got.schema)) @@ @]
    /\ UNCHANGED <<script, config, aliases, ids, errors, returned, built>>

AddParameter ==
    /\ Calling("AddParameter")
    /\ \E pcfg \in {ParamConfig(Call.options)} :
       LET param == Param(Call.param, Call.in, pcfg.required \/ Call.in = "path", <<>>)
       IN \/ /\ Sensible(pcfg.limits)
             /\ \E got \in {GenerateFor(config, seen, Call.type, None)} :
                  /\ seen' = got.seen
                  /\ content' = [content EXCEPT !.parameters =
                       (Call.name :> Placed(Version, param, <<got.schema>>, pcfg)) @@ @]
             /\ UNCHANGED errors
          \/ /\ ~Sensible(pcfg.limits)
             /\ errors' = Append(errors, "constraint")
             /\ UNCHANGED <<seen, content>>
    /\ UNCHANGED <<script, config, aliases, ids, returned, built>>

\* Mutant: webhooks have ids of their own.
TakenByOperation(id, hook) == ~hook /\ id \in DOMAIN ids

\* Operations and webhooks share their ids.
Taken(id, hook) == id \in DOMAIN ids

\* A second use of an id is an error; the operation is added all the same.
Adding(section, hook, v, slot, cfg, got) ==
    LET op == Assembled(v, cfg, got)
        method == MethodErrors(Version, slot)
    IN /\ seen' = got.seen
       /\ content' = [content EXCEPT ![section] =
            WithItem(@, Call.path, slot,
                IF hook THEN [op EXCEPT !.extra = {}, !.consumes = {}, !.produces = {}] ELSE op,
                method # <<>>)]
       /\ ids' = IF cfg.id = None THEN ids ELSE ids @@ (cfg.id :> Call.path)
       /\ errors' = errors \o (IF cfg.id # None /\ Taken(cfg.id, hook)
                                THEN <<"duplicate">> ELSE <<>>)
                      \o got.errors \o method

AddTo(section, hook) ==
    LET v == IF hook /\ Version = "2.0" THEN "3.0" ELSE Version
    IN \E cfg \in {Configured(Call.options)} :
       \E order \in SetToSeqs(DOMAIN cfg.responses) :
         Adding(section, hook, v, Slot(Call.method), cfg, Gone(v, seen, cfg, order))

AddOperation ==
    /\ Calling("AddOperation")
    /\ AddTo("paths", FALSE)
    /\ UNCHANGED <<script, config, aliases, returned, built>>

AddWebhook ==
    /\ Calling("AddWebhook")
    /\ AddTo("webhooks", TRUE)
    /\ UNCHANGED <<script, config, aliases, returned, built>>

-----------------------------------------------------------------------------
\* Deduplication and building.

\* Keywords that constrain nothing.
Advice == {"description", "title", "deprecated", "example", "default"}

\* isEmptySchema; a reference by itself is empty, too.
Unconstrained(schema) ==
    /\ DOMAIN schema.keys \subseteq Advice
    /\ schema = [Blank EXCEPT !.ref = schema.ref, !.keys = schema.keys]

\* Deduplicate: of equal schemas the one whose name comes first stays. The
\* comparison is deep and counts documentation; references are compared as
\* they are spelled, and an empty schema equals none.
Equal(schemas, n) ==
    {n} \union {m \in DOMAIN schemas :
                    schemas[m] = schemas[n] /\ ~Unconstrained(schemas[n])}
Canonical(schemas, n) ==
    CHOOSE m \in Equal(schemas, n) :
        \A o \in Equal(schemas, n) : Rank[m] <= Rank[o]

\* DeduplicateSchemas: with less than two schemas nothing happens.
AliasesFor(schemas) ==
    IF Cardinality(DOMAIN schemas) < 2 THEN aliases
    ELSE [n \in {m \in DOMAIN schemas : Canonical(schemas, m) # m} |-> Canonical(schemas, n)]

Deduplicated(schemas) ==
    IF Cardinality(DOMAIN schemas) < 2 THEN schemas
    ELSE Restrict(schemas, {n \in DOMAIN schemas : Canonical(schemas, n) = n})

\* applySchemaAliases: the references of a document, rewritten in place.
RECURSIVE Renamed(_, _)
Renamed(to, schema) ==
    [schema EXCEPT
        !.ref = IF @ \in DOMAIN to THEN to[@] ELSE @,
        !.inner = [i \in DOMAIN @ |-> Renamed(to, @[i])],
        !.props = [p \in DOMAIN @ |-> Renamed(to, @[p])]]

RenamedAll(to, schemas) == [n \in DOMAIN schemas |-> Renamed(to, schemas[n])]
RenamedMedia(to, contents) == [c \in DOMAIN contents |-> RenamedAll(to, contents[c])]
RenamedParam(to, p) == [p EXCEPT !.schema = RenamedAll(to, @)]
RenamedResponse(to, r) ==
    [r EXCEPT !.schema = RenamedAll(to, @), !.content = RenamedMedia(to, @)]
RenamedBody(to, b) == [b EXCEPT !.content = RenamedMedia(to, @)]

RenamedOperation(to, op) ==
    [op EXCEPT !.params = [i \in DOMAIN @ |-> RenamedParam(to, @[i])],
               !.body = [i \in DOMAIN @ |-> RenamedBody(to, @[i])],
               !.responses = [c \in DOMAIN @ |-> RenamedResponse(to, @[c])]]

\* The query operation of an item is not visited.
RenamedItems(to, items) ==
    [path \in DOMAIN items |-> [slot \in DOMAIN items[path] |->
        IF slot = "query" THEN items[path][slot]
        ELSE RenamedOperation(to, items[path][slot])]]

\* The sections that get into a document of the version.
Shown(v) ==
    DOMAIN Empty \ (IF v = "2.0" THEN {"servers", "webhooks", "bodies"} ELSE {})

RenamedContent(to) ==
    [s \in DOMAIN content |->
        CASE s = "paths" -> RenamedItems(to, content[s])
          [] s = "webhooks" /\ s \in Shown(Version) -> RenamedItems(to, content[s])
          [] s = "responses" ->
               [n \in DOMAIN content[s] |-> RenamedResponse(to, content[s][n])]
          [] s = "parameters" ->
               [n \in DOMAIN content[s] |-> RenamedParam(to, content[s][n])]
          [] s = "bodies" /\ s \in Shown(Version) ->
               [n \in DOMAIN content[s] |-> RenamedBody(to, content[s][n])]
          [] OTHER -> content[s]]

DeduplicateSchemas ==
    /\ Calling("DeduplicateSchemas")
    /\ seen' = [seen EXCEPT !.schemas = Deduplicated(@)]
    /\ aliases' = AliasesFor(seen.schemas)
    /\ UNCHANGED <<script, config, content, ids, errors, returned, built>>

\* The document of the sections and schemas the builder has.
Document(sections, schemas) ==
    [version |-> Version, schemas |-> schemas, rest |-> {}]
        @@ [s \in DOMAIN Empty |-> IF s \in Shown(Version) THEN sections[s] ELSE <<>>]

\* BuildOAS2 and BuildOAS3; BuildResult, MarshalJSON, MarshalYAML and
\* WriteFile take the one that goes with the version.
BuildRefused ==
    \/ config.failed
    \/ Call.door = "BuildOAS2" /\ Version # "2.0"
    \/ Call.door = "BuildOAS3" /\ Version = "2.0"

Build ==
    LET kept == IF config.dedupe THEN Deduplicated(seen.schemas) ELSE seen.schemas
        to == IF config.dedupe THEN AliasesFor(seen.schemas) ELSE aliases
    IN /\ Calling("Build")
       /\ IF BuildRefused
          THEN built' = <<>> /\ UNCHANGED <<seen, content, aliases>>
          ELSE /\ aliases' = to
               /\ IF errors # <<>>
                  THEN /\ seen' = [seen EXCEPT !.schemas = kept]
                       /\ built' = <<>>
                       /\ UNCHANGED content
                  ELSE /\ seen' = [seen EXCEPT !.schemas = RenamedAll(to, kept)]
                       /\ content' = RenamedContent(to)
                       /\ built' = <<Document(content', seen'.schemas)>>
       /\ UNCHANGED <<script, config, ids, errors, returned>>

Next ==
    \/ Set \/ Add \/ AddSecurityScheme \/ RegisterType \/ AddResponse
    \/ AddParameter \/ AddOperation \/ AddWebhook \/ DeduplicateSchemas \/ Build

Spec == Init /\ [][Next]_vars

-----------------------------------------------------------------------------
\* What the calls asked for.

Made(calls) == {i \in 1..made : script.calls[i].call \in calls}
SectionOf(i) == IF script.calls[i].call = "AddWebhook" THEN "webhooks" ELSE "paths"
Place(i) == <<SectionOf(i), script.calls[i].path, Slot(script.calls[i].method)>>

\* The operations the document is to have: the last at each place.
Lasting ==
    LET adding == Made({"AddOperation", "AddWebhook"})
    IN {i \in adding : /\ SectionOf(i) \in Shown(Version)
                       /\ \A j \in adding : j > i => Place(j) # Place(i)}

\* The last of those that add a component of the name.
LastNamed(call) ==
    {i \in Made({call}) : \A j \in Made({call}) :
        j > i => script.calls[j].name # script.calls[i].name}

JustBuilt == made > 0 /\ script.calls[made].call = "Build" /\ built # <<>>
OperationAt(i) ==
    built[1][SectionOf(i)][script.calls[i].path][Slot(script.calls[i].method)]

\* The options of a kind, in their order, and the last word on a field.
Of(options, kinds) == SelectSeq(options, LAMBDA o : o.do \in kinds)
LastWord(options, field, default) ==
    LET all == SelectSeq(options, LAMBDA o : o.do = "set" /\ o.field = field)
    IN IF all = <<>> THEN default ELSE Last(all).value
LastLimit(options, key) ==
    Last(SelectSeq(options, LAMBDA o : o.do = "limit" /\ o.key = key)).value
LimitKeys(options) == {o.key : o \in ToSet(Of(options, {"limit"}))}

\* Nothing but the type is to decide the schema.
ByType(options) == \A o \in ToSet(options) :
    ~(o.do = "set" /\ o.field \in {"type", "format", "schema"})

Deduped == made > 0 /\ (config.dedupe \/ Made({"DeduplicateSchemas"}) # {})

-----------------------------------------------------------------------------
\* Types and their schemas.

Parts(t) ==
    IF Types[t].kind \in {"pointer", "list", "map"} THEN {Types[t].of}
    ELSE {f.type : f \in {g \in ToSet(Types[t].fields) : g.exported}}

RECURSIVE Under(_)
Under(types) ==
    LET more == types \union UNION {Parts(t) : t \in types}
    IN IF more = types THEN types ELSE Under(more)

Structs(types) == {t \in Under(types) : Types[t].kind = "struct"}
IsRecursive(t) == t \in Under(Parts(t))

TypesIn(call) ==
    (IF "type" \in DOMAIN call THEN {call.type} ELSE {})
      \union (IF "options" \in DOMAIN call
              THEN {o.type : o \in {p \in ToSet(call.options) : "type" \in DOMAIN p}}
              ELSE {})
Used == Structs(UNION {TypesIn(call) : call \in ToSet(script.calls)}
                    \intersect DOMAIN Types)

\* Two types can be told apart: by their full names where their plain names
\* agree, which a recursive type may not need, nor one without a package. A
\* name that RegisterTypeAs gives is that of no other type.
NamesApart ==
    /\ \A t, u \in Used : t # u =>
        /\ config.names[t].full \notin {config.names[u].full, config.names[u].plain}
        /\ config.names[t].plain = config.names[u].plain =>
             Types[t].path # None /\ ~IsRecursive(t)
    /\ \A i \in {j \in Made({"RegisterType"}) : script.calls[j].name # None} :
         LET t == Bare[script.calls[i].type]
             name == script.calls[i].name
         IN /\ ~IsRecursive(t)
            /\ \A u \in Used : u # t => name \notin {config.names[u].plain, config.names[u].full}
            /\ \A j \in Made({"RegisterType"}) :
                 script.calls[j].name = name => Bare[script.calls[j].type] = t

\* Deduplication is the last thing before a document is built, is asked for
\* in one way only, and there is no query operation.
DedupedLast ==
    Deduped =>
      /\ ~(config.dedupe /\ Made({"DeduplicateSchemas"}) # {})
      /\ \A i \in Made({"DeduplicateSchemas"}) \union
                   (IF config.dedupe THEN Made({"Build"}) ELSE {}) :
           \A j \in i+1..made : script.calls[j].call = "Build"
      /\ \A i \in Made({"AddOperation", "AddWebhook"}) :
           Slot(script.calls[i].method) # "query"

\* The type and the schema of every place of an operation that has a type.
TypedContent(media, contents) ==
    IF media.type = None THEN {}
    ELSE {<<media.type, contents[c]>> : c \in DOMAIN media.content}

AskedIn(i) ==
    LET options == script.calls[i].options
        cfg == Configured(options)
        op == OperationAt(i)
        old == Version = "2.0"
        bodies == IF cfg.body = <<>> THEN {}
                  ELSE IF old THEN {<<cfg.body[1].type, p.schema>> : p \in
                                      {q \in ToSet(op.params) : q.in = "body"}}
                  ELSE TypedContent(cfg.body[1], op.body[1].content)
        answers == UNION {
            IF old THEN {<<cfg.responses[c].type, op.responses[c].schema>>}
            ELSE TypedContent(cfg.responses[c], op.responses[c].content)
                : c \in DOMAIN cfg.responses}
        asked == Of(options, {"param", "rawParam"})
        params == {<<asked[k].type, op.params[k].schema>> : k \in
                     {j \in DOMAIN asked : asked[j].do = "param" /\ ByType(asked[j].options)}}
        field(f) == IF old
                    THEN (CHOOSE p \in ToSet(op.params) : p.in = "formData" /\ p.name = f.name).schema
                    ELSE <<op.body[1].content[FormType(cfg.form)][1].props[f.name]>>
        fields == {<<f.type, field(f)>> : f \in
                     {g \in ToSet(Of(options, {"form"})) : g.type # "file" /\ ByType(g.options)}}
    IN {pair \in bodies \union answers \union params \union fields : pair[1] # None}

Asked ==
    UNION {AskedIn(i) : i \in Lasting}
      \union {<<script.calls[i].type, built[1].responses[script.calls[i].name]
                                          .content[script.calls[i].contentType]>> :
                i \in LastNamed("AddResponse")}
      \union {<<script.calls[i].type, built[1].parameters[script.calls[i].name].schema>> :
                i \in {j \in LastNamed("AddParameter") : ByType(script.calls[j].options)}}
      \union (IF Deduped THEN {} ELSE {<<r[1], <<r[2]>>>> : r \in returned})

\* Wherever a document was to have the schema of a type it has one, and
\* following its references every struct met is described under a name of its
\* own: the fields encoding/json would write, each with the schema of its
\* type, what its tag asks for, and required or not. Names that collide, types
\* met again while still under way, embedded structs, the order of the calls
\* and deduplication must not mix types up.
TypesDescribed ==
    JustBuilt /\ NamesApart /\ DedupedLast =>
        \A pair \in Asked :
            pair[2] # <<>> /\ Describes(pair[1], pair[2][1], built[1].schemas)

-----------------------------------------------------------------------------
\* Operations.

\* The parameters by place and name, in the order a version lists them.
ParamsAsked(options) ==
    LET names(list, in(_)) == [k \in DOMAIN list |-> <<in(list[k]), list[k].name>>]
        given == names(Of(options, {"param", "rawParam"}), LAMBDA o : o.in)
        body == \E o \in ToSet(Of(options, {"body"})) : o.contentTypes # {}
    IN IF Version # "2.0" THEN given
       ELSE given \o (IF body THEN <<<<"body", "body">>>> ELSE <<>>)
                  \o names(Of(options, {"form"}), LAMBDA o : "formData")

\* Limits are where the version looks for them, and so is the type that
\* WithParamType gives.
AsLimited(options, param) ==
    LET whole == LastWord(options, "schema", <<>>) # <<>>
        type == LastWord(options, "type", None)
        schema == IF param.schema = <<>> THEN Blank ELSE param.schema[1]
    IN IF Version = "2.0"
       THEN /\ \A k \in LimitKeys(options) :
                 k \in DOMAIN param.limits /\ param.limits[k] = LastLimit(options, k)
            /\ type # None /\ ~whole => param.type = type
       ELSE /\ param.schema # <<>> => \A k \in LimitKeys(options) :
                 k \in DOMAIN schema.keys /\ schema.keys[k] = LastLimit(options, k)
            /\ type # None /\ ~whole => schema.type = type

ParamAsAsked(o, param) ==
    LET needed == LastWord(o.options, "required", FALSE) \/ o.in = "path"
    IN param.required = needed /\ AsLimited(o.options, param)

\* The content types a response code was last given.
ContentAsked(options, code) ==
    Last(SelectSeq(options, LAMBDA o : /\ o.do = "response" /\ o.code = code
                                       /\ o.contentTypes # {} \/ o.ref # None)).contentTypes

ResponsesAsAsked(options, responses) ==
    /\ DOMAIN responses = {o.code : o \in {p \in ToSet(Of(options, {"response"})) :
                                              p.contentTypes # {} \/ p.ref # None}}
    /\ Version # "2.0" => \A code \in DOMAIN responses :
         DOMAIN responses[code].content = ContentAsked(options, code)

\* The form is an object of the names asked for, or parameters in 2.0.
FormAsAsked(options, op) ==
    LET form == Of(options, {"form"})
        types == {c \in DOMAIN op.body[1].content :
                    c \in {"multipart/form-data", "application/x-www-form-urlencoded"}}
    IN form # <<>> /\ Version # "2.0" =>
         /\ op.body # <<>>
         /\ \E c \in types :
              /\ c = "multipart/form-data" <=> \E o \in ToSet(form) : o.type = "file"
              /\ LET schema == op.body[1].content[c][1]
                 IN /\ DOMAIN schema.props = {o.name : o \in ToSet(form)}
                    /\ schema.required = {o.name : o \in {p \in ToSet(form) :
                                            LastWord(p.options, "required", FALSE)}}

OperationAsAsked(i) ==
    LET options == script.calls[i].options
        op == OperationAt(i)
        asked == Of(options, {"param", "rawParam"})
    IN /\ op.id = LastWord(options, "id", None)
       /\ op.tags = LastWord(options, "tags", {})
       /\ op.security = IF LastWord(options, "noSecurity", FALSE) THEN <<{}>>
                        ELSE LastWord(options, "security", <<>>)
       /\ [k \in DOMAIN op.params |-> <<op.params[k].in, op.params[k].name>>]
             = ParamsAsked(options)
       /\ \A k \in DOMAIN asked :
            asked[k].do = "param" => ParamAsAsked(asked[k], op.params[k])
       /\ ResponsesAsAsked(options, op.responses)
       /\ FormAsAsked(options, op)

\* Places of the starting document that no call has been about.
Untouched(section, touched) ==
    script.start # <<>> =>
        \A x \in DOMAIN script.start[1][section] \ touched :
             /\ x \in DOMAIN built[1][section]
             /\ built[1][section][x] = script.start[1][section][x]

Named(call) == {script.calls[i].name : i \in Made({call})}

\* The operations of the starting document at other places, of any method.
OthersStay ==
    script.start # <<>> =>
      LET before == script.start[1].paths
          asked == {Place(i) : i \in Made({"AddOperation"})}
      IN \A path \in DOMAIN before : \A slot \in DOMAIN before[path] :
           <<"paths", path, slot>> \notin asked =>
             /\ path \in DOMAIN built[1].paths /\ slot \in DOMAIN built[1].paths[path]
             /\ ~Deduped => built[1].paths[path][slot] = before[path][slot]

\* A document that is built has every operation as its options ask, whatever
\* their order and the version: ids, tags, security, parameters in their
\* order and with their limits, forms, responses by code. What the starting
\* document had elsewhere is still there.
OperationsAsAsked ==
    JustBuilt =>
      /\ \A i \in Lasting : OperationAsAsked(i)
      /\ OthersStay
      /\ ~Deduped => /\ Untouched("responses", Named("AddResponse"))
                     /\ Untouched("parameters", Named("AddParameter"))
                     /\ Untouched("bodies", {})
                     /\ Untouched("schemas", DOMAIN seen.byName)
      /\ Untouched("schemes", Named("AddSecurityScheme"))

-----------------------------------------------------------------------------
\* Ids and refusals.

IdOf(i) == LastWord(script.calls[i].options, "id", None)

\* No number is within the limits, or one is no limit at all.
Senseless(options) ==
    LET keys == LimitKeys(options)
        at(k) == LastLimit(options, k)
    IN \/ \E p \in {<<"minimum", "maximum">>, <<"minLength", "maxLength">>,
                    <<"minItems", "maxItems">>} : ToSet(p) \subseteq keys /\ at(p[1]) > at(p[2])
       \/ \E k \in keys \intersect {"minLength", "maxLength", "minItems", "maxItems"} : at(k) < 0
       \/ "multipleOf" \in keys /\ at("multipleOf") <= 0
       \/ "pattern" \in keys /\ at("pattern") \notin ValidPatterns

\* Calls that ask for what no document can have.
Mistaken(i) ==
    LET call == script.calls[i]
        adding == {"AddOperation", "AddWebhook"}
        slot == Slot(call.method)
    IN \/ call.call = "AddParameter" /\ Senseless(call.options)
       \/ /\ call.call \in adding
          /\ \/ slot = None
             \/ slot = "trace" /\ Version = "2.0"
             \/ slot = "query" /\ Version # "3.2"
             \/ IdOf(i) # None /\ \E j \in Made(adding) : j < i /\ IdOf(j) = IdOf(i)
             \/ \E o \in ToSet(Of(call.options, {"param", "form"})) : Senseless(o.options)

Ids(doc) ==
    {<<s, path, slot>> \in {"paths", "webhooks"}
            \X (DOMAIN doc.paths \union DOMAIN doc.webhooks) \X Range(Upper) :
        /\ path \in DOMAIN doc[s] /\ slot \in DOMAIN doc[s][path]
        /\ doc[s][path][slot].id # None}

\* The exceptions: what the comments have a build refuse and the code lets
\* pass, a webhook before 3.1 (builder.go:252) and required fields that are
\* missing (builder.go:361, 438).
LetPass ==
    \/ Made({"AddWebhook"}) # {} /\ ~AtLeast(Version, "3.1")
    \/ content.info = <<>>
    \/ content.paths = <<>> /\ ~AtLeast(Version, "3.1")

\* A document is built exactly when nothing that was asked for is impossible:
\* one mistake, however early, in operations or webhooks, refuses every
\* document from then on, and no right script is refused. Of the exceptions
\* it is not said that they are built. An id of a document that was not read
\* from elsewhere names one operation or webhook.
BuiltWhenRight ==
    made > 0 /\ script.calls[made].call = "Build" =>
      LET door == script.calls[made].door
          right == /\ door = "BuildOAS2" => Version = "2.0"
                   /\ door = "BuildOAS3" => Version # "2.0"
                   /\ ~config.failed
                   /\ ~\E i \in 1..made : Mistaken(i)
      IN /\ built # <<>> => right
         /\ right /\ ~LetPass => built # <<>>
         /\ JustBuilt /\ script.start = <<>> =>
              \A x, y \in Ids(built[1]) :
                 built[1][x[1]][x[2]][x[3]].id = built[1][y[1]][y[2]][y[3]].id => x = y
=============================================================================
