----------------------------- MODULE TypeSchemas -----------------------------
(***************************************************************************)
(* Go types as schemas: the name each struct gets under the naming options *)
(* of a builder, the cache of the types met so far, and the reflection     *)
(* that goes through a type and registers what it finds on the way.        *)
(*                                                                         *)
(* Reflection is external. Types gives for each type                       *)
(*   [kind, of, fields, path, base, args]                                  *)
(* where kind is "struct", "pointer", "list", "map", "special" or a Go     *)
(* kind, of the element of a pointer, list or map, path and base the       *)
(* package and name of a named type ("" when anonymous) and args its type  *)
(* arguments. A field is [name, type, embedded, exported, json, omit,      *)
(* tag, required]: json the name in its json tag, tag what its oas tag     *)
(* sets, required that tag's own word on the matter.                       *)
(***************************************************************************)
EXTENDS Integers, SequencesExt, FiniteSetsExt, Functions

CONSTANTS
    Types,       \* type -> what reflection tells
    PackageOf,   \* package path -> its last element (path.Base)
    FlatPath,    \* package path -> itself with "_" for "/" (sanitizePath)
    ArgText,     \* with its package? -> type argument -> sanitized text
    Cased,       \* style -> text -> text in that style
    Custom,      \* template or function -> type -> name, "" when it fails
    BadTemplates \* templates that do not parse

None == ""

-----------------------------------------------------------------------------
\* Options of New that concern names. A config holds every option of New
\* and, once they are all known, the names they give.

DefaultConfig ==
    [style |-> "default", fn |-> None, template |-> None, failed |-> FALSE,
     generic |-> [style |-> "underscore", separator |-> "_", between |-> "_",
                  package |-> FALSE, casing |-> FALSE],
     dedupe |-> FALSE, processors |-> <<>>]

WithSchemaNaming(config, style) ==
    [config EXCEPT !.style = style, !.template = None, !.fn = None,
                   !.failed = FALSE]

WithSchemaNameTemplate(config, template) ==
    IF template \in BadTemplates
    THEN [config EXCEPT !.failed = TRUE, !.template = None]
    ELSE [config EXCEPT !.template = template, !.fn = None, !.failed = FALSE]

WithSchemaNameFunc(config, fn) ==
    [config EXCEPT !.fn = fn, !.template = None, !.failed = FALSE]

\* WithGenericNaming, WithGenericSeparator and their like set one field,
\* WithGenericNamingConfig all of them.
WithGeneric(config, field, value) == [config EXCEPT !.generic[field] = value]
WithGenericNamingConfig(config, generic) == [config EXCEPT !.generic = generic]

WithSemanticDeduplication(config, on) == [config EXCEPT !.dedupe = on]

\* A processor is the keyword it adds to a field; ComposeSchemaFieldProcessors
\* leaves out those that are nil.
WithSchemaFieldProcessor(config, processors) ==
    [config EXCEPT !.processors = SelectSeq(processors, LAMBDA p : p # None)]

-----------------------------------------------------------------------------
\* Names.

Joined(texts, between) ==
    FoldLeft(LAMBDA all, x : IF all = None THEN x ELSE all \o between \o x,
             None, texts)

InStyle(style, text) == IF style \in DOMAIN Cased THEN Cased[style][text] ELSE text

\* sanitizeGenericParams.
Arguments(config, t) ==
    LET texts == ArgText[config.generic.package]
    IN [i \in DOMAIN Types[t].args |->
          LET text == texts[Types[t].args[i]]
          IN IF config.generic.casing THEN InStyle(config.style, text) ELSE text]

\* formatGenericSuffix.
Or(text, default) == IF text = None THEN default ELSE text
Suffix(generic, args) ==
    LET style == CASE generic.style = "of"    -> <<"Of", generic.between \o "Of", None>>
                   [] generic.style = "for"   -> <<"For", generic.between \o "For", None>>
                   [] generic.style = "angle" -> <<"<", ",", ">">>
                   [] generic.style = "flat"  -> <<None, None, None>>
                   [] OTHER -> LET outer == Or(generic.separator, "_")
                               IN <<outer, Or(generic.between, "_"), outer>>
        around(s) == s[1] \o Joined(args, s[2]) \o s[3]
    IN around(style)

\* buildContext: the name of the type without its package.
Sanitized(config, t) ==
    IF Types[t].args = <<>> THEN Types[t].base
    ELSE Types[t].base \o Suffix(config.generic, Arguments(config, t))

Anonymous(t) == Types[t].base = None
Package(t) == PackageOf[Types[t].path]
FullName(config, t) == FlatPath[Types[t].path] \o "_" \o Sanitized(config, t)

\* applyStrategy: the name from those of the package and of the type.
Strategy(style, package, type, full) ==
    CASE style = "pascal" -> InStyle(style, package) \o InStyle(style, type)
      [] style = "camel"  -> InStyle(style, package) \o InStyle("pascal", type)
      [] style = "snake"  -> InStyle(style, package) \o "_" \o InStyle(style, type)
      [] style = "kebab"  -> InStyle(style, package) \o "-" \o InStyle(style, type)
      [] style = "type"   -> type
      [] style = "path"   -> full
      [] OTHER            -> package \o "." \o type

StyledName(config, style, t) ==
    IF Anonymous(t) THEN "AnonymousType"
    ELSE Strategy(style, Package(t), Sanitized(config, t), FullName(config, t))

\* schemaNamer.name: a function, else a template, else the style. A template
\* that fails leaves the default style.
PlainName(config, t) ==
    IF config.fn # None THEN Custom[config.fn][t]
    ELSE IF config.template # None /\ Custom[config.template][t] # None
    THEN Custom[config.template][t]
    ELSE StyledName(config, IF config.template = None THEN config.style ELSE "default", t)

\* The names a type can get under the options.
WithNames(config) ==
    [names |-> [t \in {u \in DOMAIN Types : Types[u].kind = "struct"} |->
        [plain |-> PlainName(config, t), full |-> FullName(config, t)]]] @@ config

-----------------------------------------------------------------------------
\* The cache. seen holds the schemas of the builder and the schemaCache:
\* byName the type behind a name, nameOf the name of a type, busy the types
\* under way. byType has the keys of nameOf.

NothingSeen(schemas) ==
    [schemas |-> schemas, byName |-> <<>>, nameOf |-> <<>>, busy |-> {}]

\* Mutant: every name is free.
NameByTypeOnly(config, seen, t) == config.names[t].plain

\* nameWithConflictCheck: the full name when another type has the plain one.
NameFor(config, seen, t) ==
    LET name == config.names[t] IN
    IF /\ name.plain \in DOMAIN seen.byName /\ seen.byName[name.plain] # t
       /\ Types[t].path # None
    THEN name.full ELSE name.plain

Started(seen, t) == [seen EXCEPT !.busy = @ \union {t}]

Finished(seen, t, name, schema) ==
    [schemas |-> (name :> schema) @@ seen.schemas,
     byName |-> (name :> t) @@ seen.byName,
     nameOf |-> (t :> name) @@ seen.nameOf,
     busy |-> seen.busy \ {t}]

-----------------------------------------------------------------------------
\* Schemas: a reference, or a type with what is inside and its keywords.

Blank == [ref |-> None, type |-> None, format |-> None, nullable |-> FALSE,
          inner |-> <<>>, props |-> <<>>, required |-> {}, keys |-> <<>>]
Ref(name) == [Blank EXCEPT !.ref = name]
Typed(type, format) == [Blank EXCEPT !.type = type, !.format = format]

\* generateSpecialTypeSchema.
SpecialSchema == ("time.Time" :> Typed("string", "date-time"))
                     @@ ("uuid.UUID" :> Typed("string", "uuid"))

\* generatePrimitiveSchema.
PrimitiveSchema(kind) ==
    CASE kind = "string" -> Typed("string", None)
      [] kind \in {"int", "int32", "uint", "uint32"} -> Typed("integer", "int32")
      [] kind \in {"int64", "uint64"} -> Typed("integer", "int64")
      [] kind = "float32" -> Typed("number", "float")
      [] kind = "float64" -> Typed("number", "double")
      [] kind = "bool" -> Typed("boolean", None)
      [] OTHER -> Blank

\* Keywords a schema may have that copySchema does not copy.
Uncopied == {"const", "prefixItems", "contains", "unevaluatedProperties"}

\* copySchema.
Copied(schema) ==
    [schema EXCEPT !.keys = Restrict(@, DOMAIN @ \ Uncopied)]

\* applyOASTag: a copy with the keywords of the tag.
WithTag(schema, tag) ==
    IF tag = <<>> THEN schema
    ELSE [Copied(schema) EXCEPT
            !.keys = Restrict(tag, DOMAIN tag \ {"format", "nullable"}) @@ @,
            !.format = IF "format" \in DOMAIN tag THEN tag.format ELSE @,
            !.nullable = IF "nullable" \in DOMAIN tag THEN tag.nullable ELSE @]

WithProcessors(config, schema) ==
    [schema EXCEPT !.keys = [p \in ToSet(config.processors) |-> TRUE] @@ @]

JsonName(f) == IF f.json = None THEN f.name ELSE f.json

\* isFieldRequired.
IsRequired(f) ==
    IF f.required # None THEN f.required = "true"
    ELSE Types[f.type].kind # "pointer" /\ ~f.omit

Bare[t \in DOMAIN Types] ==
    IF Types[t].kind = "pointer" THEN Bare[Types[t].of] ELSE t

RECURSIVE Generate(_, _, _, _)

\* Properties of an embedded struct, unless there is one of the name.
Promote(into, from) ==
    [into EXCEPT !.props = @ @@ from.props, !.required = @ \union from.required]

\* What is embedded and not a struct, or still under way, has no properties
\* to give.
Embedding(now, got) ==
    [seen |-> got.seen,
     schema |-> Promote(now.schema,
        IF got.schema.ref = None THEN got.schema
        ELSE IF got.schema.ref \in DOMAIN got.seen.schemas
        THEN got.seen.schemas[got.schema.ref] ELSE Blank)]

WithField(config, f, now, got) ==
    [seen |-> got.seen,
     schema |-> [now.schema EXCEPT
        !.props = (JsonName(f) :> WithProcessors(config, WithTag(got.schema, f.tag))) @@ @,
        !.required = @ \union IF IsRequired(f) THEN {JsonName(f)} ELSE {}]]

\* The fields one after the other.
StructSchema(config, seen, t) ==
    LET with(now, f, got) == IF f.embedded THEN Embedding(now, got)
                             ELSE WithField(config, f, now, got)
        step(now, f) == IF ~f.exported \/ (f.json = "-" /\ ~f.embedded) THEN now
                        ELSE with(now, f, Generate(config, now.seen, f.type, None))
    IN FoldLeft(step, [seen |-> seen, schema |-> Typed("object", None)],
                Types[t].fields)

\* A struct gets its name when its fields have been gone through.
Registered(config, t, override, got) ==
    LET name == IF override # None THEN override ELSE NameFor(config, got.seen, t)
    IN [seen |-> Finished(got.seen, t, name, got.schema), schema |-> Ref(name)]

\* Array and map schemas.
Around(type, got, pointer) ==
    [seen |-> got.seen,
     schema |-> [Typed(type, None) EXCEPT !.inner = <<got.schema>>,
                                          !.nullable = pointer]]

\* generateSchemaFromTypeWithName: the schema of a type and what has been
\* seen after it; a struct is registered and referred to.
Generate(config, seen, type, override) ==
    LET t == Bare[type]
        pointer == t # type
        kind == Types[t].kind
        give(schema) == [seen |-> seen, schema |-> [schema EXCEPT !.nullable = pointer]]
    IN CASE kind = "special" -> give(SpecialSchema[t])
         [] kind # "special" /\ t \in DOMAIN seen.nameOf ->
              [seen |-> seen, schema |-> Ref(seen.nameOf[t])]
         [] t \in seen.busy ->
              [seen |-> seen,
               schema |-> Ref(IF override # None THEN override
                              ELSE NameFor(config, seen, t))]
         [] kind = "struct" /\ t \notin seen.busy \union DOMAIN seen.nameOf ->
              Registered(config, t, override, StructSchema(config, Started(seen, t), t))
         [] kind \in {"list", "map"} ->
              Around(IF kind = "list" THEN "array" ELSE "object",
                     Generate(config, seen, Types[t].of, None), pointer)
         [] OTHER -> give(PrimitiveSchema(kind))

\* generateSchema of a value: nil gives an empty schema, and so does what has
\* no Go type.
GenerateFor(config, seen, type, override) ==
    IF type \notin DOMAIN Types THEN [seen |-> seen, schema |-> Blank]
    ELSE Generate(config, seen, type, override)

-----------------------------------------------------------------------------
\* What a type means to encoding/json, and what it is to describe it.

\* The fields of the JSON of a struct: its own, and those of what it embeds
\* unless it has one of the name itself.
RECURSIVE JsonFields(_)
JsonFields(t) ==
    LET fields == {f \in ToSet(Types[t].fields) : f.exported}
        own == {[name |-> JsonName(f), type |-> f.type, tag |-> f.tag,
                 required |-> IsRequired(f)] :
                    f \in {g \in fields : ~g.embedded /\ g.json # "-"}}
        promoted == UNION {JsonFields(Bare[f.type]) : f \in
                {g \in fields : g.embedded /\ Types[Bare[g.type]].kind = "struct"}}
    IN own \union {p \in promoted : p.name \notin {f.name : f \in own}}

\* A schema fits a type as far as its references: a struct is referred to,
\* everything else written out, and a pointer to it may be null.
RECURSIVE Fits(_, _)
Fits(type, schema) ==
    LET t == Bare[type]
        kind == Types[t].kind
        item == schema.inner # <<>> /\ Fits(Types[t].of, schema.inner[1])
    IN IF kind = "struct" THEN schema.ref # None
       ELSE /\ schema.ref = None
            /\ t # type => schema.nullable
            /\ CASE kind = "list"    -> schema.type = "array" /\ item
                 [] kind = "map"     -> schema.type = "object" /\ item
                 [] kind = "special" -> schema.type = "string"
                 [] OTHER -> schema.type = PrimitiveSchema(kind).type

\* The structs a schema refers to, each with the name it is given.
RECURSIVE Met(_, _)
Met(type, schema) ==
    LET t == Bare[type] IN
    CASE Types[t].kind = "struct" -> {<<t, schema.ref>>}
      [] Types[t].kind \in {"list", "map"} /\ schema.inner # <<>> ->
           Met(Types[t].of, schema.inner[1])
      [] OTHER -> {}

\* The schema of a name has the fields of the struct, each fitting its type
\* and with what its tag asks for.
DescribesStruct(t, name, schemas) ==
    LET schema == schemas[name]
        fields == JsonFields(t)
    IN /\ name \in DOMAIN schemas
       /\ schema.type = "object"
       /\ DOMAIN schema.props = {f.name : f \in fields}
       /\ \A f \in fields : LET s == schema.props[f.name] IN
            /\ Fits(f.type, s)
            /\ \A k \in DOMAIN f.tag \ {"format", "nullable", "description"} :
                 k \in DOMAIN s.keys /\ s.keys[k] = f.tag[k]
       /\ schema.required = {f.name : f \in {g \in fields : g.required}}

RECURSIVE Reached(_, _)
Reached(pairs, schemas) ==
    LET next(p) == UNION {Met(f.type, schemas[p[2]].props[f.name]) : f \in
                      {g \in JsonFields(p[1]) : g.name \in DOMAIN schemas[p[2]].props}}
        more == pairs \union UNION {next(p) : p \in
                    {q \in pairs : q[2] \in DOMAIN schemas}}
    IN IF more = pairs THEN pairs ELSE Reached(more, schemas)

\* All the way through references the schema is that of the type.
Describes(type, schema, schemas) ==
    \/ type = "nil"
    \/ /\ Fits(type, schema)
       /\ \A p \in Reached(Met(type, schema), schemas) :
            DescribesStruct(p[1], p[2], schemas)
=============================================================================
