---------------------------- MODULE FieldTables -----------------------------
(***************************************************************************)
(* The fields that each of the functions written once per kind of object   *)
(* handles, read off its code: the decoders, the marshallers, DeepCopyInto,*)
(* Equals, and the comparisons of the differ and the joiner.  A value      *)
(* survives one of them, or is seen by it, when every step down to it is in*)
(* its table.                                                              *)
(*                                                                         *)
(* Names are those of Traversals: the map of a Responses object is the     *)
(* field "responses" of its operation.  The requirements of an operation   *)
(* are its field "security".                                               *)
(***************************************************************************)
EXTENDS PlainTables

\* The table the parts of a family of functions make up, by version.
Table(part, plain) ==
    [v \in Versions |->
        In("Document", IF v = 20 THEN part.OAS2Document ELSE part.OAS3Document \cup part.Components)
        \cup (UNION {In(k, part[k]) : k \in DOMAIN part \ {"OAS2Document", "OAS3Document", "Components"}})
        \cup (UNION {In(k, plain[k]) : k \in DOMAIN plain})]

-----------------------------------------------------------------------------
\* Struct tags and the un- and marshallers that only split or merge: YAML both
\* ways, JSON into a document, and JSON out of an object without extensions.

TaggedOAS2Document ==
    {"info", "host", "basePath", "schemes", "consumes", "produces", "paths", "schemas",
     "parameters", "responses", "securitySchemes", "security", "tags", "externalDocs"}
TaggedOAS3Document ==
    {"info", "servers", "paths", "webhooks", "security", "tags", "externalDocs",
     "jsonSchemaDialect", "self"}
TaggedComponents ==
    {"schemas", "responses", "parameters", "requestBodies", "headers", "callbacks",
     "pathItems", "mediaTypes", "examples", "links", "securitySchemes"}
TaggedPathItem ==
    {"servers", "parameters", "get", "trace", "query", "additionalOperations"}
TaggedOperation ==
    {"tags", "externalDocs", "parameters", "body", "requestBody", "callbacks", "security",
     "servers", "consumes", "produces", "schemes"}
TaggedResponses     == {"responses", "default"}
TaggedParameter     == {"schema", "content", "items", "examples"}
TaggedHeader        == {"schema", "content", "items", "examples"}
TaggedRequestBody   == {"content"}
TaggedResponse      == {"headers", "content", "links", "schema", "examples"}
TaggedMediaType ==
    {"schema", "examples", "encoding", "itemSchema", "itemEncoding", "prefixEncoding"}
TaggedEncoding      == {"headers", "encoding", "itemEncoding", "prefixEncoding"}
TaggedSchema ==
    {"allOf", "anyOf", "oneOf", "not", "if", "then", "else", "properties",
     "patternProperties", "additionalProperties", "propertyNames", "dependentSchemas",
     "items", "prefixItems", "additionalItems", "contains", "unevaluatedItems",
     "unevaluatedProperties", "contentSchema", "defs", "xml", "externalDocs"}
TaggedDiscriminator == {"mapping", "defaultMapping"}

TaggedParts ==
    [OAS2Document |-> TaggedOAS2Document, OAS3Document |-> TaggedOAS3Document,
     Components |-> TaggedComponents, PathItem |-> TaggedPathItem,
     Operation |-> TaggedOperation \cup TaggedResponses, Parameter |-> TaggedParameter,
     Header |-> TaggedHeader, RequestBody |-> TaggedRequestBody,
     Response |-> TaggedResponse, MediaType |-> TaggedMediaType,
     Encoding |-> TaggedEncoding, Schema |-> TaggedSchema,
     Discriminator |-> TaggedDiscriminator]
Tagged == Table(TaggedParts, TaggedPlain)

\* A callback that is a reference has a field of its own, which no tag names.
SplitsCallbackRefs == {<<"Document", "callbackRefs">>, <<"Operation", "callbackRefs">>}
MergesCallbackRefs == {<<"Document", "callbackRefs">>, <<"Operation", "callbackRefs">>}

-----------------------------------------------------------------------------
\* decodeFromMap: a document out of ParseResult.Data.

DecodesOAS2Document ==
    {"info", "host", "basePath", "schemes", "consumes", "produces", "paths", "schemas",
     "parameters", "responses", "securitySchemes", "security", "tags", "externalDocs"}
DecodesOAS3Document ==
    {"info", "servers", "paths", "webhooks", "security", "tags", "externalDocs",
     "jsonSchemaDialect", "self"}
DecodesComponents ==
    {"schemas", "responses", "parameters", "requestBodies", "headers", "callbacks",
     "callbackRefs", "pathItems", "mediaTypes", "examples", "links", "securitySchemes"}
DecodesPathItem ==
    {"servers", "parameters", "get", "trace", "query", "additionalOperations"}
DecodesOperation ==
    {"tags", "externalDocs", "parameters", "body", "requestBody", "callbacks",
     "callbackRefs", "security", "servers", "consumes", "produces", "schemes"}
DecodesResponses     == {"responses", "default"}
DecodesParameter     == {"schema", "content", "items", "examples"}
DecodesHeader        == {"schema", "content", "items", "examples"}
DecodesRequestBody   == {"content"}
DecodesResponse      == {"headers", "content", "links", "schema", "examples"}
DecodesMediaType ==
    {"schema", "examples", "encoding", "itemSchema", "itemEncoding", "prefixEncoding"}
DecodesEncoding      == {"headers", "encoding", "itemEncoding", "prefixEncoding"}
DecodesSchema ==
    {"allOf", "anyOf", "oneOf", "not", "if", "then", "else", "properties",
     "patternProperties", "additionalProperties", "propertyNames", "dependentSchemas",
     "items", "prefixItems", "additionalItems", "contains", "unevaluatedItems",
     "unevaluatedProperties", "contentSchema", "defs", "xml", "externalDocs"}
DecodesDiscriminator == {"mapping", "defaultMapping"}

DecodesParts ==
    [OAS2Document |-> DecodesOAS2Document, OAS3Document |-> DecodesOAS3Document,
     Components |-> DecodesComponents, PathItem |-> DecodesPathItem,
     Operation |-> DecodesOperation \cup DecodesResponses, Parameter |-> DecodesParameter,
     Header |-> DecodesHeader, RequestBody |-> DecodesRequestBody,
     Response |-> DecodesResponse, MediaType |-> DecodesMediaType,
     Encoding |-> DecodesEncoding, Schema |-> DecodesSchema,
     Discriminator |-> DecodesDiscriminator]
Decodes == Table(DecodesParts, DecodesPlain)

-----------------------------------------------------------------------------
\* MarshalJSON of an object that has extensions: a map built key by key.

\* Mutant: the callbacks that are references are left out.
WritesNoCallbackRefs ==
    {"tags", "externalDocs", "parameters", "body", "requestBody", "callbacks", "security",
     "servers", "consumes", "produces", "schemes"}

WritesOAS2Document ==
    {"info", "host", "basePath", "schemes", "consumes", "produces", "paths", "schemas",
     "parameters", "responses", "securitySchemes", "security", "tags", "externalDocs"}
WritesOAS3Document ==
    {"info", "servers", "paths", "webhooks", "security", "tags", "externalDocs",
     "jsonSchemaDialect", "self"}
WritesComponents ==
    {"schemas", "responses", "parameters", "requestBodies", "headers", "callbacks",
     "callbackRefs", "pathItems", "mediaTypes", "examples", "links", "securitySchemes"}
WritesPathItem ==
    {"servers", "parameters", "get", "trace", "query", "additionalOperations"}
WritesOperation ==
    {"tags", "externalDocs", "parameters", "body", "requestBody", "callbacks",
     "callbackRefs", "security", "servers", "consumes", "produces", "schemes"}
WritesResponses     == {"responses", "default"}
WritesParameter     == {"schema", "content", "items", "examples"}
WritesHeader        == {"schema", "content", "items", "examples"}
WritesRequestBody   == {"content"}
WritesResponse      == {"headers", "content", "links", "schema", "examples"}
WritesMediaType ==
    {"schema", "examples", "encoding", "itemSchema", "itemEncoding", "prefixEncoding"}
WritesEncoding      == {"headers", "encoding", "itemEncoding", "prefixEncoding"}
WritesSchema ==
    {"allOf", "anyOf", "oneOf", "not", "if", "then", "else", "properties",
     "patternProperties", "additionalProperties", "propertyNames", "dependentSchemas",
     "items", "prefixItems", "additionalItems", "contains", "unevaluatedItems",
     "unevaluatedProperties", "contentSchema", "defs", "xml", "externalDocs"}
WritesDiscriminator == {"mapping", "defaultMapping"}

WritesParts ==
    [OAS2Document |-> WritesOAS2Document, OAS3Document |-> WritesOAS3Document,
     Components |-> WritesComponents, PathItem |-> WritesPathItem,
     Operation |-> WritesOperation \cup WritesResponses, Parameter |-> WritesParameter,
     Header |-> WritesHeader, RequestBody |-> WritesRequestBody,
     Response |-> WritesResponse, MediaType |-> WritesMediaType,
     Encoding |-> WritesEncoding, Schema |-> WritesSchema,
     Discriminator |-> WritesDiscriminator]
Writes == Table(WritesParts, WritesPlain)

-----------------------------------------------------------------------------
\* DeepCopyInto first copies the whole struct: a field it then leaves out is not
\* lost but shared.

\* Mutant: the content of a response is copied with its struct only.
CopiesNoContent == {"headers", "links", "schema", "examples"}

CopiesOAS2Document ==
    {"info", "host", "basePath", "schemes", "consumes", "produces", "paths", "schemas",
     "parameters", "responses", "securitySchemes", "security", "tags", "externalDocs"}
CopiesOAS3Document ==
    {"info", "servers", "paths", "webhooks", "security", "tags", "externalDocs",
     "jsonSchemaDialect", "self"}
CopiesComponents ==
    {"schemas", "responses", "parameters", "requestBodies", "headers", "callbacks",
     "callbackRefs", "pathItems", "mediaTypes", "examples", "links", "securitySchemes"}
CopiesPathItem ==
    {"servers", "parameters", "get", "trace", "query", "additionalOperations"}
CopiesOperation ==
    {"tags", "externalDocs", "parameters", "body", "requestBody", "callbacks",
     "callbackRefs", "security", "servers", "consumes", "produces", "schemes"}
CopiesResponses     == {"responses", "default"}
CopiesParameter     == {"schema", "content", "items", "examples"}
CopiesHeader        == {"schema", "content", "items", "examples"}
CopiesRequestBody   == {"content"}
CopiesResponse      == {"headers", "content", "links", "schema", "examples"}
CopiesMediaType ==
    {"schema", "examples", "encoding", "itemSchema", "itemEncoding", "prefixEncoding"}
CopiesEncoding      == {"headers", "encoding", "itemEncoding", "prefixEncoding"}
CopiesDiscriminator == {"mapping", "defaultMapping"}

\* A schema's fields of any type, pointers, and slices and maps.
CopiesSchemaOrBool ==
    {"items", "additionalProperties", "additionalItems", "unevaluatedItems",
     "unevaluatedProperties"}
CopiesSubschema ==
    {"contains", "propertyNames", "if", "then", "else", "not", "contentSchema"}
CopiesSubschemas ==
    {"prefixItems", "allOf", "anyOf", "oneOf", "properties", "patternProperties",
     "dependentSchemas", "defs"}
CopiesDocsAndXML == {"externalDocs", "xml"}

CopiesParts ==
    [OAS2Document |-> CopiesOAS2Document, OAS3Document |-> CopiesOAS3Document,
     Components |-> CopiesComponents, PathItem |-> CopiesPathItem,
     Operation |-> CopiesOperation \cup CopiesResponses, Parameter |-> CopiesParameter,
     Header |-> CopiesHeader, RequestBody |-> CopiesRequestBody,
     Response |-> CopiesResponse, MediaType |-> CopiesMediaType,
     Encoding |-> CopiesEncoding,
     Schema |-> CopiesSchemaOrBool \cup CopiesSubschema \cup CopiesSubschemas \cup CopiesDocsAndXML,
     Discriminator |-> CopiesDiscriminator]
Copies == Table(CopiesParts, CopiesPlain)

-----------------------------------------------------------------------------
\* Equals.

EquatesOAS2Document ==
    {"info", "host", "basePath", "schemes", "consumes", "produces", "paths", "schemas",
     "parameters", "responses", "securitySchemes", "security", "tags", "externalDocs"}
EquatesOAS3Document ==
    {"info", "servers", "paths", "webhooks", "security", "tags", "externalDocs",
     "jsonSchemaDialect", "self"}
EquatesComponents ==
    {"schemas", "responses", "parameters", "requestBodies", "headers", "callbacks",
     "callbackRefs", "pathItems", "mediaTypes", "examples", "links", "securitySchemes"}
EquatesPathItem ==
    {"servers", "parameters", "get", "trace", "query", "additionalOperations"}
EquatesOperation ==
    {"tags", "externalDocs", "parameters", "body", "requestBody", "callbacks",
     "callbackRefs", "security", "servers", "consumes", "produces", "schemes"}
EquatesResponses     == {"responses", "default"}
EquatesParameter     == {"schema", "content", "items", "examples"}
EquatesHeader        == {"schema", "content", "items", "examples"}
EquatesRequestBody   == {"content"}
EquatesResponse      == {"headers", "content", "links", "schema", "examples"}
EquatesMediaType ==
    {"schema", "examples", "encoding", "itemSchema", "itemEncoding", "prefixEncoding"}
EquatesEncoding      == {"headers", "encoding", "itemEncoding", "prefixEncoding"}
EquatesSchema ==
    {"allOf", "anyOf", "oneOf", "not", "if", "then", "else", "properties",
     "patternProperties", "additionalProperties", "propertyNames", "dependentSchemas",
     "items", "prefixItems", "additionalItems", "contains", "unevaluatedItems",
     "unevaluatedProperties", "contentSchema", "defs", "xml", "externalDocs"}
EquatesDiscriminator == {"mapping", "defaultMapping"}

EquatesParts ==
    [OAS2Document |-> EquatesOAS2Document, OAS3Document |-> EquatesOAS3Document,
     Components |-> EquatesComponents, PathItem |-> EquatesPathItem,
     Operation |-> EquatesOperation \cup EquatesResponses, Parameter |-> EquatesParameter,
     Header |-> EquatesHeader, RequestBody |-> EquatesRequestBody,
     Response |-> EquatesResponse, MediaType |-> EquatesMediaType,
     Encoding |-> EquatesEncoding, Schema |-> EquatesSchema,
     Discriminator |-> EquatesDiscriminator]
Equates == Table(EquatesParts, EquatesPlain)

-----------------------------------------------------------------------------
\* differ: the fields it compares.

\* Mutant: only the responses of listed codes are compared.
DiffersCodes == {"responses"}

DiffersOAS2Document ==
    {"info", "host", "basePath", "schemes", "consumes", "produces", "paths", "schemas",
     "securitySchemes", "tags"}
DiffersOAS3Document  == {"info", "servers", "paths", "webhooks", "tags"}
DiffersComponents    == {"schemas", "securitySchemes", "mediaTypes"}
DiffersPathItem      == {"get", "trace"}
DiffersOperation     == {"parameters", "body", "requestBody"}
DiffersResponses     == {"responses", "default"}
DiffersParameter     == {"schema"}
DiffersRequestBody   == {"content"}
DiffersResponse      == {"headers", "content", "links", "examples"}
DiffersMediaType     == {"schema"}

\* The fields of schemas, by the function that compares them.
DiffersProperties == {"properties"}
DiffersItems == {"items"}
DiffersAdditional == {"additionalProperties", "additionalItems"}
DiffersComposition == {"allOf", "anyOf", "oneOf", "not", "if", "then", "else"}
DiffersUnevaluated == {"unevaluatedItems", "unevaluatedProperties"}
DiffersContentFields == {"contentSchema"}
DiffersPrefixItems == {"prefixItems"}
DiffersContains == {"contains", "propertyNames"}
DiffersDependentSchemas == {"dependentSchemas"}

DiffersSchema == DiffersProperties \cup DiffersItems \cup DiffersAdditional
    \cup DiffersComposition \cup DiffersUnevaluated \cup DiffersContentFields
    \cup DiffersPrefixItems \cup DiffersContains \cup DiffersDependentSchemas

DiffersParts ==
    [OAS2Document |-> DiffersOAS2Document, OAS3Document |-> DiffersOAS3Document,
     Components |-> DiffersComponents, PathItem |-> DiffersPathItem,
     Operation |-> DiffersOperation \cup DiffersResponses, Parameter |-> DiffersParameter,
     RequestBody |-> DiffersRequestBody, Response |-> DiffersResponse,
     MediaType |-> DiffersMediaType, Schema |-> DiffersSchema]
Differs == Table(DiffersParts, DiffersPlain)

-----------------------------------------------------------------------------
\* joiner: what makes two schemas the same, and the hash that groups them.

\* Mutant: schemas with different conditions are the same.
ComparesNoConditions == {"patternProperties", "additionalItems", "defs"}

ComparesDeep ==
    {"properties", "allOf", "anyOf", "oneOf", "not", "unevaluatedItems",
     "unevaluatedProperties", "contentSchema", "prefixItems", "contains", "propertyNames",
     "dependentSchemas", "xml"}
ComparesSchemaOrBool == {"items", "additionalProperties"}
ComparesStructural == {"patternProperties", "additionalItems", "if", "then", "else", "defs"}
\* Compared where documentation counts, as it does here.
ComparesDocs == {"externalDocs"}
ComparesDiscriminator == {"mapping", "defaultMapping"}
Compares == In("Discriminator", ComparesDiscriminator) \cup ComparesPlain
    \cup In("Schema", ComparesDeep \cup ComparesSchemaOrBool \cup ComparesStructural \cup ComparesDocs)

HashesSchema ==
    {"properties", "patternProperties", "additionalProperties", "items", "prefixItems",
     "additionalItems", "if", "then", "else"}
HashesContent == {"unevaluatedItems", "unevaluatedProperties", "contentSchema"}
HashesComposition == {"allOf", "anyOf", "oneOf", "not"}
HashesPayload == {"xml"}
HashesValidation == {"contains", "propertyNames", "dependentSchemas", "defs"}
HashesDiscriminator == {"mapping", "defaultMapping"}
Hashes == In("Discriminator", HashesDiscriminator) \cup HashesPlain
    \cup In("Schema", HashesSchema \cup HashesContent \cup HashesComposition \cup HashesPayload \cup HashesValidation)
=============================================================================
