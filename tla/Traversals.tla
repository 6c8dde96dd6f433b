----------------------------- MODULE Traversals -----------------------------
(***************************************************************************)
(* Where references occur in an OpenAPI document, and which of those places*)
(* each tool looks at.  Every tool has traversal functions of its own, one *)
(* per kind of object, so a field that one of them leaves out is a place   *)
(* that tool is blind to.                                                  *)
(*                                                                         *)
(* A place is a path of steps <<kind, field>> from the document down; a    *)
(* tool reaches it when it follows every step.  Both versions' names for a *)
(* section are the one of 3.x: "schemas" is also "definitions".  A body    *)
(* parameter of 2.0 is the field "body" of its operation, the seven methods*)
(* every version has are "get", and the map of path items a callback is    *)
(* counts as the field that holds it.                                      *)
(***************************************************************************)
EXTENDS Naturals, Sequences

In(kind, fields) == {kind} \X fields

-----------------------------------------------------------------------------
\* The objects (package parser), with the version that introduced each field.

Sections ==
    [schemas |-> 20, parameters |-> 20, responses |-> 20, paths |-> 20,
     requestBodies |-> 30, headers |-> 30, callbacks |-> 30, callbackRefs |-> 30,
     webhooks |-> 31, pathItems |-> 31, mediaTypes |-> 32]
PathItemFields ==
    [parameters |-> 20, get |-> 20, trace |-> 30, query |-> 32, additionalOperations |-> 32]
OperationFields ==
    [parameters |-> 20, body |-> 20, responses |-> 20, default |-> 20,
     requestBody |-> 30, callbacks |-> 30, callbackRefs |-> 30]
ParameterFields == [schema |-> 20, content |-> 30]
HeaderFields    == [schema |-> 30, content |-> 30]
BodyFields      == [content |-> 30]
ResponseFields  == [schema |-> 20, headers |-> 20, content |-> 30]
MediaTypeFields ==
    [schema |-> 30, encoding |-> 30, itemSchema |-> 32, itemEncoding |-> 32,
     prefixEncoding |-> 32]
EncodingFields ==
    [headers |-> 30, encoding |-> 32, itemEncoding |-> 32, prefixEncoding |-> 32]
SchemaFields ==
    [properties |-> 20, additionalProperties |-> 20, items |-> 20, allOf |-> 20,
     anyOf |-> 30, oneOf |-> 30, not |-> 30,
     patternProperties |-> 31, prefixItems |-> 31, additionalItems |-> 31, contains |-> 31,
     propertyNames |-> 31, dependentSchemas |-> 31, if |-> 31, then |-> 31, else |-> 31,
     defs |-> 31, unevaluatedProperties |-> 31, unevaluatedItems |-> 31, contentSchema |-> 31]
DiscriminatorFields == [mapping |-> 30, defaultMapping |-> 32]

Object ==
    [Document |-> Sections, PathItem |-> PathItemFields, Operation |-> OperationFields,
     Parameter |-> ParameterFields, Header |-> HeaderFields, RequestBody |-> BodyFields,
     Response |-> ResponseFields, MediaType |-> MediaTypeFields, Encoding |-> EncodingFields,
     Schema |-> SchemaFields, Discriminator |-> DiscriminatorFields]

\* Step s belongs to version v.  2.0's own fields end with it.
InVersion(s, v) ==
    /\ v >= Object[s[1]][s[2]]
    /\ s \in {<<"Response", "schema">>, <<"Operation", "body">>} => v = 20

\* The kind of object a field holds.
Holds(s) ==
    CASE s[2] \in {"schemas", "schema", "itemSchema"}                        -> "Schema"
      [] s[2] \in {"parameters", "body"}                                     -> "Parameter"
      [] s[2] \in {"responses", "default"}                                   -> "Response"
      [] s[2] \in {"requestBodies", "requestBody"}                           -> "RequestBody"
      [] s[2] = "headers"                                                    -> "Header"
      [] s[2] \in {"mediaTypes", "content"}                                  -> "MediaType"
      [] s[2] \in {"encoding", "itemEncoding", "prefixEncoding"}             -> "Encoding"
      [] s[2] \in {"paths", "webhooks", "pathItems", "callbacks"}            -> "PathItem"
      [] s[2] \in {"get", "trace", "query", "additionalOperations"}          -> "Operation"
      [] s[2] = "callbackRefs"                                               -> "Callback"
      [] s[2] \in {"mapping", "defaultMapping"}                              -> "Target"
      [] OTHER                                                               -> "Schema"

\* The object at the end of a path, whose $ref (or, for a discriminator's
\* target, value) the reference is.
Kind(path) == Holds(path[Len(path)])

\* The section a reference of that kind points into.
Section(kind) == IF kind = "Target" THEN "Schema" ELSE kind

Versions == {20, 30, 31, 32}

\* A place of the document: each step is a field of the object the step before it
\* holds.  A discriminator counts as a part of its schema.
AllSteps    == UNION {In(kind, DOMAIN Object[kind]) : kind \in DOMAIN Object}
Parts(kind) == IF kind = "Schema" THEN {"Schema", "Discriminator"} ELSE {kind}
IsPlace(path) ==
    /\ path \in Seq(AllSteps) /\ path # <<>>
    /\ path[1][1] = "Document"
    /\ \A i \in 2..Len(path) : path[i][1] \in Parts(Holds(path[i - 1]))

\* Every step of path belongs to version v.
InGrammar(path, v) == \A i \in DOMAIN path : InVersion(path[i], v)

Steps(path)          == {path[i] : i \in DOMAIN path}
Reaches(table, path) == Steps(path) \subseteq table

EverySchema == In("Schema", DOMAIN SchemaFields) \cup In("Discriminator", DOMAIN DiscriminatorFields)

\* GetOperations.
Operations(v) ==
    {"get"} \cup (IF v >= 30 THEN {"trace"} ELSE {})
            \cup (IF v >= 32 THEN {"query", "additionalOperations"} ELSE {})

-----------------------------------------------------------------------------
\* fixer: RefCollector.

CollectsDocument(v) ==
    IF v = 20 THEN {"paths", "schemas", "parameters", "responses"}
    ELSE {"paths", "webhooks"} \cup
         {"schemas", "parameters", "responses", "requestBodies", "headers", "callbacks",
          "callbackRefs", "pathItems"}
CollectsPathItem(v)    == {"parameters"} \cup Operations(v)
CollectsOperation      == {"parameters", "body", "requestBody", "responses", "default",
                           "callbacks", "callbackRefs"}
CollectsResponse       == {"headers", "content", "schema"}
CollectsParamOrHeader  == {"schema", "content"}
CollectsMediaType      == {"schema", "encoding"}
CollectsSchema         == In("Schema", {"properties", "additionalProperties", "items",
                              "additionalItems", "unevaluatedProperties", "unevaluatedItems",
                              "contentSchema", "allOf", "anyOf", "oneOf", "not", "prefixItems",
                              "contains", "propertyNames", "dependentSchemas", "if", "then",
                              "else", "defs", "patternProperties"})
                          \cup In("Discriminator", {"mapping", "defaultMapping"})

Collected == [v \in Versions |->
    In("Document", CollectsDocument(v)) \cup In("PathItem", CollectsPathItem(v))
    \cup In("Operation", CollectsOperation) \cup In("Response", CollectsResponse)
    \cup In("RequestBody", {"content"})
    \cup In("Parameter", CollectsParamOrHeader) \cup In("Header", CollectsParamOrHeader)
    \cup In("MediaType", CollectsMediaType) \cup In("Encoding", {"headers"})
    \cup CollectsSchema]

\* collectSchemaRefsRecursive: from a schema that is kept to those it uses.
Followed ==
    In("Schema", {"properties", "additionalProperties", "items", "additionalItems", "allOf",
        "anyOf", "oneOf", "not", "prefixItems", "contains", "propertyNames", "dependentSchemas",
        "unevaluatedProperties", "unevaluatedItems", "contentSchema", "if", "then", "else",
        "defs", "patternProperties"})
    \cup In("Discriminator", {"mapping", "defaultMapping"})

-----------------------------------------------------------------------------
\* fixer: rewriting after a rename.

RenamesPathItem  == {"parameters", "get", "trace", "query"}
RenamesOperation == {"parameters", "requestBody", "responses", "default", "callbacks"}
RenamesSchema    == EverySchema

\* Mutant: the rewrite leaves response headers out.
RenamesNoHeaders ==
    In("Document", {"schemas", "parameters", "responses", "requestBodies", "headers",
                    "callbacks", "pathItems", "paths", "webhooks"})
    \cup In("PathItem", RenamesPathItem) \cup In("Operation", RenamesOperation)
    \cup In("Parameter", {"schema", "content"}) \cup In("Header", {"schema", "content"})
    \cup In("RequestBody", {"content"}) \cup In("Response", {"content"})
    \cup In("MediaType", {"schema"}) \cup RenamesSchema

RenamesOAS2 ==
    In("Document", {"schemas", "parameters", "responses", "paths"})
    \cup In("PathItem", {"parameters", "get"})
    \cup In("Operation", {"parameters", "body", "responses", "default"})
    \cup In("Parameter", {"schema"}) \cup In("Response", {"schema"}) \cup RenamesSchema
RenamesOAS3 ==
    In("Document", {"schemas", "parameters", "responses", "requestBodies", "headers",
                    "callbacks", "pathItems", "paths", "webhooks"})
    \cup In("PathItem", RenamesPathItem) \cup In("Operation", RenamesOperation)
    \cup In("Parameter", {"schema", "content"}) \cup In("Header", {"schema", "content"})
    \cup In("RequestBody", {"content"}) \cup In("Response", {"content", "headers"})
    \cup In("MediaType", {"schema"}) \cup RenamesSchema

Renamed == [v \in Versions |-> IF v = 20 THEN RenamesOAS2 ELSE RenamesOAS3]

-----------------------------------------------------------------------------
\* joiner: SchemaRewriter.RewriteDocument.

RewritesDocument(v) ==
    IF v = 20 THEN {"schemas", "parameters", "responses", "paths"}
    ELSE {"schemas", "parameters", "responses", "requestBodies", "headers", "callbacks",
          "pathItems", "mediaTypes", "paths", "webhooks"}
RewritesPathItem  == {"parameters", "get", "trace"}
RewritesOperation == {"parameters", "body", "requestBody", "responses", "default", "callbacks"}
RewritesParameter == {"schema", "content"}
RewritesResponse  == {"schema", "content", "headers"}
RewritesMediaType == {"schema", "itemSchema", "encoding", "itemEncoding", "prefixEncoding"}
RewritesEncoding  == {"headers", "encoding", "itemEncoding", "prefixEncoding"}
RewritesSchema    == EverySchema

Rewritten == [v \in Versions |->
    In("Document", RewritesDocument(v)) \cup In("PathItem", RewritesPathItem)
    \cup In("Operation", RewritesOperation) \cup In("Parameter", RewritesParameter)
    \cup In("RequestBody", {"content"}) \cup In("Response", RewritesResponse)
    \cup In("Header", {"schema", "content"}) \cup In("MediaType", RewritesMediaType)
    \cup In("Encoding", RewritesEncoding) \cup RewritesSchema]

-----------------------------------------------------------------------------
\* validator: where it checks that a reference resolves.

ChecksOAS2 ==
    In("Document", {"schemas", "parameters", "responses", "paths"})
    \cup In("PathItem", {"parameters", "get"})
    \cup In("Operation", {"parameters", "body", "responses", "default"})
ChecksOAS3(v) ==
    In("Document", {"schemas", "parameters", "responses", "requestBodies", "callbackRefs",
                    "headers", "paths", "webhooks"})
    \cup In("PathItem", {"parameters"} \cup Operations(v))
    \cup In("Operation", {"parameters", "requestBody", "callbackRefs", "responses", "default"})
ChecksParameter   == In("Parameter", {"schema"})

\* Mutant: the headers of a response are left out.
ChecksContentOnly == In("Response", {"schema", "content"}) \cup In("Header", {"schema"})

ChecksResponse    == In("Response", {"schema", "content", "headers"}) \cup In("Header", {"schema"})
ChecksRequestBody == In("RequestBody", {"content"}) \cup In("MediaType", {"schema"})
ChecksSchema      == In("Schema", DOMAIN SchemaFields)

Checks == [v \in Versions |->
    (IF v = 20 THEN ChecksOAS2 ELSE ChecksOAS3(v))
    \cup ChecksParameter \cup ChecksResponse \cup ChecksRequestBody \cup ChecksSchema]

\* A webhook's own parameters are left out.
AtWebhookParameters(path) ==
    /\ path[1] = <<"Document", "webhooks">>
    /\ Len(path) > 1 /\ path[2] = <<"PathItem", "parameters">>
Checked(v, path) == Reaches(Checks[v], path) /\ ~AtWebhookParameters(path)

-----------------------------------------------------------------------------
\* converter: what is carried to the other family of versions.

PromotesDocument  == {"schemas", "parameters", "responses", "paths"}
PromotesOperation == {"parameters", "body", "responses", "default"}
PromotesResponse  == {"schema", "headers"}

\* Mutant: the parameters of a path item are not converted.
PromotesNoShared ==
    In("Document", PromotesDocument) \cup In("PathItem", {"get"})
    \cup In("Operation", PromotesOperation) \cup In("Parameter", {"schema"})
    \cup In("Response", PromotesResponse) \cup EverySchema

Promotes ==
    In("Document", PromotesDocument) \cup In("PathItem", {"parameters", "get"})
    \cup In("Operation", PromotesOperation) \cup In("Parameter", {"schema"})
    \cup In("Response", PromotesResponse) \cup EverySchema
Promoted(path) ==
    /\ Reaches(Promotes, path)
    /\ Kind(path) \notin {"Response", "PathItem"}

DemotesDocument  == {"schemas", "parameters", "responses", "paths"}
DemotesPathItem  == {"parameters", "get"}
DemotesOperation == {"parameters", "requestBody", "responses", "default"}
DemotesResponse  == {"content", "headers"}
\* discriminatorToStringForm drops mappings, except in headers, which are copied.
Demotes ==
    In("Document", DemotesDocument) \cup In("PathItem", DemotesPathItem)
    \cup In("Operation", DemotesOperation) \cup In("Parameter", {"schema"})
    \cup In("Response", DemotesResponse) \cup In("RequestBody", {"content"})
    \cup In("Header", {"schema", "content"}) \cup In("MediaType", {"schema"})
    \cup EverySchema
Demoted(path) ==
    /\ Reaches(Demotes, path)
    /\ Kind(path) \notin {"Response", "PathItem", "RequestBody"}
    /\ Kind(path) = "Target" => \E s \in Steps(path) : s[1] = "Header"

\* What a conversion to 2.0 reports as lost.  detectOAS32OperationFeatures
\* leaves default responses out, and nothing is said of the headers of an
\* encoding or of the sections that 2.0 lacks.
DemotionReported(path) ==
    \/ <<"Document", "webhooks">> \in Steps(path)
    \/ /\ path[1] = <<"Document", "paths">>
       /\ Steps(path) \cap In("PathItem", {"trace", "query", "additionalOperations"}) # {}
    \/ /\ path[1] = <<"Document", "paths">>
       /\ Steps(path) \cap In("Operation", {"callbacks", "callbackRefs"}) # {}
    \/ <<"Parameter", "content">> \in Steps(path)
    \/ Kind(path) = "Target" /\ path[1] \in In("Document", DemotesDocument)
    \/ <<"Document", "mediaTypes">> \in Steps(path)
    \/ /\ Steps(path) \cap In("MediaType", {"itemSchema", "itemEncoding", "prefixEncoding"}) # {}
       /\ <<"Operation", "default">> \notin Steps(path)
    \/ /\ Steps(path) \cap In("Encoding", {"encoding", "itemEncoding", "prefixEncoding"}) # {}
       /\ <<"Operation", "default">> \notin Steps(path)

\* What step i of a place is after a conversion to 3.x, or to 2.0.
PromotedStep(path, i) ==
    CASE path[i] = <<"Response", "schema">> ->
             <<<<"Response", "content">>, <<"MediaType", "schema">>>>
      [] path[i] = <<"Operation", "body">> -> <<<<"Operation", "requestBody">>>>
      [] path[i] = <<"Parameter", "schema">> /\ i > 1 /\ path[i - 1] = <<"Operation", "body">> ->
             <<<<"RequestBody", "content">>, <<"MediaType", "schema">>>>
      [] OTHER -> <<path[i]>>
DemotedStep(path, i) ==
    CASE path[i] = <<"Response", "content">>      -> <<<<"Response", "schema">>>>
      [] path[i] = <<"Operation", "requestBody">> -> <<<<"Operation", "body">>>>
      [] path[i] = <<"RequestBody", "content">>   -> <<<<"Parameter", "schema">>>>
      [] path[i] = <<"MediaType", "schema">> /\ path[i - 1] # <<"Header", "content">> -> <<>>
      [] path[i] = <<"Schema", "prefixItems">>    -> <<<<"Schema", "items">>>>
      [] OTHER -> <<path[i]>>

\* The place after the conversion.
PromotedPlace(path) ==
    LET upTo[i \in 0..Len(path)] == IF i = 0 THEN <<>> ELSE upTo[i - 1] \o PromotedStep(path, i)
    IN  upTo[Len(path)]
DemotedPlace(path) ==
    LET upTo[i \in 0..Len(path)] == IF i = 0 THEN <<>> ELSE upTo[i - 1] \o DemotedStep(path, i)
    IN  upTo[Len(path)]
=============================================================================
