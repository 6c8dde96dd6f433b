--------------------------- MODULE DocumentChecks ---------------------------
(***************************************************************************)
(* What the parser's structure check and the validator report.             *)
(*                                                                         *)
(* A document has one peculiarity under test: [version, site, flaw, alias].*)
(* site is a path of steps, as in Traversals, to the field it is about, and*)
(* flaw says what is peculiar: the field is "missing", its value is        *)
(* "malformed", and so on.  Whether that is a mistake depends on the       *)
(* version.  alias: the object that should have the field is a $ref, and   *)
(* has no field at all.                                                    *)
(*                                                                         *)
(* The check is a set of functions written once per kind of object, and    *)
(* the validator visits the objects in several passes, each with traversal *)
(* functions of its own; so a place can be visited by one and not another. *)
(***************************************************************************)
EXTENDS PlainTables

\* Fields, beside those of PlainTables, that a flaw can be about.  The "name" of
\* a path item is its template, that of a media type or header its key.
Leaves ==
    [Document    |-> [paths |-> 20],
     PathItem    |-> [name |-> 20, conflict |-> 32],
     Operation   |-> [operationId |-> 20, responses |-> 20, status |-> 20, variable |-> 20,
                      conflict |-> 32],
     Parameter   |-> [name |-> 20, in |-> 20, required |-> 20, type |-> 20, schema |-> 20,
                      example |-> 30, allowReserved |-> 30],
     Header      |-> [name |-> 20, type |-> 20, example |-> 30, allowReserved |-> 30],
     RequestBody |-> [content |-> 30],
     Response    |-> [description |-> 20, summary |-> 32],
     MediaType   |-> [name |-> 30, example |-> 30, encoding |-> 30],
     Encoding    |-> [encoding |-> 32],
     Schema      |-> [enum |-> 20, bounds |-> 20, required |-> 20, type |-> 20, boolean |-> 20,
                      discriminator |-> 20]]

Way(d)     == SubSeq(d.site, 1, Len(d.site) - 1)
End(d)     == Len(d.site)
Field(d)   == d.site[End(d)]
Trouble(d) == <<Field(d), d.flaw>>
Has(d, i, s) == i <= End(d) /\ d.site[i] = s

Flawed(kind, fields, flaw) == In(kind, fields) \X {flaw}

\* The field belongs to an operation, or to something inside one, of these sections.
InOperation(d, sections) ==
    /\ End(d) > 2
    /\ d.site[1] \in In("Document", sections)
    /\ d.site[2] \in In("PathItem", Operations(d.version))
OfPath(d) == End(d) = 2 /\ d.site[1] = <<"Document", "paths">>
OfOperation(d, sections) == InOperation(d, sections) /\ End(d) = 3

-----------------------------------------------------------------------------
\* parser: validateStructure.

StructureOAS2Info == Flawed("Info", {"title", "version"}, "missing")
StructureOAS3Info == StructureOAS2Info

\* The flaw "duplicate" is an identifier that an operation under paths has too;
\* "nextId" is the one that the fixer would give to the second of two operations
\* under paths that have the same.
StructureOAS2Parameter(d) ==
    /\ ~d.alias /\ End(d) = 4
    /\ Trouble(d) \in Flawed("Parameter", {"name", "in"}, "missing")
                      \cup {<<"Parameter", "in">>} \X {"unknown", "cookie", "querystring"}
StructureOAS2Operation(d) ==
    \/ Trouble(d) \in {<<<<"Operation", "operationId">>, "duplicate">>,
                       <<<<"Operation", "responses">>, "missing">>,
                       <<<<"Operation", "status">>, "malformed">>,
                       <<<<"Operation", "status">>, "wildcard">>}
    \/ Has(d, 3, <<"Operation", "parameters">>) /\ StructureOAS2Parameter(d)
StructureOAS2PathItem(d) == InOperation(d, {"paths"}) /\ StructureOAS2Operation(d)
StructureOAS2Paths(d) ==
    \/ Trouble(d) = <<<<"PathItem", "name">>, "noSlash">> /\ OfPath(d)
    \/ StructureOAS2PathItem(d)
StructureOAS2(d) ==
    \/ Trouble(d) \in Flawed("Document", {"info", "paths"}, "missing") \cup StructureOAS2Info
    \/ d.flaw = "nextId"
    \/ StructureOAS2Paths(d)

StructureOAS3Parameter(d) ==
    /\ ~d.alias /\ End(d) = 4
    /\ \/ Trouble(d) \in Flawed("Parameter", {"name", "in", "required"}, "missing")
                         \cup {<<<<"Parameter", "in">>, "unknown">>}
       \/ Trouble(d) = <<<<"Parameter", "in">>, "querystring">> /\ d.version < 32
StructureOAS3Operation(d) ==
    \/ /\ End(d) = 3
       /\ \/ Trouble(d) = <<<<"Operation", "operationId">>, "duplicate">> /\ d.site[1][2] = "paths"
          \/ Trouble(d) = <<<<"Operation", "responses">>, "missing">> /\ d.version = 30
          \/ Trouble(d) = <<<<"Operation", "status">>, "malformed">>
    \/ Has(d, 3, <<"Operation", "parameters">>) /\ StructureOAS3Parameter(d)
    \/ /\ Has(d, 3, <<"Operation", "requestBody">>) /\ End(d) = 4 /\ ~d.alias
       /\ Trouble(d) = <<<<"RequestBody", "content">>, "missing">>
StructureOAS3PathItem(d, section) == InOperation(d, {section}) /\ StructureOAS3Operation(d)
StructureOAS3Paths(d) ==
    \/ Trouble(d) = <<<<"PathItem", "name">>, "noSlash">> /\ OfPath(d)
    \/ StructureOAS3PathItem(d, "paths")
StructureOAS3Webhooks(d) == StructureOAS3PathItem(d, "webhooks")
StructureOAS3PathsRequirement(d) ==
    Trouble(d) = <<<<"Document", "paths">>, "missing">> /\ d.version = 30
StructureOAS3(d) ==
    \/ Trouble(d) \in Flawed("Document", {"info"}, "missing") \cup StructureOAS3Info
    \/ d.flaw = "nextId"
    \/ StructureOAS3PathsRequirement(d) \/ StructureOAS3Paths(d)
    \/ IF d.version < 31 THEN <<"Document", "webhooks">> \in Steps(d.site)
       ELSE StructureOAS3Webhooks(d)

\* validateStructure.
Structure(d) == IF d.version = 20 THEN StructureOAS2(d) ELSE StructureOAS3(d)

-----------------------------------------------------------------------------
\* validator, the objects of which there is one, or a list of the document's.

ValidateInfoObject ==
    Flawed("Info", {"title", "version"}, "missing") \cup Flawed("Contact", {"url", "email"}, "malformed")
    \cup Flawed("License", {"url"}, "malformed")
ValidateOAS2Info == ValidateInfoObject \cup Flawed("Document", {"info"}, "missing")
ValidateOAS3Info == ValidateOAS2Info \cup Flawed("License", {"identifier"}, "malformed")

\* emptyServerEnumApplies.
EmptyServerEnumApplies(v) == v >= 31
ValidateOAS3Servers(v) ==
    Flawed("Server", {"url"}, "missing") \cup Flawed("ServerVariable", {"default"}, "missing")
    \cup Flawed("ServerVariable", {"default"}, "outside")
    \cup (IF EmptyServerEnumApplies(v) THEN Flawed("ServerVariable", {"enum"}, "empty") ELSE {})

ValidateOAS2Security ==
    Flawed("Document", {"security"}, "undefined")
    \cup Flawed("SecurityScheme", {"type", "name", "in", "flow", "authorizationUrl", "tokenUrl"}, "missing")
    \cup Flawed("SecurityScheme", {"authorizationUrl", "tokenUrl"}, "malformed")

\* By flow, the address it needs.
ValidateOAuth2Flows(d) ==
    /\ d.flaw \in {"missing", "malformed"} /\ End(d) > 1
    /\ <<d.site[End(d) - 1], Field(d)>> \in
           {<<<<"OAuthFlows", f>>, <<"OAuthFlow", "authorizationUrl">>>> :
               f \in {"implicit", "authorizationCode"}}
           \cup {<<<<"OAuthFlows", f>>, <<"OAuthFlow", "tokenUrl">>>> :
               f \in {"password", "clientCredentials", "authorizationCode"}}
ValidateOAS3SecurityScheme(d) ==
    /\ ~d.alias
    /\ \/ Trouble(d) \in Flawed("SecurityScheme", {"type", "name", "in", "scheme", "flows",
                                                   "openIdConnectUrl"}, "missing")
       \/ ValidateOAuth2Flows(d)

ValidateOAS3SecurityRequirements(d) ==
    \/ Trouble(d) \in Flawed("Document", {"security"}, "undefined")
    \/ Trouble(d) \in Flawed("Operation", {"security"}, "undefined") /\ OfOperation(d, {"paths"})

\* The name of a component.  The charset rule, which a name with a slash in it
\* and a generic one like Page[Pet] break, is for 3.x alone.
ValidateSchemaName == Flawed("Document", {"schemas"}, "blankName")
CheckComponentNames(section) == {<<"Document", section>>} \X {"slashName", "genericName", "blankName"}
ValidateOAS3ComponentNames ==
    UNION {CheckComponentNames(section) :
             section \in {"schemas", "responses", "parameters", "examples", "requestBodies", "headers",
                          "securitySchemes", "links", "callbacks", "callbackRefs", "pathItems",
                          "mediaTypes"}}

-----------------------------------------------------------------------------
\* validator, the pass over operations.

\* checkDuplicateOperationIds, with the sections each version looks through.
CheckDuplicateOperationIds(d, sections) ==
    \/ OfOperation(d, sections) /\ Trouble(d) = <<<<"Operation", "operationId">>, "duplicate">>
    \/ d.flaw = "nextId"
ValidateOAS2OperationIds(d) == CheckDuplicateOperationIds(d, {"paths"})

ValidateOAS3OperationIds(d) == CheckDuplicateOperationIds(d, {"paths", "webhooks", "pathItems"})

\* wildcardResponseRangesPermitted.
WildcardResponseRangesPermitted(v) == v >= 30
ValidateResponseStatusCodes(v) ==
    {<<<<"Operation", "status">>, "malformed">>}
    \cup (IF WildcardResponseRangesPermitted(v) THEN {} ELSE {<<<<"Operation", "status">>, "wildcard">>})

ValidatePathTemplate == {<<<<"PathItem", "name">>, "malformed">>}
ReportsTemplate == ValidatePathTemplate \cup {<<<<"PathItem", "name">>, "noSlash">>}

\* A path template variable that neither the path item nor the operation declares.
ReportUndeclaredPathParams(d) ==
    OfOperation(d, {"paths"}) /\ Trouble(d) = <<<<"Operation", "variable">>, "undeclared">>

\* validatePathParamsRequired: a $ref never needs it (paramutil.NeedsRequiredTrue).
NeedsRequiredTrue(d) == ~d.alias /\ Trouble(d) = <<<<"Parameter", "required">>, "missing">>
OfSharedParameter(d, sections) ==
    End(d) = 3 /\ d.site[1] \in In("Document", sections) /\ d.site[2] = <<"PathItem", "parameters">>
OfOwnParameter(d, sections) ==
    InOperation(d, sections) /\ End(d) = 4 /\ d.site[3] = <<"Operation", "parameters">>
ValidatePathParameterConsistency(d) ==
    \/ NeedsRequiredTrue(d) /\ (OfSharedParameter(d, {"paths"}) \/ OfOwnParameter(d, {"paths"}))
    \/ ReportUndeclaredPathParams(d)

\* Required if the type is "array", on the objects of 2.0 that have no schema.
ValidateOAS2Items == {<<<<"Items", "items">>, "missing">>}
ValidateOAS2PrimitiveParameter == {<<<<"Parameter", "items">>, "missing">>} \cup ValidateOAS2Items
ValidateOAS2ResponseHeaders == {<<<<"Header", "items">>, "missing">>} \cup ValidateOAS2Items
\* The chain of items an array of arrays has.
ChainOfItems == {<<"Parameter", "items">>, <<"Header", "items">>, <<"Items", "items">>}
OfHeader(d, before) ==
    /\ End(d) > before + 1 /\ d.site[before + 1] = <<"Response", "headers">>
    /\ \A i \in before + 2 .. End(d) : d.site[i] \in ChainOfItems
OfParameter(d, before) ==
    /\ End(d) > before /\ \A i \in before + 1 .. End(d) : d.site[i] \in ChainOfItems
ValidateOAS2PrimitiveParameters(d) ==
    /\ ~d.alias /\ Trouble(d) \in ValidateOAS2PrimitiveParameter
    /\ d.site[1] = <<"Document", "paths">>
    /\ \/ Has(d, 2, <<"PathItem", "parameters">>) /\ OfParameter(d, 2)
       \/ Has(d, 3, <<"Operation", "parameters">>) /\ OfParameter(d, 3)

ValidateOAS2Operation(d) ==
    \/ OfOperation(d, {"paths"}) /\ Trouble(d) \in ValidateResponseStatusCodes(20)
    \/ /\ InOperation(d, {"paths"}) /\ d.site[3] \in In("Operation", {"responses", "default"})
       /\ ~d.alias /\ Trouble(d) \in ValidateOAS2ResponseHeaders /\ OfHeader(d, 3)
    \/ OfOperation(d, {"paths"}) /\ Trouble(d) \in Flawed("Operation", {"consumes", "produces"}, "malformed")
ValidateOAS2Paths(d) ==
    \/ OfPath(d) /\ Trouble(d) \in ReportsTemplate
    \/ ValidateOAS2PrimitiveParameters(d)
    \/ d.flaw = "used" /\ d.site \in {<<"Document", "paths">>} \X In("PathItem", {"query", "trace"})
    \/ ValidateOAS2Operation(d)

ValidateOAS2Parameters(d) ==
    /\ ~d.alias /\ d.site[1] = <<"Document", "parameters">>
    /\ \/ NeedsRequiredTrue(d) /\ End(d) = 2
       \/ Trouble(d) \in Flawed("Parameter", {"schema", "type"}, "missing") /\ End(d) = 2
       \/ Trouble(d) \in ValidateOAS2PrimitiveParameter /\ OfParameter(d, 1)
ValidateOAS2Responses(d) ==
    /\ d.site[1] = <<"Document", "responses">>
    /\ \/ Trouble(d) = <<<<"Response", "description">>, "missing">> /\ End(d) = 2
       \/ ~d.alias /\ Trouble(d) \in ValidateOAS2ResponseHeaders /\ OfHeader(d, 1)

\* Of a request body, a document's or an operation's; the schemas come below.
ValidateOAS3RequestBody(d, before) ==
    /\ ~d.alias
    /\ \/ End(d) = before + 1 /\ Trouble(d) = <<<<"RequestBody", "content">>, "missing">>
       \/ /\ End(d) = before + 2 /\ Has(d, before + 1, <<"RequestBody", "content">>)
          /\ Trouble(d) = <<<<"MediaType", "name">>, "malformed">>
ValidateOAS3Operation(d) ==
    \/ OfOperation(d, {"paths", "webhooks", "pathItems"}) /\ Trouble(d) \in ValidateResponseStatusCodes(d.version)
    \/ /\ InOperation(d, {"paths", "webhooks", "pathItems"})
       /\ Has(d, 3, <<"Operation", "requestBody">>) /\ ValidateOAS3RequestBody(d, 3)
ValidateOAS3Paths(d) ==
    \/ OfPath(d) /\ Trouble(d) \in ReportsTemplate
    \/ d.version < 32 /\ d.flaw = "used" /\ d.site = <<<<"Document", "paths">>, <<"PathItem", "query">>>>
ValidateOAS3ComponentPathItems(d) == NeedsRequiredTrue(d) /\ OfSharedParameter(d, {"pathItems"})
ValidateOAS3Components(d) ==
    \/ /\ End(d) = 2
       /\ \/ /\ d.site[1] = <<"Document", "responses">>
             /\ Trouble(d) = <<<<"Response", "description">>, "missing">>
          \/ /\ d.site[1] = <<"Document", "parameters">> /\ ~d.alias
             /\ \/ NeedsRequiredTrue(d)
                \/ Trouble(d) \in {<<"Parameter", "schema">>} \X {"missing", "both"}
    \/ d.site[1] = <<"Document", "requestBodies">> /\ ValidateOAS3RequestBody(d, 1)

-----------------------------------------------------------------------------
\* validator, the pass over schemas, and what it finds at parameters and headers
\* on the way.

ValidateEnumValues == {<<"Schema", "enum">>} \X {"mismatch", "csv", "csvMixed"}
ValidateSchemaTypeConstraints(v) ==
    Flawed("Schema", {"bounds"}, "contradiction")
    \cup (IF v = 30 THEN Flawed("Schema", {"type"}, "null") ELSE {})
ValidateBoolSchemaVersion(v) == IF v < 31 THEN Flawed("Schema", {"boolean"}, "written") ELSE {}
ValidateDiscriminatorForm(v) ==
    Flawed("Schema", {"discriminator"}, IF v = 20 THEN "object" ELSE "string")
ValidateXMLNodeType(v) ==
    IF v = 32 THEN Flawed("XML", {"nodeType"}, "malformed") \cup Flawed("XML", {"nodeType"}, "both")
    ELSE Flawed("XML", {"nodeType"}, "used")
ValidateDiscriminatorDefaultMapping(v) ==
    Flawed("Discriminator", {"defaultMapping"}, IF v = 32 THEN "missing" ELSE "used")
ValidateRequiredFields == Flawed("Schema", {"required"}, "undefined")
ValidateSchema(v) ==
    ValidateEnumValues \cup ValidateSchemaTypeConstraints(v) \cup ValidateBoolSchemaVersion(v)
    \cup ValidateDiscriminatorForm(v) \cup ValidateXMLNodeType(v)
    \cup ValidateDiscriminatorDefaultMapping(v) \cup ValidateRequiredFields

\* headerNameRulesApply, allowReservedPermitted: an RFC 9110 token since 3.2; and
\* a location that allowReserved is not for in any version that limits it.
ValidateHeaderName(v) ==
    IF v = 32 THEN {<<<<"Parameter", "name">>, "malformed">>, <<<<"Header", "name">>, "malformed">>} ELSE {}
AllowReservedPermitted(v) == v < 31
ValidateParameterAllowReserved(v) ==
    IF AllowReservedPermitted(v) THEN {} ELSE Flawed("Parameter", {"allowReserved"}, "misplaced")
ValidateHeaderAllowReserved(v) ==
    IF v < 31 THEN {} ELSE Flawed("Header", {"allowReserved"}, "misplaced")

ValidateNestedSchemas ==
    In("Schema", {"properties", "additionalProperties", "items", "allOf", "oneOf", "anyOf", "not"})
ValidateHeaderSchemas    == In("Header", {"schema", "content"})
ValidateParameterSchemas == In("Parameter", {"schema", "content"})
ValidateEncodingSchemas  == In("Encoding", {"headers", "encoding", "itemEncoding", "prefixEncoding"})
ValidateMediaTypeSchemas ==
    In("MediaType", {"schema", "itemSchema", "encoding", "itemEncoding", "prefixEncoding"})
ValidateResponseSchemas  == In("Response", {"content", "headers"})
ValidatePathItemSchemas ==
    In("PathItem", {"parameters", "get", "trace", "query", "additionalOperations"})
ValidateOperationSchemas == In("Operation", {"callbacks", "parameters", "responses", "default"})
ValidateBodySchemas      == In("Operation", {"requestBody"}) \cup In("RequestBody", {"content"})

ValidateOAS3ComponentSchemas ==
    In("Document", {"responses", "parameters", "headers", "mediaTypes", "callbacks"})

VisitedSchemas(v) ==
    ValidateNestedSchemas \cup
    IF v = 20 THEN In("Document", {"schemas"})
    ELSE ValidateHeaderSchemas \cup ValidateParameterSchemas \cup ValidateEncodingSchemas
         \cup ValidateMediaTypeSchemas \cup ValidateResponseSchemas \cup ValidatePathItemSchemas
         \cup ValidateOperationSchemas \cup ValidateBodySchemas \cup ValidateOAS3ComponentSchemas
         \cup In("Document", {"schemas", "requestBodies", "paths", "webhooks", "pathItems"})

\* The pass goes into a callback by itself, and only the operations outside have
\* their request bodies visited by another one.
BodyInCallback(path) ==
    \E i, j \in DOMAIN path :
        i < j /\ path[i][2] = "callbacks" /\ path[j] = <<"Operation", "requestBody">>

ValidateSchemas(d) ==
    /\ \/ Trouble(d) \in ValidateSchema(d.version)
       \/ Trouble(d) \in ValidateHeaderName(d.version) \cup ValidateParameterAllowReserved(d.version)
                         \cup ValidateHeaderAllowReserved(d.version)
    /\ Steps(Way(d)) \subseteq VisitedSchemas(d.version) \cup In("Schema", {"xml"})
    /\ ~BodyInCallback(d.site)

-----------------------------------------------------------------------------
\* validator, the pass over examples, and over the parameters in: querystring.

ExampleExclusions(v) ==
    Flawed("Example", {"externalValue"}, "both")
    \cup (IF v = 32 THEN Flawed("Example", {"dataValue", "serializedValue"}, "both") ELSE {})
MediaTypeExclusions(v) ==
    Flawed("MediaType", {"example"}, "both")
    \cup (IF v = 32 THEN Flawed("MediaType", {"encoding"}, "both") ELSE {})
EncodingExclusions(v) == IF v = 32 THEN Flawed("Encoding", {"encoding"}, "both") ELSE {}
ParameterExclusions   == Flawed("Parameter", {"example"}, "both")
HeaderExclusions      == Flawed("Header", {"example"}, "both")

\* queryStringRulesApply.
QueryStringRulesApply(v) == v = 32
ValidateQueryStringParam(v) ==
    IF QueryStringRulesApply(v) THEN Flawed("Parameter", {"content"}, "missing")
                                     \cup Flawed("Parameter", {"content"}, "both") ELSE {}
ReportQueryStringConflicts(v) ==
    IF QueryStringRulesApply(v) THEN {<<<<"Operation", "conflict">>, "both">>,
                                      <<<<"PathItem", "conflict">>, "both">>} ELSE {}

VisitParameterExamples == In("Parameter", {"examples", "content"})
VisitHeaderExamples    == In("Header", {"examples", "content"})
VisitResponseExamples  == In("Response", {"content", "headers"})
VisitContentExamples   == In("RequestBody", {"content"})
VisitMediaTypeExamples == In("MediaType", {"examples", "encoding", "itemEncoding", "prefixEncoding"})
VisitEncodingExamples  == In("Encoding", {"headers", "encoding", "itemEncoding", "prefixEncoding"})
TraversePathItem(v) ==
    In("PathItem", {"parameters"} \cup Operations(v))
    \cup In("Operation", {"parameters", "requestBody", "responses", "default", "callbacks"})
ValidateOAS3TraversalComponents ==
    In("Document", {"examples", "parameters", "headers", "requestBodies", "responses",
                    "mediaTypes", "callbacks"})
VisitedExamples(v) ==
    VisitParameterExamples \cup VisitHeaderExamples \cup VisitResponseExamples
    \cup VisitContentExamples \cup VisitMediaTypeExamples \cup VisitEncodingExamples
    \cup TraversePathItem(v) \cup ValidateOAS3TraversalComponents
    \cup In("Document", {"paths", "webhooks", "pathItems"})

\* The visit functions skip an object that has nothing they read (needsVisit), so
\* an alias is among them.
ValidateExamples(d) ==
    /\ ~d.alias
    /\ Trouble(d) \in ExampleExclusions(d.version) \cup MediaTypeExclusions(d.version)
                      \cup EncodingExclusions(d.version) \cup ParameterExclusions \cup HeaderExclusions
                      \cup ValidateQueryStringParam(d.version) \cup ReportQueryStringConflicts(d.version)
    /\ Steps(Way(d)) \subseteq VisitedExamples(d.version)

-----------------------------------------------------------------------------
\* validator, the pass for the fields that 3.2 introduced.

GateDocument ==
    In("Document", {"servers", "tags", "paths", "webhooks"})
GateComponents ==
    In("Document", {"pathItems", "mediaTypes", "examples", "responses", "parameters", "headers",
                    "securitySchemes", "links", "callbacks", "requestBodies"})
GatePathItem ==
    In("PathItem", {"servers", "parameters", "get", "trace", "query", "additionalOperations"})
\* Mutant: a callback's path items are not walked.
GateOperationFields ==
    In("Operation", {"servers", "parameters", "requestBody", "responses", "default"})
    \cup In("RequestBody", {"content"})

GateOperation ==
    In("Operation", {"servers", "parameters", "requestBody", "responses", "default", "callbacks"})
    \cup In("RequestBody", {"content"})
GateResponse  == In("Response", {"content", "headers", "links"})
GateLink      == In("Link", {"server"})
GateMediaType == In("MediaType", {"examples", "encoding", "itemEncoding", "prefixEncoding"})
GateEncoding  == In("Encoding", {"headers", "encoding", "itemEncoding", "prefixEncoding"})
GateParameter == In("Parameter", {"examples", "content"})
GateHeader    == In("Header", {"examples", "content"})
GateSecurityScheme ==
    In("SecurityScheme", {"flows"}) \cup In("OAuthFlows", DOMAIN OAuthFlowsFields)

\* What each of them reports.
ReportedByGate ==
    In("Document", {"self", "mediaTypes"}) \cup In("Tag", {"summary", "parent", "kind"})
    \cup In("Server", {"name"}) \cup In("PathItem", {"query", "additionalOperations"})
    \cup In("Response", {"summary"}) \cup In("MediaType", {"itemSchema", "itemEncoding", "prefixEncoding"})
    \cup In("Encoding", {"encoding", "itemEncoding", "prefixEncoding"})
    \cup In("Example", {"dataValue", "serializedValue"})
    \cup In("SecurityScheme", {"deprecated", "oauth2MetadataUrl"})
    \cup In("OAuthFlows", {"deviceAuthorization"}) \cup In("OAuthFlow", {"deviceAuthorizationUrl"})

\* oas32FieldGateApplies.
OAS32FieldGateApplies(v) == v < 32
GateVisited ==
    GateDocument \cup GateComponents \cup GatePathItem \cup GateOperation \cup GateResponse
    \cup GateLink \cup GateMediaType \cup GateEncoding \cup GateParameter \cup GateHeader
    \cup GateSecurityScheme
ValidateOAS32FieldsNotYetIntroduced(d) ==
    /\ OAS32FieldGateApplies(d.version)
    /\ \E i \in 1 .. End(d) :
          /\ i = End(d) => d.flaw = "used"
          /\ d.site[i] \in ReportedByGate /\ Steps(SubSeq(d.site, 1, i - 1)) \subseteq GateVisited

-----------------------------------------------------------------------------
\* validateOAS2 and validateOAS3, without the references.

ValidateOAS2(d) ==
    \/ Trouble(d) \in ValidateOAS2Info \cup ValidateOAS2Security
    \/ ValidateOAS2Paths(d)
    \/ Trouble(d) \in ValidateSchemaName \/ ValidateSchemas(d)
    \/ ValidateOAS2Parameters(d) \/ ValidateOAS2Responses(d)
    \/ ValidatePathParameterConsistency(d) \/ ValidateOAS2OperationIds(d)
ValidateOAS3(d) ==
    \/ Trouble(d) \in ValidateOAS3Info \cup ValidateOAS3ComponentNames
    \/ /\ d.site[1] = <<"Document", "servers">>
       /\ Trouble(d) \in ValidateOAS3Servers(d.version)
    \/ ValidateOAS3Paths(d) \/ ValidateOAS3Operation(d) \/ ValidateOAS3Components(d)
    \/ ValidateOAS3SecurityScheme(d) \/ ValidateOAS3SecurityRequirements(d)
    \/ ValidateOAS3ComponentPathItems(d) \/ ValidatePathParameterConsistency(d)
    \/ ValidateOAS3OperationIds(d) \/ ValidateSchemas(d) \/ ValidateExamples(d)
    \/ ValidateOAS32FieldsNotYetIntroduced(d)

\* ValidateParsed: the errors of the parse are among those it reports.
Reported(d, structure) ==
    \/ structure /\ Structure(d)
    \/ IF d.version = 20 THEN ValidateOAS2(d) ELSE ValidateOAS3(d)
=============================================================================
