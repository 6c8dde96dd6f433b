------------------------- MODULE DocumentConversions ------------------------
(***************************************************************************)
(* What the converter makes of a document with one peculiarity (as in      *)
(* DocumentChecks), and whether it says so.                                *)
(*                                                                         *)
(* A conversion either restamps a copy of the document (3.x to 3.y) or     *)
(* builds a new one object by object, and then a field that the function of*)
(* its object does not copy is lost. The outcome is                        *)
(* [document, lost, issue]: issue is the gravest thing that is reported of *)
(* the peculiarity, and a document that has lost its peculiarity is        *)
(* Ordinary.                                                               *)
(***************************************************************************)
EXTENDS DocumentChecks, SequencesExt

Silent == 0
Info == 1
Warning == 2
Critical == 3

Outcome(d, lost, issue) == [document |-> d, lost |-> lost, issue |-> issue]
Ordinary(version) == [version |-> version, site |-> <<<<"Document", "info">>>>, flaw |-> "used", alias |-> FALSE]
Worst(S) == CHOOSE i \in S : \A j \in S : j <= i
Says(reported, issue) == IF reported THEN issue ELSE Silent

-----------------------------------------------------------------------------
\* detectOAS32Features: the fields of 3.2 in a document whose target is older.

DetectDocument ==
    In("Document", {"servers", "tags", "paths", "webhooks", "mediaTypes", "pathItems", "schemas",
                    "examples", "parameters", "headers", "requestBodies", "responses",
                    "securitySchemes", "links"})
DetectPathItem   == In("PathItem", {"parameters", "get", "trace", "query", "additionalOperations"})
DetectOperation  == In("Operation", {"parameters", "requestBody", "responses"})
                    \cup In("RequestBody", {"content"})
DetectParameter  == In("Parameter", {"examples", "content"})
DetectHeader     == In("Header", {"examples", "content"})
DetectResponse   == In("Response", {"content", "headers", "links"})
DetectLink       == In("Link", {"server"})
DetectMediaType  ==
    In("MediaType", {"examples", "schema", "itemSchema", "encoding", "itemEncoding", "prefixEncoding"})
DetectEncoding   == In("Encoding", {"encoding", "itemEncoding", "prefixEncoding"})
DetectSecurityScheme == In("SecurityScheme", {"flows"}) \cup In("OAuthFlows", DOMAIN OAuthFlowsFields)
DetectSchema     == In("Schema", DOMAIN SchemaFields \cup {"discriminator", "xml"})

Detectable ==
    In("Document", {"self", "mediaTypes"}) \cup In("Server", {"name"})
    \cup In("Tag", {"summary", "parent", "kind"}) \cup In("PathItem", {"query", "additionalOperations"})
    \cup In("Response", {"summary"}) \cup In("MediaType", {"itemSchema", "itemEncoding", "prefixEncoding"})
    \cup In("Encoding", {"encoding", "itemEncoding", "prefixEncoding"})
    \cup In("Example", {"dataValue", "serializedValue"})
    \cup In("SecurityScheme", {"deprecated", "oauth2MetadataUrl"})
    \cup In("OAuthFlows", {"deviceAuthorization"}) \cup In("OAuthFlow", {"deviceAuthorizationUrl"})
    \cup In("Discriminator", {"defaultMapping"}) \cup In("XML", {"nodeType"})

DetectWalked ==
    DetectDocument \cup DetectPathItem \cup DetectOperation \cup DetectParameter
    \cup DetectHeader \cup DetectResponse \cup DetectLink \cup DetectMediaType
    \cup DetectEncoding \cup DetectSecurityScheme \cup DetectSchema
\* Every field along the way is reported on its own.
DetectOAS32Features(d) ==
    \/ \E i \in 1 .. End(d) :
          /\ d.site[i] \in Detectable
          /\ Steps(SubSeq(d.site, 1, i - 1)) \subseteq DetectWalked
    \/ /\ Trouble(d) = <<<<"Parameter", "in">>, "querystring">> /\ ~d.alias
       /\ Steps(Way(d)) \subseteq DetectWalked

-----------------------------------------------------------------------------
\* Within 3.x: convertOAS3ToOAS3.

CheckSchemaNullable ==
    In("Schema", {"items", "properties", "additionalProperties", "allOf", "anyOf", "oneOf", "not"})
CheckOperationNullable ==
    In("Operation", {"requestBody", "responses", "default", "parameters"})
    \cup In("RequestBody", {"content"}) \cup In("Response", {"content"}) \cup In("MediaType", {"schema"})
    \cup In("Parameter", {"schema"})
CheckPathItemNullable == In("PathItem", {"get", "trace"})
CheckNullableDeprecation(d) ==
    /\ Trouble(d) = <<<<"Schema", "nullable">>, "used">>
    /\ Steps(Way(d)) \subseteq CheckSchemaNullable \cup CheckOperationNullable
                                 \cup CheckPathItemNullable \cup In("Document", {"schemas", "paths"})

ConvertOAS3ToOAS3(d, target) ==
    Outcome([d EXCEPT !.version = target], FALSE,
            Says(\/ d.version = 30 /\ target >= 31 /\ CheckNullableDeprecation(d)
                 \/ target < 32 /\ DetectOAS32Features(d), Warning))

-----------------------------------------------------------------------------
\* Schemas, in both directions.

\* tupleForOAS30, tupleToPrefixItems; fixSchemaExclusiveMinMaxForOAS31; and
\* discriminatorToObjectForm.
ConvertOAS2SchemaToOAS3(d, target) ==
    CASE Trouble(d) = <<<<"Schema", "tuple">>, "used">> ->
             Outcome(Ordinary(target), target = 30, Says(target = 30, Warning))
      [] Trouble(d) = <<<<"Schema", "exclusive">>, "used">> /\ target >= 31 ->
             Outcome(Ordinary(target), FALSE, Silent)
      [] Trouble(d) = <<<<"Schema", "discriminator">>, "string">> ->
             Outcome(Ordinary(target), FALSE, Silent)
      [] OTHER -> Outcome([d EXCEPT !.version = target], FALSE, Silent)

\* detectOAS3SchemaFeatures reports, and leaves the field in place.
DetectOAS3SchemaFeatures ==
    In("Schema", {"nullable", "writeOnly", "deprecated", "if", "then", "else", "contains", "propertyNames"})

\* Mutant: the schemas inside a schema are left as they are.
DiscriminatorToStringFormAtTop(d) ==
    End(d) = 2 /\ Trouble(d) = <<<<"Schema", "discriminator">>, "object">>

DiscriminatorToStringForm(d) == Trouble(d) = <<<<"Schema", "discriminator">>, "object">>

\* A mapping has no place in 2.0; prefixItemsToTuple.
ConvertOAS3SchemaToOAS2(d) ==
    LET detected == Says(Steps(d.site) \cap DetectOAS3SchemaFeatures # {}, Warning)
    IN  CASE Field(d) \in In("Discriminator", {"mapping", "defaultMapping"}) ->
                 Outcome(Ordinary(20), TRUE, Warning)
          [] DiscriminatorToStringForm(d) ->
                 Outcome(Ordinary(20), FALSE, Silent)
          [] Trouble(d) = <<<<"Schema", "boolean">>, "written">>
             /\ d.site[End(d) - 1] = <<"Schema", "prefixItems">> ->
                 Outcome(Ordinary(20), TRUE, Warning)
          [] OTHER -> Outcome([d EXCEPT !.version = 20], FALSE, detected)

InSchema(d) == \E i \in 1 .. End(d) : d.site[i][1] = "Schema"
InHeader(d) == \E i \in 1 .. End(d) : d.site[i][1] = "Header"

-----------------------------------------------------------------------------
\* From 2.0: convertOAS2ToOAS3.

PromotedDocument ==
    In("Document", {"info", "tags", "paths", "schemas", "parameters", "responses", "securitySchemes",
                    "externalDocs", "security", "host", "basePath", "schemes", "consumes", "produces"})
PromotedPathItem == In("PathItem", {"parameters", "get", "name"})
PromotedOperation ==
    In("Operation", {"tags", "externalDocs", "operationId", "parameters", "security", "responses",
                     "default", "body", "consumes", "produces", "status"})
PromotedParameter == In("Parameter", {"schema", "items", "name", "in", "required", "type"})
PromotedResponse  == In("Response", {"schema", "headers", "description"})
PromotedSecurityScheme ==
    In("SecurityScheme", {"type", "description", "name", "in", "flow", "authorizationUrl", "tokenUrl", "scopes"})

\* What no object of 3.x has, and its value is said otherwise: the address of the
\* server, media types, the flow of a scheme, the type of a parameter.
ConvertServers == In("Document", {"host", "basePath", "schemes"})
ConvertSecurityDefinitions == In("SecurityScheme", {"flow", "authorizationUrl", "tokenUrl", "scopes"})
ConvertMediaTypes == In("Document", {"consumes", "produces"}) \cup In("Operation", {"consumes", "produces"})
ConvertOAS2ItemsToSchema ==
    In("Parameter", {"items"}) \cup In("Items", DOMAIN ItemsFields \ {"collectionFormat"})
Respelled == ConvertServers \cup ConvertSecurityDefinitions \cup ConvertMediaTypes \cup ConvertOAS2ItemsToSchema

\* Copied whole: info, tags, headers, external documentation and schemas.
CopiedWhole == {"Info", "Contact", "License", "Tag", "ExternalDocs", "Header", "Items", "Schema", "XML",
                "Discriminator"}

PromotedSite(d) == FlattenSeq([i \in DOMAIN d.site |-> PromotedStep(d.site, i)])
ConvertOAS2ToOAS3(d, target) ==
    LET copied == PromotedDocument \cup PromotedPathItem \cup PromotedOperation \cup PromotedParameter
                  \cup PromotedResponse \cup PromotedSecurityScheme
        moved  == [d EXCEPT !.version = target, !.site = PromotedSite(d)]
        anew   == Field(d)[1] = "Response"    \* built without its reference
    IN  CASE d.alias /\ Steps(Way(d)) \subseteq copied ->
                 Outcome([moved EXCEPT !.alias = ~anew], anew, Silent)
          [] Field(d) = <<"Items", "collectionFormat">> /\ ~InHeader(d) ->
                 Outcome(Ordinary(target), TRUE, Says(d.site[End(d) - 1] = <<"Parameter", "items">>, Warning))
          [] \E i \in 1 .. End(d) : d.site[i][1] \notin CopiedWhole /\ d.site[i] \notin copied ->
                 Outcome(Ordinary(target), TRUE, Silent)
          [] ~InHeader(d) /\ Field(d) \in Respelled -> Outcome(Ordinary(target), FALSE, Silent)
          [] InSchema(d) -> ConvertOAS2SchemaToOAS3([d EXCEPT !.site = PromotedSite(d)], target)
          [] OTHER -> Outcome(moved, FALSE, Silent)

-----------------------------------------------------------------------------
\* To 2.0: convertOAS3ToOAS2.

DemotedDocument ==
    In("Document", {"info", "tags", "paths", "schemas", "parameters", "responses", "securitySchemes",
                    "externalDocs", "security"})
DemotedPathItem  == In("PathItem", {"parameters", "get", "name"})
DemotedOperation ==
    In("Operation", {"tags", "externalDocs", "operationId", "parameters", "security", "requestBody",
                     "responses", "default", "status"}) \cup In("RequestBody", {"content"})
DemotedParameter == In("Parameter", {"schema", "name", "in", "required"})
DemotedResponse  == In("Response", {"content", "headers", "description"}) \cup In("MediaType", {"schema", "name"})
DemotedSecurityScheme == In("SecurityScheme", {"type", "description", "name", "in"})

\* Said otherwise: the first server's address, the scheme of a scheme, one flow.
ConvertServersToHostBasePath == In("Document", {"servers"}) \cup In("Server", {"url"})
ConvertSecuritySchemes ==
    In("SecurityScheme", {"scheme", "flows"}) \cup In("OAuthFlows", {"implicit", "password",
           "clientCredentials", "authorizationCode"})
    \cup In("OAuthFlow", {"authorizationUrl", "tokenUrl", "scopes"})

\* What is reported as lost, beside the fields of 3.2.
LostPathItem  == In("PathItem", {"trace", "query", "additionalOperations"})
LostOperation == In("Operation", {"callbacks", "callbackRefs"})
LostIssue(d) ==
    Worst({Says(\/ <<"Document", "webhooks">> \in Steps(d.site)
                \/ d.site[1] = <<"Document", "paths">>
                   /\ Steps(d.site) \cap (LostPathItem \cup LostOperation) # {}
                \/ /\ <<"Response", "links">> \in Steps(d.site)
                   /\ d.site[1] \in In("Document", {"paths", "responses"})
                \/ <<"SecurityScheme", "openIdConnectUrl">> \in Steps(d.site), Critical),
           Says(\/ <<"Server", "variables">> \in Steps(d.site) /\ d.site[1] = <<"Document", "servers">>
                \/ <<"Parameter", "content">> \in Steps(d.site) /\ d.site[1] \in DemotedDocument
                \/ Field(d) \in In("SecurityScheme", {"bearerFormat"})
                \/ DetectOAS32Features(d), Warning)})

\* A reference to a header is replaced by the header; those to responses, bodies
\* and security schemes are dropped, and what referred is left without a field. A
\* parameter keeps its own, and is said to have no type.
ConvertAliasToOAS2(d, moved) ==
    LET kind == Field(d)[1] IN
    CASE kind = "Parameter"      -> Outcome(moved, FALSE, Warning)
      [] kind = "Header"         -> Outcome(Ordinary(20), FALSE, Info)
      [] kind = "Response"       -> Outcome([moved EXCEPT !.alias = FALSE], TRUE, Silent)
      [] kind = "RequestBody"    -> Outcome(Ordinary(20), TRUE, Silent)
      [] kind = "SecurityScheme" ->
             Outcome([moved EXCEPT !.site = Append(Way(d), <<"SecurityScheme", "type">>), !.alias = FALSE],
                     TRUE, Silent)

DemotedSite(d) == FlattenSeq([i \in DOMAIN d.site |-> DemotedStep(d.site, i)])
ConvertOAS3ToOAS2(d) ==
    LET copied    == DemotedDocument \cup DemotedPathItem \cup DemotedOperation \cup DemotedParameter
                     \cup DemotedResponse \cup DemotedSecurityScheme
        respelled == ConvertServersToHostBasePath \cup ConvertSecuritySchemes
        moved     == [d EXCEPT !.version = 20, !.site = DemotedSite(d)]
        inCopied  == \A i \in 1 .. End(d) : InHeader([site |-> SubSeq(d.site, 1, i)])
                                            \/ d.site[i][1] \in CopiedWhole \/ d.site[i] \in copied
    IN  CASE d.alias /\ Steps(Way(d)) \subseteq copied -> ConvertAliasToOAS2(d, moved)
          [] Trouble(d) = <<<<"RequestBody", "content">>, "missing">> /\ inCopied ->
                 Outcome(Ordinary(20), FALSE, Silent)
          [] Trouble(d) = <<<<"Parameter", "schema">>, "missing">> /\ inCopied ->
                 Outcome(Ordinary(20), FALSE, Warning)
          [] Trouble(d) = <<<<"Parameter", "in">>, "cookie">> /\ inCopied ->
                 Outcome(Ordinary(20), TRUE, Critical)
          [] Trouble(d) = <<<<"Operation", "status">>, "wildcard">> /\ inCopied ->
                 Outcome(Ordinary(20), FALSE, Warning)
          [] Trouble(d) = <<<<"Document", "paths">>, "missing">> -> Outcome(Ordinary(20), FALSE, Silent)
          [] d.flaw # "missing" /\ Steps(d.site) \subseteq copied \cup respelled /\ Field(d) \in respelled ->
                 Outcome(Ordinary(20), FALSE, Silent)
          [] ~inCopied -> Outcome(Ordinary(20), d.flaw = "used" \/ d.alias, LostIssue(d))
          [] InSchema(d) /\ ~InHeader(d) ->
                 LET schema == ConvertOAS3SchemaToOAS2([d EXCEPT !.site = DemotedSite(d)])
                 IN  [schema EXCEPT !.issue = Worst({@, LostIssue(d)})]
          [] OTHER -> Outcome(moved, FALSE, LostIssue(d))

-----------------------------------------------------------------------------
\* ConvertParsed.  The same version is no conversion, and is said to be none.

Convert(d, target) ==
    CASE d.version = target              -> Outcome(d, FALSE, Info)
      [] d.version = 20 /\ target # 20   -> ConvertOAS2ToOAS3(d, target)
      [] d.version # 20 /\ target = 20   -> ConvertOAS3ToOAS2(d)
      [] OTHER                           -> ConvertOAS3ToOAS3(d, target)
=============================================================================
