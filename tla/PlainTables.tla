---------------------------- MODULE PlainTables -----------------------------
(***************************************************************************)
(* The objects of a document that hold neither a schema nor a reference to *)
(* one, and for each of them the fields that each function written once per*)
(* kind of object handles. FieldTables joins these tables with those of the*)
(* other objects.                                                          *)
(***************************************************************************)
EXTENDS Traversals, TLC

-----------------------------------------------------------------------------
\* The objects, with the version that introduced each field, and the fields that
\* hold them in the objects of Traversals.

InfoFields ==
    [title |-> 20, description |-> 20, termsOfService |-> 20, contact |-> 20,
     license |-> 20, version |-> 20, summary |-> 31]
ContactFields == [name |-> 20, url |-> 20, email |-> 20]
LicenseFields == [name |-> 20, url |-> 20, identifier |-> 31]
ExternalDocsFields == [description |-> 20, url |-> 20]
TagFields ==
    [name |-> 20, description |-> 20, externalDocs |-> 20, summary |-> 32, parent |-> 32,
     kind |-> 32]
ServerFields == [url |-> 30, description |-> 30, variables |-> 30, name |-> 32]
ServerVariableFields == [enum |-> 30, default |-> 30, description |-> 30]
SecuritySchemeFields ==
    [type |-> 20, description |-> 20, name |-> 20, in |-> 20, scheme |-> 30,
     bearerFormat |-> 30, flows |-> 30, flow |-> 20, authorizationUrl |-> 20,
     tokenUrl |-> 20, scopes |-> 20, openIdConnectUrl |-> 30, deprecated |-> 32,
     oauth2MetadataUrl |-> 32]
OAuthFlowsFields ==
    [implicit |-> 30, password |-> 30, clientCredentials |-> 30, authorizationCode |-> 30,
     deviceAuthorization |-> 32]
OAuthFlowFields ==
    [authorizationUrl |-> 30, tokenUrl |-> 30, refreshUrl |-> 30, scopes |-> 30,
     deviceAuthorizationUrl |-> 32]
ItemsFields ==
    [f \in {"type", "format", "items", "collectionFormat", "default", "maximum",
             "exclusiveMaximum", "minimum", "exclusiveMinimum", "maxLength", "minLength",
             "pattern", "maxItems", "minItems", "uniqueItems", "enum", "multipleOf"} |-> 20]
ExampleFields ==
    [summary |-> 30, description |-> 30, value |-> 30, externalValue |-> 30,
     dataValue |-> 32, serializedValue |-> 32]
LinkFields ==
    [operationRef |-> 30, operationId |-> 30, parameters |-> 30, requestBody |-> 30,
     description |-> 30, server |-> 30]
XMLFields ==
    [name |-> 20, namespace |-> 20, prefix |-> 20, attribute |-> 20, wrapped |-> 20,
     nodeType |-> 32]

Plain ==
    [Info |-> InfoFields, Contact |-> ContactFields, License |-> LicenseFields,
     ExternalDocs |-> ExternalDocsFields, Tag |-> TagFields, Server |-> ServerFields,
     ServerVariable |-> ServerVariableFields, SecurityScheme |-> SecuritySchemeFields,
     OAuthFlows |-> OAuthFlowsFields, OAuthFlow |-> OAuthFlowFields, Items |-> ItemsFields,
     Example |-> ExampleFields, Link |-> LinkFields, XML |-> XMLFields]

Added ==
    [Document |-> [info |-> 20, tags |-> 20, externalDocs |-> 20, security |-> 20,
                   securitySchemes |-> 20, host |-> 20, basePath |-> 20,
                   schemes |-> 20, consumes |-> 20, produces |-> 20,
                   servers |-> 30, examples |-> 30, links |-> 30,
                   jsonSchemaDialect |-> 31, self |-> 32],
     PathItem |-> [servers |-> 30],
     Operation |-> [tags |-> 20, externalDocs |-> 20, consumes |-> 20, produces |-> 20,
                    schemes |-> 20, security |-> 20, servers |-> 30],
     Parameter |-> [items |-> 20, examples |-> 30],
     Header |-> [items |-> 20, examples |-> 30],
     Response |-> [examples |-> 20, links |-> 30],
     MediaType |-> [examples |-> 30],
     Schema |-> [xml |-> 20, externalDocs |-> 20]]

\* Fields that 3.0 dropped.
Dropped ==
    In("Document", {"host", "basePath", "schemes", "consumes", "produces"})
    \cup In("Operation", {"schemes", "consumes", "produces"})
    \cup In("SecurityScheme", {"flow", "authorizationUrl", "tokenUrl", "scopes"})
    \cup In("Parameter", {"items"}) \cup In("Header", {"items"}) \cup In("Response", {"examples"})

InTraversals(s) == s[1] \in DOMAIN Object /\ s[2] \in DOMAIN Object[s[1]]
Introduced(s) ==
    IF InTraversals(s) THEN Object[s[1]][s[2]]
    ELSE IF s[1] \in DOMAIN Plain THEN Plain[s[1]][s[2]] ELSE Added[s[1]][s[2]]
FieldsOf(kind) ==
    [f \in UNION {DOMAIN table[kind] : table \in {t \in {Object, Plain, Added} : kind \in DOMAIN t}}
        |-> Introduced(<<kind, f>>)]

Belongs(s, v) ==
    IF InTraversals(s) THEN InVersion(s, v)
    ELSE v >= Introduced(s) /\ (s \in Dropped => v = 20)

AllFields == UNION {In(kind, DOMAIN FieldsOf(kind)) : kind \in DOMAIN Object \cup DOMAIN Plain}

\* What a field holds: an object, a text, a number (behind a pointer), a flag, a
\* list or map of texts, or a value of any type. A text that is empty, a flag that
\* is false and a list without items are fields that are absent.
Texts ==
    In("Document", {"security", "schemes", "consumes", "produces"})
    \cup In("Operation", {"tags", "schemes", "consumes", "produces"})
    \cup In("ServerVariable", {"enum"}) \cup In("Items", {"enum"}) \cup In("Link", {"parameters"})
    \cup In("SecurityScheme", {"scopes"}) \cup In("OAuthFlow", {"scopes"})
Numbers == In("Items", {"maximum", "minimum", "maxLength", "minLength", "maxItems", "minItems", "multipleOf"})
Flags ==
    In("Items", {"exclusiveMaximum", "exclusiveMinimum", "uniqueItems"})
    \cup In("XML", {"attribute", "wrapped"}) \cup In("SecurityScheme", {"deprecated"})
AnyValues ==
    In("Items", {"default"}) \cup In("Example", {"value", "dataValue"}) \cup In("Link", {"requestBody"})

PlainKind(s) ==
    CASE s \in Texts                              -> "Texts"
      [] s \in Numbers                            -> "Number"
      [] s \in Flags                              -> "Flag"
      [] s \in AnyValues \/ s = <<"Response", "examples">> -> "Any"
      [] s = <<"Operation", "security">>          -> "Security"
      [] s[2] = "info"                            -> "Info"
      [] s[2] = "contact"                         -> "Contact"
      [] s[2] = "license"                         -> "License"
      [] s[2] = "externalDocs"                    -> "ExternalDocs"
      [] s[2] = "tags" /\ s \notin Texts          -> "Tag"
      [] s[2] \in {"servers", "server"}           -> "Server"
      [] s[2] = "variables"                       -> "ServerVariable"
      [] s[2] = "securitySchemes"                 -> "SecurityScheme"
      [] s[2] = "flows"                           -> "OAuthFlows"
      [] s[1] = "OAuthFlows"                      -> "OAuthFlow"
      [] s[2] = "items"                           -> "Items"
      [] s[2] = "examples" /\ s[1] # "Response"   -> "Example"
      [] s[2] = "links"                           -> "Link"
      [] s[2] = "xml"                             -> "XML"
      [] OTHER                                    -> "Text"
KindOf(s) == IF InTraversals(s) THEN Holds(s) ELSE PlainKind(s)

-----------------------------------------------------------------------------
\* Struct tags.

TaggedInfo ==
    {"title", "description", "termsOfService", "contact", "license", "version", "summary"}
TaggedContact        == {"name", "url", "email"}
TaggedLicense        == {"name", "url", "identifier"}
TaggedExternalDocs   == {"description", "url"}
TaggedTag            == {"name", "description", "externalDocs", "summary", "parent", "kind"}
TaggedServer         == {"url", "description", "variables", "name"}
TaggedServerVariable == {"enum", "default", "description"}
TaggedSecurityScheme ==
    {"type", "description", "name", "in", "scheme", "bearerFormat", "flows", "flow",
     "authorizationUrl", "tokenUrl", "scopes", "openIdConnectUrl", "deprecated",
     "oauth2MetadataUrl"}
TaggedOAuthFlows ==
    {"implicit", "password", "clientCredentials", "authorizationCode",
     "deviceAuthorization"}
TaggedOAuthFlow ==
    {"authorizationUrl", "tokenUrl", "refreshUrl", "scopes", "deviceAuthorizationUrl"}
TaggedItems ==
    {"type", "format", "items", "collectionFormat", "default", "maximum",
     "exclusiveMaximum", "minimum", "exclusiveMinimum", "maxLength", "minLength",
     "pattern", "maxItems", "minItems", "uniqueItems", "enum", "multipleOf"}
TaggedExample ==
    {"summary", "description", "value", "externalValue", "dataValue", "serializedValue"}
TaggedLink ==
    {"operationRef", "operationId", "parameters", "requestBody", "description", "server"}
TaggedXML            == {"name", "namespace", "prefix", "attribute", "wrapped", "nodeType"}

TaggedPlain ==
    [Info |-> TaggedInfo, Contact |-> TaggedContact, License |-> TaggedLicense,
     ExternalDocs |-> TaggedExternalDocs, Tag |-> TaggedTag, Server |-> TaggedServer,
     ServerVariable |-> TaggedServerVariable, SecurityScheme |-> TaggedSecurityScheme,
     OAuthFlows |-> TaggedOAuthFlows, OAuthFlow |-> TaggedOAuthFlow, Items |-> TaggedItems,
     Example |-> TaggedExample, Link |-> TaggedLink, XML |-> TaggedXML]

-----------------------------------------------------------------------------
\* decodeFromMap.

DecodesInfo ==
    {"title", "description", "termsOfService", "contact", "license", "version", "summary"}
DecodesContact        == {"name", "url", "email"}
DecodesLicense        == {"name", "url", "identifier"}
DecodesExternalDocs   == {"description", "url"}
DecodesTag ==
    {"name", "description", "externalDocs", "summary", "parent", "kind"}
DecodesServer         == {"url", "description", "variables", "name"}
DecodesServerVariable == {"enum", "default", "description"}
DecodesSecurityScheme ==
    {"type", "description", "name", "in", "scheme", "bearerFormat", "flows", "flow",
     "authorizationUrl", "tokenUrl", "scopes", "openIdConnectUrl", "deprecated",
     "oauth2MetadataUrl"}
DecodesOAuthFlows ==
    {"implicit", "password", "clientCredentials", "authorizationCode",
     "deviceAuthorization"}
DecodesOAuthFlow ==
    {"authorizationUrl", "tokenUrl", "refreshUrl", "scopes", "deviceAuthorizationUrl"}
DecodesItems ==
    {"type", "format", "items", "collectionFormat", "default", "maximum",
     "exclusiveMaximum", "minimum", "exclusiveMinimum", "maxLength", "minLength",
     "pattern", "maxItems", "minItems", "uniqueItems", "enum", "multipleOf"}
DecodesExample ==
    {"summary", "description", "value", "externalValue", "dataValue", "serializedValue"}
DecodesLink ==
    {"operationRef", "operationId", "parameters", "requestBody", "description", "server"}
DecodesXML            == {"name", "namespace", "prefix", "attribute", "wrapped", "nodeType"}

DecodesPlain ==
    [Info |-> DecodesInfo, Contact |-> DecodesContact, License |-> DecodesLicense,
     ExternalDocs |-> DecodesExternalDocs, Tag |-> DecodesTag, Server |-> DecodesServer,
     ServerVariable |-> DecodesServerVariable, SecurityScheme |-> DecodesSecurityScheme,
     OAuthFlows |-> DecodesOAuthFlows, OAuthFlow |-> DecodesOAuthFlow,
     Items |-> DecodesItems, Example |-> DecodesExample, Link |-> DecodesLink,
     XML |-> DecodesXML]

-----------------------------------------------------------------------------
\* MarshalJSON of an object that has extensions.

WritesInfo ==
    {"title", "description", "termsOfService", "contact", "license", "version", "summary"}
WritesContact        == {"name", "url", "email"}
WritesLicense        == {"name", "url", "identifier"}
WritesExternalDocs   == {"description", "url"}
WritesTag            == {"name", "description", "externalDocs", "summary", "parent", "kind"}
WritesServer         == {"url", "description", "variables", "name"}
WritesServerVariable == {"enum", "default", "description"}
WritesSecurityScheme ==
    {"type", "description", "name", "in", "scheme", "bearerFormat", "flows", "flow",
     "authorizationUrl", "tokenUrl", "scopes", "openIdConnectUrl", "deprecated",
     "oauth2MetadataUrl"}
WritesOAuthFlows ==
    {"implicit", "password", "clientCredentials", "authorizationCode",
     "deviceAuthorization"}
WritesOAuthFlow ==
    {"authorizationUrl", "tokenUrl", "refreshUrl", "scopes", "deviceAuthorizationUrl"}
WritesItems ==
    {"type", "format", "items", "collectionFormat", "default", "maximum",
     "exclusiveMaximum", "minimum", "exclusiveMinimum", "maxLength", "minLength",
     "pattern", "maxItems", "minItems", "uniqueItems", "enum", "multipleOf"}
WritesExample ==
    {"summary", "description", "value", "externalValue", "dataValue", "serializedValue"}
WritesLink ==
    {"operationRef", "operationId", "parameters", "requestBody", "description", "server"}
WritesXML            == {"name", "namespace", "prefix", "attribute", "wrapped", "nodeType"}

WritesPlain ==
    [Info |-> WritesInfo, Contact |-> WritesContact, License |-> WritesLicense,
     ExternalDocs |-> WritesExternalDocs, Tag |-> WritesTag, Server |-> WritesServer,
     ServerVariable |-> WritesServerVariable, SecurityScheme |-> WritesSecurityScheme,
     OAuthFlows |-> WritesOAuthFlows, OAuthFlow |-> WritesOAuthFlow, Items |-> WritesItems,
     Example |-> WritesExample, Link |-> WritesLink, XML |-> WritesXML]

-----------------------------------------------------------------------------
\* DeepCopyInto: texts and flags are copied with the struct.

CopiesInfo ==
    {"title", "description", "termsOfService", "contact", "license", "version", "summary"}
CopiesContact        == {"name", "url", "email"}
CopiesLicense        == {"name", "url", "identifier"}
CopiesExternalDocs   == {"description", "url"}
CopiesTag            == {"name", "description", "externalDocs", "summary", "parent", "kind"}
CopiesServer         == {"url", "description", "variables", "name"}
CopiesServerVariable == {"enum", "default", "description"}
CopiesSecurityScheme ==
    {"type", "description", "name", "in", "scheme", "bearerFormat", "flows", "flow",
     "authorizationUrl", "tokenUrl", "scopes", "openIdConnectUrl", "deprecated",
     "oauth2MetadataUrl"}
CopiesOAuthFlows ==
    {"implicit", "password", "clientCredentials", "authorizationCode",
     "deviceAuthorization"}
CopiesOAuthFlow ==
    {"authorizationUrl", "tokenUrl", "refreshUrl", "scopes", "deviceAuthorizationUrl"}
CopiesItems ==
    {"type", "format", "items", "collectionFormat", "default", "maximum",
     "exclusiveMaximum", "minimum", "exclusiveMinimum", "maxLength", "minLength",
     "pattern", "maxItems", "minItems", "uniqueItems", "enum", "multipleOf"}
CopiesExample ==
    {"summary", "description", "value", "externalValue", "dataValue", "serializedValue"}
CopiesLink ==
    {"operationRef", "operationId", "parameters", "requestBody", "description", "server"}
CopiesXML            == {"name", "namespace", "prefix", "attribute", "wrapped", "nodeType"}

CopiesPlain ==
    [Info |-> CopiesInfo, Contact |-> CopiesContact, License |-> CopiesLicense,
     ExternalDocs |-> CopiesExternalDocs, Tag |-> CopiesTag, Server |-> CopiesServer,
     ServerVariable |-> CopiesServerVariable, SecurityScheme |-> CopiesSecurityScheme,
     OAuthFlows |-> CopiesOAuthFlows, OAuthFlow |-> CopiesOAuthFlow, Items |-> CopiesItems,
     Example |-> CopiesExample, Link |-> CopiesLink, XML |-> CopiesXML]

-----------------------------------------------------------------------------
\* Equals.

EquatesInfo ==
    {"title", "description", "termsOfService", "contact", "license", "version", "summary"}
EquatesContact        == {"name", "url", "email"}
EquatesLicense        == {"name", "url", "identifier"}
EquatesExternalDocs   == {"description", "url"}
EquatesTag ==
    {"name", "description", "externalDocs", "summary", "parent", "kind"}
EquatesServer         == {"url", "description", "variables", "name"}
EquatesServerVariable == {"enum", "default", "description"}
EquatesSecurityScheme ==
    {"type", "description", "name", "in", "scheme", "bearerFormat", "flows", "flow",
     "authorizationUrl", "tokenUrl", "scopes", "openIdConnectUrl", "deprecated",
     "oauth2MetadataUrl"}
EquatesOAuthFlows ==
    {"implicit", "password", "clientCredentials", "authorizationCode",
     "deviceAuthorization"}
EquatesOAuthFlow ==
    {"authorizationUrl", "tokenUrl", "refreshUrl", "scopes", "deviceAuthorizationUrl"}
EquatesItems ==
    {"type", "format", "items", "collectionFormat", "default", "maximum",
     "exclusiveMaximum", "minimum", "exclusiveMinimum", "maxLength", "minLength",
     "pattern", "maxItems", "minItems", "uniqueItems", "enum", "multipleOf"}
EquatesExample ==
    {"summary", "description", "value", "externalValue", "dataValue", "serializedValue"}
EquatesLink ==
    {"operationRef", "operationId", "parameters", "requestBody", "description", "server"}
EquatesXML            == {"name", "namespace", "prefix", "attribute", "wrapped", "nodeType"}

EquatesPlain ==
    [Info |-> EquatesInfo, Contact |-> EquatesContact, License |-> EquatesLicense,
     ExternalDocs |-> EquatesExternalDocs, Tag |-> EquatesTag, Server |-> EquatesServer,
     ServerVariable |-> EquatesServerVariable, SecurityScheme |-> EquatesSecurityScheme,
     OAuthFlows |-> EquatesOAuthFlows, OAuthFlow |-> EquatesOAuthFlow,
     Items |-> EquatesItems, Example |-> EquatesExample, Link |-> EquatesLink,
     XML |-> EquatesXML]

-----------------------------------------------------------------------------
\* differ.

DiffersInfo           == {"title", "description", "version"}
DiffersTag            == {"name", "description"}
DiffersServer         == {"url", "description"}
DiffersSecurityScheme == {"type"}
DiffersLink           == {"operationRef", "operationId", "description"}

DiffersPlain ==
    [Info |-> DiffersInfo, Tag |-> DiffersTag, Server |-> DiffersServer,
     SecurityScheme |-> DiffersSecurityScheme, Link |-> DiffersLink]

-----------------------------------------------------------------------------
\* joiner: the objects of a schema.

ComparesXML == {"name", "namespace", "prefix", "attribute", "wrapped", "nodeType"}
ComparesExternalDocs == {"description", "url"}
ComparesPlain == In("XML", ComparesXML) \cup In("ExternalDocs", ComparesExternalDocs)

HashesXML == {"name", "namespace", "prefix", "attribute", "wrapped", "nodeType"}
HashesPlain == In("XML", HashesXML)
=============================================================================
