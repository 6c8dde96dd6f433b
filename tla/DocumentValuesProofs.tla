------------------------ MODULE DocumentValuesProofs ------------------------
(***************************************************************************)
(* Theorems about DocumentValues: places of any depth, in documents of any *)
(* version, and any number of edits.                                       *)
(***************************************************************************)
EXTENDS DocumentValues, InductionLemmas

-----------------------------------------------------------------------------
(* Fields and tables. *)

\* The kinds of objects.
LEMMA KindsAre ==
    /\ DOMAIN Object = {"Document", "PathItem", "Operation", "Parameter", "Header",
                         "RequestBody", "Response", "MediaType", "Encoding", "Schema",
                         "Discriminator"}
    /\ DOMAIN Plain = {"Info", "Contact", "License", "ExternalDocs", "Tag", "Server",
                        "ServerVariable", "SecurityScheme", "OAuthFlows", "OAuthFlow",
                        "Items", "Example", "Link", "XML"}
    /\ DOMAIN Added = {"Document", "PathItem", "Operation", "Parameter", "Header",
                        "Response", "MediaType", "Schema"}
BY DEF Object, Plain, Added

\* A field is that of one of the tables of objects.
LEMMA FieldIs ==
    ASSUME NEW s \in AllFields
    PROVE  /\ s = <<s[1], s[2]>>
           /\ \/ s[1] \in DOMAIN Object /\ s[2] \in DOMAIN Object[s[1]]
              \/ s[1] \in DOMAIN Plain /\ s[2] \in DOMAIN Plain[s[1]]
              \/ s[1] \in DOMAIN Added /\ s[2] \in DOMAIN Added[s[1]]
<1>1. PICK kind : kind \in DOMAIN Object \cup DOMAIN Plain
          /\ s \in In(kind, DOMAIN FieldsOf(kind))
  BY Zenon DEF AllFields
<1>2. PICK f : f \in DOMAIN FieldsOf(kind) /\ s = <<kind, f>>
  BY <1>1 DEF In
<1>3. DOMAIN FieldsOf(kind) =
        UNION {DOMAIN table[kind] : table \in {t \in {Object, Plain, Added} : kind \in DOMAIN t}}
  BY DEF FieldsOf
<1>4. PICK table \in {Object, Plain, Added} : kind \in DOMAIN table /\ f \in DOMAIN table[kind]
  BY <1>2, <1>3
<1> QED
  BY <1>2, <1>4

\* The names of the fields of each kind.
LEMMA NamesAre ==
    ASSUME NEW s \in AllFields
    PROVE  /\ s[1] = "Document" => s[2] \in DOMAIN Sections \cup {"info", "tags",
              "externalDocs", "security", "securitySchemes", "host", "basePath",
              "schemes", "consumes", "produces", "servers", "examples", "links",
              "jsonSchemaDialect", "self"}
           /\ s[1] = "PathItem" => s[2] \in DOMAIN PathItemFields \cup {"servers"}
           /\ s[1] = "Operation" => s[2] \in DOMAIN OperationFields \cup {"tags",
              "externalDocs", "consumes", "produces", "schemes", "security", "servers"}
           /\ s[1] = "Parameter" => s[2] \in DOMAIN ParameterFields \cup {"items", "examples"}
           /\ s[1] = "Header" => s[2] \in DOMAIN HeaderFields \cup {"items", "examples"}
           /\ s[1] = "RequestBody" => s[2] \in DOMAIN BodyFields
           /\ s[1] = "Response" => s[2] \in DOMAIN ResponseFields \cup {"examples", "links"}
           /\ s[1] = "MediaType" => s[2] \in DOMAIN MediaTypeFields \cup {"examples"}
           /\ s[1] = "Encoding" => s[2] \in DOMAIN EncodingFields
           /\ s[1] = "Schema" => s[2] \in DOMAIN SchemaFields \cup {"xml", "externalDocs"}
           /\ s[1] = "Discriminator" => s[2] \in DOMAIN DiscriminatorFields
           /\ s[1] = "Info" => s[2] \in DOMAIN InfoFields
           /\ s[1] = "Contact" => s[2] \in DOMAIN ContactFields
           /\ s[1] = "License" => s[2] \in DOMAIN LicenseFields
           /\ s[1] = "ExternalDocs" => s[2] \in DOMAIN ExternalDocsFields
           /\ s[1] = "Tag" => s[2] \in DOMAIN TagFields
           /\ s[1] = "Server" => s[2] \in DOMAIN ServerFields
           /\ s[1] = "ServerVariable" => s[2] \in DOMAIN ServerVariableFields
           /\ s[1] = "SecurityScheme" => s[2] \in DOMAIN SecuritySchemeFields
           /\ s[1] = "OAuthFlows" => s[2] \in DOMAIN OAuthFlowsFields
           /\ s[1] = "OAuthFlow" => s[2] \in DOMAIN OAuthFlowFields
           /\ s[1] = "Items" => s[2] \in DOMAIN ItemsFields
           /\ s[1] = "Example" => s[2] \in DOMAIN ExampleFields
           /\ s[1] = "Link" => s[2] \in DOMAIN LinkFields
           /\ s[1] = "XML" => s[2] \in DOMAIN XMLFields
           /\ s[1] \in {"Document", "PathItem", "Operation", "Parameter", "Header",
                       "RequestBody", "Response", "MediaType", "Encoding", "Schema",
                       "Discriminator", "Info", "Contact", "License", "ExternalDocs",
                       "Tag", "Server", "ServerVariable", "SecurityScheme",
                       "OAuthFlows", "OAuthFlow", "Items", "Example", "Link", "XML"}
<1>1. s[1] \in DOMAIN Object \cup DOMAIN Plain
  BY FieldIs, KindsAre
<1>2. s[1] = "Document" => s[2] \in DOMAIN Object["Document"] \cup DOMAIN Added["Document"]
  BY FieldIs, KindsAre
<1>3. s[1] = "PathItem" => s[2] \in DOMAIN Object["PathItem"] \cup DOMAIN Added["PathItem"]
  BY FieldIs, KindsAre
<1>4. s[1] = "Operation" => s[2] \in DOMAIN Object["Operation"] \cup DOMAIN Added["Operation"]
  BY FieldIs, KindsAre
<1>5. s[1] = "Parameter" => s[2] \in DOMAIN Object["Parameter"] \cup DOMAIN Added["Parameter"]
  BY FieldIs, KindsAre
<1>6. s[1] = "Header" => s[2] \in DOMAIN Object["Header"] \cup DOMAIN Added["Header"]
  BY FieldIs, KindsAre
<1>7. s[1] = "RequestBody" => s[2] \in DOMAIN Object["RequestBody"]
  BY FieldIs, KindsAre
<1>8. s[1] = "Response" => s[2] \in DOMAIN Object["Response"] \cup DOMAIN Added["Response"]
  BY FieldIs, KindsAre
<1>9. s[1] = "MediaType" => s[2] \in DOMAIN Object["MediaType"] \cup DOMAIN Added["MediaType"]
  BY FieldIs, KindsAre
<1>10. s[1] = "Encoding" => s[2] \in DOMAIN Object["Encoding"]
  BY FieldIs, KindsAre
<1>11. s[1] = "Schema" => s[2] \in DOMAIN Object["Schema"] \cup DOMAIN Added["Schema"]
  BY FieldIs, KindsAre
<1>12. s[1] = "Discriminator" => s[2] \in DOMAIN Object["Discriminator"]
  BY FieldIs, KindsAre
<1>13. s[1] = "Info" => s[2] \in DOMAIN Plain["Info"]
  BY FieldIs, KindsAre
<1>14. s[1] = "Contact" => s[2] \in DOMAIN Plain["Contact"]
  BY FieldIs, KindsAre
<1>15. s[1] = "License" => s[2] \in DOMAIN Plain["License"]
  BY FieldIs, KindsAre
<1>16. s[1] = "ExternalDocs" => s[2] \in DOMAIN Plain["ExternalDocs"]
  BY FieldIs, KindsAre
<1>17. s[1] = "Tag" => s[2] \in DOMAIN Plain["Tag"]
  BY FieldIs, KindsAre
<1>18. s[1] = "Server" => s[2] \in DOMAIN Plain["Server"]
  BY FieldIs, KindsAre
<1>19. s[1] = "ServerVariable" => s[2] \in DOMAIN Plain["ServerVariable"]
  BY FieldIs, KindsAre
<1>20. s[1] = "SecurityScheme" => s[2] \in DOMAIN Plain["SecurityScheme"]
  BY FieldIs, KindsAre
<1>21. s[1] = "OAuthFlows" => s[2] \in DOMAIN Plain["OAuthFlows"]
  BY FieldIs, KindsAre
<1>22. s[1] = "OAuthFlow" => s[2] \in DOMAIN Plain["OAuthFlow"]
  BY FieldIs, KindsAre
<1>23. s[1] = "Items" => s[2] \in DOMAIN Plain["Items"]
  BY FieldIs, KindsAre
<1>24. s[1] = "Example" => s[2] \in DOMAIN Plain["Example"]
  BY FieldIs, KindsAre
<1>25. s[1] = "Link" => s[2] \in DOMAIN Plain["Link"]
  BY FieldIs, KindsAre
<1>26. s[1] = "XML" => s[2] \in DOMAIN Plain["XML"]
  BY FieldIs, KindsAre
<1>27. DOMAIN Object["Document"] = DOMAIN Sections
           /\ DOMAIN Added["Document"] = {"info", "tags", "externalDocs", "security",
                  "securitySchemes", "host", "basePath", "schemes", "consumes", "produces",
                  "servers", "examples", "links", "jsonSchemaDialect", "self"}
  BY DEF Object, Added
<1>28. DOMAIN Object["PathItem"] = DOMAIN PathItemFields /\ DOMAIN Added["PathItem"] = {"servers"}
  BY DEF Object, Added
<1>29. DOMAIN Object["Operation"] = DOMAIN OperationFields
           /\ DOMAIN Added["Operation"] = {"tags", "externalDocs", "consumes", "produces",
                  "schemes", "security", "servers"}
  BY DEF Object, Added
<1>30. DOMAIN Object["Parameter"] = DOMAIN ParameterFields
           /\ DOMAIN Added["Parameter"] = {"items", "examples"}
  BY DEF Object, Added
<1>31. DOMAIN Object["Header"] = DOMAIN HeaderFields
           /\ DOMAIN Added["Header"] = {"items", "examples"}
  BY DEF Object, Added
<1>32. DOMAIN Object["RequestBody"] = DOMAIN BodyFields
  BY DEF Object
<1>33. DOMAIN Object["Response"] = DOMAIN ResponseFields
           /\ DOMAIN Added["Response"] = {"examples", "links"}
  BY DEF Object, Added
<1>34. DOMAIN Object["MediaType"] = DOMAIN MediaTypeFields
           /\ DOMAIN Added["MediaType"] = {"examples"}
  BY DEF Object, Added
<1>35. DOMAIN Object["Encoding"] = DOMAIN EncodingFields
  BY DEF Object
<1>36. DOMAIN Object["Schema"] = DOMAIN SchemaFields
           /\ DOMAIN Added["Schema"] = {"xml", "externalDocs"}
  BY DEF Object, Added
<1>37. DOMAIN Object["Discriminator"] = DOMAIN DiscriminatorFields
  BY DEF Object
<1>38. /\ DOMAIN Plain["Info"] = DOMAIN InfoFields
      /\ DOMAIN Plain["Contact"] = DOMAIN ContactFields
      /\ DOMAIN Plain["License"] = DOMAIN LicenseFields
      /\ DOMAIN Plain["ExternalDocs"] = DOMAIN ExternalDocsFields
      /\ DOMAIN Plain["Tag"] = DOMAIN TagFields
      /\ DOMAIN Plain["Server"] = DOMAIN ServerFields
      /\ DOMAIN Plain["ServerVariable"] = DOMAIN ServerVariableFields
      /\ DOMAIN Plain["SecurityScheme"] = DOMAIN SecuritySchemeFields
      /\ DOMAIN Plain["OAuthFlows"] = DOMAIN OAuthFlowsFields
      /\ DOMAIN Plain["OAuthFlow"] = DOMAIN OAuthFlowFields
      /\ DOMAIN Plain["Items"] = DOMAIN ItemsFields
      /\ DOMAIN Plain["Example"] = DOMAIN ExampleFields
      /\ DOMAIN Plain["Link"] = DOMAIN LinkFields
      /\ DOMAIN Plain["XML"] = DOMAIN XMLFields
  BY DEF Plain
<1> QED
  BY <1>1, <1>2, <1>3, <1>4, <1>5, <1>6, <1>7, <1>8, <1>9, <1>10, <1>11, <1>12, <1>13,
     <1>14, <1>15, <1>16, <1>17, <1>18, <1>19, <1>20, <1>21, <1>22, <1>23, <1>24, <1>25,
     <1>26, <1>27, <1>28, <1>29, <1>30, <1>31, <1>32, <1>33, <1>34, <1>35, <1>36, <1>37,
     <1>38, KindsAre

\* What a version has at the top of a document.
LEMMA DocumentFields ==
    ASSUME NEW s \in AllFields, s[1] = "Document", NEW v \in Versions, Belongs(s, v)
    PROVE  /\ v = 20 => s[2] \in {"schemas", "parameters", "responses", "paths", "info", "tags",
                                  "externalDocs", "security", "securitySchemes", "host",
                                      "basePath", "schemes", "consumes", "produces"}
           /\ v # 20 => s[2] \notin {"host", "basePath", "schemes", "consumes", "produces"}
<1>1. s = <<"Document", s[2]>> /\ "Document" \in DOMAIN Object /\ "Document" \notin DOMAIN Plain
  BY FieldIs, KindsAre
<1>2. Object["Document"] = Sections /\ Added["Document"] = Added.Document
  BY DEF Object
<1>3. CASE s[2] \in DOMAIN Sections
  <2>1. InTraversals(s)
    BY <1>1, <1>2, <1>3 DEF InTraversals
  <2>2. v >= Sections[s[2]]
    BY <1>1, <1>2, <2>1 DEF Belongs, InVersion
  <2> QED
    BY <1>3, <2>2 DEF Sections
<1>4. CASE s[2] \notin DOMAIN Sections
  <2>1. ~InTraversals(s)
    BY <1>1, <1>2, <1>4 DEF InTraversals
  <2>2. v >= Added.Document[s[2]] /\ (s \in Dropped => v = 20)
    BY <1>1, <1>2, <2>1 DEF Belongs, Introduced
  <2>3. s[2] \in {"info", "tags", "externalDocs", "security", "securitySchemes", "host",
            "basePath", "schemes",
                  "consumes", "produces", "servers", "examples", "links", "jsonSchemaDialect",
                      "self"}
    BY <1>4, NamesAre
  <2>4. v = 20 => s[2] \notin {"servers", "examples", "links", "jsonSchemaDialect", "self"}
    BY <2>2, <2>3 DEF Added
  <2>5. s[2] \in {"host", "basePath", "schemes", "consumes", "produces"} => s \in Dropped
    BY <1>1 DEF Dropped, In
  <2> QED
    BY <2>2, <2>3, <2>4, <2>5
<1> QED
  BY <1>3, <1>4

\* What a table has.
LEMMA InTable ==
    ASSUME NEW part, NEW plain, NEW v \in Versions, NEW s, s = <<s[1], s[2]>>
    PROVE  /\ /\ s[1] \in DOMAIN part \ {"OAS2Document", "OAS3Document", "Components"}
              /\ s[2] \in part[s[1]]
              => s \in Table(part, plain)[v]
           /\ s[1] \in DOMAIN plain /\ s[2] \in plain[s[1]] => s \in Table(part, plain)[v]
           /\ /\ s[1] = "Document"
              /\ s[2] \in IF v = 20 THEN part.OAS2Document
                     ELSE part.OAS3Document \cup part.Components
              => s \in Table(part, plain)[v]
<1> DEFINE own  == DOMAIN part \ {"OAS2Document", "OAS3Document", "Components"}
           root == IF v = 20 THEN part.OAS2Document ELSE part.OAS3Document \cup part.Components
<1>1. Table(part, plain)[v] =
        In("Document", root) \cup (UNION {In(n, part[n]) : n \in own})
        \cup (UNION {In(n, plain[n]) : n \in DOMAIN plain})
  BY DEF Table
<1>2. \A S : s[2] \in S => s \in In(s[1], S)
  BY DEF In
<1> HIDE DEF own, root
<1>3. s[1] \in own /\ s[2] \in part[s[1]] => s \in UNION {In(n, part[n]) : n \in own}
  BY <1>2, Zenon
<1>4. s[1] \in DOMAIN plain /\ s[2] \in plain[s[1]]
          => s \in UNION {In(n, plain[n]) : n \in DOMAIN plain}
  BY <1>2, Zenon
<1>5. s[1] = "Document" /\ s[2] \in root => s \in In("Document", root)
  BY <1>2
<1>6. s[1] \in own /\ s[2] \in part[s[1]] => s \in Table(part, plain)[v]
  BY <1>1, <1>3
<1>7. s[1] \in DOMAIN plain /\ s[2] \in plain[s[1]] => s \in Table(part, plain)[v]
  BY <1>1, <1>4
<1>8. s[1] = "Document" /\ s[2] \in root => s \in Table(part, plain)[v]
  BY <1>1, <1>5
<1>9. /\ s[1] \in DOMAIN part \ {"OAS2Document", "OAS3Document", "Components"}
             /\ s[2] \in part[s[1]]
      => s \in Table(part, plain)[v]
  BY <1>6, Zenon DEF own
<1>10. /\ s[1] = "Document"
       /\ s[2] \in IF v = 20 THEN part.OAS2Document ELSE part.OAS3Document \cup part.Components
       => s \in Table(part, plain)[v]
  BY <1>8, Zenon DEF root
<1> QED
  BY <1>7, <1>9, <1>10, Zenon

\* Struct tags name every field, with the un- and marshallers that split callbacks.
LEMMA SplitsAll ==
    ASSUME NEW v \in Versions, NEW s \in AllFields, Belongs(s, v)
    PROVE  s \in Tagged[v] \cup SplitsCallbackRefs
<1>1. s = <<s[1], s[2]>>
  BY FieldIs
<1>2. CASE s[1] = "Document"
  <2>1. CASE v = 20
    <3>1. s[2] \in TaggedParts.OAS2Document
      BY <1>2, <2>1, DocumentFields DEF TaggedParts, TaggedOAS2Document
    <3> QED
      BY <1>1, <1>2, <2>1, <3>1, InTable DEF Tagged
  <2>2. CASE v # 20
    <3>1. s[2] = "callbackRefs" \/ s[2] \in TaggedParts.OAS3Document \cup TaggedParts.Components
      BY <1>2, <2>2, DocumentFields, NamesAre DEF Sections, TaggedParts, TaggedOAS3Document,
          TaggedComponents
    <3> QED
      BY <1>1, <1>2, <2>2, <3>1, InTable DEF Tagged, SplitsCallbackRefs
  <2> QED
    BY <2>1, <2>2
<1>3. CASE s[1] = "PathItem"
  <2>1. "PathItem" \in DOMAIN TaggedParts /\ (s[2] \in TaggedParts["PathItem"])
    BY <1>3, NamesAre DEF PathItemFields, TaggedParts, TaggedPathItem
  <2> QED
    BY <1>1, <1>3, <2>1, InTable DEF Tagged
<1>4. CASE s[1] = "Operation"
  <2>1. "Operation" \in DOMAIN TaggedParts
            /\ (s[2] = "callbackRefs" \/ s[2] \in TaggedParts["Operation"])
    BY <1>4, NamesAre DEF OperationFields, TaggedParts, TaggedOperation, TaggedResponses
  <2> QED
    BY <1>1, <1>4, <2>1, InTable DEF Tagged, SplitsCallbackRefs
<1>5. CASE s[1] = "Parameter"
  <2>1. "Parameter" \in DOMAIN TaggedParts /\ (s[2] \in TaggedParts["Parameter"])
    BY <1>5, NamesAre DEF ParameterFields, TaggedParts, TaggedParameter
  <2> QED
    BY <1>1, <1>5, <2>1, InTable DEF Tagged
<1>6. CASE s[1] = "Header"
  <2>1. "Header" \in DOMAIN TaggedParts /\ (s[2] \in TaggedParts["Header"])
    BY <1>6, NamesAre DEF HeaderFields, TaggedParts, TaggedHeader
  <2> QED
    BY <1>1, <1>6, <2>1, InTable DEF Tagged
<1>7. CASE s[1] = "RequestBody"
  <2>1. "RequestBody" \in DOMAIN TaggedParts /\ (s[2] \in TaggedParts["RequestBody"])
    BY <1>7, NamesAre DEF BodyFields, TaggedParts, TaggedRequestBody
  <2> QED
    BY <1>1, <1>7, <2>1, InTable DEF Tagged
<1>8. CASE s[1] = "Response"
  <2>1. "Response" \in DOMAIN TaggedParts /\ (s[2] \in TaggedParts["Response"])
    BY <1>8, NamesAre DEF ResponseFields, TaggedParts, TaggedResponse
  <2> QED
    BY <1>1, <1>8, <2>1, InTable DEF Tagged
<1>9. CASE s[1] = "MediaType"
  <2>1. "MediaType" \in DOMAIN TaggedParts /\ (s[2] \in TaggedParts["MediaType"])
    BY <1>9, NamesAre DEF MediaTypeFields, TaggedParts, TaggedMediaType
  <2> QED
    BY <1>1, <1>9, <2>1, InTable DEF Tagged
<1>10. CASE s[1] = "Encoding"
  <2>1. "Encoding" \in DOMAIN TaggedParts /\ (s[2] \in TaggedParts["Encoding"])
    BY <1>10, NamesAre DEF EncodingFields, TaggedParts, TaggedEncoding
  <2> QED
    BY <1>1, <1>10, <2>1, InTable DEF Tagged
<1>11. CASE s[1] = "Schema"
  <2>1. "Schema" \in DOMAIN TaggedParts /\ (s[2] \in TaggedParts["Schema"])
    BY <1>11, NamesAre DEF SchemaFields, TaggedParts, TaggedSchema
  <2> QED
    BY <1>1, <1>11, <2>1, InTable DEF Tagged
<1>12. CASE s[1] = "Discriminator"
  <2>1. "Discriminator" \in DOMAIN TaggedParts /\ (s[2] \in TaggedParts["Discriminator"])
    BY <1>12, NamesAre DEF DiscriminatorFields, TaggedParts, TaggedDiscriminator
  <2> QED
    BY <1>1, <1>12, <2>1, InTable DEF Tagged
<1>13. CASE s[1] = "Info"
  <2>1. "Info" \in DOMAIN TaggedPlain /\ s[2] \in TaggedPlain["Info"]
    BY <1>13, NamesAre DEF InfoFields, TaggedPlain, TaggedInfo
  <2> QED
    BY <1>1, <1>13, <2>1, InTable DEF Tagged
<1>14. CASE s[1] = "Contact"
  <2>1. "Contact" \in DOMAIN TaggedPlain /\ s[2] \in TaggedPlain["Contact"]
    BY <1>14, NamesAre DEF ContactFields, TaggedPlain, TaggedContact
  <2> QED
    BY <1>1, <1>14, <2>1, InTable DEF Tagged
<1>15. CASE s[1] = "License"
  <2>1. "License" \in DOMAIN TaggedPlain /\ s[2] \in TaggedPlain["License"]
    BY <1>15, NamesAre DEF LicenseFields, TaggedPlain, TaggedLicense
  <2> QED
    BY <1>1, <1>15, <2>1, InTable DEF Tagged
<1>16. CASE s[1] = "ExternalDocs"
  <2>1. "ExternalDocs" \in DOMAIN TaggedPlain /\ s[2] \in TaggedPlain["ExternalDocs"]
    BY <1>16, NamesAre DEF ExternalDocsFields, TaggedPlain, TaggedExternalDocs
  <2> QED
    BY <1>1, <1>16, <2>1, InTable DEF Tagged
<1>17. CASE s[1] = "Tag"
  <2>1. "Tag" \in DOMAIN TaggedPlain /\ s[2] \in TaggedPlain["Tag"]
    BY <1>17, NamesAre DEF TagFields, TaggedPlain, TaggedTag
  <2> QED
    BY <1>1, <1>17, <2>1, InTable DEF Tagged
<1>18. CASE s[1] = "Server"
  <2>1. "Server" \in DOMAIN TaggedPlain /\ s[2] \in TaggedPlain["Server"]
    BY <1>18, NamesAre DEF ServerFields, TaggedPlain, TaggedServer
  <2> QED
    BY <1>1, <1>18, <2>1, InTable DEF Tagged
<1>19. CASE s[1] = "ServerVariable"
  <2>1. "ServerVariable" \in DOMAIN TaggedPlain /\ s[2] \in TaggedPlain["ServerVariable"]
    BY <1>19, NamesAre DEF ServerVariableFields, TaggedPlain, TaggedServerVariable
  <2> QED
    BY <1>1, <1>19, <2>1, InTable DEF Tagged
<1>20. CASE s[1] = "SecurityScheme"
  <2>1. "SecurityScheme" \in DOMAIN TaggedPlain /\ s[2] \in TaggedPlain["SecurityScheme"]
    BY <1>20, NamesAre DEF SecuritySchemeFields, TaggedPlain, TaggedSecurityScheme
  <2> QED
    BY <1>1, <1>20, <2>1, InTable DEF Tagged
<1>21. CASE s[1] = "OAuthFlows"
  <2>1. "OAuthFlows" \in DOMAIN TaggedPlain /\ s[2] \in TaggedPlain["OAuthFlows"]
    BY <1>21, NamesAre DEF OAuthFlowsFields, TaggedPlain, TaggedOAuthFlows
  <2> QED
    BY <1>1, <1>21, <2>1, InTable DEF Tagged
<1>22. CASE s[1] = "OAuthFlow"
  <2>1. "OAuthFlow" \in DOMAIN TaggedPlain /\ s[2] \in TaggedPlain["OAuthFlow"]
    BY <1>22, NamesAre DEF OAuthFlowFields, TaggedPlain, TaggedOAuthFlow
  <2> QED
    BY <1>1, <1>22, <2>1, InTable DEF Tagged
<1>23. CASE s[1] = "Items"
  <2>1. "Items" \in DOMAIN TaggedPlain /\ s[2] \in TaggedPlain["Items"]
    BY <1>23, NamesAre DEF ItemsFields, TaggedPlain, TaggedItems
  <2> QED
    BY <1>1, <1>23, <2>1, InTable DEF Tagged
<1>24. CASE s[1] = "Example"
  <2>1. "Example" \in DOMAIN TaggedPlain /\ s[2] \in TaggedPlain["Example"]
    BY <1>24, NamesAre DEF ExampleFields, TaggedPlain, TaggedExample
  <2> QED
    BY <1>1, <1>24, <2>1, InTable DEF Tagged
<1>25. CASE s[1] = "Link"
  <2>1. "Link" \in DOMAIN TaggedPlain /\ s[2] \in TaggedPlain["Link"]
    BY <1>25, NamesAre DEF LinkFields, TaggedPlain, TaggedLink
  <2> QED
    BY <1>1, <1>25, <2>1, InTable DEF Tagged
<1>26. CASE s[1] = "XML"
  <2>1. "XML" \in DOMAIN TaggedPlain /\ s[2] \in TaggedPlain["XML"]
    BY <1>26, NamesAre DEF XMLFields, TaggedPlain, TaggedXML
  <2> QED
    BY <1>1, <1>26, <2>1, InTable DEF Tagged
<1> QED
  BY <1>2, <1>3, <1>4, <1>5, <1>6, <1>7, <1>8, <1>9, <1>10, <1>11, <1>12, <1>13, <1>14,
     <1>15, <1>16, <1>17, <1>18, <1>19, <1>20, <1>21, <1>22, <1>23, <1>24, <1>25, <1>26, NamesAre

\* And with those that merge them.
LEMMA MergesAll ==
    ASSUME NEW v \in Versions, NEW s \in AllFields, Belongs(s, v)
    PROVE  s \in Tagged[v] \cup MergesCallbackRefs
BY SplitsAll DEF SplitsCallbackRefs, MergesCallbackRefs

\* The decoders take every field,
LEMMA DecodesAll ==
    ASSUME NEW v \in Versions, NEW s \in AllFields, Belongs(s, v)
    PROVE  s \in Decodes[v]
<1>1. s = <<s[1], s[2]>>
  BY FieldIs
<1>2. CASE s[1] = "Document"
  <2>1. CASE v = 20
    <3>1. s[2] \in DecodesParts.OAS2Document
      BY <1>2, <2>1, DocumentFields DEF DecodesParts, DecodesOAS2Document
    <3> QED
      BY <1>1, <1>2, <2>1, <3>1, InTable DEF Decodes
  <2>2. CASE v # 20
    <3>1. s[2] \in DecodesParts.OAS3Document \cup DecodesParts.Components
      BY <1>2, <2>2, DocumentFields, NamesAre DEF Sections, DecodesParts, DecodesOAS3Document,
          DecodesComponents
    <3> QED
      BY <1>1, <1>2, <2>2, <3>1, InTable DEF Decodes
  <2> QED
    BY <2>1, <2>2
<1>3. CASE s[1] = "PathItem"
  <2>1. "PathItem" \in DOMAIN DecodesParts /\ (s[2] \in DecodesParts["PathItem"])
    BY <1>3, NamesAre DEF PathItemFields, DecodesParts, DecodesPathItem
  <2> QED
    BY <1>1, <1>3, <2>1, InTable DEF Decodes
<1>4. CASE s[1] = "Operation"
  <2>1. "Operation" \in DOMAIN DecodesParts /\ (s[2] \in DecodesParts["Operation"])
    BY <1>4, NamesAre DEF OperationFields, DecodesParts, DecodesOperation, DecodesResponses
  <2> QED
    BY <1>1, <1>4, <2>1, InTable DEF Decodes
<1>5. CASE s[1] = "Parameter"
  <2>1. "Parameter" \in DOMAIN DecodesParts /\ (s[2] \in DecodesParts["Parameter"])
    BY <1>5, NamesAre DEF ParameterFields, DecodesParts, DecodesParameter
  <2> QED
    BY <1>1, <1>5, <2>1, InTable DEF Decodes
<1>6. CASE s[1] = "Header"
  <2>1. "Header" \in DOMAIN DecodesParts /\ (s[2] \in DecodesParts["Header"])
    BY <1>6, NamesAre DEF HeaderFields, DecodesParts, DecodesHeader
  <2> QED
    BY <1>1, <1>6, <2>1, InTable DEF Decodes
<1>7. CASE s[1] = "RequestBody"
  <2>1. "RequestBody" \in DOMAIN DecodesParts /\ (s[2] \in DecodesParts["RequestBody"])
    BY <1>7, NamesAre DEF BodyFields, DecodesParts, DecodesRequestBody
  <2> QED
    BY <1>1, <1>7, <2>1, InTable DEF Decodes
<1>8. CASE s[1] = "Response"
  <2>1. "Response" \in DOMAIN DecodesParts /\ (s[2] \in DecodesParts["Response"])
    BY <1>8, NamesAre DEF ResponseFields, DecodesParts, DecodesResponse
  <2> QED
    BY <1>1, <1>8, <2>1, InTable DEF Decodes
<1>9. CASE s[1] = "MediaType"
  <2>1. "MediaType" \in DOMAIN DecodesParts /\ (s[2] \in DecodesParts["MediaType"])
    BY <1>9, NamesAre DEF MediaTypeFields, DecodesParts, DecodesMediaType
  <2> QED
    BY <1>1, <1>9, <2>1, InTable DEF Decodes
<1>10. CASE s[1] = "Encoding"
  <2>1. "Encoding" \in DOMAIN DecodesParts /\ (s[2] \in DecodesParts["Encoding"])
    BY <1>10, NamesAre DEF EncodingFields, DecodesParts, DecodesEncoding
  <2> QED
    BY <1>1, <1>10, <2>1, InTable DEF Decodes
<1>11. CASE s[1] = "Schema"
  <2>1. "Schema" \in DOMAIN DecodesParts /\ (s[2] \in DecodesParts["Schema"])
    BY <1>11, NamesAre DEF SchemaFields, DecodesParts, DecodesSchema
  <2> QED
    BY <1>1, <1>11, <2>1, InTable DEF Decodes
<1>12. CASE s[1] = "Discriminator"
  <2>1. "Discriminator" \in DOMAIN DecodesParts /\ (s[2] \in DecodesParts["Discriminator"])
    BY <1>12, NamesAre DEF DiscriminatorFields, DecodesParts, DecodesDiscriminator
  <2> QED
    BY <1>1, <1>12, <2>1, InTable DEF Decodes
<1>13. CASE s[1] = "Info"
  <2>1. "Info" \in DOMAIN DecodesPlain /\ s[2] \in DecodesPlain["Info"]
    BY <1>13, NamesAre DEF InfoFields, DecodesPlain, DecodesInfo
  <2> QED
    BY <1>1, <1>13, <2>1, InTable DEF Decodes
<1>14. CASE s[1] = "Contact"
  <2>1. "Contact" \in DOMAIN DecodesPlain /\ s[2] \in DecodesPlain["Contact"]
    BY <1>14, NamesAre DEF ContactFields, DecodesPlain, DecodesContact
  <2> QED
    BY <1>1, <1>14, <2>1, InTable DEF Decodes
<1>15. CASE s[1] = "License"
  <2>1. "License" \in DOMAIN DecodesPlain /\ s[2] \in DecodesPlain["License"]
    BY <1>15, NamesAre DEF LicenseFields, DecodesPlain, DecodesLicense
  <2> QED
    BY <1>1, <1>15, <2>1, InTable DEF Decodes
<1>16. CASE s[1] = "ExternalDocs"
  <2>1. "ExternalDocs" \in DOMAIN DecodesPlain /\ s[2] \in DecodesPlain["ExternalDocs"]
    BY <1>16, NamesAre DEF ExternalDocsFields, DecodesPlain, DecodesExternalDocs
  <2> QED
    BY <1>1, <1>16, <2>1, InTable DEF Decodes
<1>17. CASE s[1] = "Tag"
  <2>1. "Tag" \in DOMAIN DecodesPlain /\ s[2] \in DecodesPlain["Tag"]
    BY <1>17, NamesAre DEF TagFields, DecodesPlain, DecodesTag
  <2> QED
    BY <1>1, <1>17, <2>1, InTable DEF Decodes
<1>18. CASE s[1] = "Server"
  <2>1. "Server" \in DOMAIN DecodesPlain /\ s[2] \in DecodesPlain["Server"]
    BY <1>18, NamesAre DEF ServerFields, DecodesPlain, DecodesServer
  <2> QED
    BY <1>1, <1>18, <2>1, InTable DEF Decodes
<1>19. CASE s[1] = "ServerVariable"
  <2>1. "ServerVariable" \in DOMAIN DecodesPlain /\ s[2] \in DecodesPlain["ServerVariable"]
    BY <1>19, NamesAre DEF ServerVariableFields, DecodesPlain, DecodesServerVariable
  <2> QED
    BY <1>1, <1>19, <2>1, InTable DEF Decodes
<1>20. CASE s[1] = "SecurityScheme"
  <2>1. "SecurityScheme" \in DOMAIN DecodesPlain /\ s[2] \in DecodesPlain["SecurityScheme"]
    BY <1>20, NamesAre DEF SecuritySchemeFields, DecodesPlain, DecodesSecurityScheme
  <2> QED
    BY <1>1, <1>20, <2>1, InTable DEF Decodes
<1>21. CASE s[1] = "OAuthFlows"
  <2>1. "OAuthFlows" \in DOMAIN DecodesPlain /\ s[2] \in DecodesPlain["OAuthFlows"]
    BY <1>21, NamesAre DEF OAuthFlowsFields, DecodesPlain, DecodesOAuthFlows
  <2> QED
    BY <1>1, <1>21, <2>1, InTable DEF Decodes
<1>22. CASE s[1] = "OAuthFlow"
  <2>1. "OAuthFlow" \in DOMAIN DecodesPlain /\ s[2] \in DecodesPlain["OAuthFlow"]
    BY <1>22, NamesAre DEF OAuthFlowFields, DecodesPlain, DecodesOAuthFlow
  <2> QED
    BY <1>1, <1>22, <2>1, InTable DEF Decodes
<1>23. CASE s[1] = "Items"
  <2>1. "Items" \in DOMAIN DecodesPlain /\ s[2] \in DecodesPlain["Items"]
    BY <1>23, NamesAre DEF ItemsFields, DecodesPlain, DecodesItems
  <2> QED
    BY <1>1, <1>23, <2>1, InTable DEF Decodes
<1>24. CASE s[1] = "Example"
  <2>1. "Example" \in DOMAIN DecodesPlain /\ s[2] \in DecodesPlain["Example"]
    BY <1>24, NamesAre DEF ExampleFields, DecodesPlain, DecodesExample
  <2> QED
    BY <1>1, <1>24, <2>1, InTable DEF Decodes
<1>25. CASE s[1] = "Link"
  <2>1. "Link" \in DOMAIN DecodesPlain /\ s[2] \in DecodesPlain["Link"]
    BY <1>25, NamesAre DEF LinkFields, DecodesPlain, DecodesLink
  <2> QED
    BY <1>1, <1>25, <2>1, InTable DEF Decodes
<1>26. CASE s[1] = "XML"
  <2>1. "XML" \in DOMAIN DecodesPlain /\ s[2] \in DecodesPlain["XML"]
    BY <1>26, NamesAre DEF XMLFields, DecodesPlain, DecodesXML
  <2> QED
    BY <1>1, <1>26, <2>1, InTable DEF Decodes
<1> QED
  BY <1>2, <1>3, <1>4, <1>5, <1>6, <1>7, <1>8, <1>9, <1>10, <1>11, <1>12, <1>13, <1>14,
     <1>15, <1>16, <1>17, <1>18, <1>19, <1>20, <1>21, <1>22, <1>23, <1>24, <1>25, <1>26, NamesAre

\* the marshallers write every field,
LEMMA WritesAll ==
    ASSUME NEW v \in Versions, NEW s \in AllFields, Belongs(s, v)
    PROVE  s \in Writes[v]
<1>1. s = <<s[1], s[2]>>
  BY FieldIs
<1>2. CASE s[1] = "Document"
  <2>1. CASE v = 20
    <3>1. s[2] \in WritesParts.OAS2Document
      BY <1>2, <2>1, DocumentFields DEF WritesParts, WritesOAS2Document
    <3> QED
      BY <1>1, <1>2, <2>1, <3>1, InTable DEF Writes
  <2>2. CASE v # 20
    <3>1. s[2] \in WritesParts.OAS3Document \cup WritesParts.Components
      BY <1>2, <2>2, DocumentFields, NamesAre DEF Sections, WritesParts, WritesOAS3Document,
          WritesComponents
    <3> QED
      BY <1>1, <1>2, <2>2, <3>1, InTable DEF Writes
  <2> QED
    BY <2>1, <2>2
<1>3. CASE s[1] = "PathItem"
  <2>1. "PathItem" \in DOMAIN WritesParts /\ (s[2] \in WritesParts["PathItem"])
    BY <1>3, NamesAre DEF PathItemFields, WritesParts, WritesPathItem
  <2> QED
    BY <1>1, <1>3, <2>1, InTable DEF Writes
<1>4. CASE s[1] = "Operation"
  <2>1. "Operation" \in DOMAIN WritesParts /\ (s[2] \in WritesParts["Operation"])
    BY <1>4, NamesAre DEF OperationFields, WritesParts, WritesOperation, WritesResponses
  <2> QED
    BY <1>1, <1>4, <2>1, InTable DEF Writes
<1>5. CASE s[1] = "Parameter"
  <2>1. "Parameter" \in DOMAIN WritesParts /\ (s[2] \in WritesParts["Parameter"])
    BY <1>5, NamesAre DEF ParameterFields, WritesParts, WritesParameter
  <2> QED
    BY <1>1, <1>5, <2>1, InTable DEF Writes
<1>6. CASE s[1] = "Header"
  <2>1. "Header" \in DOMAIN WritesParts /\ (s[2] \in WritesParts["Header"])
    BY <1>6, NamesAre DEF HeaderFields, WritesParts, WritesHeader
  <2> QED
    BY <1>1, <1>6, <2>1, InTable DEF Writes
<1>7. CASE s[1] = "RequestBody"
  <2>1. "RequestBody" \in DOMAIN WritesParts /\ (s[2] \in WritesParts["RequestBody"])
    BY <1>7, NamesAre DEF BodyFields, WritesParts, WritesRequestBody
  <2> QED
    BY <1>1, <1>7, <2>1, InTable DEF Writes
<1>8. CASE s[1] = "Response"
  <2>1. "Response" \in DOMAIN WritesParts /\ (s[2] \in WritesParts["Response"])
    BY <1>8, NamesAre DEF ResponseFields, WritesParts, WritesResponse
  <2> QED
    BY <1>1, <1>8, <2>1, InTable DEF Writes
<1>9. CASE s[1] = "MediaType"
  <2>1. "MediaType" \in DOMAIN WritesParts /\ (s[2] \in WritesParts["MediaType"])
    BY <1>9, NamesAre DEF MediaTypeFields, WritesParts, WritesMediaType
  <2> QED
    BY <1>1, <1>9, <2>1, InTable DEF Writes
<1>10. CASE s[1] = "Encoding"
  <2>1. "Encoding" \in DOMAIN WritesParts /\ (s[2] \in WritesParts["Encoding"])
    BY <1>10, NamesAre DEF EncodingFields, WritesParts, WritesEncoding
  <2> QED
    BY <1>1, <1>10, <2>1, InTable DEF Writes
<1>11. CASE s[1] = "Schema"
  <2>1. "Schema" \in DOMAIN WritesParts /\ (s[2] \in WritesParts["Schema"])
    BY <1>11, NamesAre DEF SchemaFields, WritesParts, WritesSchema
  <2> QED
    BY <1>1, <1>11, <2>1, InTable DEF Writes
<1>12. CASE s[1] = "Discriminator"
  <2>1. "Discriminator" \in DOMAIN WritesParts /\ (s[2] \in WritesParts["Discriminator"])
    BY <1>12, NamesAre DEF DiscriminatorFields, WritesParts, WritesDiscriminator
  <2> QED
    BY <1>1, <1>12, <2>1, InTable DEF Writes
<1>13. CASE s[1] = "Info"
  <2>1. "Info" \in DOMAIN WritesPlain /\ s[2] \in WritesPlain["Info"]
    BY <1>13, NamesAre DEF InfoFields, WritesPlain, WritesInfo
  <2> QED
    BY <1>1, <1>13, <2>1, InTable DEF Writes
<1>14. CASE s[1] = "Contact"
  <2>1. "Contact" \in DOMAIN WritesPlain /\ s[2] \in WritesPlain["Contact"]
    BY <1>14, NamesAre DEF ContactFields, WritesPlain, WritesContact
  <2> QED
    BY <1>1, <1>14, <2>1, InTable DEF Writes
<1>15. CASE s[1] = "License"
  <2>1. "License" \in DOMAIN WritesPlain /\ s[2] \in WritesPlain["License"]
    BY <1>15, NamesAre DEF LicenseFields, WritesPlain, WritesLicense
  <2> QED
    BY <1>1, <1>15, <2>1, InTable DEF Writes
<1>16. CASE s[1] = "ExternalDocs"
  <2>1. "ExternalDocs" \in DOMAIN WritesPlain /\ s[2] \in WritesPlain["ExternalDocs"]
    BY <1>16, NamesAre DEF ExternalDocsFields, WritesPlain, WritesExternalDocs
  <2> QED
    BY <1>1, <1>16, <2>1, InTable DEF Writes
<1>17. CASE s[1] = "Tag"
  <2>1. "Tag" \in DOMAIN WritesPlain /\ s[2] \in WritesPlain["Tag"]
    BY <1>17, NamesAre DEF TagFields, WritesPlain, WritesTag
  <2> QED
    BY <1>1, <1>17, <2>1, InTable DEF Writes
<1>18. CASE s[1] = "Server"
  <2>1. "Server" \in DOMAIN WritesPlain /\ s[2] \in WritesPlain["Server"]
    BY <1>18, NamesAre DEF ServerFields, WritesPlain, WritesServer
  <2> QED
    BY <1>1, <1>18, <2>1, InTable DEF Writes
<1>19. CASE s[1] = "ServerVariable"
  <2>1. "ServerVariable" \in DOMAIN WritesPlain /\ s[2] \in WritesPlain["ServerVariable"]
    BY <1>19, NamesAre DEF ServerVariableFields, WritesPlain, WritesServerVariable
  <2> QED
    BY <1>1, <1>19, <2>1, InTable DEF Writes
<1>20. CASE s[1] = "SecurityScheme"
  <2>1. "SecurityScheme" \in DOMAIN WritesPlain /\ s[2] \in WritesPlain["SecurityScheme"]
    BY <1>20, NamesAre DEF SecuritySchemeFields, WritesPlain, WritesSecurityScheme
  <2> QED
    BY <1>1, <1>20, <2>1, InTable DEF Writes
<1>21. CASE s[1] = "OAuthFlows"
  <2>1. "OAuthFlows" \in DOMAIN WritesPlain /\ s[2] \in WritesPlain["OAuthFlows"]
    BY <1>21, NamesAre DEF OAuthFlowsFields, WritesPlain, WritesOAuthFlows
  <2> QED
    BY <1>1, <1>21, <2>1, InTable DEF Writes
<1>22. CASE s[1] = "OAuthFlow"
  <2>1. "OAuthFlow" \in DOMAIN WritesPlain /\ s[2] \in WritesPlain["OAuthFlow"]
    BY <1>22, NamesAre DEF OAuthFlowFields, WritesPlain, WritesOAuthFlow
  <2> QED
    BY <1>1, <1>22, <2>1, InTable DEF Writes
<1>23. CASE s[1] = "Items"
  <2>1. "Items" \in DOMAIN WritesPlain /\ s[2] \in WritesPlain["Items"]
    BY <1>23, NamesAre DEF ItemsFields, WritesPlain, WritesItems
  <2> QED
    BY <1>1, <1>23, <2>1, InTable DEF Writes
<1>24. CASE s[1] = "Example"
  <2>1. "Example" \in DOMAIN WritesPlain /\ s[2] \in WritesPlain["Example"]
    BY <1>24, NamesAre DEF ExampleFields, WritesPlain, WritesExample
  <2> QED
    BY <1>1, <1>24, <2>1, InTable DEF Writes
<1>25. CASE s[1] = "Link"
  <2>1. "Link" \in DOMAIN WritesPlain /\ s[2] \in WritesPlain["Link"]
    BY <1>25, NamesAre DEF LinkFields, WritesPlain, WritesLink
  <2> QED
    BY <1>1, <1>25, <2>1, InTable DEF Writes
<1>26. CASE s[1] = "XML"
  <2>1. "XML" \in DOMAIN WritesPlain /\ s[2] \in WritesPlain["XML"]
    BY <1>26, NamesAre DEF XMLFields, WritesPlain, WritesXML
  <2> QED
    BY <1>1, <1>26, <2>1, InTable DEF Writes
<1> QED
  BY <1>2, <1>3, <1>4, <1>5, <1>6, <1>7, <1>8, <1>9, <1>10, <1>11, <1>12, <1>13, <1>14,
     <1>15, <1>16, <1>17, <1>18, <1>19, <1>20, <1>21, <1>22, <1>23, <1>24, <1>25, <1>26, NamesAre

\* DeepCopyInto copies every field,
LEMMA CopiesAll ==
    ASSUME NEW v \in Versions, NEW s \in AllFields, Belongs(s, v)
    PROVE  s \in Copies[v]
<1>1. s = <<s[1], s[2]>>
  BY FieldIs
<1>2. CASE s[1] = "Document"
  <2>1. CASE v = 20
    <3>1. s[2] \in CopiesParts.OAS2Document
      BY <1>2, <2>1, DocumentFields DEF CopiesParts, CopiesOAS2Document
    <3> QED
      BY <1>1, <1>2, <2>1, <3>1, InTable DEF Copies
  <2>2. CASE v # 20
    <3>1. s[2] \in CopiesParts.OAS3Document \cup CopiesParts.Components
      BY <1>2, <2>2, DocumentFields, NamesAre DEF Sections, CopiesParts, CopiesOAS3Document,
          CopiesComponents
    <3> QED
      BY <1>1, <1>2, <2>2, <3>1, InTable DEF Copies
  <2> QED
    BY <2>1, <2>2
<1>3. CASE s[1] = "PathItem"
  <2>1. "PathItem" \in DOMAIN CopiesParts /\ (s[2] \in CopiesParts["PathItem"])
    BY <1>3, NamesAre DEF PathItemFields, CopiesParts, CopiesPathItem
  <2> QED
    BY <1>1, <1>3, <2>1, InTable DEF Copies
<1>4. CASE s[1] = "Operation"
  <2>1. "Operation" \in DOMAIN CopiesParts /\ (s[2] \in CopiesParts["Operation"])
    BY <1>4, NamesAre DEF OperationFields, CopiesParts, CopiesOperation, CopiesResponses
  <2> QED
    BY <1>1, <1>4, <2>1, InTable DEF Copies
<1>5. CASE s[1] = "Parameter"
  <2>1. "Parameter" \in DOMAIN CopiesParts /\ (s[2] \in CopiesParts["Parameter"])
    BY <1>5, NamesAre DEF ParameterFields, CopiesParts, CopiesParameter
  <2> QED
    BY <1>1, <1>5, <2>1, InTable DEF Copies
<1>6. CASE s[1] = "Header"
  <2>1. "Header" \in DOMAIN CopiesParts /\ (s[2] \in CopiesParts["Header"])
    BY <1>6, NamesAre DEF HeaderFields, CopiesParts, CopiesHeader
  <2> QED
    BY <1>1, <1>6, <2>1, InTable DEF Copies
<1>7. CASE s[1] = "RequestBody"
  <2>1. "RequestBody" \in DOMAIN CopiesParts /\ (s[2] \in CopiesParts["RequestBody"])
    BY <1>7, NamesAre DEF BodyFields, CopiesParts, CopiesRequestBody
  <2> QED
    BY <1>1, <1>7, <2>1, InTable DEF Copies
<1>8. CASE s[1] = "Response"
  <2>1. "Response" \in DOMAIN CopiesParts /\ (s[2] \in CopiesParts["Response"])
    BY <1>8, NamesAre DEF ResponseFields, CopiesParts, CopiesResponse
  <2> QED
    BY <1>1, <1>8, <2>1, InTable DEF Copies
<1>9. CASE s[1] = "MediaType"
  <2>1. "MediaType" \in DOMAIN CopiesParts /\ (s[2] \in CopiesParts["MediaType"])
    BY <1>9, NamesAre DEF MediaTypeFields, CopiesParts, CopiesMediaType
  <2> QED
    BY <1>1, <1>9, <2>1, InTable DEF Copies
<1>10. CASE s[1] = "Encoding"
  <2>1. "Encoding" \in DOMAIN CopiesParts /\ (s[2] \in CopiesParts["Encoding"])
    BY <1>10, NamesAre DEF EncodingFields, CopiesParts, CopiesEncoding
  <2> QED
    BY <1>1, <1>10, <2>1, InTable DEF Copies
<1>11. CASE s[1] = "Schema"
  <2>1. "Schema" \in DOMAIN CopiesParts /\ (s[2] \in CopiesParts["Schema"])
    BY <1>11, NamesAre DEF SchemaFields, CopiesParts, CopiesSchemaOrBool, CopiesSubschema,
        CopiesSubschemas, CopiesDocsAndXML
  <2> QED
    BY <1>1, <1>11, <2>1, InTable DEF Copies
<1>12. CASE s[1] = "Discriminator"
  <2>1. "Discriminator" \in DOMAIN CopiesParts /\ (s[2] \in CopiesParts["Discriminator"])
    BY <1>12, NamesAre DEF DiscriminatorFields, CopiesParts, CopiesDiscriminator
  <2> QED
    BY <1>1, <1>12, <2>1, InTable DEF Copies
<1>13. CASE s[1] = "Info"
  <2>1. "Info" \in DOMAIN CopiesPlain /\ s[2] \in CopiesPlain["Info"]
    BY <1>13, NamesAre DEF InfoFields, CopiesPlain, CopiesInfo
  <2> QED
    BY <1>1, <1>13, <2>1, InTable DEF Copies
<1>14. CASE s[1] = "Contact"
  <2>1. "Contact" \in DOMAIN CopiesPlain /\ s[2] \in CopiesPlain["Contact"]
    BY <1>14, NamesAre DEF ContactFields, CopiesPlain, CopiesContact
  <2> QED
    BY <1>1, <1>14, <2>1, InTable DEF Copies
<1>15. CASE s[1] = "License"
  <2>1. "License" \in DOMAIN CopiesPlain /\ s[2] \in CopiesPlain["License"]
    BY <1>15, NamesAre DEF LicenseFields, CopiesPlain, CopiesLicense
  <2> QED
    BY <1>1, <1>15, <2>1, InTable DEF Copies
<1>16. CASE s[1] = "ExternalDocs"
  <2>1. "ExternalDocs" \in DOMAIN CopiesPlain /\ s[2] \in CopiesPlain["ExternalDocs"]
    BY <1>16, NamesAre DEF ExternalDocsFields, CopiesPlain, CopiesExternalDocs
  <2> QED
    BY <1>1, <1>16, <2>1, InTable DEF Copies
<1>17. CASE s[1] = "Tag"
  <2>1. "Tag" \in DOMAIN CopiesPlain /\ s[2] \in CopiesPlain["Tag"]
    BY <1>17, NamesAre DEF TagFields, CopiesPlain, CopiesTag
  <2> QED
    BY <1>1, <1>17, <2>1, InTable DEF Copies
<1>18. CASE s[1] = "Server"
  <2>1. "Server" \in DOMAIN CopiesPlain /\ s[2] \in CopiesPlain["Server"]
    BY <1>18, NamesAre DEF ServerFields, CopiesPlain, CopiesServer
  <2> QED
    BY <1>1, <1>18, <2>1, InTable DEF Copies
<1>19. CASE s[1] = "ServerVariable"
  <2>1. "ServerVariable" \in DOMAIN CopiesPlain /\ s[2] \in CopiesPlain["ServerVariable"]
    BY <1>19, NamesAre DEF ServerVariableFields, CopiesPlain, CopiesServerVariable
  <2> QED
    BY <1>1, <1>19, <2>1, InTable DEF Copies
<1>20. CASE s[1] = "SecurityScheme"
  <2>1. "SecurityScheme" \in DOMAIN CopiesPlain /\ s[2] \in CopiesPlain["SecurityScheme"]
    BY <1>20, NamesAre DEF SecuritySchemeFields, CopiesPlain, CopiesSecurityScheme
  <2> QED
    BY <1>1, <1>20, <2>1, InTable DEF Copies
<1>21. CASE s[1] = "OAuthFlows"
  <2>1. "OAuthFlows" \in DOMAIN CopiesPlain /\ s[2] \in CopiesPlain["OAuthFlows"]
    BY <1>21, NamesAre DEF OAuthFlowsFields, CopiesPlain, CopiesOAuthFlows
  <2> QED
    BY <1>1, <1>21, <2>1, InTable DEF Copies
<1>22. CASE s[1] = "OAuthFlow"
  <2>1. "OAuthFlow" \in DOMAIN CopiesPlain /\ s[2] \in CopiesPlain["OAuthFlow"]
    BY <1>22, NamesAre DEF OAuthFlowFields, CopiesPlain, CopiesOAuthFlow
  <2> QED
    BY <1>1, <1>22, <2>1, InTable DEF Copies
<1>23. CASE s[1] = "Items"
  <2>1. "Items" \in DOMAIN CopiesPlain /\ s[2] \in CopiesPlain["Items"]
    BY <1>23, NamesAre DEF ItemsFields, CopiesPlain, CopiesItems
  <2> QED
    BY <1>1, <1>23, <2>1, InTable DEF Copies
<1>24. CASE s[1] = "Example"
  <2>1. "Example" \in DOMAIN CopiesPlain /\ s[2] \in CopiesPlain["Example"]
    BY <1>24, NamesAre DEF ExampleFields, CopiesPlain, CopiesExample
  <2> QED
    BY <1>1, <1>24, <2>1, InTable DEF Copies
<1>25. CASE s[1] = "Link"
  <2>1. "Link" \in DOMAIN CopiesPlain /\ s[2] \in CopiesPlain["Link"]
    BY <1>25, NamesAre DEF LinkFields, CopiesPlain, CopiesLink
  <2> QED
    BY <1>1, <1>25, <2>1, InTable DEF Copies
<1>26. CASE s[1] = "XML"
  <2>1. "XML" \in DOMAIN CopiesPlain /\ s[2] \in CopiesPlain["XML"]
    BY <1>26, NamesAre DEF XMLFields, CopiesPlain, CopiesXML
  <2> QED
    BY <1>1, <1>26, <2>1, InTable DEF Copies
<1> QED
  BY <1>2, <1>3, <1>4, <1>5, <1>6, <1>7, <1>8, <1>9, <1>10, <1>11, <1>12, <1>13, <1>14,
     <1>15, <1>16, <1>17, <1>18, <1>19, <1>20, <1>21, <1>22, <1>23, <1>24, <1>25, <1>26, NamesAre

\* and Equals looks at every field.
LEMMA EquatesAll ==
    ASSUME NEW v \in Versions, NEW s \in AllFields, Belongs(s, v)
    PROVE  s \in Equates[v]
<1>1. s = <<s[1], s[2]>>
  BY FieldIs
<1>2. CASE s[1] = "Document"
  <2>1. CASE v = 20
    <3>1. s[2] \in EquatesParts.OAS2Document
      BY <1>2, <2>1, DocumentFields DEF EquatesParts, EquatesOAS2Document
    <3> QED
      BY <1>1, <1>2, <2>1, <3>1, InTable DEF Equates
  <2>2. CASE v # 20
    <3>1. s[2] \in EquatesParts.OAS3Document \cup EquatesParts.Components
      BY <1>2, <2>2, DocumentFields, NamesAre DEF Sections, EquatesParts, EquatesOAS3Document,
          EquatesComponents
    <3> QED
      BY <1>1, <1>2, <2>2, <3>1, InTable DEF Equates
  <2> QED
    BY <2>1, <2>2
<1>3. CASE s[1] = "PathItem"
  <2>1. "PathItem" \in DOMAIN EquatesParts /\ (s[2] \in EquatesParts["PathItem"])
    BY <1>3, NamesAre DEF PathItemFields, EquatesParts, EquatesPathItem
  <2> QED
    BY <1>1, <1>3, <2>1, InTable DEF Equates
<1>4. CASE s[1] = "Operation"
  <2>1. "Operation" \in DOMAIN EquatesParts /\ (s[2] \in EquatesParts["Operation"])
    BY <1>4, NamesAre DEF OperationFields, EquatesParts, EquatesOperation, EquatesResponses
  <2> QED
    BY <1>1, <1>4, <2>1, InTable DEF Equates
<1>5. CASE s[1] = "Parameter"
  <2>1. "Parameter" \in DOMAIN EquatesParts /\ (s[2] \in EquatesParts["Parameter"])
    BY <1>5, NamesAre DEF ParameterFields, EquatesParts, EquatesParameter
  <2> QED
    BY <1>1, <1>5, <2>1, InTable DEF Equates
<1>6. CASE s[1] = "Header"
  <2>1. "Header" \in DOMAIN EquatesParts /\ (s[2] \in EquatesParts["Header"])
    BY <1>6, NamesAre DEF HeaderFields, EquatesParts, EquatesHeader
  <2> QED
    BY <1>1, <1>6, <2>1, InTable DEF Equates
<1>7. CASE s[1] = "RequestBody"
  <2>1. "RequestBody" \in DOMAIN EquatesParts /\ (s[2] \in EquatesParts["RequestBody"])
    BY <1>7, NamesAre DEF BodyFields, EquatesParts, EquatesRequestBody
  <2> QED
    BY <1>1, <1>7, <2>1, InTable DEF Equates
<1>8. CASE s[1] = "Response"
  <2>1. "Response" \in DOMAIN EquatesParts /\ (s[2] \in EquatesParts["Response"])
    BY <1>8, NamesAre DEF ResponseFields, EquatesParts, EquatesResponse
  <2> QED
    BY <1>1, <1>8, <2>1, InTable DEF Equates
<1>9. CASE s[1] = "MediaType"
  <2>1. "MediaType" \in DOMAIN EquatesParts /\ (s[2] \in EquatesParts["MediaType"])
    BY <1>9, NamesAre DEF MediaTypeFields, EquatesParts, EquatesMediaType
  <2> QED
    BY <1>1, <1>9, <2>1, InTable DEF Equates
<1>10. CASE s[1] = "Encoding"
  <2>1. "Encoding" \in DOMAIN EquatesParts /\ (s[2] \in EquatesParts["Encoding"])
    BY <1>10, NamesAre DEF EncodingFields, EquatesParts, EquatesEncoding
  <2> QED
    BY <1>1, <1>10, <2>1, InTable DEF Equates
<1>11. CASE s[1] = "Schema"
  <2>1. "Schema" \in DOMAIN EquatesParts /\ (s[2] \in EquatesParts["Schema"])
    BY <1>11, NamesAre DEF SchemaFields, EquatesParts, EquatesSchema
  <2> QED
    BY <1>1, <1>11, <2>1, InTable DEF Equates
<1>12. CASE s[1] = "Discriminator"
  <2>1. "Discriminator" \in DOMAIN EquatesParts /\ (s[2] \in EquatesParts["Discriminator"])
    BY <1>12, NamesAre DEF DiscriminatorFields, EquatesParts, EquatesDiscriminator
  <2> QED
    BY <1>1, <1>12, <2>1, InTable DEF Equates
<1>13. CASE s[1] = "Info"
  <2>1. "Info" \in DOMAIN EquatesPlain /\ s[2] \in EquatesPlain["Info"]
    BY <1>13, NamesAre DEF InfoFields, EquatesPlain, EquatesInfo
  <2> QED
    BY <1>1, <1>13, <2>1, InTable DEF Equates
<1>14. CASE s[1] = "Contact"
  <2>1. "Contact" \in DOMAIN EquatesPlain /\ s[2] \in EquatesPlain["Contact"]
    BY <1>14, NamesAre DEF ContactFields, EquatesPlain, EquatesContact
  <2> QED
    BY <1>1, <1>14, <2>1, InTable DEF Equates
<1>15. CASE s[1] = "License"
  <2>1. "License" \in DOMAIN EquatesPlain /\ s[2] \in EquatesPlain["License"]
    BY <1>15, NamesAre DEF LicenseFields, EquatesPlain, EquatesLicense
  <2> QED
    BY <1>1, <1>15, <2>1, InTable DEF Equates
<1>16. CASE s[1] = "ExternalDocs"
  <2>1. "ExternalDocs" \in DOMAIN EquatesPlain /\ s[2] \in EquatesPlain["ExternalDocs"]
    BY <1>16, NamesAre DEF ExternalDocsFields, EquatesPlain, EquatesExternalDocs
  <2> QED
    BY <1>1, <1>16, <2>1, InTable DEF Equates
<1>17. CASE s[1] = "Tag"
  <2>1. "Tag" \in DOMAIN EquatesPlain /\ s[2] \in EquatesPlain["Tag"]
    BY <1>17, NamesAre DEF TagFields, EquatesPlain, EquatesTag
  <2> QED
    BY <1>1, <1>17, <2>1, InTable DEF Equates
<1>18. CASE s[1] = "Server"
  <2>1. "Server" \in DOMAIN EquatesPlain /\ s[2] \in EquatesPlain["Server"]
    BY <1>18, NamesAre DEF ServerFields, EquatesPlain, EquatesServer
  <2> QED
    BY <1>1, <1>18, <2>1, InTable DEF Equates
<1>19. CASE s[1] = "ServerVariable"
  <2>1. "ServerVariable" \in DOMAIN EquatesPlain /\ s[2] \in EquatesPlain["ServerVariable"]
    BY <1>19, NamesAre DEF ServerVariableFields, EquatesPlain, EquatesServerVariable
  <2> QED
    BY <1>1, <1>19, <2>1, InTable DEF Equates
<1>20. CASE s[1] = "SecurityScheme"
  <2>1. "SecurityScheme" \in DOMAIN EquatesPlain /\ s[2] \in EquatesPlain["SecurityScheme"]
    BY <1>20, NamesAre DEF SecuritySchemeFields, EquatesPlain, EquatesSecurityScheme
  <2> QED
    BY <1>1, <1>20, <2>1, InTable DEF Equates
<1>21. CASE s[1] = "OAuthFlows"
  <2>1. "OAuthFlows" \in DOMAIN EquatesPlain /\ s[2] \in EquatesPlain["OAuthFlows"]
    BY <1>21, NamesAre DEF OAuthFlowsFields, EquatesPlain, EquatesOAuthFlows
  <2> QED
    BY <1>1, <1>21, <2>1, InTable DEF Equates
<1>22. CASE s[1] = "OAuthFlow"
  <2>1. "OAuthFlow" \in DOMAIN EquatesPlain /\ s[2] \in EquatesPlain["OAuthFlow"]
    BY <1>22, NamesAre DEF OAuthFlowFields, EquatesPlain, EquatesOAuthFlow
  <2> QED
    BY <1>1, <1>22, <2>1, InTable DEF Equates
<1>23. CASE s[1] = "Items"
  <2>1. "Items" \in DOMAIN EquatesPlain /\ s[2] \in EquatesPlain["Items"]
    BY <1>23, NamesAre DEF ItemsFields, EquatesPlain, EquatesItems
  <2> QED
    BY <1>1, <1>23, <2>1, InTable DEF Equates
<1>24. CASE s[1] = "Example"
  <2>1. "Example" \in DOMAIN EquatesPlain /\ s[2] \in EquatesPlain["Example"]
    BY <1>24, NamesAre DEF ExampleFields, EquatesPlain, EquatesExample
  <2> QED
    BY <1>1, <1>24, <2>1, InTable DEF Equates
<1>25. CASE s[1] = "Link"
  <2>1. "Link" \in DOMAIN EquatesPlain /\ s[2] \in EquatesPlain["Link"]
    BY <1>25, NamesAre DEF LinkFields, EquatesPlain, EquatesLink
  <2> QED
    BY <1>1, <1>25, <2>1, InTable DEF Equates
<1>26. CASE s[1] = "XML"
  <2>1. "XML" \in DOMAIN EquatesPlain /\ s[2] \in EquatesPlain["XML"]
    BY <1>26, NamesAre DEF XMLFields, EquatesPlain, EquatesXML
  <2> QED
    BY <1>1, <1>26, <2>1, InTable DEF Equates
<1> QED
  BY <1>2, <1>3, <1>4, <1>5, <1>6, <1>7, <1>8, <1>9, <1>10, <1>11, <1>12, <1>13, <1>14,
     <1>15, <1>16, <1>17, <1>18, <1>19, <1>20, <1>21, <1>22, <1>23, <1>24, <1>25, <1>26, NamesAre

-----------------------------------------------------------------------------
(* Places. *)

\* The kinds of objects that the differ does not go into.
Below == {"Contact", "License", "ExternalDocs", "ServerVariable", "OAuthFlows", "OAuthFlow",
          "Items", "Example", "XML", "Encoding"}

\* The fields that hold one of these.
LEMMA HoldsBelow ==
    ASSUME NEW s \in AllFields, KindOf(s) \in Below
    PROVE  \/ s[1] = "OAuthFlows"
           \/ s[2] \in {"encoding", "itemEncoding", "prefixEncoding", "contact", "license",
                        "externalDocs", "variables", "flows", "xml"}
           \/ s[2] = "items" /\ ~InTraversals(s)
           \/ s[2] = "examples" /\ s # <<"Response", "examples">>
<1>1. CASE InTraversals(s)
  <2>1. Holds(s) \in Below
    BY <1>1 DEF KindOf
  <2> QED
    BY <2>1 DEF Holds, Below
<1>2. CASE ~InTraversals(s)
  <2>1. PlainKind(s) \in Below
    BY <1>2 DEF KindOf
  <2> SUFFICES ASSUME s[1] # "OAuthFlows",
                      s[2] \notin {"encoding", "itemEncoding", "prefixEncoding", "contact",
                          "license", "externalDocs", "variables", "flows", "xml"},
                      s[2] # "items", s[2] # "examples" \/ s = <<"Response", "examples">>
               PROVE  PlainKind(s) \notin Below
    BY <1>2, <2>1
  <2>2. CASE s = <<"Response", "examples">>
    <3>1. PlainKind(s) \in {"Texts", "Number", "Flag", "Any"}
      BY <2>2 DEF PlainKind
    <3> QED
      BY <3>1 DEF Below
  <2>3. CASE s[2] # "examples"
    <3>1. PlainKind(s) \in {"Texts", "Number", "Flag", "Any", "Security", "Info", "Tag",
              "Server", "SecurityScheme", "Link", "Text"}
      BY <2>3 DEF PlainKind
    <3> QED
      BY <3>1 DEF Below
  <2> QED
    BY <2>2, <2>3
<1> QED
  BY <1>1, <1>2

\* The differ overlooks them, unless it does not get to them.
LEMMA BelowIsOverlooked ==
    ASSUME NEW s \in AllFields, KindOf(s) \in Below
    PROVE  s \in Overlooked \/ s[1] \in Below
<1> DEFINE F == {"encoding", "itemEncoding", "prefixEncoding", "contact", "license",
    "externalDocs", "variables", "flows", "xml"}
<1>1. s = <<s[1], s[2]>>
  BY FieldIs
<1>2. s[1] \notin Below => s[2] \in F \/ (s[2] = "items" /\ ~InTraversals(s))
                                    \/ (s[2] = "examples" /\ s # <<"Response", "examples">>)
  BY HoldsBelow DEF Below
<1>3. s[1] = "Schema" /\ s[2] = "items" => InTraversals(s)
  BY KindsAre DEF InTraversals, Object, SchemaFields
<1>4. CASE s[1] = "Document"
  BY <1>1, <1>2, <1>4, NamesAre DEF Overlooked, In, Sections, Below
<1>5. CASE s[1] = "PathItem"
  BY <1>1, <1>2, <1>5, NamesAre DEF Overlooked, In, PathItemFields, Below
<1>6. CASE s[1] = "Operation"
  BY <1>1, <1>2, <1>6, NamesAre DEF Overlooked, In, OperationFields, Below
<1>7. CASE s[1] = "Parameter"
  BY <1>1, <1>2, <1>7, NamesAre DEF Overlooked, In, ParameterFields, Below
<1>8. CASE s[1] = "Header"
  BY <1>1, <1>2, <1>8, NamesAre DEF Overlooked, In, HeaderFields, Below
<1>9. CASE s[1] = "RequestBody"
  BY <1>1, <1>2, <1>9, NamesAre DEF Overlooked, In, BodyFields, Below
<1>10. CASE s[1] = "Response"
  BY <1>1, <1>2, <1>10, NamesAre DEF Overlooked, In, ResponseFields, Below
<1>11. CASE s[1] = "MediaType"
  BY <1>1, <1>2, <1>11, NamesAre DEF Overlooked, In, MediaTypeFields, Below
<1>12. CASE s[1] = "Schema"
  BY <1>1, <1>2, <1>3, <1>12, NamesAre DEF Overlooked, In, SchemaFields, Below
<1>13. CASE s[1] = "Discriminator"
  BY <1>1, <1>2, <1>13, NamesAre DEF Overlooked, In, DiscriminatorFields, Below
<1>14. CASE s[1] = "Info"
  BY <1>1, <1>2, <1>14, NamesAre DEF Overlooked, In, InfoFields, Below
<1>15. CASE s[1] = "Tag"
  BY <1>1, <1>2, <1>15, NamesAre DEF Overlooked, In, TagFields, Below
<1>16. CASE s[1] = "Server"
  BY <1>1, <1>2, <1>16, NamesAre DEF Overlooked, In, ServerFields, Below
<1>17. CASE s[1] = "SecurityScheme"
  BY <1>1, <1>2, <1>17, NamesAre DEF Overlooked, In, SecuritySchemeFields, Below
<1>18. CASE s[1] = "Link"
  BY <1>1, <1>2, <1>18, NamesAre DEF Overlooked, In, LinkFields, Below
<1> QED
  BY <1>4, <1>5, <1>6, <1>7, <1>8, <1>9, <1>10, <1>11, <1>12, <1>13, <1>14, <1>15, <1>16, <1>17,
     <1>18, NamesAre DEF Below

\* Of the objects it goes into, the differ compares the fields that are not listed.
LEMMA DiffersOrOverlooks ==
    ASSUME NEW v \in Versions, NEW s \in AllFields, Belongs(s, v)
    PROVE  s \in Differs[v] \/ s \in Overlooked \/ s[1] \in Below
<1>1. s = <<s[1], s[2]>>
  BY FieldIs
<1>2. CASE s[1] = "Document"
  <2>1. CASE v = 20
    <3>1. s \in Overlooked \/ s[2] \in DiffersParts.OAS2Document
      BY <1>1, <1>2, <2>1, DocumentFields DEF Overlooked, In, DiffersParts, DiffersOAS2Document
    <3> QED
      BY <1>1, <1>2, <2>1, <3>1, InTable DEF Differs
  <2>2. CASE v # 20
    <3>1. s \in Overlooked \/ s[2] \in DiffersParts.OAS3Document \cup DiffersParts.Components
      BY <1>1, <1>2, <2>2, DocumentFields, NamesAre
      DEF Overlooked, In, Sections, DiffersParts, DiffersOAS3Document, DiffersComponents
    <3> QED
      BY <1>1, <1>2, <2>2, <3>1, InTable DEF Differs
  <2> QED
    BY <2>1, <2>2
<1>3. CASE s[1] = "PathItem"
  <2>1. s \in Overlooked \/ ("PathItem" \in DOMAIN DiffersParts
            /\ s[2] \in DiffersParts["PathItem"])
    BY <1>1, <1>3, NamesAre DEF Overlooked, In, PathItemFields, DiffersParts, DiffersPathItem
  <2> QED
    BY <1>1, <1>3, <2>1, InTable DEF Differs
<1>4. CASE s[1] = "Operation"
  <2>1. s \in Overlooked \/ ("Operation" \in DOMAIN DiffersParts
            /\ s[2] \in DiffersParts["Operation"])
    BY <1>1, <1>4, NamesAre DEF Overlooked, In, OperationFields, DiffersParts, DiffersOperation,
        DiffersResponses
  <2> QED
    BY <1>1, <1>4, <2>1, InTable DEF Differs
<1>5. CASE s[1] = "Parameter"
  <2>1. s \in Overlooked \/ ("Parameter" \in DOMAIN DiffersParts
            /\ s[2] \in DiffersParts["Parameter"])
    BY <1>1, <1>5, NamesAre DEF Overlooked, In, ParameterFields, DiffersParts, DiffersParameter
  <2> QED
    BY <1>1, <1>5, <2>1, InTable DEF Differs
<1>6. CASE s[1] = "Header"
  BY <1>1, <1>6, NamesAre DEF Overlooked, In, HeaderFields
<1>7. CASE s[1] = "RequestBody"
  <2>1. s \in Overlooked \/ ("RequestBody" \in DOMAIN DiffersParts
            /\ s[2] \in DiffersParts["RequestBody"])
    BY <1>1, <1>7, NamesAre DEF Overlooked, In, BodyFields, DiffersParts, DiffersRequestBody
  <2> QED
    BY <1>1, <1>7, <2>1, InTable DEF Differs
<1>8. CASE s[1] = "Response"
  <2>1. s \in Overlooked \/ ("Response" \in DOMAIN DiffersParts
            /\ s[2] \in DiffersParts["Response"])
    BY <1>1, <1>8, NamesAre DEF Overlooked, In, ResponseFields, DiffersParts, DiffersResponse
  <2> QED
    BY <1>1, <1>8, <2>1, InTable DEF Differs
<1>9. CASE s[1] = "MediaType"
  <2>1. s \in Overlooked \/ ("MediaType" \in DOMAIN DiffersParts
            /\ s[2] \in DiffersParts["MediaType"])
    BY <1>1, <1>9, NamesAre DEF Overlooked, In, MediaTypeFields, DiffersParts, DiffersMediaType
  <2> QED
    BY <1>1, <1>9, <2>1, InTable DEF Differs
<1>10. CASE s[1] = "Schema"
  <2>1. s \in Overlooked \/ ("Schema" \in DOMAIN DiffersParts /\ s[2] \in DiffersParts["Schema"])
    BY <1>1, <1>10, NamesAre DEF Overlooked, In, SchemaFields, DiffersParts, DiffersSchema,
        DiffersProperties, DiffersItems, DiffersAdditional, DiffersComposition,
            DiffersUnevaluated,
           DiffersContentFields, DiffersPrefixItems, DiffersContains, DiffersDependentSchemas
  <2> QED
    BY <1>1, <1>10, <2>1, InTable DEF Differs
<1>11. CASE s[1] = "Discriminator"
  BY <1>1, <1>11, NamesAre DEF Overlooked, In, DiscriminatorFields
<1>12. CASE s[1] = "Info"
  <2>1. s \in Overlooked \/ ("Info" \in DOMAIN DiffersPlain /\ s[2] \in DiffersPlain["Info"])
    BY <1>1, <1>12, NamesAre DEF Overlooked, In, InfoFields, DiffersPlain, DiffersInfo
  <2> QED
    BY <1>1, <1>12, <2>1, InTable DEF Differs
<1>13. CASE s[1] = "Tag"
  <2>1. s \in Overlooked \/ ("Tag" \in DOMAIN DiffersPlain /\ s[2] \in DiffersPlain["Tag"])
    BY <1>1, <1>13, NamesAre DEF Overlooked, In, TagFields, DiffersPlain, DiffersTag
  <2> QED
    BY <1>1, <1>13, <2>1, InTable DEF Differs
<1>14. CASE s[1] = "Server"
  <2>1. s \in Overlooked \/ ("Server" \in DOMAIN DiffersPlain /\ s[2] \in DiffersPlain["Server"])
    BY <1>1, <1>14, NamesAre DEF Overlooked, In, ServerFields, DiffersPlain, DiffersServer
  <2> QED
    BY <1>1, <1>14, <2>1, InTable DEF Differs
<1>15. CASE s[1] = "SecurityScheme"
  <2>1. s \in Overlooked \/ ("SecurityScheme" \in DOMAIN DiffersPlain
            /\ s[2] \in DiffersPlain["SecurityScheme"])
    BY <1>1, <1>15, NamesAre DEF Overlooked, In, SecuritySchemeFields, DiffersPlain,
        DiffersSecurityScheme
  <2> QED
    BY <1>1, <1>15, <2>1, InTable DEF Differs
<1>16. CASE s[1] = "Link"
  <2>1. s \in Overlooked \/ ("Link" \in DOMAIN DiffersPlain /\ s[2] \in DiffersPlain["Link"])
    BY <1>1, <1>16, NamesAre DEF Overlooked, In, LinkFields, DiffersPlain, DiffersLink
  <2> QED
    BY <1>1, <1>16, <2>1, InTable DEF Differs
<1> QED
  BY <1>2, <1>3, <1>4, <1>5, <1>6, <1>7, <1>8, <1>9, <1>10, <1>11, <1>12, <1>13, <1>14,
     <1>15, <1>16, NamesAre DEF Below

\* A place, step by step.
LEMMA SiteIs ==
    ASSUME NEW path, NEW v, IsSite(path, v)
    PROVE  /\ Len(path) \in Nat /\ Len(path) >= 1 /\ DOMAIN path = 1..Len(path)
           /\ \A i \in 1..Len(path) : path[i] \in AllFields /\ Belongs(path[i], v)
           /\ path[1][1] = "Document"
           /\ \A i \in 2..Len(path) : path[i][1] \in Parts(KindOf(path[i - 1]))
BY DEF IsSite

\* Where the differ does not get to, it overlooks a step of the place.
LEMMA DifferOverlooks ==
    ASSUME NEW path, NEW v \in Versions, IsSite(path, v), ~Reaches(Differs[v], path)
    PROVE  Steps(path) \cap Overlooked # {}
<1> SUFFICES ASSUME \A i \in 1..Len(path) : path[i] \notin Overlooked
             PROVE  FALSE
  BY SiteIs DEF Steps
<1> DEFINE T == {i \in 1..Len(path) : path[i][1] \in Below}
<1>1. PICK k \in 1..Len(path) : path[k] \notin Differs[v]
  BY SiteIs DEF Reaches, Steps
<1>2. path[k][1] \in Below
  BY <1>1, SiteIs, DiffersOrOverlooks
<1>3. T \in SUBSET Nat /\ T # {}
  BY <1>2, SiteIs
<1>4. PICK i \in T : \A j \in T : i <= j
  BY <1>3, Least
<1>5. i # 1
  BY SiteIs DEF Below
<1>6. i \in 2..Len(path) /\ i - 1 \in 1..Len(path) /\ i - 1 \notin T
  BY <1>4, <1>5, SiteIs
<1>7. path[i][1] \in Below /\ path[i][1] \in Parts(KindOf(path[i - 1]))
  BY <1>6, SiteIs
<1>8. KindOf(path[i - 1]) \in Below
  <2>1. path[i][1] \notin {"Schema", "Discriminator"}
    BY <1>7 DEF Below
  <2> QED
    BY <1>7, <2>1 DEF Parts
<1>9. path[i - 1][1] \in Below
  BY <1>6, <1>8, SiteIs, BelowIsOverlooked
<1> QED
  BY <1>6, <1>9

\* What can be in a schema.
InSchemas == {"Schema", "Discriminator", "XML", "ExternalDocs"}

\* Every field of what is in a schema is compared.
LEMMA SchemaPart ==
    ASSUME NEW s \in AllFields, s[1] \in InSchemas
    PROVE  /\ s \in Compares
           /\ KindOf(s) \in {"Schema", "XML", "ExternalDocs", "Target", "Text", "Flag"}
<1>1. s = <<s[1], s[2]>>
  BY FieldIs
<1>2. CASE s[1] = "Schema"
  <2>1. s[2] \in DOMAIN SchemaFields \cup {"xml", "externalDocs"}
    BY <1>2, NamesAre
  <2>2. s \in Compares
    BY <1>1, <1>2, <2>1 DEF Compares, In, SchemaFields, ComparesDeep, ComparesSchemaOrBool,
        ComparesStructural, ComparesDocs
  <2>3. InTraversals(s) <=> s[2] \in DOMAIN SchemaFields
    BY <1>2, KindsAre DEF InTraversals, Object
  <2>4. CASE s[2] \in DOMAIN SchemaFields
    <3>1. Holds(s) = "Schema"
      BY <2>4 DEF Holds, SchemaFields
    <3> QED
      BY <2>2, <2>3, <2>4, <3>1 DEF KindOf
  <2>5. CASE s[2] \notin DOMAIN SchemaFields
    <3>1. s[2] \in {"xml", "externalDocs"} /\ ~InTraversals(s)
      BY <2>1, <2>3, <2>5
    <3>2. s \notin Texts /\ s \notin Numbers /\ s \notin Flags /\ s \notin AnyValues
      BY <1>1, <1>2 DEF Texts, Numbers, Flags, AnyValues, In
    <3>3. PlainKind(s) \in {"XML", "ExternalDocs"}
      BY <1>1, <1>2, <3>1, <3>2 DEF PlainKind
    <3> QED
      BY <2>2, <3>1, <3>3 DEF KindOf
  <2> QED
    BY <2>4, <2>5
<1>3. CASE s[1] = "Discriminator"
  <2>1. s[2] \in {"mapping", "defaultMapping"}
    BY <1>3, NamesAre DEF DiscriminatorFields
  <2>2. InTraversals(s) /\ Holds(s) = "Target"
    BY <1>3, <2>1, KindsAre DEF InTraversals, Object, DiscriminatorFields, Holds
  <2> QED
    BY <1>1, <1>3, <2>1, <2>2 DEF Compares, ComparesDiscriminator, In, KindOf
<1>4. CASE s[1] = "XML"
  <2>1. s[2] \in {"name", "namespace", "prefix", "attribute", "wrapped", "nodeType"}
    BY <1>4, NamesAre DEF XMLFields
  <2>2. s \in Compares
    BY <1>1, <1>4, <2>1 DEF Compares, ComparesPlain, ComparesXML, In
  <2>3. ~InTraversals(s)
    BY <1>4, KindsAre DEF InTraversals
  <2>4. s \notin Texts /\ s \notin Numbers /\ s \notin AnyValues
    BY <1>1, <1>4 DEF Texts, Numbers, AnyValues, In
  <2>5. PlainKind(s) \in {"Text", "Flag"}
    BY <1>1, <1>4, <2>1, <2>4 DEF PlainKind
  <2> QED
    BY <2>2, <2>3, <2>5 DEF KindOf
<1>5. CASE s[1] = "ExternalDocs"
  <2>1. s[2] \in {"description", "url"}
    BY <1>5, NamesAre DEF ExternalDocsFields
  <2>2. s \in Compares
    BY <1>1, <1>5, <2>1 DEF Compares, ComparesPlain, ComparesExternalDocs, In
  <2>3. ~InTraversals(s)
    BY <1>5, KindsAre DEF InTraversals
  <2>4. s \notin Texts /\ s \notin Numbers /\ s \notin Flags /\ s \notin AnyValues
    BY <1>1, <1>5 DEF Texts, Numbers, Flags, AnyValues, In
  <2>5. PlainKind(s) = "Text"
    BY <1>1, <1>5, <2>1, <2>4 DEF PlainKind
  <2> QED
    BY <2>2, <2>3, <2>5 DEF KindOf
<1> QED
  BY <1>2, <1>3, <1>4, <1>5 DEF InSchemas

\* compareDeep gets to every place in a schema.
LEMMA ComparesWithin ==
    ASSUME NEW path, NEW v, IsSite(path, v), path[1] = <<"Document", "schemas">>,
           NEW i \in 2..Len(path)
    PROVE  path[i] \in Compares
<1> DEFINE T == {j \in 2..Len(path) : path[j][1] \notin InSchemas}
<1>1. ASSUME T # {} PROVE FALSE
  <2>1. T \in SUBSET Nat
    BY SiteIs
  <2>2. PICK k \in T : \A j \in T : k <= j
    BY <1>1, <2>1, Least
  <2>3. path[k] \in AllFields /\ path[k][1] \in Parts(KindOf(path[k - 1]))
            /\ path[k][1] \notin InSchemas
    BY SiteIs
  <2>4. KindOf(path[k - 1]) \in {"Schema", "XML", "ExternalDocs", "Target", "Text", "Flag"}
    <3>1. CASE k = 2
      <4>1. InTraversals(path[1])
        BY KindsAre DEF InTraversals, Object, Sections
      <4>2. Holds(path[1]) = "Schema"
        BY DEF Holds
      <4> QED
        BY <3>1, <4>1, <4>2 DEF KindOf
    <3>2. CASE k # 2
      <4>1. k - 1 \in 2..Len(path) /\ k - 1 \notin T
        BY <2>2, <3>2, SiteIs
      <4>2. path[k - 1] \in AllFields /\ path[k - 1][1] \in InSchemas
        BY <4>1, SiteIs
      <4> QED
        BY <4>2, SchemaPart
    <3> QED
      BY <3>1, <3>2
  <2>5. path[k][1] \in {"Target", "Text", "Flag"}
    BY <2>3, <2>4 DEF Parts, InSchemas
  <2> QED
    BY <2>3, <2>5, NamesAre
<1>2. path[i] \in AllFields /\ path[i][1] \in InSchemas
  BY <1>1, SiteIs
<1> QED
  BY <1>2, SchemaPart

-----------------------------------------------------------------------------
(* One place, in every state. *)

\* The place is there in every table that the files and the copies go through.
LEMMA TablesReach ==
    ASSUME input \in Inputs
    PROVE  /\ input.version \in Versions /\ IsSite(input.site, input.version)
           /\ \A route \in Routes : Reaches(ReadTable(route), input.site)
           /\ \A fmt : Reaches(WriteTable(fmt), input.site)
           /\ Steps(input.site) \subseteq CopyTable
           /\ Reaches(Equates[input.version], input.site)
           /\ Field \in Steps(input.site)
<1>1. input.version \in Versions /\ IsSite(input.site, input.version)
  BY InputsAssumption
<1>2. \A s \in Steps(input.site) : s \in AllFields /\ Belongs(s, input.version)
  BY <1>1, SiteIs DEF Steps
<1>3. \A route \in Routes : Reaches(ReadTable(route), input.site)
  BY <1>1, <1>2, SplitsAll, DecodesAll DEF Reaches, ReadTable
<1>4. \A fmt : Reaches(WriteTable(fmt), input.site)
  BY <1>1, <1>2, MergesAll, WritesAll DEF Reaches, WriteTable
<1>5. Steps(input.site) \subseteq CopyTable
  BY <1>1, <1>2, CopiesAll DEF CopyTable
<1>6. Reaches(Equates[input.version], input.site)
  BY <1>1, <1>2, EquatesAll DEF Reaches
<1>7. Field \in Steps(input.site)
  BY <1>1, SiteIs DEF Field, Steps
<1> QED
  BY <1>1, <1>3, <1>4, <1>5, <1>6, <1>7

\* What is known to be lost.
LEMMA KnownAre ==
    ASSUME NEW traits
    PROVE  /\ \A route \in {"tags", "json"} :
                  <<"value", "null">> \in traits
                  /\ (\/ <<"in", "value">> \in traits
                      \/ <<"Operation", "responses">> \in traits
                      \/ <<"Operation", "default">> \in traits) => Expected(route, traits)
           /\ <<"value", "null">> \in traits => Expected("map", traits)
           /\ <<"value", "empty">> \in traits => Expected("toYAML", traits)
           /\ <<"data", "stale">> \in traits => Expected("ordered", traits)
           /\ <<"value", "null">> \in traits /\ <<"in", "map">> \in traits
                  => Expected("copy", traits)
           /\ <<"value", "T1">> \in traits \/ <<"value", "T2">> \in traits
                  => Expected("copy", traits)
<1>1. \A route \in {"tags", "json"} :
          /\ {Value("null"), <<"in", "value">>} \in Known[route]
          /\ {Value("null"), <<"Operation", "responses">>} \in Known[route]
          /\ {Value("null"), <<"Operation", "default">>} \in Known[route]
  BY DEF Known
<1>2. /\ {Value("null")} \in Known["map"]
      /\ {Value("empty")} \in Known["toYAML"]
      /\ {<<"data", "stale">>} \in Known["ordered"]
      /\ {Value("null"), <<"in", "map">>} \in Known["copy"]
      /\ {Value("T1")} \in Known["copy"] /\ {Value("T2")} \in Known["copy"]
  BY DEF Known
<1>3. \A op, known : known \in Known[op] /\ known \subseteq traits => Expected(op, traits)
  BY DEF Expected
<1>4. Value("null") = <<"value", "null">> /\ Value("empty") = <<"value", "empty">>
      /\ Value("T1") = <<"value", "T1">> /\ Value("T2") = <<"value", "T2">>
  BY DEF Value
<1>5. ASSUME NEW route \in {"tags", "json"}, <<"value", "null">> \in traits,
             \/ <<"in", "value">> \in traits
             \/ <<"Operation", "responses">> \in traits
             \/ <<"Operation", "default">> \in traits
      PROVE  Expected(route, traits)
  <2>1. \/ {Value("null"), <<"in", "value">>} \subseteq traits
        \/ {Value("null"), <<"Operation", "responses">>} \subseteq traits
        \/ {Value("null"), <<"Operation", "default">>} \subseteq traits
    BY <1>4, <1>5
  <2> QED
    BY <1>1, <1>3, <2>1
<1>6. <<"value", "null">> \in traits => Expected("map", traits)
  BY <1>2, <1>3, <1>4
<1>7. <<"value", "empty">> \in traits => Expected("toYAML", traits)
  BY <1>2, <1>3, <1>4
<1>8. <<"data", "stale">> \in traits => Expected("ordered", traits)
  BY <1>2, <1>3, <1>4
<1>9. <<"value", "null">> \in traits /\ <<"in", "map">> \in traits => Expected("copy", traits)
  BY <1>2, <1>3, <1>4
<1>10. <<"value", "T1">> \in traits \/ <<"value", "T2">> \in traits => Expected("copy", traits)
  BY <1>2, <1>3, <1>4
<1> QED
  BY <1>5, <1>6, <1>7, <1>8, <1>9, <1>10

\* Spelling a boolean bare is done once.
LEMMA CanonIs ==
    /\ \A x : Canon(Canon(x)) = Canon(x)
    /\ \A x : x \in Bare => Canon(x) = x /\ Canon(BoolForm(x)) = x
    /\ \A x : x \notin BoolForms => Canon(x) = x
    /\ \A x : Canon(x) \notin BoolForms
BY DEF Canon, Bare, BoolForm, BoolForms

\* The file holds what was meant, in the spelling of files; so did the file that
\* the document was read from.  The document and the copy hold what was meant, in
\* either spelling, and what they still share is a tuple, which no edit can turn
\* into anything else in place.
ValuesInv ==
    /\ input \in Inputs
    /\ DOMAIN held = {"file", "doc", "copy"} /\ DOMAIN meant = {"file", "doc", "copy"}
    /\ held["file"] = meant["file"]
    /\ \A holder \in {"doc", "copy"} : Canon(held[holder]) = meant[holder]
    /\ Canon(held["file"]) = held["file"] /\ Canon(data) = data
    /\ shared \in {"nothing", "value"}
    /\ shared = "value" => held["doc"] \in Tuples /\ held["copy"] \in Tuples

\* At the start no document has been read.
LEMMA ValuesInit == Init => ValuesInv
<1> SUFFICES ASSUME Init PROVE ValuesInv
  OBVIOUS
<1>1. input \in Inputs
  BY DEF Init
<1>2. Canon(input.value) = input.value
  <2>1. input.value \in FileValues(Field, KindOf(Field), input.version)
    BY <1>1, InputsAssumption DEF Field
  <2>2. (\E w : input.value = Canon(w)) \/ input.value = "null"
    BY <2>1 DEF FileValues
  <2>3. Canon("null") = "null"
    BY DEF Canon
  <2> QED
    BY <2>2, <2>3, CanonIs
<1>3. Canon("none") = "none"
  BY DEF Canon
<1> QED
  BY <1>1, <1>2, <1>3 DEF Init, ValuesInv

\* Reading keeps the invariant: what a route loses of a place is listed in Known.
LEMMA ReadKeeps ==
    ASSUME ValuesInv, NEW route \in Routes, NEW order \in BOOLEAN, Read(route, order)
    PROVE  ValuesInv'
<1> DEFINE x == held["file"]
           v == Decoded(route, x)
<1>1. input \in Inputs /\ Canon(x) = x /\ x = meant["file"]
  BY DEF ValuesInv
<1>2. ASSUME ~Expected(route, Traits(x)) PROVE Canon(v) = x
  <2>1. <<"value", x>> \in Traits(x) /\ <<"in", Container(Field)>> \in Traits(x)
            /\ Field \in Traits(x)
    BY DEF Traits
  <2>2. ~ (x = "null" /\ (route = "map" \/ Container(Field) = "value"))
    BY <1>2, <2>1, KnownAre DEF Routes
  <2>3. ~ (x = "null" /\ route # "map"
            /\ Field \in {<<"Operation", "responses">>, <<"Operation", "default">>})
    BY <1>2, <2>1, KnownAre DEF Routes
  <2>4. Reaches(ReadTable(route), input.site)
    BY <1>1, TablesReach
  <2>5. v = IF x \in Bare /\ Container(Field) # "any" THEN BoolForm(x) ELSE x
    BY <2>2, <2>3, <2>4 DEF Decoded
  <2> QED
    BY <1>1, <2>5, CanonIs
<1>3. /\ held'  = [held EXCEPT !["doc"] = v, !["copy"] = "none"]
      /\ meant' = [meant EXCEPT !["copy"] = "none",
                       !["doc"] = IF Expected(route, Traits(x)) THEN Canon(v) ELSE meant["file"]]
      /\ data' = x /\ shared' = "nothing" /\ input' = input
  BY DEF Read
<1> HIDE DEF x, v
<1>4. Canon("none") = "none"
  BY DEF Canon
<1>5. /\ DOMAIN held' = {"file", "doc", "copy"} /\ DOMAIN meant' = {"file", "doc", "copy"}
      /\ held'["file"] = held["file"] /\ meant'["file"] = meant["file"]
      /\ held'["doc"] = v /\ held'["copy"] = "none" /\ meant'["copy"] = "none"
      /\ meant'["doc"] = IF Expected(route, Traits(x)) THEN Canon(v) ELSE meant["file"]
  BY <1>3 DEF ValuesInv
<1>6. Canon(held'["doc"]) = meant'["doc"]
  BY <1>1, <1>2, <1>5
<1> QED
  BY <1>1, <1>3, <1>4, <1>5, <1>6 DEF ValuesInv, x

\* Writing what a document holds.
LEMMA WriteKeeps ==
    ASSUME ValuesInv, NEW fmt \in {"json", "yaml"},
           ToFile(fmt, Writing(fmt), Written(fmt, held["doc"]), Traits(held["doc"]))
    PROVE  ValuesInv'
<1> DEFINE x == held["doc"]
           v == Written(fmt, x)
<1>1. input \in Inputs /\ Canon(x) = meant["doc"]
  BY DEF ValuesInv
<1>2. Reaches(WriteTable(fmt), input.site)
  BY <1>1, TablesReach
<1>3. v = IF x = "empty" /\ fmt = "yaml" THEN "absent" ELSE Canon(x)
  BY <1>2 DEF Written
<1>4. Canon(v) = v
  <2>1. Canon("absent") = "absent"
    BY DEF Canon
  <2> QED
    BY <1>3, <2>1, CanonIs
<1>5. ~Expected(Writing(fmt), Traits(x)) => v = meant["doc"]
  <2>1. <<"value", x>> \in Traits(x)
    BY DEF Traits
  <2> QED
    BY <1>1, <1>3, <2>1, KnownAre DEF Writing
<1>6. /\ held'  = [held EXCEPT !["file"] = v]
      /\ meant' = [meant EXCEPT !["file"] = IF Expected(Writing(fmt), Traits(x)) THEN v
             ELSE meant["doc"]]
      /\ UNCHANGED <<input, data, shared>>
  BY DEF ToFile
<1> HIDE DEF x, v
<1>7. /\ DOMAIN held' = {"file", "doc", "copy"} /\ DOMAIN meant' = {"file", "doc", "copy"}
      /\ held'["file"] = v /\ meant'["file"] = v
      /\ \A h \in {"doc", "copy"} : held'[h] = held[h] /\ meant'[h] = meant[h]
  BY <1>5, <1>6 DEF ValuesInv
<1> QED
  BY <1>4, <1>6, <1>7 DEF ValuesInv

\* Writing the map as parsed.
LEMMA WriteOrderedKeeps ==
    ASSUME ValuesInv, NEW fmt \in {"json", "yaml"}, WriteOrdered(fmt)
    PROVE  ValuesInv'
<1>1. CASE ~kept
  BY <1>1, WriteKeeps DEF WriteOrdered
<1>2. CASE kept
  <2>1. ToFile(fmt, "ordered", data, Stale)
    BY <1>2 DEF WriteOrdered
  <2>2. Canon(data) = data /\ Canon(held["doc"]) = meant["doc"]
    BY DEF ValuesInv
  <2>3. ~Expected("ordered", Stale) => data = meant["doc"]
    <3>1. Canon(data) # Canon(held["doc"]) => <<"data", "stale">> \in Stale
      BY DEF Stale
    <3> QED
      BY <2>2, <3>1, KnownAre
  <2>4. /\ held'  = [held EXCEPT !["file"] = data]
        /\ meant' = [meant EXCEPT !["file"] = IF Expected("ordered", Stale) THEN data
               ELSE meant["doc"]]
        /\ UNCHANGED <<input, data, shared>>
    BY <2>1 DEF ToFile
  <2>5. /\ DOMAIN held' = {"file", "doc", "copy"} /\ DOMAIN meant' = {"file", "doc", "copy"}
        /\ held'["file"] = data /\ meant'["file"] = data
        /\ \A h \in {"doc", "copy"} : held'[h] = held[h] /\ meant'[h] = meant[h]
    BY <2>3, <2>4 DEF ValuesInv
  <2> QED
    BY <2>2, <2>4, <2>5 DEF ValuesInv
<1> QED
  BY <1>1, <1>2

\* Only a tuple is shared.
LEMMA SharedIs ==
    ASSUME ValuesInv, NEW v
    PROVE  SharedBy(v) = IF v \in Tuples THEN "value" ELSE "nothing"
<1>1. input \in Inputs
  BY DEF ValuesInv
<1>2. Steps(input.site) \ {Field} \subseteq CopyTable /\ Field \in CopyTable
  BY <1>1, TablesReach
<1> QED
  BY <1>2 DEF SharedBy

\* So does copying: every field is copied, and nothing but a tuple is shared.
LEMMA CopyKeeps ==
    ASSUME ValuesInv, Copy
    PROVE  ValuesInv'
<1> DEFINE x == held["doc"]
           v == Copied(x)
<1>1. Canon(x) = meant["doc"]
  BY DEF ValuesInv
<1>2. ~Expected("copy", Traits(x)) => v = x
  <2>1. <<"value", x>> \in Traits(x) /\ <<"in", Container(Field)>> \in Traits(x)
    BY DEF Traits
  <2> QED
    BY <2>1, KnownAre DEF Copied
<1>3. x \in Tuples => v = x
  BY DEF Copied, Tuples
<1>4. /\ held'  = [held EXCEPT !["copy"] = v]
      /\ meant' = [meant EXCEPT !["copy"] = IF Expected("copy", Traits(x)) THEN Canon(v)
             ELSE meant["doc"]]
      /\ shared' = SharedBy(x) /\ UNCHANGED <<input, data>>
  BY DEF Copy
<1>5. shared' = IF x \in Tuples THEN "value" ELSE "nothing"
  BY <1>4, SharedIs
<1> HIDE DEF v
<1>6. /\ DOMAIN held' = {"file", "doc", "copy"} /\ DOMAIN meant' = {"file", "doc", "copy"}
      /\ \A h \in {"file", "doc"} : held'[h] = held[h] /\ meant'[h] = meant[h]
      /\ held'["copy"] = v
      /\ meant'["copy"] = IF Expected("copy", Traits(x)) THEN Canon(v) ELSE meant["doc"]
  BY <1>4 DEF ValuesInv
<1>7. Canon(held'["copy"]) = meant'["copy"]
  BY <1>1, <1>2, <1>6
<1>8. shared' = "value" => held'["doc"] \in Tuples /\ held'["copy"] \in Tuples
  BY <1>3, <1>5, <1>6
<1> QED
  BY <1>4, <1>5, <1>6, <1>7, <1>8 DEF ValuesInv

\* So does an edit: only one in place, of a tuple, reaches the other holder.
LEMMA EditKeeps ==
    ASSUME ValuesInv, NEW holder \in {"doc", "copy"}, NEW w, NEW inPlace \in BOOLEAN,
           Edit(holder, w, inPlace)
    PROVE  ValuesInv'
<1> DEFINE other == Other(holder)
           leaks == shared = "place" \/ (shared = "value" /\ inPlace)
           known == leaks /\ Expected("copy", Traits(held[holder]))
<1>1. other \in {"doc", "copy"} /\ other # holder
          /\ \A h \in {"doc", "copy"} : h = holder \/ h = other
  BY DEF Other
<1>2. leaks => /\ shared = "value" /\ inPlace
               /\ held[holder] \in Tuples /\ w \in Tuples
  <2> SUFFICES ASSUME leaks
               PROVE  shared = "value" /\ inPlace /\ held[holder] \in Tuples /\ w \in Tuples
    OBVIOUS
  <2>1. shared = "value" /\ inPlace /\ held[holder] \in Tuples
    BY DEF ValuesInv
  <2>2. PICK same \in {Objects \cup Refs \cup BoolForms, Tuples} :
            {held[holder], w} \subseteq same
    BY <2>1 DEF Edit, InPlace
  <2>3. same = Tuples
    BY <2>1, <2>2 DEF Tuples, Objects, Refs, BoolForms
  <2> QED
    BY <2>1, <2>2, <2>3
<1>3. leaks => known
  <2>1. <<"value", held[holder]>> \in Traits(held[holder])
    BY DEF Traits
  <2> QED
    BY <1>2, <2>1, KnownAre DEF Tuples
<1>4. /\ held'  = [held EXCEPT ![holder] = w, ![other] = IF leaks THEN w ELSE @]
      /\ meant' = [meant EXCEPT ![holder] = Canon(w), ![other] = IF known THEN Canon(w) ELSE @]
      /\ shared' = IF shared = "value" /\ ~inPlace THEN "nothing" ELSE shared
      /\ UNCHANGED <<input, data>>
  BY DEF Edit
<1> HIDE DEF other, leaks, known
<1>5. /\ DOMAIN held' = {"file", "doc", "copy"} /\ DOMAIN meant' = {"file", "doc", "copy"}
      /\ held'["file"] = held["file"] /\ meant'["file"] = meant["file"]
      /\ held'[holder] = w /\ meant'[holder] = Canon(w)
      /\ held'[other] = (IF leaks THEN w ELSE held[other])
      /\ meant'[other] = (IF known THEN Canon(w) ELSE meant[other])
  BY <1>1, <1>4 DEF ValuesInv
<1>6. known => leaks
  BY DEF known
<1>7. Canon(held'[holder]) = meant'[holder] /\ Canon(held'[other]) = meant'[other]
  BY <1>1, <1>3, <1>5, <1>6 DEF ValuesInv
<1>8. shared' \in {"nothing", "value"}
  BY <1>4 DEF ValuesInv
<1>9. shared' = "value" => held'[holder] \in Tuples /\ held'[other] \in Tuples
  <2> SUFFICES ASSUME shared' = "value" PROVE held'[holder] \in Tuples /\ held'[other] \in Tuples
    OBVIOUS
  <2>1. shared = "value" /\ inPlace
    BY <1>4
  <2>2. leaks
    BY <2>1 DEF leaks
  <2> QED
    BY <1>2, <1>5, <2>2
<1>10. \A h \in {"doc", "copy"} : Canon(held'[h]) = meant'[h]
  BY <1>1, <1>7
<1>11. shared' = "value" => held'["doc"] \in Tuples /\ held'["copy"] \in Tuples
  BY <1>1, <1>9
<1> QED
  BY <1>4, <1>5, <1>8, <1>10, <1>11 DEF ValuesInv

\* So does going on with the copy.
LEMMA AdoptKeeps ==
    ASSUME ValuesInv, Adopt
    PROVE  ValuesInv'
<1>1. /\ held'  = [held EXCEPT !["doc"] = held["copy"], !["copy"] = "none"]
      /\ meant' = [meant EXCEPT !["doc"] = meant["copy"], !["copy"] = "none"]
      /\ shared' = "nothing" /\ UNCHANGED <<input, data>>
  BY DEF Adopt
<1>2. /\ DOMAIN held' = {"file", "doc", "copy"} /\ DOMAIN meant' = {"file", "doc", "copy"}
      /\ held'["file"] = held["file"] /\ meant'["file"] = meant["file"]
      /\ held'["doc"] = held["copy"] /\ meant'["doc"] = meant["copy"]
      /\ held'["copy"] = "none" /\ meant'["copy"] = "none"
  BY <1>1 DEF ValuesInv
<1>3. Canon("none") = "none"
  BY DEF Canon
<1> QED
  BY <1>1, <1>2, <1>3 DEF ValuesInv

\* Every step keeps the invariant.
LEMMA ValuesStep == ValuesInv /\ [Next]_vars => ValuesInv'
<1> SUFFICES ASSUME ValuesInv, [Next]_vars PROVE ValuesInv'
  OBVIOUS
<1>1. CASE AnyRead
  BY <1>1, ReadKeeps DEF AnyRead
<1>2. CASE AnyWrite
  BY <1>2, WriteKeeps, WriteOrderedKeeps DEF AnyWrite, Write
<1>3. CASE Copy
  BY <1>3, CopyKeeps
<1>4. CASE AnyEdit
  BY <1>4, EditKeeps DEF AnyEdit
<1>5. CASE Adopt
  BY <1>5, AdoptKeeps
<1>6. CASE UNCHANGED vars
  BY <1>6 DEF vars, ValuesInv
<1> QED
  BY <1>1, <1>2, <1>3, <1>4, <1>5, <1>6 DEF Next

\* What holds of the values in every reachable state.
LEMMA ValuesInvariant == Spec => []ValuesInv
BY ValuesInit, ValuesStep, PTL DEF Spec

-----------------------------------------------------------------------------
(* What a file, a document and a copy hold. *)

\* Whatever is read, copied, edited and written in whatever order, what a file holds
\* is what was meant, but for the losses that Known lists.
THEOREM FilesRoundTrip == Spec => []RoundTrip
<1>1. ValuesInv => RoundTrip
  BY DEF ValuesInv, RoundTrip
<1> QED
  BY <1>1, ValuesInvariant, PTL

\* A document and its copy never change with each other.
THEOREM CopiesStayApart == Spec => []CopiesApart
<1>1. ValuesInv => CopiesApart
  BY DEF ValuesInv, CopiesApart
<1> QED
  BY <1>1, ValuesInvariant, PTL

-----------------------------------------------------------------------------
(* Comparing. *)

\* Equals tells all values apart that are not listed.
LEMMA EqualsIs ==
    ASSUME ValuesInv, NEW v, NEW w
    PROVE  Equals(v, w) <=> Canon(v) = Canon(w) \/ Expected("equals", {<<"pair", {v, w}>>})
<1>1. Reaches(Equates[input.version], input.site)
  BY TablesReach DEF ValuesInv
<1>2. Known["equals"] = {{<<"pair", {"absent", "empty"}>>}}
  BY DEF Known
<1>3. Expected("equals", {<<"pair", {v, w}>>})
          <=> <<"pair", {"absent", "empty"}>> \in {<<"pair", {v, w}>>}
  BY <1>2 DEF Expected
<1>4. <<"pair", {"absent", "empty"}>> \in {<<"pair", {v, w}>>} <=> {v, w} = {"absent", "empty"}
  OBVIOUS
<1> QED
  BY <1>1, <1>3, <1>4 DEF Equals

\* The differ reports all differences but those that Overlooked lists.
LEMMA ReportedIs ==
    ASSUME ValuesInv, NEW v, NEW w, ~Missed(v, w)
    PROVE  Reported(v, w) <=> Canon(v) # Canon(w)
<1>1. input.version \in Versions /\ IsSite(input.site, input.version)
  BY TablesReach DEF ValuesInv
<1>2. \A trait \in PairTraits(v, w) : trait \notin Overlooked
  BY DEF Missed
<1>3. Steps(input.site) \subseteq PairTraits(v, w)
  BY DEF PairTraits
<1>4. Reaches(Differs[input.version], input.site)
  BY <1>1, <1>2, <1>3, DifferOverlooks
<1>5. <<"Document", "webhooks">> \notin Steps(input.site)
  <2>1. <<"Document", "webhooks">> \in Overlooked
    BY DEF Overlooked, In
  <2> QED
    BY <1>2, <1>3, <2>1
<1>6. \A trait \in In("plain", {"PathItem", "MediaType", "Any"})
                          \cup In("both", {"fieldless", "spelled"}) :
          trait \in Overlooked
  BY Zenon DEF Overlooked
<1>7. /\ <<"both", "fieldless">> \in Overlooked
      /\ <<"both", "spelled">> \in Overlooked
      /\ KindHere \in {"PathItem", "MediaType", "Any"} => <<"plain", KindHere>> \in Overlooked
  BY <1>6 DEF In
<1>8. v # w => ~ ({v, w} \subseteq Fieldless)
  BY <1>2, <1>7 DEF PairTraits
<1>10. ~ ({v, w} = {"A", "B"} /\ KindHere \in {"PathItem", "MediaType", "Any"})
  BY <1>2, <1>7 DEF PairTraits
<1>11. ~ (v # w /\ Canon(v) = Canon(w))
  BY <1>2, <1>7 DEF PairTraits
<1>12. Reported(v, w) <=> v # w
  BY <1>4, <1>5, <1>8, <1>10 DEF Reported, Distinguished
<1> QED
  BY <1>11, <1>12

\* The joiner compares, and hashes, every keyword of a schema.
LEMMA JoinerIs ==
    ASSUME ValuesInv, NEW v, NEW w, InSchema
    PROVE  /\ Equivalent(v, w) <=> Same(v, w)
           /\ Equivalent(v, w) => Hashed(v) = Hashed(w)
<1>1. input.version \in Versions /\ IsSite(input.site, input.version)
  BY TablesReach DEF ValuesInv
<1>2. ASSUME NEW s \in Within PROVE s \in Compares
  <2>1. PICK i \in 1..Len(input.site) : s = input.site[i] /\ s # <<"Document", "schemas">>
    BY <1>1, SiteIs DEF Within, Steps
  <2>2. i # 1 /\ i \in 2..Len(input.site)
    BY <1>1, <2>1, SiteIs DEF InSchema
  <2> QED
    BY <1>1, <2>1, <2>2, ComparesWithin DEF InSchema
<1>3. Equivalent(v, w) <=> Same(v, w)
  BY <1>2 DEF Equivalent
<1>4. Same(v, w) => Bared(v) = Bared(w)
  BY DEF Same
<1> QED
  BY <1>3, <1>4 DEF Hashed

\* Equals, the differ and the joiner tell two documents apart exactly when they
\* differ, but for what Known and Overlooked list.
THEOREM ComparisonsAreExact == Spec => []ComparisonsExact
<1>1. ValuesInv => ComparisonsExact
  <2> SUFFICES ASSUME ValuesInv PROVE ComparisonsExact
    OBVIOUS
  <2> DEFINE v == held["doc"]
             w == held["copy"]
  <2>1. Equals(v, w) <=> Canon(v) = Canon(w) \/ Expected("equals", {<<"pair", {v, w}>>})
    BY EqualsIs
  <2>2. ~Missed(v, w) => (Reported(v, w) <=> Canon(v) # Canon(w))
    BY ReportedIs
  <2>3. InSchema => /\ Equivalent(v, w) <=> Same(v, w)
                    /\ Equivalent(v, w) => Hashed(v) = Hashed(w)
    BY JoinerIs
  <2> QED
    BY <2>1, <2>2, <2>3 DEF ComparisonsExact
<1> QED
  BY <1>1, ValuesInvariant, PTL
=============================================================================
