-------------------------- MODULE DocumentToolsProofs --------------------------
(***************************************************************************)
(* Proofs about the tools that rewrite a document: for every place of the  *)
(* grammar, at any depth, and any number of tools, a reference keeps its   *)
(* meaning, is not lost in silence, is not left dangling unreported, and   *)
(* keeps its schema when schemas are pruned.                               *)
(***************************************************************************)
EXTENDS DocumentTools, InductionLemmas

-----------------------------------------------------------------------------
(* Places. *)

\* The steps, kind by kind.
LEMMA StepsAre ==
    ASSUME NEW s \in AllSteps
    PROVE  /\ s = <<s[1], s[2]>>
           /\ s[1] \in {"Document", "PathItem", "Operation", "Parameter", "Header", "RequestBody", "Response", "MediaType",
                        "Encoding", "Schema", "Discriminator"}
           /\ s[2] \in DOMAIN Object[s[1]]
<1>1. PICK k \in DOMAIN Object : s \in In(k, DOMAIN Object[k])
  BY DEF AllSteps
<1>2. k \in {"Document", "PathItem", "Operation", "Parameter", "Header", "RequestBody", "Response", "MediaType",
             "Encoding", "Schema", "Discriminator"}
  BY DEF Object
<1> HIDE DEF Object
<1>3. s = <<s[1], s[2]>> /\ s[1] = k /\ s[2] \in DOMAIN Object[k]
  BY <1>1 DEF In
<1> QED
  BY <1>2, <1>3

\* The fields of a kind of object.
LEMMA FieldsAre ==
    ASSUME NEW s \in AllSteps
    PROVE  /\ s[1] = "Document" => s[2] \in DOMAIN Sections
           /\ s[1] = "PathItem" => s[2] \in DOMAIN PathItemFields
           /\ s[1] = "Operation" => s[2] \in DOMAIN OperationFields
           /\ s[1] = "Parameter" => s[2] \in DOMAIN ParameterFields
           /\ s[1] = "Header" => s[2] \in DOMAIN HeaderFields
           /\ s[1] = "RequestBody" => s[2] \in DOMAIN BodyFields
           /\ s[1] = "Response" => s[2] \in DOMAIN ResponseFields
           /\ s[1] = "MediaType" => s[2] \in DOMAIN MediaTypeFields
           /\ s[1] = "Encoding" => s[2] \in DOMAIN EncodingFields
           /\ s[1] = "Schema" => s[2] \in DOMAIN SchemaFields
           /\ s[1] = "Discriminator" => s[2] \in DOMAIN DiscriminatorFields
<1>1. s[2] \in DOMAIN Object[s[1]]
  BY StepsAre
<1> QED
  BY <1>1 DEF Object

\* What each kind of object holds in its fields.
LEMMA HoldsIs ==
    ASSUME NEW s \in AllSteps
    PROVE  /\ s[1] = "Document" => Holds(s) = CASE s[2] = "schemas" -> "Schema"
                                                [] s[2] = "parameters" -> "Parameter"
                                                [] s[2] = "responses" -> "Response"
                                                [] s[2] \in {"paths", "webhooks", "pathItems", "callbacks"} -> "PathItem"
                                                [] s[2] = "requestBodies" -> "RequestBody"
                                                [] s[2] = "headers" -> "Header"
                                                [] s[2] = "callbackRefs" -> "Callback"
                                                [] OTHER -> "MediaType"
           /\ s[1] = "PathItem" => Holds(s) = IF s[2] = "parameters" THEN "Parameter" ELSE "Operation"
           /\ s[1] = "Operation" => Holds(s) = CASE s[2] \in {"parameters", "body"} -> "Parameter"
                                                 [] s[2] \in {"responses", "default"} -> "Response"
                                                 [] s[2] = "requestBody" -> "RequestBody"
                                                 [] s[2] = "callbacks" -> "PathItem"
                                                 [] OTHER -> "Callback"
           /\ s[1] \in {"Parameter", "Header", "RequestBody"} =>
                 Holds(s) = IF s[2] = "schema" THEN "Schema" ELSE "MediaType"
           /\ s[1] = "Response" => Holds(s) = CASE s[2] = "schema" -> "Schema" [] s[2] = "headers" -> "Header" [] OTHER -> "MediaType"
           /\ s[1] = "MediaType" => Holds(s) = IF s[2] \in {"schema", "itemSchema"} THEN "Schema" ELSE "Encoding"
           /\ s[1] = "Encoding" => Holds(s) = IF s[2] = "headers" THEN "Header" ELSE "Encoding"
           /\ s[1] = "Schema" => Holds(s) = "Schema"
           /\ s[1] = "Discriminator" => Holds(s) = "Target"
<1>1. CASE s[1] = "Document"
  <2>1. s[2] \in DOMAIN Sections
    BY <1>1, FieldsAre
  <2> QED
    BY <1>1, <2>1 DEF Holds, Sections
<1>2. CASE s[1] = "PathItem"
  BY <1>2, FieldsAre DEF PathItemFields, Holds
<1>3. CASE s[1] = "Operation"
  BY <1>3, FieldsAre DEF OperationFields, Holds
<1>4. CASE s[1] \in {"Parameter", "Header", "RequestBody"}
  BY <1>4, FieldsAre DEF ParameterFields, HeaderFields, BodyFields, Holds
<1>5. CASE s[1] = "Response"
  BY <1>5, FieldsAre DEF ResponseFields, Holds
<1>6. CASE s[1] = "MediaType"
  BY <1>6, FieldsAre DEF MediaTypeFields, Holds
<1>7. CASE s[1] = "Encoding"
  BY <1>7, FieldsAre DEF EncodingFields, Holds
<1>8. CASE s[1] = "Schema"
  BY <1>8, FieldsAre DEF SchemaFields, Holds
<1>9. CASE s[1] = "Discriminator"
  BY <1>9, FieldsAre DEF DiscriminatorFields, Holds
<1> QED
  BY <1>1, <1>2, <1>3, <1>4, <1>5, <1>6, <1>7, <1>8, <1>9

LEMMA PlaceIs ==
    ASSUME NEW path, IsPlace(path)
    PROVE  /\ Len(path) \in Nat /\ Len(path) >= 1 /\ DOMAIN path = 1..Len(path)
           /\ \A i \in 1..Len(path) : path[i] \in AllSteps
           /\ path[1][1] = "Document"
           /\ \A i \in 2..Len(path) : path[i][1] \in Parts(Holds(path[i - 1]))
<1>1. path \in Seq(AllSteps) /\ path # <<>>
  BY DEF IsPlace
<1>2. Len(path) \in Nat /\ DOMAIN path = 1..Len(path) /\ \A i \in 1..Len(path) : path[i] \in AllSteps
  BY <1>1
<1>3. Len(path) >= 1
  BY <1>1, EmptySeq
<1> QED
  BY <1>2, <1>3 DEF IsPlace

\* What a place starts with decides what can be in it.  A set of steps that has the
\* first one, and every step a part of what one of them holds can be, has them all.
LEMMA PlaceWithin ==
    ASSUME NEW path, IsPlace(path), NEW S, path[1] \in S,
           \A s \in S \cap AllSteps : \A t \in AllSteps : t[1] \in Parts(Holds(s)) => t \in S
    PROVE  \A i \in 1..Len(path) : path[i] \in S
<1> DEFINE n == Len(path)
           T == {i \in Nat : i + 1 <= n => path[i + 1] \in S}
<1>1. 0 \in T
  OBVIOUS
<1>2. ASSUME NEW i \in T PROVE i + 1 \in T
  <2> SUFFICES ASSUME i + 2 <= n PROVE path[i + 2] \in S
    OBVIOUS
  <2>1. i + 1 \in 1..n /\ i + 2 \in 2..n /\ i + 2 \in 1..n /\ (i + 2) - 1 = i + 1 /\ n \in Nat
    BY PlaceIs
  <2>2. path[i + 1] \in S
    BY <2>1
  <2>3. path[i + 1] \in AllSteps /\ path[i + 2] \in AllSteps /\ path[i + 2][1] \in Parts(Holds(path[i + 1]))
    BY <2>1, PlaceIs
  <2> QED
    BY <2>2, <2>3
<1>3. T \in SUBSET Nat
  OBVIOUS
<1> HIDE DEF T
<1>4. T = Nat
  BY <1>1, <1>2, <1>3, Induct
<1> SUFFICES ASSUME NEW i \in 1..n PROVE path[i] \in S
  OBVIOUS
<1>5. i - 1 \in T /\ (i - 1) + 1 = i /\ i <= n
  BY <1>4, PlaceIs
<1> QED
  BY <1>5 DEF T

\* A reference to a callback, and the target of a discriminator, end a place.
LEMMA LeavesEnd ==
    ASSUME NEW path, IsPlace(path), NEW i \in 1..Len(path)
    PROVE  /\ path[i][1] \in {"Document", "Operation"} /\ path[i][2] = "callbackRefs" => Kind(path) = "Callback"
           /\ path[i][1] = "Discriminator" => Kind(path) = "Target"
<1> DEFINE n == Len(path)
<1>1. n \in Nat /\ path[i] \in AllSteps
  BY PlaceIs
<1>2. ASSUME i # n, Holds(path[i]) \in {"Callback", "Target"} PROVE FALSE
  <2>1. i + 1 \in 2..n /\ i + 1 \in 1..n /\ (i + 1) - 1 = i
    BY <1>1, <1>2
  <2>2. path[i + 1] \in AllSteps /\ path[i + 1][1] \in Parts(Holds(path[i]))
    BY <2>1, PlaceIs
  <2>3. path[i + 1][1] \in {"Callback", "Target"}
    BY <1>2, <2>2 DEF Parts
  <2> QED
    BY <2>2, <2>3, StepsAre
<1>3. path[i][1] \in {"Document", "Operation"} /\ path[i][2] = "callbackRefs" => Holds(path[i]) = "Callback"
  BY <1>1, HoldsIs
<1>4. path[i][1] = "Discriminator" => Holds(path[i]) = "Target"
  BY <1>1, HoldsIs
<1> QED
  BY <1>2, <1>3, <1>4 DEF Kind

\* The document comes first and only there.
LEMMA DocumentFirst ==
    ASSUME NEW path, IsPlace(path), NEW i \in 2..Len(path)
    PROVE  path[i][1] # "Document"
<1>1. i - 1 \in 1..Len(path)
  BY PlaceIs
<1>2. path[i - 1] \in AllSteps /\ path[i][1] \in Parts(Holds(path[i - 1]))
  BY <1>1, PlaceIs
<1>3. Holds(path[i - 1]) # "Document"
  BY DEF Holds
<1> QED
  BY <1>2, <1>3 DEF Parts

\* An encoding is in a media type.
EncodingsOf == In("MediaType", {"encoding", "itemEncoding", "prefixEncoding"})
LEMMA EncodingInside ==
    ASSUME NEW path, IsPlace(path), Steps(path) \cap EncodingsOf = {}
    PROVE  \A i \in 1..Len(path) : path[i][1] # "Encoding"
<1> DEFINE n == Len(path)
           T == {i \in Nat : i + 1 <= n => path[i + 1][1] # "Encoding"}
<1>1. 0 \in T
  BY PlaceIs
<1>2. ASSUME NEW i \in T PROVE i + 1 \in T
  <2> SUFFICES ASSUME i + 2 <= n, path[i + 2][1] = "Encoding" PROVE FALSE
    OBVIOUS
  <2>1. i + 1 \in 1..n /\ i + 2 \in 2..n /\ i + 2 \in 1..n /\ (i + 2) - 1 = i + 1 /\ n \in Nat
    BY PlaceIs
  <2>2. path[i + 1][1] # "Encoding"
    BY <2>1
  <2>3. path[i + 1] \in AllSteps /\ path[i + 2][1] \in Parts(Holds(path[i + 1]))
    BY <2>1, PlaceIs
  <2> DEFINE s == path[i + 1]
  <2>4. Holds(s) = "Encoding"
    BY <2>3 DEF Parts
  <2>5. s \notin EncodingsOf
    BY <2>1, PlaceIs DEF Steps
  <2> HIDE DEF s
  <2>6. s \in AllSteps /\ s[1] # "Encoding"
    BY <2>2, <2>3 DEF s
  <2>7. s[1] = "MediaType"
    BY <2>4, <2>6, HoldsIs, StepsAre
  <2>8. s[2] \in {"encoding", "itemEncoding", "prefixEncoding"}
    BY <2>4, <2>6, <2>7, HoldsIs, FieldsAre DEF MediaTypeFields
  <2> QED
    BY <2>5, <2>6, <2>7, <2>8, StepsAre DEF EncodingsOf, In
<1>3. T \in SUBSET Nat
  OBVIOUS
<1> HIDE DEF T
<1>4. T = Nat
  BY <1>1, <1>2, <1>3, Induct
<1> SUFFICES ASSUME NEW i \in 1..n PROVE path[i][1] # "Encoding"
  OBVIOUS
<1>5. i - 1 \in T /\ (i - 1) + 1 = i /\ i <= n
  BY <1>4, PlaceIs
<1> QED
  BY <1>5 DEF T

\* A place in the pool of schemas is one of schemas all the way down.
LEMMA PoolPlace ==
    ASSUME NEW path, IsPlace(path), path[1] = <<"Document", "schemas">>
    PROVE  \A i \in 1..Len(path) : path[i] = <<"Document", "schemas">> \/ path[i][1] \in {"Schema", "Discriminator"}
<1> DEFINE S == {s \in AllSteps : s = <<"Document", "schemas">> \/ s[1] \in {"Schema", "Discriminator"}}
<1>1. path[1] \in S
  BY PlaceIs
<1>2. ASSUME NEW s \in S, NEW t \in AllSteps, t[1] \in Parts(Holds(s)) PROVE t \in S
  <2>1. Holds(s) \in {"Schema", "Target"}
    BY HoldsIs
  <2>2. t[1] # "Target"
    BY StepsAre
  <2> QED
    BY <1>2, <2>1, <2>2 DEF Parts
<1> HIDE DEF S
<1>3. \A i \in 1..Len(path) : path[i] \in S
  BY <1>1, <1>2, PlaceWithin
<1> QED
  BY <1>3 DEF S

\* There is no operation in a parameter, a response or a schema.
NoPaths == {"Schema", "Discriminator", "Parameter", "Response", "Header", "MediaType", "Encoding"}
LEMMA ComponentPlace ==
    ASSUME NEW path, IsPlace(path), path[1] \in In("Document", {"schemas", "parameters", "responses"})
    PROVE  \A i \in 1..Len(path) : path[i][1] \in NoPaths \cup {"Document"}
<1> DEFINE S == {s \in AllSteps : s[1] \in NoPaths \/ s \in In("Document", {"schemas", "parameters", "responses"})}
<1>1. path[1] \in S
  BY PlaceIs
<1>2. ASSUME NEW s \in S, NEW t \in AllSteps, t[1] \in Parts(Holds(s)) PROVE t \in S
  <2>1. Holds(s) \in NoPaths \cup {"Target"}
    BY HoldsIs DEF NoPaths, In
  <2>2. t[1] # "Target"
    BY StepsAre
  <2> QED
    BY <1>2, <2>1, <2>2 DEF Parts, NoPaths
<1> HIDE DEF S
<1>3. \A i \in 1..Len(path) : path[i] \in S
  BY <1>1, <1>2, PlaceWithin
<1> QED
  BY <1>3 DEF S, In

-----------------------------------------------------------------------------
(* Versions, and what each tool visits. *)

\* A step by its field.
LEMMA StepIs ==
    ASSUME NEW s \in AllSteps
    PROVE  /\ s[1] = "Document" => \E f \in DOMAIN Sections : s = <<"Document", f>>
           /\ s[1] = "PathItem" => \E f \in DOMAIN PathItemFields : s = <<"PathItem", f>>
           /\ s[1] = "Operation" => \E f \in DOMAIN OperationFields : s = <<"Operation", f>>
           /\ s[1] = "Parameter" => \E f \in DOMAIN ParameterFields : s = <<"Parameter", f>>
           /\ s[1] = "Header" => \E f \in DOMAIN HeaderFields : s = <<"Header", f>>
           /\ s[1] = "RequestBody" => \E f \in DOMAIN BodyFields : s = <<"RequestBody", f>>
           /\ s[1] = "Response" => \E f \in DOMAIN ResponseFields : s = <<"Response", f>>
           /\ s[1] = "MediaType" => \E f \in DOMAIN MediaTypeFields : s = <<"MediaType", f>>
           /\ s[1] = "Encoding" => \E f \in DOMAIN EncodingFields : s = <<"Encoding", f>>
           /\ s[1] = "Schema" => \E f \in DOMAIN SchemaFields : s = <<"Schema", f>>
           /\ s[1] = "Discriminator" => \E f \in DOMAIN DiscriminatorFields : s = <<"Discriminator", f>>
BY StepsAre, FieldsAre

\* What 2.0 has.
LEMMA FieldsOf2 ==
    ASSUME NEW s \in AllSteps, InVersion(s, 20)
    PROVE  /\ s[1] = "Document" => s[2] \in {"schemas", "parameters", "responses", "paths"}
           /\ s[1] = "PathItem" => s[2] \in {"parameters", "get"}
           /\ s[1] = "Operation" => s[2] \in {"parameters", "body", "responses", "default"}
           /\ s[1] = "Parameter" => s[2] = "schema"
           /\ s[1] = "Response" => s[2] \in {"schema", "headers"}
           /\ s[1] \notin {"Header", "RequestBody", "MediaType", "Encoding", "Discriminator"}
           /\ s[1] = "Schema" => s[2] \in {"properties", "additionalProperties", "items", "allOf"}
<1>1. s[1] = "Document" => s[2] \in {"schemas", "parameters", "responses", "paths"}
  <2> SUFFICES ASSUME s[1] = "Document" PROVE s[2] \in {"schemas", "parameters", "responses", "paths"}
    OBVIOUS
  <2>1. PICK f \in DOMAIN Sections : s = <<"Document", f>>
    BY StepIs
  <2>2. 20 >= Sections[f]
    BY <2>1 DEF InVersion, Object
  <2> QED
    BY <2>1, <2>2 DEF Sections
<1>2. s[1] = "PathItem" => s[2] \in {"parameters", "get"}
  <2> SUFFICES ASSUME s[1] = "PathItem" PROVE s[2] \in {"parameters", "get"}
    OBVIOUS
  <2>1. PICK f \in DOMAIN PathItemFields : s = <<"PathItem", f>>
    BY StepIs
  <2>2. 20 >= PathItemFields[f]
    BY <2>1 DEF InVersion, Object
  <2> QED
    BY <2>1, <2>2 DEF PathItemFields
<1>3. s[1] = "Operation" => s[2] \in {"parameters", "body", "responses", "default"}
  <2> SUFFICES ASSUME s[1] = "Operation" PROVE s[2] \in {"parameters", "body", "responses", "default"}
    OBVIOUS
  <2>1. PICK f \in DOMAIN OperationFields : s = <<"Operation", f>>
    BY StepIs
  <2>2. 20 >= OperationFields[f]
    BY <2>1 DEF InVersion, Object
  <2> QED
    BY <2>1, <2>2 DEF OperationFields
<1>4. s[1] = "Parameter" => s[2] = "schema"
  <2> SUFFICES ASSUME s[1] = "Parameter" PROVE s[2] = "schema"
    OBVIOUS
  <2>1. PICK f \in DOMAIN ParameterFields : s = <<"Parameter", f>>
    BY StepIs
  <2>2. 20 >= ParameterFields[f]
    BY <2>1 DEF InVersion, Object
  <2> QED
    BY <2>1, <2>2 DEF ParameterFields
<1>5. s[1] = "Header" => FALSE
  <2> SUFFICES ASSUME s[1] = "Header" PROVE FALSE
    OBVIOUS
  <2>1. PICK f \in DOMAIN HeaderFields : s = <<"Header", f>>
    BY StepIs
  <2>2. 20 >= HeaderFields[f]
    BY <2>1 DEF InVersion, Object
  <2> QED
    BY <2>1, <2>2 DEF HeaderFields
<1>6. s[1] = "RequestBody" => FALSE
  <2> SUFFICES ASSUME s[1] = "RequestBody" PROVE FALSE
    OBVIOUS
  <2>1. PICK f \in DOMAIN BodyFields : s = <<"RequestBody", f>>
    BY StepIs
  <2>2. 20 >= BodyFields[f]
    BY <2>1 DEF InVersion, Object
  <2> QED
    BY <2>1, <2>2 DEF BodyFields
<1>7. s[1] = "Response" => s[2] \in {"schema", "headers"}
  <2> SUFFICES ASSUME s[1] = "Response" PROVE s[2] \in {"schema", "headers"}
    OBVIOUS
  <2>1. PICK f \in DOMAIN ResponseFields : s = <<"Response", f>>
    BY StepIs
  <2>2. 20 >= ResponseFields[f]
    BY <2>1 DEF InVersion, Object
  <2> QED
    BY <2>1, <2>2 DEF ResponseFields
<1>8. s[1] = "MediaType" => FALSE
  <2> SUFFICES ASSUME s[1] = "MediaType" PROVE FALSE
    OBVIOUS
  <2>1. PICK f \in DOMAIN MediaTypeFields : s = <<"MediaType", f>>
    BY StepIs
  <2>2. 20 >= MediaTypeFields[f]
    BY <2>1 DEF InVersion, Object
  <2> QED
    BY <2>1, <2>2 DEF MediaTypeFields
<1>9. s[1] = "Encoding" => FALSE
  <2> SUFFICES ASSUME s[1] = "Encoding" PROVE FALSE
    OBVIOUS
  <2>1. PICK f \in DOMAIN EncodingFields : s = <<"Encoding", f>>
    BY StepIs
  <2>2. 20 >= EncodingFields[f]
    BY <2>1 DEF InVersion, Object
  <2> QED
    BY <2>1, <2>2 DEF EncodingFields
<1>10. s[1] = "Schema" => s[2] \in {"properties", "additionalProperties", "items", "allOf"}
  <2> SUFFICES ASSUME s[1] = "Schema" PROVE s[2] \in {"properties", "additionalProperties", "items", "allOf"}
    OBVIOUS
  <2>1. PICK f \in DOMAIN SchemaFields : s = <<"Schema", f>>
    BY StepIs
  <2>2. 20 >= SchemaFields[f]
    BY <2>1 DEF InVersion, Object
  <2> QED
    BY <2>1, <2>2 DEF SchemaFields
<1>11. s[1] = "Discriminator" => FALSE
  <2> SUFFICES ASSUME s[1] = "Discriminator" PROVE FALSE
    OBVIOUS
  <2>1. PICK f \in DOMAIN DiscriminatorFields : s = <<"Discriminator", f>>
    BY StepIs
  <2>2. 20 >= DiscriminatorFields[f]
    BY <2>1 DEF InVersion, Object
  <2> QED
    BY <2>1, <2>2 DEF DiscriminatorFields
<1> QED
  BY <1>1, <1>2, <1>3, <1>4, <1>5, <1>6, <1>7, <1>8, <1>9, <1>10, <1>11

\* What a version of 3.x has: not what only 2.0 has, and the operations of that version.
LEMMA FieldsOf3 ==
    ASSUME NEW s \in AllSteps, NEW v \in {30, 31, 32}, InVersion(s, v)
    PROVE  /\ s[1] = "Operation" => s[2] # "body"
           /\ s[1] = "Response" => s[2] # "schema"
           /\ s[1] = "PathItem" => s[2] \in {"parameters"} \cup Operations(v)
<1>1. s[1] = "Operation" => s[2] # "body"
  <2> SUFFICES ASSUME s[1] = "Operation", s[2] = "body" PROVE FALSE
    OBVIOUS
  <2>1. PICK f : s = <<"Operation", f>>
    BY StepIs
  <2> QED
    BY <2>1 DEF InVersion
<1>2. s[1] = "Response" => s[2] # "schema"
  <2> SUFFICES ASSUME s[1] = "Response", s[2] = "schema" PROVE FALSE
    OBVIOUS
  <2>1. PICK f : s = <<"Response", f>>
    BY StepIs
  <2> QED
    BY <2>1 DEF InVersion
<1>3. s[1] = "PathItem" => s[2] \in {"parameters"} \cup Operations(v)
  <2> SUFFICES ASSUME s[1] = "PathItem" PROVE s[2] \in {"parameters"} \cup Operations(v)
    OBVIOUS
  <2>1. PICK f \in DOMAIN PathItemFields : s = <<"PathItem", f>>
    BY StepIs
  <2>2. v >= PathItemFields[f]
    BY <2>1 DEF InVersion, Object
  <2>3. f \in {"query", "additionalOperations"} => v >= 32
    BY <2>2 DEF PathItemFields
  <2>4. f \in {"parameters", "get", "trace", "query", "additionalOperations"}
    BY DEF PathItemFields
  <2>5. f \in {"parameters"} \cup Operations(v)
    BY <2>3, <2>4 DEF Operations
  <2> QED
    BY <2>1, <2>5
<1> QED
  BY <1>1, <1>2, <1>3

\* In 2.0 a header is the end of a place.
LEMMA HeadersEnd ==
    ASSUME NEW path, IsPlace(path), InGrammar(path, 20), NEW i \in 1..Len(path),
           path[i][1] = "Response", path[i][2] = "headers"
    PROVE  Kind(path) = "Header"
<1> DEFINE n == Len(path)
<1>1. n \in Nat /\ path[i] \in AllSteps
  BY PlaceIs
<1>2. Holds(path[i]) = "Header"
  BY <1>1, HoldsIs
<1>3. ASSUME i # n PROVE FALSE
  <2>1. i + 1 \in 2..n /\ i + 1 \in 1..n /\ (i + 1) - 1 = i
    BY <1>1, <1>3
  <2>2. path[i + 1] \in AllSteps /\ path[i + 1][1] \in Parts(Holds(path[i])) /\ InVersion(path[i + 1], 20)
    BY <2>1, PlaceIs DEF InGrammar
  <2> QED
    BY <1>2, <2>2, FieldsOf2 DEF Parts
<1> QED
  BY <1>2, <1>3 DEF Kind

\* A version is 2.0 or one of 3.x.
LEMMA VersionsAre == \A v \in Versions : v = 20 \/ v \in {30, 31, 32}
BY DEF Versions

\* The rename rewrites a reference to a schema wherever it may be, but for the gaps.
RenameGaps == In("Document", {"mediaTypes"}) \cup In("PathItem", {"additionalOperations"})
              \cup In("MediaType", {"encoding"}) \cup Item
LEMMA RenameReaches ==
    ASSUME NEW path, IsPlace(path), NEW v \in Versions, InGrammar(path, v), Section(Kind(path)) = "Schema",
           Steps(path) \cap RenameGaps = {}
    PROVE  Reaches(Renamed[v], path)
<1> SUFFICES ASSUME NEW i \in 1..Len(path) PROVE path[i] \in Renamed[v]
  BY PlaceIs DEF Reaches, Steps
<1> DEFINE s == path[i]
<1>1. s \in AllSteps /\ InVersion(s, v) /\ s \notin RenameGaps
  BY PlaceIs DEF InGrammar, Steps
<1>2. ~ (s[1] \in {"Document", "Operation"} /\ s[2] = "callbackRefs")
  BY LeavesEnd DEF Section
<1>3. s[1] # "Encoding"
  BY EncodingInside DEF EncodingsOf, RenameGaps, In, Item
<1>4. v = 20 /\ s[1] = "Response" => s[2] # "headers"
  BY HeadersEnd DEF Section
<1> HIDE DEF s
<1>5. CASE s[1] = "Document"
  <2>1. PICK f \in DOMAIN Sections : s = <<"Document", f>>
    BY <1>1, <1>5, StepIs
  <2>2. <<"Document", f>> \in Renamed[v]
    <3>1. CASE v = 20
      <4>1. f \in {"schemas", "parameters", "responses", "paths"}
        BY <1>1, <2>1, <3>1, FieldsOf2
      <4> QED
        BY <3>1, <4>1, <1>2 DEF Renamed, In, RenamesOAS2, RenamesSchema, EverySchema
    <3>2. CASE v \in {30, 31, 32}
      BY <1>1, <2>1, <3>2, <1>2 DEF Renamed, In, Sections, RenamesOAS3, RenamesSchema, EverySchema, RenameGaps
    <3> QED
      BY <3>1, <3>2, VersionsAre
  <2> QED
    BY <2>1, <2>2 DEF s
<1>6. CASE s[1] = "PathItem"
  <2>1. PICK f \in DOMAIN PathItemFields : s = <<"PathItem", f>>
    BY <1>1, <1>6, StepIs
  <2>2. <<"PathItem", f>> \in Renamed[v]
    <3>1. CASE v = 20
      <4>1. f \in {"parameters", "get"}
        BY <1>1, <2>1, <3>1, FieldsOf2
      <4> QED
        BY <3>1, <4>1 DEF Renamed, In, RenamesOAS2, RenamesSchema, EverySchema
    <3>2. CASE v \in {30, 31, 32}
      BY <1>1, <2>1, <3>2 DEF Renamed, In, PathItemFields, RenamesOAS3, RenamesSchema, EverySchema, RenameGaps, RenamesPathItem
    <3> QED
      BY <3>1, <3>2, VersionsAre
  <2> QED
    BY <2>1, <2>2 DEF s
<1>7. CASE s[1] = "Operation"
  <2>1. PICK f \in DOMAIN OperationFields : s = <<"Operation", f>>
    BY <1>1, <1>7, StepIs
  <2>2. <<"Operation", f>> \in Renamed[v]
    <3>1. CASE v = 20
      <4>1. f \in {"parameters", "body", "responses", "default"}
        BY <1>1, <2>1, <3>1, FieldsOf2
      <4> QED
        BY <3>1, <4>1, <1>2 DEF Renamed, In, RenamesOAS2, RenamesSchema, EverySchema
    <3>2. CASE v \in {30, 31, 32}
      <4>1. f # "body"
        BY <1>1, <2>1, <3>2, FieldsOf3
      <4> QED
        BY <1>1, <2>1, <3>2, <4>1, <1>2 DEF Renamed, In, OperationFields, RenamesOAS3, RenamesSchema, EverySchema, RenameGaps, RenamesOperation
    <3> QED
      BY <3>1, <3>2, VersionsAre
  <2> QED
    BY <2>1, <2>2 DEF s
<1>8. CASE s[1] = "Parameter"
  <2>1. PICK f \in DOMAIN ParameterFields : s = <<"Parameter", f>>
    BY <1>1, <1>8, StepIs
  <2>2. <<"Parameter", f>> \in Renamed[v]
    <3>1. CASE v = 20
      <4>1. f = "schema"
        BY <1>1, <2>1, <3>1, FieldsOf2
      <4> QED
        BY <3>1, <4>1 DEF Renamed, In, RenamesOAS2, RenamesSchema, EverySchema
    <3>2. CASE v \in {30, 31, 32}
      BY <1>1, <2>1, <3>2 DEF Renamed, In, ParameterFields, RenamesOAS3, RenamesSchema, EverySchema, RenameGaps
    <3> QED
      BY <3>1, <3>2, VersionsAre
  <2> QED
    BY <2>1, <2>2 DEF s
<1>9. CASE s[1] = "Header"
  <2>1. PICK f \in DOMAIN HeaderFields : s = <<"Header", f>>
    BY <1>1, <1>9, StepIs
  <2>2. <<"Header", f>> \in Renamed[v]
    <3>1. CASE v = 20
      BY <1>1, <1>9, <3>1, FieldsOf2
    <3>2. CASE v \in {30, 31, 32}
      BY <1>1, <2>1, <3>2 DEF Renamed, In, HeaderFields, RenamesOAS3, RenamesSchema, EverySchema, RenameGaps
    <3> QED
      BY <3>1, <3>2, VersionsAre
  <2> QED
    BY <2>1, <2>2 DEF s
<1>10. CASE s[1] = "RequestBody"
  <2>1. PICK f \in DOMAIN BodyFields : s = <<"RequestBody", f>>
    BY <1>1, <1>10, StepIs
  <2>2. <<"RequestBody", f>> \in Renamed[v]
    <3>1. CASE v = 20
      BY <1>1, <1>10, <3>1, FieldsOf2
    <3>2. CASE v \in {30, 31, 32}
      BY <1>1, <2>1, <3>2 DEF Renamed, In, BodyFields, RenamesOAS3, RenamesSchema, EverySchema, RenameGaps
    <3> QED
      BY <3>1, <3>2, VersionsAre
  <2> QED
    BY <2>1, <2>2 DEF s
<1>11. CASE s[1] = "Response"
  <2>1. PICK f \in DOMAIN ResponseFields : s = <<"Response", f>>
    BY <1>1, <1>11, StepIs
  <2>2. <<"Response", f>> \in Renamed[v]
    <3>1. CASE v = 20
      <4>1. f \in {"schema", "headers"}
        BY <1>1, <2>1, <3>1, FieldsOf2
      <4> QED
        BY <3>1, <4>1, <1>1, <1>4, <2>1 DEF Renamed, In, RenamesOAS2, RenamesSchema, EverySchema
    <3>2. CASE v \in {30, 31, 32}
      <4>1. f # "schema"
        BY <1>1, <2>1, <3>2, FieldsOf3
      <4> QED
        BY <1>1, <2>1, <3>2, <4>1, <1>1, <1>4, <2>1 DEF Renamed, In, ResponseFields, RenamesOAS3, RenamesSchema, EverySchema, RenameGaps
    <3> QED
      BY <3>1, <3>2, VersionsAre
  <2> QED
    BY <2>1, <2>2 DEF s
<1>12. CASE s[1] = "MediaType"
  <2>1. PICK f \in DOMAIN MediaTypeFields : s = <<"MediaType", f>>
    BY <1>1, <1>12, StepIs
  <2>2. <<"MediaType", f>> \in Renamed[v]
    <3>1. CASE v = 20
      BY <1>1, <1>12, <3>1, FieldsOf2
    <3>2. CASE v \in {30, 31, 32}
      BY <1>1, <2>1, <3>2 DEF Renamed, In, MediaTypeFields, RenamesOAS3, RenamesSchema, EverySchema, RenameGaps, Item
    <3> QED
      BY <3>1, <3>2, VersionsAre
  <2> QED
    BY <2>1, <2>2 DEF s
<1>13. CASE s[1] = "Schema"
  <2>1. PICK f \in DOMAIN SchemaFields : s = <<"Schema", f>>
    BY <1>1, <1>13, StepIs
  <2>2. <<"Schema", f>> \in Renamed[v]
    <3>1. CASE v = 20
      <4>1. f \in {"properties", "additionalProperties", "items", "allOf"}
        BY <1>1, <2>1, <3>1, FieldsOf2
      <4> QED
        BY <3>1, <4>1 DEF Renamed, In, RenamesOAS2, RenamesSchema, EverySchema
    <3>2. CASE v \in {30, 31, 32}
      BY <1>1, <2>1, <3>2 DEF Renamed, In, SchemaFields, RenamesOAS3, RenamesSchema, EverySchema, RenameGaps
    <3> QED
      BY <3>1, <3>2, VersionsAre
  <2> QED
    BY <2>1, <2>2 DEF s
<1>14. CASE s[1] = "Discriminator"
  <2>1. PICK f \in DOMAIN DiscriminatorFields : s = <<"Discriminator", f>>
    BY <1>1, <1>14, StepIs
  <2>2. <<"Discriminator", f>> \in Renamed[v]
    <3>1. CASE v = 20
      BY <1>1, <1>14, <3>1, FieldsOf2
    <3>2. CASE v \in {30, 31, 32}
      BY <1>1, <2>1, <3>2 DEF Renamed, In, DiscriminatorFields, RenamesOAS3, RenamesSchema, EverySchema, RenameGaps
    <3> QED
      BY <3>1, <3>2, VersionsAre
  <2> QED
    BY <2>1, <2>2 DEF s
<1> QED
  BY <1>1, <1>2, <1>3, <1>4, <1>5, <1>6, <1>7, <1>8, <1>9, <1>10, <1>11, <1>12, <1>13, <1>14, StepsAre DEF s

\* So does the joiner.
JoinGaps == In("PathItem", {"query", "additionalOperations"})
LEMMA RewriteReaches ==
    ASSUME NEW path, IsPlace(path), NEW v \in Versions, InGrammar(path, v), Section(Kind(path)) = "Schema",
           Steps(path) \cap JoinGaps = {}
    PROVE  Reaches(Rewritten[v], path)
<1> SUFFICES ASSUME NEW i \in 1..Len(path) PROVE path[i] \in Rewritten[v]
  BY PlaceIs DEF Reaches, Steps
<1> DEFINE s == path[i]
<1>1. s \in AllSteps /\ InVersion(s, v) /\ s \notin JoinGaps
  BY PlaceIs DEF InGrammar, Steps
<1>2. ~ (s[1] \in {"Document", "Operation"} /\ s[2] = "callbackRefs")
  BY LeavesEnd DEF Section
<1> HIDE DEF s
<1>3. CASE s[1] = "Document"
  <2>1. PICK f \in DOMAIN Sections : s = <<"Document", f>>
    BY <1>1, <1>3, StepIs
  <2>2. <<"Document", f>> \in Rewritten[v]
    <3>1. CASE v = 20
      <4>1. f \in {"schemas", "parameters", "responses", "paths"}
        BY <1>1, <2>1, <3>1, FieldsOf2
      <4> QED
        BY <3>1, <4>1, <1>2 DEF Rewritten, In, RewritesDocument, RewritesPathItem, RewritesOperation, RewritesParameter, RewritesResponse, RewritesMediaType, RewritesEncoding, RewritesSchema, EverySchema, JoinGaps
    <3>2. CASE v \in {30, 31, 32}
      BY <1>1, <2>1, <3>2, <1>2 DEF Rewritten, In, Sections, RewritesDocument, RewritesPathItem, RewritesOperation, RewritesParameter, RewritesResponse, RewritesMediaType, RewritesEncoding, RewritesSchema, EverySchema, JoinGaps
    <3> QED
      BY <3>1, <3>2, VersionsAre
  <2> QED
    BY <2>1, <2>2 DEF s
<1>4. CASE s[1] = "PathItem"
  <2>1. PICK f \in DOMAIN PathItemFields : s = <<"PathItem", f>>
    BY <1>1, <1>4, StepIs
  <2>2. <<"PathItem", f>> \in Rewritten[v]
    BY <1>1, <2>1 DEF Rewritten, In, PathItemFields, RewritesDocument, RewritesPathItem, RewritesOperation, RewritesParameter, RewritesResponse, RewritesMediaType, RewritesEncoding, RewritesSchema, EverySchema, JoinGaps
  <2> QED
    BY <2>1, <2>2 DEF s
<1>5. CASE s[1] = "Operation"
  <2>1. PICK f \in DOMAIN OperationFields : s = <<"Operation", f>>
    BY <1>1, <1>5, StepIs
  <2>2. <<"Operation", f>> \in Rewritten[v]
    BY <1>1, <2>1, <1>2 DEF Rewritten, In, OperationFields, RewritesDocument, RewritesPathItem, RewritesOperation, RewritesParameter, RewritesResponse, RewritesMediaType, RewritesEncoding, RewritesSchema, EverySchema, JoinGaps
  <2> QED
    BY <2>1, <2>2 DEF s
<1>6. CASE s[1] = "Parameter"
  <2>1. PICK f \in DOMAIN ParameterFields : s = <<"Parameter", f>>
    BY <1>1, <1>6, StepIs
  <2>2. <<"Parameter", f>> \in Rewritten[v]
    BY <1>1, <2>1 DEF Rewritten, In, ParameterFields, RewritesDocument, RewritesPathItem, RewritesOperation, RewritesParameter, RewritesResponse, RewritesMediaType, RewritesEncoding, RewritesSchema, EverySchema, JoinGaps
  <2> QED
    BY <2>1, <2>2 DEF s
<1>7. CASE s[1] = "Header"
  <2>1. PICK f \in DOMAIN HeaderFields : s = <<"Header", f>>
    BY <1>1, <1>7, StepIs
  <2>2. <<"Header", f>> \in Rewritten[v]
    BY <1>1, <2>1 DEF Rewritten, In, HeaderFields, RewritesDocument, RewritesPathItem, RewritesOperation, RewritesParameter, RewritesResponse, RewritesMediaType, RewritesEncoding, RewritesSchema, EverySchema, JoinGaps
  <2> QED
    BY <2>1, <2>2 DEF s
<1>8. CASE s[1] = "RequestBody"
  <2>1. PICK f \in DOMAIN BodyFields : s = <<"RequestBody", f>>
    BY <1>1, <1>8, StepIs
  <2>2. <<"RequestBody", f>> \in Rewritten[v]
    BY <1>1, <2>1 DEF Rewritten, In, BodyFields, RewritesDocument, RewritesPathItem, RewritesOperation, RewritesParameter, RewritesResponse, RewritesMediaType, RewritesEncoding, RewritesSchema, EverySchema, JoinGaps
  <2> QED
    BY <2>1, <2>2 DEF s
<1>9. CASE s[1] = "Response"
  <2>1. PICK f \in DOMAIN ResponseFields : s = <<"Response", f>>
    BY <1>1, <1>9, StepIs
  <2>2. <<"Response", f>> \in Rewritten[v]
    BY <1>1, <2>1 DEF Rewritten, In, ResponseFields, RewritesDocument, RewritesPathItem, RewritesOperation, RewritesParameter, RewritesResponse, RewritesMediaType, RewritesEncoding, RewritesSchema, EverySchema, JoinGaps
  <2> QED
    BY <2>1, <2>2 DEF s
<1>10. CASE s[1] = "MediaType"
  <2>1. PICK f \in DOMAIN MediaTypeFields : s = <<"MediaType", f>>
    BY <1>1, <1>10, StepIs
  <2>2. <<"MediaType", f>> \in Rewritten[v]
    BY <1>1, <2>1 DEF Rewritten, In, MediaTypeFields, RewritesDocument, RewritesPathItem, RewritesOperation, RewritesParameter, RewritesResponse, RewritesMediaType, RewritesEncoding, RewritesSchema, EverySchema, JoinGaps
  <2> QED
    BY <2>1, <2>2 DEF s
<1>11. CASE s[1] = "Encoding"
  <2>1. PICK f \in DOMAIN EncodingFields : s = <<"Encoding", f>>
    BY <1>1, <1>11, StepIs
  <2>2. <<"Encoding", f>> \in Rewritten[v]
    BY <1>1, <2>1 DEF Rewritten, In, EncodingFields, RewritesDocument, RewritesPathItem, RewritesOperation, RewritesParameter, RewritesResponse, RewritesMediaType, RewritesEncoding, RewritesSchema, EverySchema, JoinGaps
  <2> QED
    BY <2>1, <2>2 DEF s
<1>12. CASE s[1] = "Schema"
  <2>1. PICK f \in DOMAIN SchemaFields : s = <<"Schema", f>>
    BY <1>1, <1>12, StepIs
  <2>2. <<"Schema", f>> \in Rewritten[v]
    BY <1>1, <2>1 DEF Rewritten, In, SchemaFields, RewritesDocument, RewritesPathItem, RewritesOperation, RewritesParameter, RewritesResponse, RewritesMediaType, RewritesEncoding, RewritesSchema, EverySchema, JoinGaps
  <2> QED
    BY <2>1, <2>2 DEF s
<1>13. CASE s[1] = "Discriminator"
  <2>1. PICK f \in DOMAIN DiscriminatorFields : s = <<"Discriminator", f>>
    BY <1>1, <1>13, StepIs
  <2>2. <<"Discriminator", f>> \in Rewritten[v]
    BY <1>1, <2>1 DEF Rewritten, In, DiscriminatorFields, RewritesDocument, RewritesPathItem, RewritesOperation, RewritesParameter, RewritesResponse, RewritesMediaType, RewritesEncoding, RewritesSchema, EverySchema, JoinGaps
  <2> QED
    BY <2>1, <2>2 DEF s
<1> QED
  BY <1>1, <1>2, <1>3, <1>4, <1>5, <1>6, <1>7, <1>8, <1>9, <1>10, <1>11, <1>12, <1>13, StepsAre DEF s

\* So does the collector of references.
CollectGaps == In("Document", {"mediaTypes"}) \cup Item \cup Nested
LEMMA CollectReaches ==
    ASSUME NEW path, IsPlace(path), NEW v \in Versions, InGrammar(path, v),
           Steps(path) \cap CollectGaps = {}
    PROVE  Reaches(Collected[v], path)
<1> SUFFICES ASSUME NEW i \in 1..Len(path) PROVE path[i] \in Collected[v]
  BY PlaceIs DEF Reaches, Steps
<1> DEFINE s == path[i]
<1>1. s \in AllSteps /\ InVersion(s, v) /\ s \notin CollectGaps
  BY PlaceIs DEF InGrammar, Steps
<1> HIDE DEF s
<1>2. CASE s[1] = "Document"
  <2>1. PICK f \in DOMAIN Sections : s = <<"Document", f>>
    BY <1>1, <1>2, StepIs
  <2>2. <<"Document", f>> \in Collected[v]
    <3>1. CASE v = 20
      <4>1. f \in {"schemas", "parameters", "responses", "paths"}
        BY <1>1, <2>1, <3>1, FieldsOf2
      <4> QED
        BY <3>1, <4>1 DEF Collected, In, CollectsDocument
    <3>2. CASE v \in {30, 31, 32}
      BY <1>1, <2>1, <3>2 DEF Collected, In, Sections, CollectsDocument, CollectGaps
    <3> QED
      BY <3>1, <3>2, VersionsAre
  <2> QED
    BY <2>1, <2>2 DEF s
<1>3. CASE s[1] = "PathItem"
  <2>1. PICK f \in DOMAIN PathItemFields : s = <<"PathItem", f>>
    BY <1>1, <1>3, StepIs
  <2>2. <<"PathItem", f>> \in Collected[v]
    <3>1. CASE v = 20
      <4>1. f \in {"parameters", "get"}
        BY <1>1, <2>1, <3>1, FieldsOf2
      <4> QED
        BY <3>1, <4>1 DEF Collected, In, CollectsPathItem, Operations
    <3>2. CASE v \in {30, 31, 32}
      <4>1. f \in {"parameters"} \cup Operations(v)
        BY <1>1, <2>1, <3>2, FieldsOf3
      <4> QED
        BY <1>1, <2>1, <3>2, <4>1 DEF Collected, In, PathItemFields, CollectsPathItem
    <3> QED
      BY <3>1, <3>2, VersionsAre
  <2> QED
    BY <2>1, <2>2 DEF s
<1>4. CASE s[1] = "Operation"
  <2>1. PICK f \in DOMAIN OperationFields : s = <<"Operation", f>>
    BY <1>1, <1>4, StepIs
  <2>2. <<"Operation", f>> \in Collected[v]
    BY <1>1, <2>1 DEF Collected, In, OperationFields, CollectsOperation, CollectsResponse, CollectsParamOrHeader, CollectsMediaType, CollectsSchema, CollectGaps, Item, Nested
  <2> QED
    BY <2>1, <2>2 DEF s
<1>5. CASE s[1] = "Parameter"
  <2>1. PICK f \in DOMAIN ParameterFields : s = <<"Parameter", f>>
    BY <1>1, <1>5, StepIs
  <2>2. <<"Parameter", f>> \in Collected[v]
    BY <1>1, <2>1 DEF Collected, In, ParameterFields, CollectsOperation, CollectsResponse, CollectsParamOrHeader, CollectsMediaType, CollectsSchema, CollectGaps, Item, Nested
  <2> QED
    BY <2>1, <2>2 DEF s
<1>6. CASE s[1] = "Header"
  <2>1. PICK f \in DOMAIN HeaderFields : s = <<"Header", f>>
    BY <1>1, <1>6, StepIs
  <2>2. <<"Header", f>> \in Collected[v]
    BY <1>1, <2>1 DEF Collected, In, HeaderFields, CollectsOperation, CollectsResponse, CollectsParamOrHeader, CollectsMediaType, CollectsSchema, CollectGaps, Item, Nested
  <2> QED
    BY <2>1, <2>2 DEF s
<1>7. CASE s[1] = "RequestBody"
  <2>1. PICK f \in DOMAIN BodyFields : s = <<"RequestBody", f>>
    BY <1>1, <1>7, StepIs
  <2>2. <<"RequestBody", f>> \in Collected[v]
    BY <1>1, <2>1 DEF Collected, In, BodyFields, CollectsOperation, CollectsResponse, CollectsParamOrHeader, CollectsMediaType, CollectsSchema, CollectGaps, Item, Nested
  <2> QED
    BY <2>1, <2>2 DEF s
<1>8. CASE s[1] = "Response"
  <2>1. PICK f \in DOMAIN ResponseFields : s = <<"Response", f>>
    BY <1>1, <1>8, StepIs
  <2>2. <<"Response", f>> \in Collected[v]
    BY <1>1, <2>1 DEF Collected, In, ResponseFields, CollectsOperation, CollectsResponse, CollectsParamOrHeader, CollectsMediaType, CollectsSchema, CollectGaps, Item, Nested
  <2> QED
    BY <2>1, <2>2 DEF s
<1>9. CASE s[1] = "MediaType"
  <2>1. PICK f \in DOMAIN MediaTypeFields : s = <<"MediaType", f>>
    BY <1>1, <1>9, StepIs
  <2>2. <<"MediaType", f>> \in Collected[v]
    BY <1>1, <2>1 DEF Collected, In, MediaTypeFields, CollectsOperation, CollectsResponse, CollectsParamOrHeader, CollectsMediaType, CollectsSchema, CollectGaps, Item, Nested
  <2> QED
    BY <2>1, <2>2 DEF s
<1>10. CASE s[1] = "Encoding"
  <2>1. PICK f \in DOMAIN EncodingFields : s = <<"Encoding", f>>
    BY <1>1, <1>10, StepIs
  <2>2. <<"Encoding", f>> \in Collected[v]
    BY <1>1, <2>1 DEF Collected, In, EncodingFields, CollectsOperation, CollectsResponse, CollectsParamOrHeader, CollectsMediaType, CollectsSchema, CollectGaps, Item, Nested
  <2> QED
    BY <2>1, <2>2 DEF s
<1>11. CASE s[1] = "Schema"
  <2>1. PICK f \in DOMAIN SchemaFields : s = <<"Schema", f>>
    BY <1>1, <1>11, StepIs
  <2>2. <<"Schema", f>> \in Collected[v]
    BY <1>1, <2>1 DEF Collected, In, SchemaFields, CollectsOperation, CollectsResponse, CollectsParamOrHeader, CollectsMediaType, CollectsSchema, CollectGaps, Item, Nested
  <2> QED
    BY <2>1, <2>2 DEF s
<1>12. CASE s[1] = "Discriminator"
  <2>1. PICK f \in DOMAIN DiscriminatorFields : s = <<"Discriminator", f>>
    BY <1>1, <1>12, StepIs
  <2>2. <<"Discriminator", f>> \in Collected[v]
    BY <1>1, <2>1 DEF Collected, In, DiscriminatorFields, CollectsOperation, CollectsResponse, CollectsParamOrHeader, CollectsMediaType, CollectsSchema, CollectGaps, Item, Nested
  <2> QED
    BY <2>1, <2>2 DEF s
<1> QED
  BY <1>1, <1>2, <1>3, <1>4, <1>5, <1>6, <1>7, <1>8, <1>9, <1>10, <1>11, <1>12, StepsAre DEF s

\* The search that starts from a schema that is kept visits all of the pool.
LEMMA PoolFollowed ==
    ASSUME NEW path, IsPlace(path), path[1] = <<"Document", "schemas">>
    PROVE  Steps(path) \subseteq {<<"Document", "schemas">>} \cup Followed
<1> SUFFICES ASSUME NEW i \in 1..Len(path), path[i] # <<"Document", "schemas">> PROVE path[i] \in Followed
  BY PlaceIs DEF Steps
<1> DEFINE s == path[i]
<1>1. s \in AllSteps /\ s[1] \in {"Schema", "Discriminator"}
  BY PlaceIs, PoolPlace
<1> HIDE DEF s
<1>2. CASE s[1] = "Schema"
  <2>1. PICK f \in DOMAIN SchemaFields : s = <<"Schema", f>>
    BY <1>1, <1>2, StepIs
  <2>2. <<"Schema", f>> \in Followed
    BY DEF SchemaFields, Followed, In
  <2> QED
    BY <2>1, <2>2 DEF s
<1>3. CASE s[1] = "Discriminator"
  <2>1. PICK f \in DOMAIN DiscriminatorFields : s = <<"Discriminator", f>>
    BY <1>1, <1>3, StepIs
  <2>2. <<"Discriminator", f>> \in Followed
    BY DEF DiscriminatorFields, Followed, In
  <2> QED
    BY <2>1, <2>2 DEF s
<1> QED
  BY <1>1, <1>2, <1>3 DEF s

\* And the validator checks every reference but those in its gaps.
ValidateGaps == In("Parameter", {"content"}) \cup In("Header", {"content"}) \cup In("Operation", {"callbacks"})
                \cup In("Document", {"callbacks", "pathItems", "mediaTypes"}) \cup In("MediaType", {"encoding"}) \cup Item
LEMMA CheckReaches ==
    ASSUME NEW path, IsPlace(path), NEW v \in Versions, InGrammar(path, v), Kind(path) # "Target",
           Steps(path) \cap ValidateGaps = {}
    PROVE  Reaches(Checks[v], path)
<1> SUFFICES ASSUME NEW i \in 1..Len(path) PROVE path[i] \in Checks[v]
  BY PlaceIs DEF Reaches, Steps
<1> DEFINE s == path[i]
<1>1. s \in AllSteps /\ InVersion(s, v) /\ s \notin ValidateGaps
  BY PlaceIs DEF InGrammar, Steps
<1>2. s[1] # "Discriminator"
  BY LeavesEnd
<1>3. s[1] # "Encoding"
  BY EncodingInside DEF EncodingsOf, ValidateGaps, In, Item
<1> HIDE DEF s
<1>4. CASE s[1] = "Document"
  <2>1. PICK f \in DOMAIN Sections : s = <<"Document", f>>
    BY <1>1, <1>4, StepIs
  <2>2. <<"Document", f>> \in Checks[v]
    <3>1. CASE v = 20
      <4>1. f \in {"schemas", "parameters", "responses", "paths"}
        BY <1>1, <2>1, <3>1, FieldsOf2
      <4> QED
        BY <3>1, <4>1 DEF Checks, In, ChecksOAS2
    <3>2. CASE v \in {30, 31, 32}
      BY <1>1, <2>1, <3>2 DEF Checks, In, Sections, ChecksOAS3, ValidateGaps
    <3> QED
      BY <3>1, <3>2, VersionsAre
  <2> QED
    BY <2>1, <2>2 DEF s
<1>5. CASE s[1] = "PathItem"
  <2>1. PICK f \in DOMAIN PathItemFields : s = <<"PathItem", f>>
    BY <1>1, <1>5, StepIs
  <2>2. <<"PathItem", f>> \in Checks[v]
    <3>1. CASE v = 20
      <4>1. f \in {"parameters", "get"}
        BY <1>1, <2>1, <3>1, FieldsOf2
      <4> QED
        BY <3>1, <4>1 DEF Checks, In, ChecksOAS2
    <3>2. CASE v \in {30, 31, 32}
      <4>1. f \in {"parameters"} \cup Operations(v)
        BY <1>1, <2>1, <3>2, FieldsOf3
      <4> QED
        BY <1>1, <2>1, <3>2, <4>1 DEF Checks, In, PathItemFields, ChecksOAS3
    <3> QED
      BY <3>1, <3>2, VersionsAre
  <2> QED
    BY <2>1, <2>2 DEF s
<1>6. CASE s[1] = "Operation"
  <2>1. PICK f \in DOMAIN OperationFields : s = <<"Operation", f>>
    BY <1>1, <1>6, StepIs
  <2>2. <<"Operation", f>> \in Checks[v]
    <3>1. CASE v = 20
      <4>1. f \in {"parameters", "body", "responses", "default"}
        BY <1>1, <2>1, <3>1, FieldsOf2
      <4> QED
        BY <3>1, <4>1 DEF Checks, In, ChecksOAS2
    <3>2. CASE v \in {30, 31, 32}
      <4>1. f # "body"
        BY <1>1, <2>1, <3>2, FieldsOf3
      <4> QED
        BY <1>1, <2>1, <3>2, <4>1 DEF Checks, In, OperationFields, ChecksOAS3, ValidateGaps
    <3> QED
      BY <3>1, <3>2, VersionsAre
  <2> QED
    BY <2>1, <2>2 DEF s
<1>7. CASE s[1] = "Parameter"
  <2>1. PICK f \in DOMAIN ParameterFields : s = <<"Parameter", f>>
    BY <1>1, <1>7, StepIs
  <2>2. <<"Parameter", f>> \in Checks[v]
    BY <1>1, <2>1 DEF Checks, In, ParameterFields, ChecksParameter, ChecksResponse, ChecksRequestBody, ChecksSchema, ValidateGaps, Item
  <2> QED
    BY <2>1, <2>2 DEF s
<1>8. CASE s[1] = "Header"
  <2>1. PICK f \in DOMAIN HeaderFields : s = <<"Header", f>>
    BY <1>1, <1>8, StepIs
  <2>2. <<"Header", f>> \in Checks[v]
    BY <1>1, <2>1 DEF Checks, In, HeaderFields, ChecksParameter, ChecksResponse, ChecksRequestBody, ChecksSchema, ValidateGaps, Item
  <2> QED
    BY <2>1, <2>2 DEF s
<1>9. CASE s[1] = "RequestBody"
  <2>1. PICK f \in DOMAIN BodyFields : s = <<"RequestBody", f>>
    BY <1>1, <1>9, StepIs
  <2>2. <<"RequestBody", f>> \in Checks[v]
    BY <1>1, <2>1 DEF Checks, In, BodyFields, ChecksParameter, ChecksResponse, ChecksRequestBody, ChecksSchema, ValidateGaps, Item
  <2> QED
    BY <2>1, <2>2 DEF s
<1>10. CASE s[1] = "Response"
  <2>1. PICK f \in DOMAIN ResponseFields : s = <<"Response", f>>
    BY <1>1, <1>10, StepIs
  <2>2. <<"Response", f>> \in Checks[v]
    BY <1>1, <2>1 DEF Checks, In, ResponseFields, ChecksParameter, ChecksResponse, ChecksRequestBody, ChecksSchema, ValidateGaps, Item
  <2> QED
    BY <2>1, <2>2 DEF s
<1>11. CASE s[1] = "MediaType"
  <2>1. PICK f \in DOMAIN MediaTypeFields : s = <<"MediaType", f>>
    BY <1>1, <1>11, StepIs
  <2>2. <<"MediaType", f>> \in Checks[v]
    BY <1>1, <2>1 DEF Checks, In, MediaTypeFields, ChecksParameter, ChecksResponse, ChecksRequestBody, ChecksSchema, ValidateGaps, Item
  <2> QED
    BY <2>1, <2>2 DEF s
<1>12. CASE s[1] = "Schema"
  <2>1. PICK f \in DOMAIN SchemaFields : s = <<"Schema", f>>
    BY <1>1, <1>12, StepIs
  <2>2. <<"Schema", f>> \in Checks[v]
    BY <1>1, <2>1 DEF Checks, In, SchemaFields, ChecksParameter, ChecksResponse, ChecksRequestBody, ChecksSchema, ValidateGaps, Item
  <2> QED
    BY <2>1, <2>2 DEF s
<1> QED
  BY <1>1, <1>2, <1>3, <1>4, <1>5, <1>6, <1>7, <1>8, <1>9, <1>10, <1>11, <1>12, StepsAre DEF s

-----------------------------------------------------------------------------
(* The place of a reference after a conversion. *)

\* A place that goes on with a step into the object it ends with.
LEMMA PlaceGrows ==
    ASSUME NEW path, IsPlace(path), NEW s \in AllSteps, s[1] \in Parts(Kind(path))
    PROVE  IsPlace(path \o <<s>>) /\ (path \o <<s>>)[1] = path[1] /\ Kind(path \o <<s>>) = Holds(s)
<1> DEFINE n == Len(path)
           longer == path \o <<s>>
<1>1. path \in Seq(AllSteps) /\ n \in Nat /\ n >= 1
  BY PlaceIs DEF IsPlace
<1>2. longer \in Seq(AllSteps) /\ Len(longer) = n + 1
  BY <1>1
<1>3. longer[n + 1] = s /\ \A i \in 1..n : longer[i] = path[i]
  BY <1>1
<1> HIDE DEF longer
<1>4. longer[1] = path[1] /\ longer # <<>>
  BY <1>1, <1>2, <1>3, EmptySeq
<1>5. ASSUME NEW i \in 2..Len(longer) PROVE longer[i][1] \in Parts(Holds(longer[i - 1]))
  <2>1. CASE i = n + 1
    <3>1. i - 1 \in 1..n /\ longer[i - 1] = path[n] /\ longer[i] = s
      BY <1>1, <1>3, <2>1
    <3> QED
      BY <3>1 DEF Kind
  <2>2. CASE i # n + 1
    <3>1. i \in 2..n /\ i \in 1..n /\ i - 1 \in 1..n
      BY <1>1, <1>2, <2>2
    <3> QED
      BY <1>3, <3>1, PlaceIs
  <2> QED
    BY <2>1, <2>2
<1>6. longer[1][1] = "Document"
  BY <1>4, PlaceIs
<1>7. IsPlace(longer)
  BY <1>2, <1>4, <1>5, <1>6 DEF IsPlace
<1>8. Kind(longer) = Holds(s)
  BY <1>2, <1>3 DEF Kind
<1> QED
  BY <1>4, <1>7, <1>8 DEF longer

\* Two elements added one by one are added together.
LEMMA TwoMore ==
    ASSUME NEW S, NEW a \in S, NEW b \in S, NEW p \in Seq(S)
    PROVE  (p \o <<a>>) \o <<b>> = p \o <<a, b>>
<1> DEFINE x == <<a>>
           y == <<b>>
           l == x \o y
           r == <<a, b>>
<1>1. x \in Seq(S) /\ y \in Seq(S)
  OBVIOUS
<1>2. l \in Seq(S) /\ Len(l) = 2 /\ l[1] = a /\ l[2] = b
  OBVIOUS
<1>3. r \in Seq(S) /\ Len(r) = 2 /\ r[1] = a /\ r[2] = b
  OBVIOUS
<1> HIDE DEF l, r
<1>4. \A i \in 1..Len(l) : l[i] = r[i]
  <2> TAKE i \in 1..Len(l)
  <2>1. i = 1 \/ i = 2
    BY <1>2
  <2> QED
    BY <1>2, <1>3, <2>1
<1>5. l = r
  BY <1>2, <1>3, <1>4, SeqEqual
<1> HIDE DEF x, y
<1>6. (p \o x) \o y = p \o (x \o y)
  BY <1>1, ConcatAssociative
<1> QED
  BY <1>5, <1>6 DEF l, r, x, y

\* What a conversion makes of the steps of a place, and of the kind of object there
\* is after each: nothing, a step or two steps that fit what was there before.
Stays(pieces, kinds, i) == pieces[i] = <<>> /\ kinds[i] = kinds[i - 1]
OneStep(pieces, kinds, i) ==
    \E a \in AllSteps : pieces[i] = <<a>> /\ a[1] \in Parts(kinds[i - 1]) /\ Holds(a) = kinds[i]
TwoSteps(pieces, kinds, i) ==
    \E a, b \in AllSteps : /\ pieces[i] = <<a, b>> /\ a[1] \in Parts(kinds[i - 1])
                           /\ b[1] \in Parts(Holds(a)) /\ Holds(b) = kinds[i]
Converts(path, pieces, kinds) ==
    /\ pieces[1] = <<path[1]>> /\ kinds[1] = Holds(path[1])
    /\ \A i \in 2..Len(path) : Stays(pieces, kinds, i) \/ OneStep(pieces, kinds, i) \/ TwoSteps(pieces, kinds, i)

\* Put together they are a place.
PutTogether(upTo, n, pieces) == upTo = [i \in 0..n |-> IF i = 0 THEN <<>> ELSE upTo[i - 1] \o pieces[i]]
LEMMA ConvertedPlace ==
    ASSUME NEW path, IsPlace(path), NEW pieces, NEW kinds, Converts(path, pieces, kinds),
           NEW upTo, PutTogether(upTo, Len(path), pieces)
    PROVE  IsPlace(upTo[Len(path)]) /\ upTo[Len(path)][1] = path[1] /\ Kind(upTo[Len(path)]) = kinds[Len(path)]
<1> DEFINE n == Len(path)
           Good(i) == IsPlace(upTo[i]) /\ upTo[i][1] = path[1] /\ Kind(upTo[i]) = kinds[i]
           T == {i \in Nat : i + 1 <= n => Good(i + 1)}
<1>1. n \in Nat /\ n >= 1
  BY PlaceIs
<1>2. upTo[0] = <<>> /\ \A i \in 1..n : upTo[i] = upTo[i - 1] \o pieces[i]
  <2>1. \A i \in 0..n : upTo[i] = IF i = 0 THEN <<>> ELSE upTo[i - 1] \o pieces[i]
    BY DEF PutTogether
  <2>2. \A i \in 1..n : i \in 0..n /\ i # 0
    BY <1>1
  <2>3. 0 \in 0..n
    BY <1>1
  <2> QED
    BY <2>1, <2>2, <2>3
<1>3. Good(1)
  <2> DEFINE s == path[1]
             p == <<s>>
  <2>1. s \in AllSteps /\ s[1] = "Document"
    BY <1>1, PlaceIs
  <2>2. upTo[1] = p
    <3>1. 1 \in 1..n /\ 1 - 1 = 0
      BY <1>1
    <3>2. pieces[1] = <<s>>
      BY DEF Converts
    <3> HIDE DEF s
    <3>3. upTo[1] = <<>> \o <<s>>
      BY <1>2, <3>1, <3>2
    <3> QED
      BY <3>3
  <2> HIDE DEF s
  <2>3. p \in Seq(AllSteps) /\ p # <<>> /\ Len(p) = 1 /\ p[1] = s
    BY <2>1
  <2>4. IsPlace(p) /\ Kind(p) = Holds(s)
    BY <2>1, <2>3 DEF IsPlace, Kind
  <2> QED
    BY <2>2, <2>3, <2>4 DEF Converts, s
<1> HIDE DEF Good
<1>4. ASSUME NEW i \in 2..n, Good(i - 1) PROVE Good(i)
  <2> DEFINE p == upTo[i - 1]
  <2>1. IsPlace(p) /\ p[1] = path[1] /\ Kind(p) = kinds[i - 1] /\ upTo[i] = p \o pieces[i]
    <3>1. i \in 1..n
      BY <1>1
    <3>2. upTo[i] = upTo[i - 1] \o pieces[i]
      BY <1>2, <3>1
    <3> QED
      BY <1>4, <3>2 DEF Good
  <2>2. p \in Seq(AllSteps)
    BY <2>1 DEF IsPlace
  <2> HIDE DEF p
  <2>3. CASE Stays(pieces, kinds, i)
    <3>1. upTo[i] = p
      BY <2>1, <2>2, <2>3 DEF Stays
    <3> QED
      BY <2>1, <2>3, <3>1 DEF Good, Stays
  <2>4. CASE OneStep(pieces, kinds, i)
    <3>1. PICK a \in AllSteps : pieces[i] = <<a>> /\ a[1] \in Parts(kinds[i - 1]) /\ Holds(a) = kinds[i]
      BY <2>4 DEF OneStep
    <3>2. IsPlace(p \o <<a>>) /\ (p \o <<a>>)[1] = p[1] /\ Kind(p \o <<a>>) = Holds(a)
      BY <2>1, <3>1, PlaceGrows
    <3> QED
      BY <2>1, <3>1, <3>2 DEF Good
  <2>5. CASE TwoSteps(pieces, kinds, i)
    <3>1. PICK a, b \in AllSteps : /\ pieces[i] = <<a, b>> /\ a[1] \in Parts(kinds[i - 1])
                                   /\ b[1] \in Parts(Holds(a)) /\ Holds(b) = kinds[i]
      BY <2>5 DEF TwoSteps
    <3> DEFINE q == p \o <<a>>
    <3>2. IsPlace(q) /\ q[1] = p[1] /\ Kind(q) = Holds(a)
      BY <2>1, <3>1, PlaceGrows
    <3>3. q \o <<b>> = p \o <<a, b>>
      BY <2>2, TwoMore
    <3> HIDE DEF q
    <3>4. IsPlace(q \o <<b>>) /\ (q \o <<b>>)[1] = q[1] /\ Kind(q \o <<b>>) = Holds(b)
      BY <3>1, <3>2, PlaceGrows
    <3>5. upTo[i] = q \o <<b>>
      BY <2>1, <3>1, <3>3
    <3> QED
      BY <2>1, <3>1, <3>2, <3>4, <3>5 DEF Good
  <2> QED
    BY <2>3, <2>4, <2>5 DEF Converts
<1>5. 0 \in T
  BY <1>3
<1>6. ASSUME NEW i \in T PROVE i + 1 \in T
  <2> SUFFICES ASSUME i + 2 <= n PROVE Good(i + 2)
    OBVIOUS
  <2>1. i \in Nat /\ i + 1 <= n /\ i + 2 \in 2..n /\ (i + 2) - 1 = i + 1
    BY <1>1
  <2>2. Good(i + 1)
    BY <2>1
  <2> QED
    BY <1>4, <2>1, <2>2
<1>7. T \in SUBSET Nat
  OBVIOUS
<1> HIDE DEF T
<1>8. T = Nat
  BY <1>5, <1>6, <1>7, Induct
<1>9. n - 1 \in T /\ (n - 1) + 1 = n
  BY <1>1, <1>8
<1>10. Good(n)
  BY <1>1, <1>9 DEF T
<1> QED
  BY <1>10 DEF Good

\* The parts can be put together.
LEMMA PutsTogether ==
    ASSUME NEW path, IsPlace(path), NEW pieces, NEW kinds, Converts(path, pieces, kinds)
    PROVE  \E f : PutTogether(f, Len(path), pieces)
<1> DEFINE n == Len(path)
           X == Seq(AllSteps)
           none == <<>>
           F == [p \in (1..n) \X X |-> p[2] \o pieces[p[1]]]
<1>1. n \in Nat /\ n >= 1
  BY PlaceIs
<1>2. ASSUME NEW i \in 1..n PROVE pieces[i] \in X
  <2>1. CASE i = 1
    <3>1. path[1] \in AllSteps
      BY <1>1, PlaceIs
    <3>2. pieces[1] = <<path[1]>>
      BY DEF Converts
    <3> QED
      BY <2>1, <3>1, <3>2
  <2>2. CASE i # 1
    <3>1. i \in 2..n
      BY <1>1, <2>2
    <3>2. CASE Stays(pieces, kinds, i)
      BY <3>2 DEF Stays
    <3>3. CASE OneStep(pieces, kinds, i)
      BY <3>3 DEF OneStep
    <3>4. CASE TwoSteps(pieces, kinds, i)
      BY <3>4 DEF TwoSteps
    <3> QED
      BY <3>1, <3>2, <3>3, <3>4 DEF Converts
  <2> QED
    BY <2>1, <2>2
<1>3. \A i \in 1..n : \A x \in X : F[<<i, x>>] = x \o pieces[i]
  OBVIOUS
<1>4. none \in X
  OBVIOUS
<1> HIDE DEF F
<1>5. ASSUME NEW i \in 1..n, NEW x \in X PROVE F[<<i, x>>] \in X
  <2>1. x \o pieces[i] \in X
    BY <1>2
  <2> HIDE DEF X
  <2> QED
    BY <1>3, <2>1
<1> HIDE DEF n, X, none
<1>6. PICK f \in [0..n -> X] : RecursiveTo(f, n, none, F)
  <2>1. KeepsIn(F, n, X)
    BY <1>5 DEF KeepsIn
  <2> QED
    BY <1>1, <1>4, <2>1, RecursionTo
<1>7. ASSUME NEW i \in 0..n PROVE f[i] = IF i = 0 THEN none ELSE f[i - 1] \o pieces[i]
  <2>1. CASE i = 0
    BY <1>6, <2>1 DEF RecursiveTo
  <2>2. CASE i # 0
    <3>1. i \in 1..n /\ i - 1 \in 0..n
      BY <1>1, <2>2
    <3>2. f[i] = F[<<i, f[i - 1]>>]
      BY <1>6, <3>1 DEF RecursiveTo
    <3>3. f[i - 1] \in X
      BY <1>6, <3>1
    <3> QED
      BY <1>3, <2>2, <3>1, <3>2, <3>3
  <2> QED
    BY <2>1, <2>2
<1>8. f = [i \in 0..n |-> IF i = 0 THEN none ELSE f[i - 1] \o pieces[i]]
  <2>1. f = [i \in 0..n |-> f[i]]
    BY <1>6
  <2> QED
    BY <1>7, <2>1
<1> QED
  BY <1>8 DEF PutTogether, n, none

\* A place that Promotes covers becomes one of 3.x, with the same beginning and, but
\* for a body, the same kind of object at its end.
LEMMA PromotedIs ==
    ASSUME NEW path, IsPlace(path), Reaches(Promotes, path)
    PROVE  /\ IsPlace(PromotedPlace(path)) /\ PromotedPlace(path)[1] = path[1]
           /\ Kind(path) = "Target" => Kind(PromotedPlace(path)) = "Target"
<1> DEFINE n == Len(path)
           body == <<"Operation", "body">>
           pieces == [i \in 1..n |-> PromotedStep(path, i)]
           kinds == [i \in 1..n |-> IF path[i] = body THEN "RequestBody" ELSE Holds(path[i])]
           upTo[i \in 0..Len(path)] == IF i = 0 THEN <<>> ELSE upTo[i - 1] \o PromotedStep(path, i)
<1>1. n \in Nat /\ n >= 1 /\ \A i \in 1..n : path[i] \in AllSteps /\ path[i] \in Promotes
  BY PlaceIs DEF Reaches, Steps
<1>2. \A i \in 1..n : pieces[i] = PromotedStep(path, i) /\ kinds[i] = IF path[i] = body THEN "RequestBody" ELSE Holds(path[i])
  OBVIOUS
<1>3. PromotedPlace(path) = upTo[n]
  BY DEF PromotedPlace
<1>4. \A f : PutTogether(f, n, pieces) => f = [i \in 0..n |-> IF i = 0 THEN <<>> ELSE f[i - 1] \o PromotedStep(path, i)]
  <2> SUFFICES ASSUME NEW f, PutTogether(f, n, pieces)
               PROVE  f = [i \in 0..n |-> IF i = 0 THEN <<>> ELSE f[i - 1] \o PromotedStep(path, i)]
    OBVIOUS
  <2>1. \A i \in 0..n : i # 0 => pieces[i] = PromotedStep(path, i)
    BY <1>1, <1>2
  <2> HIDE DEF pieces
  <2> QED
    BY <2>1 DEF PutTogether
<1>5. Converts(path, pieces, kinds)
  <2>1. 1 \in 1..n /\ path[1][1] = "Document"
    BY <1>1, PlaceIs
  <2>2. pieces[1] = <<path[1]>> /\ kinds[1] = Holds(path[1])
    <3>1. path[1] # <<"Response", "schema">> /\ path[1] # body
      BY <2>1
    <3> QED
      BY <1>2, <2>1, <3>1 DEF PromotedStep
  <2>3. ASSUME NEW i \in 2..n PROVE Stays(pieces, kinds, i) \/ OneStep(pieces, kinds, i) \/ TwoSteps(pieces, kinds, i)
    <3> DEFINE s == path[i]
               p == path[i - 1]
    <3>1. i \in 1..n /\ i - 1 \in 1..n /\ i > 1
      BY <1>1
    <3>2. s \in AllSteps /\ s \in Promotes /\ p \in AllSteps /\ p \in Promotes /\ s[1] \in Parts(Holds(p))
      BY <1>1, <3>1, PlaceIs
    <3>3. /\ pieces[i] = PromotedStep(path, i) /\ kinds[i] = IF s = body THEN "RequestBody" ELSE Holds(s)
          /\ kinds[i - 1] = IF p = body THEN "RequestBody" ELSE Holds(p)
      BY <1>2, <3>1
    <3> HIDE DEF s, p, pieces, kinds
    <3>4. CASE s = <<"Response", "schema">>
      <4> DEFINE a == <<"Response", "content">>
                 b == <<"MediaType", "schema">>
      <4>1. pieces[i] = <<a, b>>
        BY <3>3, <3>4 DEF PromotedStep, s
      <4>2. a \in AllSteps /\ b \in AllSteps
        BY DEF AllSteps, Object, In, ResponseFields, MediaTypeFields
      <4>3. Holds(a) = "MediaType" /\ Holds(b) = "Schema" /\ Holds(s) = "Schema"
        BY <3>4 DEF Holds
      <4>4. p # body
        BY <3>2, <3>4 DEF Holds, Parts
      <4>5. a[1] \in Parts(kinds[i - 1]) /\ kinds[i] = "Schema"
        BY <3>2, <3>3, <3>4, <4>3, <4>4
      <4>6. b[1] \in Parts(Holds(a))
        BY <4>3 DEF Parts
      <4> HIDE DEF a, b
      <4> QED
        BY <4>1, <4>2, <4>3, <4>5, <4>6 DEF TwoSteps
    <3>5. CASE s = body
      <4> DEFINE a == <<"Operation", "requestBody">>
      <4>1. pieces[i] = <<a>>
        BY <3>3, <3>5 DEF PromotedStep, s
      <4>2. a \in AllSteps
        BY DEF AllSteps, Object, In, OperationFields
      <4>3. Holds(a) = "RequestBody"
        BY DEF Holds
      <4>4. p # body
        BY <3>2, <3>5 DEF Holds, Parts
      <4>5. a[1] \in Parts(kinds[i - 1]) /\ kinds[i] = "RequestBody"
        BY <3>2, <3>3, <3>5, <4>4
      <4> HIDE DEF a
      <4> QED
        BY <4>1, <4>2, <4>3, <4>5 DEF OneStep
    <3>6. CASE s = <<"Parameter", "schema">> /\ p = body
      <4> DEFINE a == <<"RequestBody", "content">>
                 b == <<"MediaType", "schema">>
      <4>1. pieces[i] = <<a, b>>
        BY <3>1, <3>3, <3>6 DEF PromotedStep, s, p
      <4>2. a \in AllSteps /\ b \in AllSteps
        BY DEF AllSteps, Object, In, BodyFields, MediaTypeFields
      <4>3. Holds(a) = "MediaType" /\ Holds(b) = "Schema" /\ Holds(s) = "Schema"
        BY <3>6 DEF Holds
      <4>4. a[1] \in Parts(kinds[i - 1]) /\ kinds[i] = "Schema"
        BY <3>3, <3>6, <4>3 DEF Parts
      <4>5. b[1] \in Parts(Holds(a))
        BY <4>3 DEF Parts
      <4> HIDE DEF a, b
      <4> QED
        BY <4>1, <4>2, <4>3, <4>4, <4>5 DEF TwoSteps
    <3>7. CASE s # <<"Response", "schema">> /\ s # body /\ ~ (s = <<"Parameter", "schema">> /\ p = body)
      <4>1. pieces[i] = <<s>>
        BY <3>3, <3>7 DEF PromotedStep, s, p
      <4>2. p # body
        <5> SUFFICES ASSUME p = body PROVE FALSE
          OBVIOUS
        <5>1. s[1] = "Parameter"
          BY <3>2 DEF Holds, Parts
        <5>2. PICK f \in DOMAIN ParameterFields : s = <<"Parameter", f>>
          BY <3>2, <5>1, StepIs
        <5>3. f = "schema"
          BY <3>2, <5>2 DEF Promotes, In, EverySchema
        <5> QED
          BY <3>7, <5>2, <5>3
      <4>3. kinds[i] = Holds(s) /\ kinds[i - 1] = Holds(p)
        BY <3>3, <3>7, <4>2
      <4> QED
        BY <3>2, <4>1, <4>3 DEF OneStep
    <3> QED
      BY <3>4, <3>5, <3>6, <3>7
  <2> QED
    BY <2>2, <2>3 DEF Converts
<1> HIDE DEF pieces
<1>6. PICK f : PutTogether(f, n, pieces)
  BY <1>5, PutsTogether
<1>7. f = [i \in 0..n |-> IF i = 0 THEN <<>> ELSE f[i - 1] \o PromotedStep(path, i)]
  BY <1>4, <1>6
<1>8. upTo = [i \in 0..n |-> IF i = 0 THEN <<>> ELSE upTo[i - 1] \o PromotedStep(path, i)]
  BY <1>7 DEF upTo
<1> HIDE DEF upTo
<1>9. PutTogether(upTo, n, pieces)
  <2>1. \A i \in 0..n : i # 0 => pieces[i] = PromotedStep(path, i)
    BY <1>1, <1>2
  <2> QED
    BY <1>8, <2>1 DEF PutTogether
<1>10. IsPlace(upTo[n]) /\ upTo[n][1] = path[1] /\ Kind(upTo[n]) = kinds[n]
  BY <1>5, <1>9, ConvertedPlace
<1>11. Kind(path) = "Target" => kinds[n] = "Target"
  <2> SUFFICES ASSUME Kind(path) = "Target" PROVE kinds[n] = "Target"
    OBVIOUS
  <2>1. Holds(path[n]) = "Target" /\ n \in 1..n
    BY <1>1 DEF Kind
  <2>2. path[n] # body
    BY <2>1 DEF Holds
  <2> QED
    BY <1>2, <2>1, <2>2
<1> QED
  BY <1>3, <1>10, <1>11

\* Where a conversion to 2.0 finds bodies and contents.
LEMMA Bodies ==
    ASSUME NEW s \in AllSteps, s \in Demotes, Holds(s) = "RequestBody"
    PROVE  s = <<"Operation", "requestBody">>
<1>1. CASE s[1] = "Document"
  <2>1. PICK f \in DOMAIN Sections : s = <<"Document", f>>
    BY <1>1, StepIs
  <2>2. f \in DemotesDocument
    BY <2>1 DEF Demotes, In, EverySchema
  <2> QED
    BY <2>1, <2>2 DEF Holds, DemotesDocument
<1>2. CASE s[1] = "Operation"
  <2>1. PICK f \in DOMAIN OperationFields : s = <<"Operation", f>>
    BY <1>2, StepIs
  <2>2. f = "requestBody"
    BY <2>1 DEF Holds, OperationFields
  <2> QED
    BY <2>1, <2>2
<1>3. s[1] \in {"Document", "Operation"}
  BY HoldsIs, StepsAre
<1> QED
  BY <1>1, <1>2, <1>3
LEMMA Contents ==
    ASSUME NEW s \in AllSteps, s \in Demotes, Holds(s) = "MediaType", s # <<"Header", "content">>
    PROVE  s \in {<<"Response", "content">>, <<"RequestBody", "content">>}
<1>1. CASE s[1] = "Document"
  <2>1. PICK f \in DOMAIN Sections : s = <<"Document", f>>
    BY <1>1, StepIs
  <2>2. f \in DemotesDocument
    BY <2>1 DEF Demotes, In, EverySchema
  <2> QED
    BY <2>1, <2>2 DEF Holds, DemotesDocument
<1>2. CASE s[1] = "Parameter"
  <2>1. PICK f \in DOMAIN ParameterFields : s = <<"Parameter", f>>
    BY <1>2, StepIs
  <2>2. f = "schema"
    BY <2>1 DEF Demotes, In, EverySchema
  <2> QED
    BY <2>1, <2>2 DEF Holds
<1>3. CASE s[1] = "Header"
  <2>1. PICK f \in DOMAIN HeaderFields : s = <<"Header", f>>
    BY <1>3, StepIs
  <2> QED
    BY <2>1 DEF Holds, HeaderFields
<1>4. CASE s[1] = "RequestBody"
  <2>1. PICK f \in DOMAIN BodyFields : s = <<"RequestBody", f>>
    BY <1>4, StepIs
  <2> QED
    BY <2>1 DEF BodyFields
<1>5. CASE s[1] = "Response"
  <2>1. PICK f \in DOMAIN ResponseFields : s = <<"Response", f>>
    BY <1>5, StepIs
  <2> QED
    BY <2>1 DEF Holds, ResponseFields
<1>6. s[1] \in {"Document", "Parameter", "Header", "RequestBody", "Response"}
  BY HoldsIs, StepsAre
<1> QED
  BY <1>1, <1>2, <1>3, <1>4, <1>5, <1>6

\* A place that Demotes covers becomes one of 2.0, with the same beginning and, but
\* for a body or contents, the same kind of object at its end.
LEMMA DemotedIs ==
    ASSUME NEW path, IsPlace(path), Reaches(Demotes, path)
    PROVE  /\ IsPlace(DemotedPlace(path)) /\ DemotedPlace(path)[1] = path[1]
           /\ Kind(path) = "Target" => Kind(DemotedPlace(path)) = "Target"
           /\ Kind(path) # "PathItem" => Kind(DemotedPlace(path)) # "PathItem"
<1> DEFINE n == Len(path)
           body == <<"Operation", "requestBody">>
           contents == {<<"Response", "content">>, <<"RequestBody", "content">>}
           after(s) == IF s = body THEN "Parameter" ELSE IF s \in contents THEN "Schema" ELSE Holds(s)
           pieces == [i \in 1..n |-> DemotedStep(path, i)]
           kinds == [i \in 1..n |-> after(path[i])]
           upTo[i \in 0..Len(path)] == IF i = 0 THEN <<>> ELSE upTo[i - 1] \o DemotedStep(path, i)
<1>1. n \in Nat /\ n >= 1 /\ \A i \in 1..n : path[i] \in AllSteps /\ path[i] \in Demotes
  BY PlaceIs DEF Reaches, Steps
<1>2. \A i \in 1..n : pieces[i] = DemotedStep(path, i) /\ kinds[i] = after(path[i])
  OBVIOUS
<1>3. DemotedPlace(path) = upTo[n]
  BY DEF DemotedPlace
<1>4. \A f : PutTogether(f, n, pieces) => f = [i \in 0..n |-> IF i = 0 THEN <<>> ELSE f[i - 1] \o DemotedStep(path, i)]
  <2> SUFFICES ASSUME NEW f, PutTogether(f, n, pieces)
               PROVE  f = [i \in 0..n |-> IF i = 0 THEN <<>> ELSE f[i - 1] \o DemotedStep(path, i)]
    OBVIOUS
  <2>1. \A i \in 0..n : i # 0 => pieces[i] = DemotedStep(path, i)
    BY <1>1, <1>2
  <2> HIDE DEF pieces
  <2> QED
    BY <2>1 DEF PutTogether
<1>5. Converts(path, pieces, kinds)
  <2>1. 1 \in 1..n /\ path[1][1] = "Document"
    BY <1>1, PlaceIs
  <2>2. pieces[1] = <<path[1]>> /\ kinds[1] = Holds(path[1])
    <3>1. path[1] \notin contents \cup {body, <<"MediaType", "schema">>, <<"Schema", "prefixItems">>}
      BY <2>1
    <3> QED
      BY <1>2, <2>1, <3>1 DEF DemotedStep
  <2>3. ASSUME NEW i \in 2..n PROVE Stays(pieces, kinds, i) \/ OneStep(pieces, kinds, i) \/ TwoSteps(pieces, kinds, i)
    <3> DEFINE s == path[i]
               p == path[i - 1]
    <3>1. i \in 1..n /\ i - 1 \in 1..n /\ i > 1
      BY <1>1
    <3>2. s \in AllSteps /\ s \in Demotes /\ p \in AllSteps /\ p \in Demotes /\ s[1] \in Parts(Holds(p))
      BY <1>1, <3>1, PlaceIs
    <3>3. /\ pieces[i] = DemotedStep(path, i) /\ kinds[i] = after(s)
          /\ kinds[i - 1] = after(p)
      BY <1>2, <3>1
    <3> HIDE DEF s, p, pieces, kinds
    <3>4. CASE s = <<"Response", "content">>
      <4> DEFINE a == <<"Response", "schema">>
      <4>1. pieces[i] = <<a>>
        BY <3>3, <3>4 DEF DemotedStep, s
      <4>2. a \in AllSteps
        BY DEF AllSteps, Object, In, ResponseFields
      <4>3. Holds(a) = "Schema"
        BY DEF Holds
      <4>4. kinds[i - 1] = Holds(p)
        BY <3>2, <3>3, <3>4 DEF Holds, Parts
      <4>5. a[1] \in Parts(kinds[i - 1]) /\ kinds[i] = "Schema"
        BY <3>2, <3>3, <3>4, <4>4
      <4> HIDE DEF a
      <4> QED
        BY <4>1, <4>2, <4>3, <4>5 DEF OneStep
    <3>5. CASE s = body
      <4> DEFINE a == <<"Operation", "body">>
      <4>1. pieces[i] = <<a>>
        BY <3>3, <3>5 DEF DemotedStep, s
      <4>2. a \in AllSteps
        BY DEF AllSteps, Object, In, OperationFields
      <4>3. Holds(a) = "Parameter"
        BY DEF Holds
      <4>4. kinds[i - 1] = Holds(p)
        BY <3>2, <3>3, <3>5 DEF Holds, Parts
      <4>5. a[1] \in Parts(kinds[i - 1]) /\ kinds[i] = "Parameter"
        BY <3>2, <3>3, <3>5, <4>4
      <4> HIDE DEF a
      <4> QED
        BY <4>1, <4>2, <4>3, <4>5 DEF OneStep
    <3>6. CASE s = <<"RequestBody", "content">>
      <4> DEFINE a == <<"Parameter", "schema">>
      <4>1. pieces[i] = <<a>>
        BY <3>3, <3>6 DEF DemotedStep, s
      <4>2. a \in AllSteps
        BY DEF AllSteps, Object, In, ParameterFields
      <4>3. Holds(a) = "Schema"
        BY DEF Holds
      <4>4. p = body
        <5>1. Holds(p) = "RequestBody"
          BY <3>2, <3>6 DEF Parts
        <5> QED
          BY <3>2, <5>1, Bodies
      <4>5. a[1] \in Parts(kinds[i - 1]) /\ kinds[i] = "Schema"
        BY <3>3, <3>6, <4>4 DEF Parts
      <4> HIDE DEF a
      <4> QED
        BY <4>1, <4>2, <4>3, <4>5 DEF OneStep
    <3>7. CASE s = <<"MediaType", "schema">> /\ p # <<"Header", "content">>
      <4>1. pieces[i] = <<>>
        BY <3>3, <3>7 DEF DemotedStep, s, p
      <4>2. p \in contents
        <5>1. Holds(p) = "MediaType"
          BY <3>2, <3>7 DEF Parts
        <5> QED
          BY <3>2, <3>7, <5>1, Contents
      <4>3. Holds(s) = "Schema"
        BY <3>7 DEF Holds
      <4>4. kinds[i] = "Schema" /\ kinds[i - 1] = "Schema"
        BY <3>3, <3>7, <4>2, <4>3
      <4> QED
        BY <4>1, <4>4 DEF Stays
    <3>8. CASE s = <<"Schema", "prefixItems">>
      <4> DEFINE a == <<"Schema", "items">>
      <4>1. pieces[i] = <<a>>
        BY <3>3, <3>8 DEF DemotedStep, s
      <4>2. a \in AllSteps
        BY DEF AllSteps, Object, In, SchemaFields
      <4>3. Holds(a) = "Schema" /\ Holds(s) = "Schema"
        BY <3>8 DEF Holds
      <4>4. kinds[i - 1] = Holds(p)
        BY <3>2, <3>3, <3>8 DEF Holds, Parts
      <4>5. a[1] \in Parts(kinds[i - 1]) /\ kinds[i] = "Schema"
        BY <3>2, <3>3, <3>8, <4>3, <4>4
      <4> HIDE DEF a
      <4> QED
        BY <4>1, <4>2, <4>3, <4>5 DEF OneStep
    <3>9. CASE /\ s \notin contents \cup {body, <<"Schema", "prefixItems">>}
               /\ ~ (s = <<"MediaType", "schema">> /\ p # <<"Header", "content">>)
      <4>1. pieces[i] = <<s>>
        BY <3>3, <3>9 DEF DemotedStep, s, p
      <4>2. p # body
        <5> SUFFICES ASSUME p = body PROVE FALSE
          OBVIOUS
        <5>1. s[1] = "RequestBody"
          BY <3>2 DEF Holds, Parts
        <5>2. PICK f \in DOMAIN BodyFields : s = <<"RequestBody", f>>
          BY <3>2, <5>1, StepIs
        <5>3. f = "content"
          BY DEF BodyFields
        <5> QED
          BY <3>9, <5>2, <5>3
      <4>3. p \notin contents
        <5> SUFFICES ASSUME p \in contents PROVE FALSE
          OBVIOUS
        <5>1. s[1] = "MediaType"
          BY <3>2 DEF Holds, Parts
        <5>2. PICK f \in DOMAIN MediaTypeFields : s = <<"MediaType", f>>
          BY <3>2, <5>1, StepIs
        <5>3. f = "schema"
          BY <3>2, <5>2 DEF Demotes, In, EverySchema
        <5> QED
          BY <3>9, <5>2, <5>3
      <4>4. kinds[i] = Holds(s) /\ kinds[i - 1] = Holds(p)
        BY <3>3, <3>9, <4>2, <4>3
      <4> QED
        BY <3>2, <4>1, <4>4 DEF OneStep
    <3> QED
      BY <3>4, <3>5, <3>6, <3>7, <3>8, <3>9
  <2> QED
    BY <2>2, <2>3 DEF Converts
<1> HIDE DEF pieces
<1>6. PICK f : PutTogether(f, n, pieces)
  BY <1>5, PutsTogether
<1>7. f = [i \in 0..n |-> IF i = 0 THEN <<>> ELSE f[i - 1] \o DemotedStep(path, i)]
  BY <1>4, <1>6
<1>8. upTo = [i \in 0..n |-> IF i = 0 THEN <<>> ELSE upTo[i - 1] \o DemotedStep(path, i)]
  BY <1>7 DEF upTo
<1> HIDE DEF upTo
<1>9. PutTogether(upTo, n, pieces)
  <2>1. \A i \in 0..n : i # 0 => pieces[i] = DemotedStep(path, i)
    BY <1>1, <1>2
  <2> QED
    BY <1>8, <2>1 DEF PutTogether
<1>10. IsPlace(upTo[n]) /\ upTo[n][1] = path[1] /\ Kind(upTo[n]) = kinds[n]
  BY <1>5, <1>9, ConvertedPlace
<1>11. kinds[n] = Kind(path) \/ kinds[n] \in {"Parameter", "Schema"}
  <2>1. n \in 1..n
    BY <1>1
  <2> QED
    BY <1>2, <2>1 DEF Kind
<1>12. Kind(path) = "Target" => kinds[n] = "Target"
  <2> SUFFICES ASSUME Kind(path) = "Target" PROVE kinds[n] = "Target"
    OBVIOUS
  <2>1. Holds(path[n]) = "Target" /\ n \in 1..n
    BY <1>1 DEF Kind
  <2>2. path[n] \notin contents \cup {body}
    BY <2>1 DEF Holds
  <2> QED
    BY <1>2, <2>1, <2>2
<1> QED
  BY <1>3, <1>10, <1>11, <1>12

-----------------------------------------------------------------------------
(* What a tool that misses nothing known to be passed over finds. *)

LEMMA GapMissed ==
    ASSUME NEW tool, Exists, ~ Meets(tool), NEW S, Each(S) \subseteq Gaps[tool]
    PROVE  S \cap Traits = {}
<1> SUFFICES ASSUME NEW t \in S, t \in Traits PROVE FALSE
  OBVIOUS
<1>1. {t} \in Gaps[tool]
  BY DEF Each
<1>2. {t} \subseteq Traits
  OBVIOUS
<1> QED
  BY <1>1, <1>2 DEF Meets

LEMMA TraitsAre ==
    /\ Steps(site) \subseteq Traits /\ <<"own", Kind(site)>> \in Traits
    /\ <<"text", "encoded">> \notin Traits => ref.text \in DOMAIN defined \/ Denotes(ref.text, defined) = "none"
    /\ <<"text", "bareInline">> \notin Traits => ~ ref.bare \/ InPool
    /\ <<"own", "WebhookParameter">> \notin Traits => ~ AtWebhookParameters(site)
BY DEF Traits

LEMMA StubMisses ==
    ASSUME Exists, ~ Meets("stub")
    PROVE  ref.text \in DOMAIN defined \/ Denotes(ref.text, defined) = "none"
<1>1. Each({<<"text", "encoded">>}) \subseteq Gaps["stub"]
  BY DEF Gaps, Each, Encoded
<1>2. {<<"text", "encoded">>} \cap Traits = {}
  BY <1>1, GapMissed
<1> QED
  BY <1>2, TraitsAre

LEMMA RenameMisses ==
    ASSUME Exists, ~ Meets("rename")
    PROVE  Steps(site) \cap RenameGaps = {}
<1>1. Each(RenameGaps) \subseteq Gaps["rename"]
  BY DEF Gaps, RenameGaps
<1>2. RenameGaps \cap Traits = {}
  BY <1>1, GapMissed
<1> QED
  BY <1>2, TraitsAre

LEMMA PruneMisses ==
    ASSUME Exists, ~ Meets("prune")
    PROVE  Steps(site) \cap CollectGaps = {} /\ (~ ref.bare \/ InPool)
<1> DEFINE S == CollectGaps \cup {<<"text", "bareInline">>}
<1>1. Each(S) \subseteq Gaps["prune"]
  BY DEF Gaps, CollectGaps
<1>2. S \cap Traits = {}
  BY <1>1, GapMissed
<1> QED
  BY <1>2, TraitsAre

LEMMA JoinMisses ==
    ASSUME Exists, ~ Meets("join")
    PROVE  /\ Steps(site) \cap JoinGaps = {}
           /\ ref.text \in DOMAIN defined \/ Denotes(ref.text, defined) = "none"
<1> DEFINE S == JoinGaps \cup {<<"text", "encoded">>}
<1>1. Each(S) \subseteq Gaps["join"]
  BY DEF Gaps, JoinGaps, Encoded
<1>2. S \cap Traits = {}
  BY <1>1, GapMissed
<1> QED
  BY <1>2, TraitsAre

LEMMA PromoteMisses ==
    ASSUME Exists, ~ Meets("promote")
    PROVE  Kind(site) # "Response"
<1>1. Each({<<"own", "Response">>}) \subseteq Gaps["promote"]
  BY DEF Gaps, Each, In
<1>2. {<<"own", "Response">>} \cap Traits = {}
  BY <1>1, GapMissed
<1> QED
  BY <1>2, TraitsAre

DemoteGaps == In("Document", {"requestBodies", "headers", "callbacks", "callbackRefs", "pathItems"})
              \cup In("MediaType", {"encoding"})
LEMMA DemoteMisses ==
    ASSUME Exists, ~ Meets("demote")
    PROVE  /\ Kind(site) \notin {"Response", "PathItem", "RequestBody"}
           /\ Steps(site) \cap DemoteGaps = {}
           /\ Steps(site) \cap Item # {} => <<"Operation", "default">> \notin Steps(site)
           /\ Kind(site) = "Header" => ref.text \in DOMAIN defined \/ Denotes(ref.text, defined) = "none"
<1> DEFINE Own == In("own", {"Response", "PathItem", "RequestBody"})
           S == Own \cup DemoteGaps
<1>1. Each(S) \subseteq Gaps["demote"]
  BY DEF Gaps, DemoteGaps, Each
<1>2. S \cap Traits = {}
  BY <1>1, GapMissed
<1>3. Kind(site) \notin {"Response", "PathItem", "RequestBody"}
  <2>1. <<"own", Kind(site)>> \notin Own
    BY <1>2, TraitsAre
  <2> QED
    BY <2>1 DEF In
<1>4. ASSUME NEW item \in Item, item \in Steps(site), <<"Operation", "default">> \in Steps(site) PROVE FALSE
  <2>1. {item, <<"Operation", "default">>} \in Gaps["demote"]
    BY DEF Gaps
  <2>2. {item, <<"Operation", "default">>} \subseteq Traits
    BY <1>4, TraitsAre
  <2> QED
    BY <2>1, <2>2 DEF Meets
<1>5. Kind(site) = "Header" => ref.text \in DOMAIN defined \/ Denotes(ref.text, defined) = "none"
  <2> SUFFICES ASSUME Kind(site) = "Header" PROVE <<"text", "encoded">> \notin Traits
    BY TraitsAre
  <2>1. {<<"own", "Header">>, <<"text", "encoded">>} \in Gaps["demote"]
    BY DEF Gaps
  <2>2. ~ ({<<"own", "Header">>, <<"text", "encoded">>} \subseteq Traits)
    BY <2>1 DEF Meets
  <2>3. <<"own", "Header">> \in Traits
    BY TraitsAre
  <2> QED
    BY <2>2, <2>3
<1> QED
  BY <1>2, <1>3, <1>4, <1>5, TraitsAre

LEMMA ValidateMisses ==
    ASSUME Exists, ~ Meets("validate")
    PROVE  /\ Kind(site) # "Target" /\ ~ AtWebhookParameters(site)
           /\ Steps(site) \cap ValidateGaps = {}
           /\ ref.text \in DOMAIN defined \/ Denotes(ref.text, defined) = "none"
<1> DEFINE Own == In("own", {"Target", "WebhookParameter"})
           S == Own \cup ValidateGaps \cup {<<"text", "encoded">>}
<1>1. Each(S) \subseteq Gaps["validate"]
  BY DEF Gaps, ValidateGaps, Encoded
<1>2. S \cap Traits = {}
  BY <1>1, GapMissed
<1>3. Kind(site) # "Target" /\ <<"own", "WebhookParameter">> \notin Traits
  <2>1. <<"own", Kind(site)>> \notin Own /\ <<"own", "WebhookParameter">> \in Own
    BY <1>2, TraitsAre DEF In
  <2> QED
    BY <1>2, <2>1 DEF In
<1> QED
  BY <1>2, <1>3, TraitsAre

-----------------------------------------------------------------------------
(* Losses. *)

\* Promotion covers all of 2.0.
LEMMA PromotesAll ==
    ASSUME NEW path, IsPlace(path), InGrammar(path, 20)
    PROVE  Reaches(Promotes, path)
<1> SUFFICES ASSUME NEW i \in 1..Len(path) PROVE path[i] \in Promotes
  BY PlaceIs DEF Reaches, Steps
<1> DEFINE s == path[i]
<1>1. s \in AllSteps /\ InVersion(s, 20)
  BY PlaceIs DEF InGrammar
<1> HIDE DEF s
<1>2. PICK k, f : s = <<k, f>>
  BY <1>1, StepsAre
<1>3. <<k, f>> \in Promotes
  <2> USE DEF Promotes, In, EverySchema
  <2>1. CASE k = "Document"
    BY <1>1, <1>2, <2>1, FieldsOf2 DEF PromotesDocument
  <2>2. CASE k = "PathItem"
    BY <1>1, <1>2, <2>2, FieldsOf2
  <2>3. CASE k = "Operation"
    BY <1>1, <1>2, <2>3, FieldsOf2 DEF PromotesOperation
  <2>4. CASE k = "Parameter"
    BY <1>1, <1>2, <2>4, FieldsOf2
  <2>5. CASE k = "Response"
    BY <1>1, <1>2, <2>5, FieldsOf2 DEF PromotesResponse
  <2>6. CASE k = "Schema"
    BY <1>1, <1>2, <2>6, FieldsAre
  <2> QED
    BY <1>1, <1>2, <2>1, <2>2, <2>3, <2>4, <2>5, <2>6, FieldsOf2, StepsAre
<1> QED
  BY <1>2, <1>3 DEF s

\* What a conversion to 2.0 leaves behind it reports, but for the gaps.
LEMMA LossReported ==
    ASSUME NEW path, IsPlace(path), NEW v \in {30, 31, 32}, InGrammar(path, v), ~ Demoted(path),
           Kind(path) \notin {"Response", "PathItem", "RequestBody"}, Steps(path) \cap DemoteGaps = {},
           Steps(path) \cap Item # {} => <<"Operation", "default">> \notin Steps(path)
    PROVE  DemotionReported(path)
<1> DEFINE n == Len(path)
           Kept == In("Document", {"schemas", "parameters", "responses", "paths"})
<1>1. n \in Nat /\ n >= 1 /\ 1 \in 1..n /\ path[1][1] = "Document"
  BY PlaceIs
<1>2. \A i \in 1..n : path[i] \in AllSteps /\ path[i] \in Steps(path) /\ InVersion(path[i], v)
  BY PlaceIs DEF InGrammar, Steps
<1>3. CASE path[1] \notin Kept
  <2>1. PICK f \in DOMAIN Sections : path[1] = <<"Document", f>>
    BY <1>1, <1>2, StepIs
  <2>2. f \in {"webhooks", "mediaTypes"}
    BY <1>1, <1>2, <1>3, <2>1 DEF Sections, In, DemoteGaps
  <2>3. <<"Document", f>> \in Steps(path)
    BY <1>1, <1>2, <2>1
  <2> QED
    BY <2>2, <2>3 DEF DemotionReported
<1>4. CASE path[1] \in Kept /\ Kind(path) = "Target"
  BY <1>4 DEF DemotionReported, DemotesDocument
<1>5. CASE path[1] \in Kept /\ Kind(path) # "Target"
  <2>1. ~ Reaches(Demotes, path)
    BY <1>5 DEF Demoted
  <2>2. PICK i \in 1..n : path[i] \notin Demotes
    BY <2>1, PlaceIs DEF Reaches, Steps
  <2> DEFINE s == path[i]
  <2>3. s \in AllSteps /\ s \in Steps(path) /\ InVersion(s, v) /\ s \notin Demotes /\ s \notin DemoteGaps
    BY <1>2, <2>2
  <2>4. s[1] \in {"PathItem", "Operation"} => path[1] = <<"Document", "paths">>
    <3> SUFFICES ASSUME s[1] \in {"PathItem", "Operation"}, path[1] # <<"Document", "paths">> PROVE FALSE
      OBVIOUS
    <3>1. path[1] \in In("Document", {"schemas", "parameters", "responses"})
      BY <1>5 DEF In
    <3>2. s[1] \in NoPaths \cup {"Document"}
      BY <3>1, ComponentPlace
    <3> QED
      BY <3>2 DEF NoPaths
  <2>5. s[1] = "Encoding" => Steps(path) \cap Item # {}
    <3> SUFFICES ASSUME s[1] = "Encoding" PROVE Steps(path) \cap Item # {}
      OBVIOUS
    <3>1. Steps(path) \cap EncodingsOf # {}
      BY EncodingInside
    <3>2. PICK t \in Steps(path) : t \in EncodingsOf
      BY <3>1
    <3>3. PICK f \in {"encoding", "itemEncoding", "prefixEncoding"} : t = <<"MediaType", f>>
      BY <3>2 DEF EncodingsOf, In
    <3>4. <<"MediaType", f>> \in Item
      <4>1. f # "encoding"
        BY <3>2, <3>3 DEF DemoteGaps, In
      <4> QED
        BY <4>1 DEF Item, In
    <3> QED
      BY <3>2, <3>3, <3>4
  <2>6. s[1] = "Document" => s \in Kept
    <3> SUFFICES ASSUME s[1] = "Document" PROVE s \in Kept
      OBVIOUS
    <3>1. i = 1
      <4>1. i \notin 2..n
        BY DocumentFirst
      <4> QED
        BY <1>1, <4>1
    <3> QED
      BY <1>5, <3>1
  <2>7. Steps(path) \cap Item # {} => DemotionReported(path)
    <3> SUFFICES ASSUME Steps(path) \cap Item # {} PROVE DemotionReported(path)
      OBVIOUS
    <3> QED
      BY DEF DemotionReported, Item
  <2> HIDE DEF s
  <2> USE DEF Demotes, In
  <2>8. CASE s[1] = "Document"
    BY <2>3, <2>6, <2>8 DEF DemotesDocument
  <2>9. CASE s[1] = "PathItem"
    <3>1. PICK f \in DOMAIN PathItemFields : s = <<"PathItem", f>>
      BY <2>3, <2>9, StepIs
    <3>2. f \in {"trace", "query", "additionalOperations"}
      BY <2>3, <3>1 DEF PathItemFields, DemotesPathItem
    <3> QED
      BY <2>3, <2>4, <2>9, <3>1, <3>2 DEF DemotionReported
  <2>10. CASE s[1] = "Operation"
    <3>1. PICK f \in DOMAIN OperationFields : s = <<"Operation", f>>
      BY <2>3, <2>10, StepIs
    <3>2. f # "body"
      BY <2>3, <3>1, FieldsOf3
    <3>3. f \in {"callbacks", "callbackRefs"}
      BY <2>3, <3>1, <3>2 DEF OperationFields, DemotesOperation
    <3> QED
      BY <2>3, <2>4, <2>10, <3>1, <3>3 DEF DemotionReported
  <2>11. CASE s[1] = "Parameter"
    <3>1. PICK f \in DOMAIN ParameterFields : s = <<"Parameter", f>>
      BY <2>3, <2>11, StepIs
    <3>2. f = "content"
      BY <2>3, <3>1 DEF ParameterFields
    <3> QED
      BY <2>3, <3>1, <3>2 DEF DemotionReported
  <2>12. CASE s[1] = "Header"
    <3>1. PICK f \in DOMAIN HeaderFields : s = <<"Header", f>>
      BY <2>3, <2>12, StepIs
    <3> QED
      BY <2>3, <3>1 DEF HeaderFields
  <2>13. CASE s[1] = "RequestBody"
    <3>1. PICK f \in DOMAIN BodyFields : s = <<"RequestBody", f>>
      BY <2>3, <2>13, StepIs
    <3> QED
      BY <2>3, <3>1 DEF BodyFields
  <2>14. CASE s[1] = "Response"
    <3>1. PICK f \in DOMAIN ResponseFields : s = <<"Response", f>>
      BY <2>3, <2>14, StepIs
    <3>2. f # "schema"
      BY <2>3, <3>1, FieldsOf3
    <3> QED
      BY <2>3, <3>1, <3>2 DEF ResponseFields, DemotesResponse
  <2>15. CASE s[1] = "MediaType"
    <3>1. PICK f \in DOMAIN MediaTypeFields : s = <<"MediaType", f>>
      BY <2>3, <2>15, StepIs
    <3>2. <<"MediaType", f>> \in Item
      BY <2>3, <3>1 DEF MediaTypeFields, DemoteGaps, Item
    <3> QED
      BY <2>3, <2>7, <3>1, <3>2
  <2>16. CASE s[1] = "Encoding"
    BY <2>5, <2>7, <2>16
  <2>17. CASE s[1] \in {"Schema", "Discriminator"}
    BY <2>3, <2>17, StepIs DEF EverySchema
  <2> QED
    BY <2>3, <2>8, <2>9, <2>10, <2>11, <2>12, <2>13, <2>14, <2>15, <2>16, <2>17, StepsAre
<1> QED
  BY <1>3, <1>4, <1>5

-----------------------------------------------------------------------------
(* Names. *)

\* A reference that means nothing, and one that means m: no two names are taken that
\* a rename would move to the same one, and T has one name.
Unmeant(text, d) ==
    /\ text \in {"Odd", "OddText"}
    /\ DOMAIN d \subseteq {"Fine"} /\ \A n \in DOMAIN d : d[n] = "N"
Apart(d, m) ==
    /\ ~ {"Odd", "OddText"} \subseteq DOMAIN d
    /\ \A n \in {"Odd", "OddText"} \cap DOMAIN d : Numbered[Clean[n]] \notin DOMAIN d
    /\ \A k, n \in DOMAIN d : d[k] = "T" /\ d[n] = "T" => k = n
    /\ \A n \in DOMAIN d : d[n] = "T" => m = "T"
    /\ "Joined" \in DOMAIN d => d["Joined"] = "T"
Means(text, d, m) == m \in {"T", "S"} /\ Denotes(text, d) = m /\ Apart(d, m)

\* What a reference denotes, case by case.
LEMMA DenotesIs ==
    ASSUME NEW text, NEW d
    PROVE  /\ text \in DOMAIN d => Denotes(text, d) = d[text]
           /\ text \notin DOMAIN d /\ Decoded(text) \in DOMAIN d => Denotes(text, d) = d[Decoded(text)]
           /\ text \notin DOMAIN d /\ Decoded(text) \notin DOMAIN d => Denotes(text, d) = "none"
BY DEF Denotes

\* A stub gives a reference that means nothing its meaning.
LEMMA StubMeans ==
    ASSUME NEW text, NEW d, Unmeant(text, d), NEW e, e = With(d, text, "S")
    PROVE  Means(text, e, "S")
<1>1. DOMAIN e = {text} \cup DOMAIN d /\ e[text] = "S" /\ \A n \in DOMAIN d : n # text => e[n] = d[n]
  BY DEF With
<1>2. text \in {"Odd", "OddText"} /\ DOMAIN e \subseteq {text, "Fine"}
  BY <1>1 DEF Unmeant
<1>3. \A n \in DOMAIN e : e[n] # "T"
  BY <1>1 DEF Unmeant
<1>4. \A n \in {"Odd", "OddText"} : Numbered[Clean[n]] \in {"Fine2", "FineText2"}
  BY DEF Numbered, Clean
<1>5. Denotes(text, e) = "S"
  BY <1>1, DenotesIs
<1>6. Apart(e, "S")
  BY <1>2, <1>3, <1>4 DEF Apart
<1> QED
  BY <1>5, <1>6 DEF Means

\* Fewer components are as far apart, and the reference means what it meant if the
\* names it may spell are kept.
LEMMA PruneMeans ==
    ASSUME NEW text, NEW d, NEW m, Means(text, d, m), NEW S \in SUBSET DOMAIN d,
           {text, Decoded(text)} \cap DOMAIN d \subseteq S, NEW e, e = [n \in S |-> d[n]]
    PROVE  Means(text, e, m)
<1>1. DOMAIN e = S /\ \A n \in S : e[n] = d[n]
  OBVIOUS
<1>2. Apart(e, m)
  BY <1>1 DEF Means, Apart
<1>3. Denotes(text, d) = Denotes(text, e)
  BY <1>1 DEF Denotes
<1> QED
  BY <1>2, <1>3 DEF Means

\* Joining moves T, and the reference with it.
LEMMA JoinMeans ==
    ASSUME NEW text, NEW d, NEW m, Means(text, d, m), NEW n \in DOMAIN d, d[n] = "T", n # "Joined",
           text \in DOMAIN d \/ Denotes(text, d) = "none",
           NEW e, e = With(With(d, n, "L"), "Joined", "T"), NEW new, new = IF text = n THEN "Joined" ELSE text
    PROVE  Means(new, e, m)
<1>1. /\ DOMAIN e = {"Joined"} \cup DOMAIN d /\ e["Joined"] = "T" /\ e[n] = "L"
      /\ \A k \in DOMAIN d : k # n /\ k # "Joined" => e[k] = d[k]
  BY DEF With
<1>2. m = "T" /\ text \in DOMAIN d /\ d[text] = "T"
  BY DenotesIs DEF Means, Apart
<1>3. text = n /\ new = "Joined"
  BY <1>2 DEF Means, Apart
<1>4. Denotes(new, e) = "T"
  BY <1>1, <1>3, DenotesIs
<1>5. \A k \in DOMAIN e : e[k] = "T" => k = "Joined"
  BY <1>1 DEF Means, Apart
<1>6. \A k \in {"Odd", "OddText"} : Numbered[Clean[k]] \in {"Fine2", "FineText2"}
  BY DEF Numbered, Clean
<1>7. Apart(e, m)
  <2>1. {"Odd", "OddText"} \cap DOMAIN e = {"Odd", "OddText"} \cap DOMAIN d
    BY <1>1
  <2>2. \A k \in {"Odd", "OddText"} \cap DOMAIN e : Numbered[Clean[k]] \notin DOMAIN e
    BY <1>1, <1>6, <2>1 DEF Means, Apart
  <2>3. ~ {"Odd", "OddText"} \subseteq DOMAIN e
    BY <2>1 DEF Means, Apart
  <2> QED
    BY <1>1, <1>2, <1>5, <2>2, <2>3 DEF Apart
<1> QED
  BY <1>2, <1>4, <1>7 DEF Means

\* A rename moves at most one component, to a name that is free, and the reference
\* with it.
Moving(v) == {n \in DOMAIN defined : Invalid(n, v)}
Moved(names) ==
    LET moved == {NewName(n) : n \in names}
    IN  [m \in moved \cup (DOMAIN defined \ names) |->
            IF m \in moved THEN defined[CHOOSE n \in names : NewName(n) = m] ELSE defined[m]]
LEMMA NothingMoved ==
    ASSUME NEW f, defined = [n \in DOMAIN defined |-> defined[n]], f = Moved({})
    PROVE  f = defined /\ \A text : RenamedText(text, {}) = text
<1>1. f = [n \in DOMAIN defined |-> defined[n]]
  BY DEF Moved
<1> QED
  BY <1>1 DEF RenamedText

LEMMA NewNames ==
    ASSUME NEW n \in {"Odd", "OddText"}, NEW m, Apart(defined, m), n \in DOMAIN defined
    PROVE  NewName(n) \in {"Fine", "FineText", "Fine2", "FineText2"} \ DOMAIN defined
<1>1. Clean[n] \in {"Fine", "FineText"} /\ Numbered[Clean[n]] \in {"Fine2", "FineText2"}
  BY DEF Clean, Numbered
<1>2. Numbered[Clean[n]] \notin DOMAIN defined
  BY DEF Apart
<1> QED
  BY <1>1, <1>2 DEF NewName

LEMMA RenameMeans ==
    ASSUME NEW text, NEW m, Means(text, defined, m), NEW v, NEW names, names = Moving(v), names # {},
           NEW e, e = Moved(names)
    PROVE  Means(RenamedText(text, names), e, m)
<1> DEFINE d == defined
<1>1. Apart(d, m) /\ Denotes(text, d) = m /\ m # "none" /\ m \in {"T", "S"}
  BY DEF Means
<1>2. names \subseteq {"Odd", "OddText"} \cap DOMAIN d /\ ("Odd" \in DOMAIN d => "Odd" \in names)
  BY DEF Moving, Invalid
<1>3. PICK n : names = {n}
  BY <1>1, <1>2 DEF Apart
<1>4. n \in {"Odd", "OddText"} /\ n \in DOMAIN d
  BY <1>2, <1>3
<1> DEFINE k == NewName(n)
<1>5. k \in {"Fine", "FineText", "Fine2", "FineText2"} /\ k \notin DOMAIN d
  BY <1>1, <1>4, NewNames
<1>6. DOMAIN e = {k} \cup (DOMAIN d \ {n}) /\ e[k] = d[n] /\ \A x \in DOMAIN d \ {n} : e[x] = d[x]
  <2>1. {NewName(y) : y \in names} = {k}
    BY <1>3
  <2>2. (CHOOSE y \in names : NewName(y) = k) = n
    BY <1>3
  <2>3. k \notin DOMAIN d \ {n}
    BY <1>5
  <2>4. e = [x \in {k} \cup (DOMAIN d \ {n}) |-> IF x \in {k} THEN d[CHOOSE y \in names : NewName(y) = x] ELSE d[x]]
    BY <1>3, <2>1 DEF Moved
  <2> HIDE DEF k
  <2> QED
    BY <2>2, <2>3, <2>4
<1> HIDE DEF k
<1>7. {"Odd", "OddText"} \cap DOMAIN e = {}
  <2>1. {"Odd", "OddText"} \cap DOMAIN d = {n}
    BY <1>1, <1>4 DEF Apart
  <2> QED
    BY <1>5, <1>6, <2>1
<1>8. Apart(e, m)
  <2>1. \A x \in DOMAIN e : e[x] = "T" => m = "T"
    BY <1>1, <1>4, <1>6 DEF Apart
  <2>2. ASSUME NEW x \in DOMAIN e, NEW y \in DOMAIN e, e[x] = "T", e[y] = "T" PROVE x = y
    <3>1. CASE x = k /\ y = k
      BY <3>1
    <3>2. CASE x = k /\ y # k
      <4>1. y \in DOMAIN d /\ y # n /\ d[y] = "T" /\ d[n] = "T"
        BY <1>6, <2>2, <3>2
      <4> QED
        BY <1>1, <1>4, <4>1 DEF Apart
    <3>3. CASE x # k /\ y = k
      <4>1. x \in DOMAIN d /\ x # n /\ d[x] = "T" /\ d[n] = "T"
        BY <1>6, <2>2, <3>3
      <4> QED
        BY <1>1, <1>4, <4>1 DEF Apart
    <3>4. CASE x # k /\ y # k
      <4>1. x \in DOMAIN d /\ d[x] = "T" /\ y \in DOMAIN d /\ d[y] = "T"
        BY <1>6, <2>2, <3>4
      <4> QED
        BY <1>1, <4>1 DEF Apart
    <3> QED
      BY <3>1, <3>2, <3>3, <3>4
  <2>3. "Joined" \in DOMAIN e => e["Joined"] = "T"
    BY <1>1, <1>5, <1>6 DEF Apart
  <2> QED
    BY <1>7, <2>1, <2>2, <2>3 DEF Apart
<1>9. Denotes(RenamedText(text, names), e) = m
  <2>1. CASE text = n
    <3>1. RenamedText(text, names) = k
      BY <1>3, <2>1 DEF RenamedText, k
    <3>2. Denotes(text, d) = d[n]
      BY <1>4, <2>1, DenotesIs
    <3> QED
      BY <1>1, <1>6, <3>1, <3>2, DenotesIs
  <2>2. CASE text # n /\ Decoded(text) = n
    <3>1. RenamedText(text, names) = k
      BY <1>3, <2>2 DEF RenamedText, k
    <3>2. text = "OddText" /\ n = "Odd"
      BY <2>2 DEF Decoded
    <3>3. text \notin DOMAIN d
      BY <1>1, <1>4, <3>2 DEF Apart
    <3>4. Denotes(text, d) = d[n]
      BY <1>4, <2>2, <3>3, DenotesIs
    <3> QED
      BY <1>1, <1>6, <3>1, <3>4, DenotesIs
  <2>3. CASE text # n /\ Decoded(text) # n
    <3>1. RenamedText(text, names) = text
      BY <1>3, <2>3 DEF RenamedText
    <3>2. text \in DOMAIN d
      <4> SUFFICES ASSUME text \notin DOMAIN d PROVE FALSE
        OBVIOUS
      <4>1. Decoded(text) \in DOMAIN d
        BY <1>1, DenotesIs
      <4>2. Decoded(text) = "Odd"
        BY <4>1 DEF Decoded
      <4> QED
        BY <1>2, <1>3, <2>3, <4>1, <4>2
    <3>3. text \in DOMAIN e /\ e[text] = d[text]
      BY <1>6, <2>3, <3>2
    <3> QED
      BY <1>1, <3>1, <3>2, <3>3, DenotesIs
  <2> QED
    BY <2>1, <2>2, <2>3
<1> QED
  BY <1>1, <1>8, <1>9 DEF Means

-----------------------------------------------------------------------------
(* The invariant. *)

\* The pipeline's order, what a verdict is about, and where the pool is.
Shape ==
    /\ TypeOK
    /\ "prune" \in fixed \ todo => todo \subseteq {"pruneEmpty"}
    /\ verdict # "none" => trusted /\ todo = {}
    /\ host = "unused" => InPool
    /\ InPool /\ Exists => host \in {"used", "unused"}

\* The reference is somewhere in its version.
Placed ==
    trusted /\ Exists =>
        /\ InGrammar(site, version)
        /\ version = 20 => Kind(site) # "PathItem"
        /\ ref.bare => Kind(site) = "Target"

\* It means what it did.
Named ==
    trusted /\ Exists =>
        IF meant = "none" THEN Unmeant(ref.text, defined)
        ELSE Means(ref.text, defined, meant) /\ (ref.bare \/ ref.family = Family(version))

\* What pruning leaves is used.
Swept ==
    "prune" \in fixed \ todo /\ "pruneEmpty" \notin fixed /\ trusted /\ OfSchemas =>
        \A n \in DOMAIN defined : defined[n] \in {"N", "L"} \/ (Exists /\ n \in Spelled(ref.text))

ToolsInv == Shape /\ Placed /\ Named /\ NothingLostSilently /\ Swept /\ ValidatorAgrees

LEMMA PipelineIs ==
    /\ DOMAIN Pipeline = {"stub", "rename", "prune", "pruneEmpty"}
    /\ Pipeline["prune"] = {"stub", "rename"}
BY DEF Pipeline

LEMMA NamesAre == Names = {"Odd", "OddText", "Joined", "Fine", "FineText", "Fine2", "FineText2"}
<1>1. {Clean[n] : n \in DOMAIN Clean} = {"Fine", "FineText"}
  BY DEF Clean
<1>2. {Numbered[n] : n \in DOMAIN Numbered} = {"Fine2", "FineText2"}
  BY DEF Numbered
<1> QED
  BY <1>1, <1>2 DEF Names

\* A tool that leaves the version, the place and the form of the reference alone.
LEMMA PlacedKept ==
    ASSUME Placed, version' = version, site' = site, ref'.bare = ref.bare,
           ref'.state = "there" => ref.state = "there", trusted' => trusted
    PROVE  Placed'
BY DEF Placed, Exists

\* The start.
LEMMA InitTools == Init => ToolsInv
<1> SUFFICES ASSUME Init PROVE ToolsInv
  OBVIOUS
<1>1. PICK in \in Inputs :
          /\ version = in.version
          /\ site = in.site
          /\ ref = [state |-> "there", family |-> Family(in.version), bare |-> in.bare, text |-> in.text]
          /\ defined = [n \in (IF in.present THEN {Decoded(in.text)} ELSE {})
                                \cup (IF in.neighbour THEN {"Fine"} ELSE {}) |->
                            IF n = "Fine" THEN "N" ELSE "T"]
          /\ host = in.host
          /\ empty = in.empty
          /\ meant = IF in.present THEN "T" ELSE "none"
  BY DEF Init
<1>2. /\ in.version \in Versions /\ IsPlace(in.site) /\ InGrammar(in.site, in.version)
      /\ in.text \in {"Odd", "OddText"}
      /\ in.bare => Kind(in.site) = "Target"
      /\ in.version = 20 => Kind(in.site) # "PathItem"
      /\ in.host \in IF in.site[1] = <<"Document", "schemas">> THEN {"used", "unused"} ELSE {"none"}
  BY InputsAssumption
<1>3. in.bare \in BOOLEAN /\ in.present \in BOOLEAN /\ in.neighbour \in BOOLEAN /\ in.empty \in BOOLEAN
  <2>1. {in.bare, in.present, in.neighbour, in.empty} \subseteq BOOLEAN
    BY InputsAssumption
  <2> QED
    BY <2>1
<1>4. todo = {} /\ fixed = {} /\ tools = 0 /\ reported = FALSE /\ verdict = "none" /\ trusted = TRUE
  BY DEF Init
<1>5. Decoded(in.text) = "Odd"
  BY <1>2 DEF Decoded
<1>6. /\ DOMAIN defined \subseteq {"Odd", "Fine"} /\ \A n \in DOMAIN defined : defined[n] = IF n = "Fine" THEN "N" ELSE "T"
      /\ "Odd" \in DOMAIN defined <=> in.present
      /\ defined \in [DOMAIN defined -> {"N", "T"}]
  BY <1>1, <1>3, <1>5
<1>7. TypeOK
  <2>1. ref \in [state : {"there", "removed", "lost", "inlined"}, family : {20, 30}, bare : BOOLEAN, text : Names]
    BY <1>1, <1>2, <1>3, NamesAre DEF Family
  <2>2. DOMAIN defined \subseteq Names /\ defined \in [DOMAIN defined -> Components]
    BY <1>6, NamesAre DEF Components
  <2>3. host \in {"none", "unused", "used", "pruned"} /\ meant \in Components \cup {"none"}
    BY <1>1, <1>2 DEF Components
  <2>4. version \in Versions /\ IsPlace(site)
    BY <1>1, <1>2
  <2>5. empty \in BOOLEAN
    BY <1>1, <1>3
  <2>6. reported \in BOOLEAN /\ trusted \in BOOLEAN
    BY <1>4, Zenon
  <2>7. /\ todo \subseteq fixed /\ fixed \subseteq DOMAIN Pipeline
        /\ verdict \in {"none", "valid", "dangling"} /\ tools \in 0..MaxTools
    BY <1>4, MaxToolsAssumption
  <2> QED
    BY <2>1, <2>2, <2>3, <2>4, <2>5, <2>6, <2>7 DEF TypeOK
<1>8. Shape
  BY <1>1, <1>2, <1>4, <1>7 DEF Shape, InPool
<1>9. Placed
  BY <1>1, <1>2 DEF Placed
<1>10. Named
  <2>1. CASE in.present
    <3>1. Denotes(in.text, defined) = "T"
      BY <1>2, <1>5, <1>6, <2>1, DenotesIs
    <3>2. Apart(defined, "T")
      BY <1>6, <2>1 DEF Apart, Numbered, Clean
    <3> QED
      BY <1>1, <2>1, <3>1, <3>2 DEF Named, Means
  <2>2. CASE ~ in.present
    <3>1. Unmeant(in.text, defined)
      BY <1>2, <1>6, <2>2 DEF Unmeant
    <3> QED
      BY <1>1, <2>2, <3>1 DEF Named
  <2> QED
    BY <2>1, <2>2
<1>11. NothingLostSilently
  BY <1>1 DEF NothingLostSilently
<1> QED
  BY <1>4, <1>8, <1>9, <1>10, <1>11 DEF ToolsInv, Swept, ValidatorAgrees

\* Starting the fixer.
LEMMA FixKeeps ==
    ASSUME ToolsInv, NEW enabled \in SUBSET DOMAIN Pipeline, Fix(enabled)
    PROVE  ToolsInv'
<1>1. UNCHANGED <<version, site, ref, defined, host, empty, reported, meant, trusted>>
  BY DEF Fix
<1>2. todo' = enabled /\ fixed' = enabled /\ verdict' = "none" /\ tools < MaxTools /\ tools' = tools + 1
  BY DEF Fix
<1>3. TypeOK'
  BY <1>1, <1>2, MaxToolsAssumption DEF ToolsInv, Shape, TypeOK
<1>4. Shape'
  BY <1>1, <1>2, <1>3 DEF ToolsInv, Shape, InPool, Exists
<1>5. Placed' /\ Named' /\ NothingLostSilently'
  BY <1>1 DEF ToolsInv, Placed, Named, NothingLostSilently, Exists
<1> QED
  BY <1>2, <1>4, <1>5 DEF ToolsInv, Swept, ValidatorAgrees

\* A step of the pipeline.
LEMMA StepIn ==
    ASSUME Shape, NEW s \in {"stub", "rename", "prune", "pruneEmpty"}, Step(s), fixed' = fixed
    PROVE  /\ todo' \subseteq fixed' /\ fixed' \subseteq DOMAIN Pipeline /\ verdict = "none" /\ s \in fixed
           /\ "prune" \in fixed' \ todo' => todo' \subseteq {"pruneEmpty"}
           /\ s \in {"stub", "rename"} => "prune" \notin fixed' \ todo'
<1>1. s \in todo /\ todo \cap Pipeline[s] = {} /\ todo' = todo \ {s}
  BY DEF Step
<1>2. todo \subseteq fixed /\ fixed \subseteq DOMAIN Pipeline /\ ("prune" \in fixed \ todo => todo \subseteq {"pruneEmpty"})
  BY DEF Shape, TypeOK
<1>3. verdict = "none"
  BY <1>1 DEF Shape
<1>4. s = "prune" => todo' \subseteq {"pruneEmpty"}
  BY <1>1, <1>2, PipelineIs
<1> QED
  BY <1>1, <1>2, <1>3, <1>4

\* Stubs.
LEMMA StubKeeps ==
    ASSUME ToolsInv, StubMissingRefs
    PROVE  ToolsInv'
<1>1. UNCHANGED <<version, site, ref, host, empty, fixed, reported, verdict, tools>>
  BY DEF StubMissingRefs
<1>2. /\ Step("stub")
      /\ defined' = IF Stubbed THEN With(defined, ref.text, "S") ELSE defined
      /\ meant' = IF Stubbed /\ meant = "none" THEN "S" ELSE meant
      /\ trusted' = (trusted /\ ~(ref.text \notin DOMAIN defined /\ Meets("stub")))
  BY DEF StubMissingRefs
<1>3. Shape /\ Placed /\ Named /\ NothingLostSilently
  BY DEF ToolsInv
<1>4. /\ todo' \subseteq fixed' /\ fixed' \subseteq DOMAIN Pipeline /\ verdict = "none"
      /\ "prune" \notin fixed' \ todo'
  BY <1>1, <1>2, <1>3, StepIn
<1>5. trusted' \in BOOLEAN /\ (trusted' => trusted)
  BY <1>2
<1>6. TypeOK'
  <2>1. DOMAIN defined' \subseteq Names /\ defined' \in [DOMAIN defined' -> Components]
    BY <1>2, <1>3 DEF Shape, TypeOK, With, Components
  <2>2. meant' \in Components \cup {"none"}
    BY <1>2, <1>3 DEF Shape, TypeOK, Components
  <2> QED
    BY <1>1, <1>3, <1>4, <1>5, <2>1, <2>2 DEF Shape, TypeOK
<1>7. Shape'
  BY <1>1, <1>3, <1>4, <1>6 DEF Shape, InPool, Exists
<1>8. Placed'
  BY <1>1, <1>3, <1>5, PlacedKept
<1>9. Named'
  <2> SUFFICES ASSUME trusted', Exists'
               PROVE  IF meant' = "none" THEN Unmeant(ref'.text, defined')
                      ELSE Means(ref'.text, defined', meant') /\ (ref'.bare \/ ref'.family = Family(version'))
    BY DEF Named
  <2>1. trusted /\ Exists
    BY <1>1, <1>5 DEF Exists
  <2>2. CASE Stubbed /\ meant = "none"
    <3>1. Unmeant(ref.text, defined)
      BY <1>3, <2>1, <2>2 DEF Named
    <3>2. Means(ref.text, defined', "S")
      BY <1>2, <2>2, <3>1, StubMeans
    <3> QED
      BY <1>1, <1>2, <2>2, <3>2 DEF Stubbed
  <2>3. CASE Stubbed /\ meant # "none"
    <3>1. Means(ref.text, defined, meant)
      BY <1>3, <2>1, <2>3 DEF Named
    <3>2. ref.text \notin DOMAIN defined
      BY <2>3 DEF Stubbed
    <3>3. ~ Meets("stub")
      BY <1>2, <3>2
    <3>4. Denotes(ref.text, defined) = "none"
      BY <2>1, <3>2, <3>3, StubMisses
    <3> QED
      BY <3>1, <3>4 DEF Means
  <2>4. CASE ~ Stubbed
    <3>1. defined' = defined /\ meant' = meant
      BY <1>2, <2>4
    <3> QED
      BY <1>1, <1>3, <2>1, <3>1 DEF Named
  <2> QED
    BY <2>2, <2>3, <2>4
<1>10. NothingLostSilently'
  BY <1>1, <1>3, <1>5 DEF NothingLostSilently
<1> QED
  BY <1>1, <1>4, <1>7, <1>8, <1>9, <1>10 DEF ToolsInv, Swept, ValidatorAgrees

\* Names that are not allowed.
LEMMA MovesIn ==
    ASSUME NEW n, Invalid(n, version)
    PROVE  n \in {"Odd", "OddText"} /\ NewName(n) \in Names
<1>1. n \in {"Odd", "OddText"}
  BY DEF Invalid
<1>2. Clean[n] \in {"Fine", "FineText"} /\ Numbered[Clean[n]] \in {"Fine2", "FineText2"}
  BY <1>1 DEF Clean, Numbered
<1> QED
  BY <1>1, <1>2, NamesAre DEF NewName

LEMMA RenameKeeps ==
    ASSUME ToolsInv, RenameInvalidSchemas
    PROVE  ToolsInv'
<1> DEFINE names == IF OfSchemas THEN {n \in DOMAIN defined : Invalid(n, version)} ELSE {}
<1>1. UNCHANGED <<version, site, host, empty, fixed, reported, verdict, meant, tools>> /\ Step("rename")
  BY DEF RenameInvalidSchemas
<1>2. /\ defined' = Moved(names)
      /\ ref' = IF Exists /\ Reaches(Renamed[version], site)
                THEN [ref EXCEPT !.text = RenamedText(ref.text, names)] ELSE ref
      /\ trusted' = (trusted /\ ~(names # {} /\ Meets("rename")))
  BY DEF RenameInvalidSchemas, Moved
<1>3. Shape /\ Placed /\ Named /\ NothingLostSilently
  BY DEF ToolsInv
<1>4. /\ todo' \subseteq fixed' /\ fixed' \subseteq DOMAIN Pipeline /\ verdict = "none"
      /\ "prune" \notin fixed' \ todo'
  BY <1>1, <1>3, StepIn
<1>5. trusted' \in BOOLEAN /\ (trusted' => trusted)
  BY <1>2
<1>6. /\ version \in Versions /\ IsPlace(site) /\ DOMAIN defined \subseteq Names /\ defined \in [DOMAIN defined -> Components]
      /\ ref \in [state : {"there", "removed", "lost", "inlined"}, family : {20, 30}, bare : BOOLEAN, text : Names]
  BY <1>3 DEF Shape, TypeOK
<1>7. names \subseteq DOMAIN defined /\ \A n \in names : n \in {"Odd", "OddText"} /\ NewName(n) \in Names
  BY MovesIn
<1>8. OfSchemas => names = Moving(version)
  BY DEF Moving
<1>9. ~ OfSchemas => names = {}
  OBVIOUS
<1> HIDE DEF names
<1>10. /\ ref' = [state |-> ref.state, family |-> ref.family, bare |-> ref.bare, text |-> ref'.text]
       /\ ref'.text \in Names
       /\ ref'.text = IF Exists /\ Reaches(Renamed[version], site) THEN RenamedText(ref.text, names) ELSE ref.text
  <2>1. RenamedText(ref.text, names) \in Names
    BY <1>6, <1>7 DEF RenamedText
  <2> QED
    BY <1>2, <1>6, <2>1
<1>11. TypeOK'
  <2>1. DOMAIN defined' \subseteq Names /\ defined' \in [DOMAIN defined' -> Components]
    <3> DEFINE moved == {NewName(n) : n \in names}
               at(m) == IF m \in moved THEN defined[CHOOSE n \in names : NewName(n) = m] ELSE defined[m]
    <3>1. defined' = [m \in moved \cup (DOMAIN defined \ names) |-> at(m)]
      BY <1>2 DEF Moved
    <3>2. ASSUME NEW m \in moved PROVE at(m) \in Components
      <4>1. (CHOOSE n \in names : NewName(n) = m) \in names
        OBVIOUS
      <4> QED
        BY <1>6, <1>7, <4>1
    <3>3. ASSUME NEW m \in DOMAIN defined, m \notin moved PROVE at(m) \in Components
      BY <1>6, <3>3
    <3>4. moved \subseteq Names
      BY <1>7
    <3> HIDE DEF at, moved
    <3> QED
      BY <1>6, <3>1, <3>2, <3>3, <3>4
  <2> QED
    BY <1>1, <1>3, <1>4, <1>5, <1>6, <1>10, <2>1 DEF Shape, TypeOK
<1>12. ref'.state = ref.state /\ ref'.bare = ref.bare /\ ref'.family = ref.family
  BY <1>10
<1>13. Shape'
  BY <1>1, <1>3, <1>4, <1>11, <1>12 DEF Shape, InPool, Exists
<1>14. Placed'
  BY <1>1, <1>3, <1>5, <1>12, PlacedKept
<1>15. Named'
  <2> SUFFICES ASSUME trusted', Exists'
               PROVE  IF meant' = "none" THEN Unmeant(ref'.text, defined')
                      ELSE Means(ref'.text, defined', meant') /\ (ref'.bare \/ ref'.family = Family(version'))
    BY DEF Named
  <2>1. trusted /\ Exists
    BY <1>5, <1>12 DEF Exists
  <2>2. CASE names = {}
    <3>1. defined' = defined /\ ref'.text = ref.text
      <4>1. defined = [n \in DOMAIN defined |-> defined[n]]
        BY <1>6
      <4> QED
        BY <1>2, <1>10, <2>2, <4>1, NothingMoved
    <3> QED
      BY <1>1, <1>3, <1>12, <2>1, <3>1 DEF Named
  <2>3. CASE names # {}
    <3>1. OfSchemas /\ names = Moving(version)
      BY <1>8, <1>9, <2>3
    <3>2. meant # "none"
      <4> SUFFICES ASSUME meant = "none" PROVE FALSE
        OBVIOUS
      <4>1. DOMAIN defined \subseteq {"Fine"}
        BY <1>3, <2>1 DEF Named, Unmeant
      <4> QED
        BY <1>7, <2>3, <4>1
    <3>3. Means(ref.text, defined, meant) /\ (ref.bare \/ ref.family = Family(version))
      BY <1>3, <2>1, <3>2 DEF Named
    <3>4. Steps(site) \cap RenameGaps = {}
      BY <1>2, <2>1, <2>3, RenameMisses
    <3>5. InGrammar(site, version)
      BY <1>3, <2>1 DEF Placed
    <3>6. Reaches(Renamed[version], site)
      BY <1>6, <3>1, <3>4, <3>5, RenameReaches DEF OfSchemas
    <3>7. Means(RenamedText(ref.text, names), defined', meant)
      BY <1>2, <2>3, <3>1, <3>3, RenameMeans
    <3> QED
      BY <1>1, <1>10, <1>12, <2>1, <3>2, <3>3, <3>6, <3>7
  <2> QED
    BY <2>2, <2>3
<1>16. NothingLostSilently'
  BY <1>1, <1>3, <1>5, <1>12 DEF NothingLostSilently
<1> QED
  BY <1>1, <1>4, <1>13, <1>14, <1>15, <1>16 DEF ToolsInv, Swept, ValidatorAgrees

\* Pruning.
LEMMA PruneKeeps ==
    ASSUME ToolsInv, PruneUnusedSchemas
    PROVE  ToolsInv'
<1>1. UNCHANGED <<version, site, empty, fixed, reported, verdict, meant, tools>> /\ Step("prune")
  BY DEF PruneUnusedSchemas
<1>2. /\ defined' = IF OfSchemas THEN [n \in Referenced |-> defined[n]] ELSE defined
      /\ host' = IF host = "unused" THEN "pruned" ELSE host
      /\ ref' = IF host = "unused" THEN [ref EXCEPT !.state = "removed"] ELSE ref
      /\ trusted' = (trusted /\ ~(OfSchemas /\ Meets("prune")))
  BY DEF PruneUnusedSchemas
<1>3. Shape /\ Placed /\ Named /\ NothingLostSilently
  BY DEF ToolsInv
<1>4. /\ todo' \subseteq fixed' /\ fixed' \subseteq DOMAIN Pipeline /\ verdict = "none"
      /\ "prune" \in fixed' \ todo' => todo' \subseteq {"pruneEmpty"}
  BY <1>1, <1>3, StepIn
<1>5. trusted' \in BOOLEAN /\ (trusted' => trusted)
  BY <1>2
<1>6. /\ version \in Versions /\ IsPlace(site) /\ DOMAIN defined \subseteq Names /\ defined \in [DOMAIN defined -> Components]
      /\ ref \in [state : {"there", "removed", "lost", "inlined"}, family : {20, 30}, bare : BOOLEAN, text : Names]
      /\ host \in {"none", "unused", "used", "pruned"}
  BY <1>3 DEF Shape, TypeOK
<1>7. Referenced \subseteq DOMAIN defined
  BY DEF Referenced, Spelled
<1>8. /\ ref' = [state |-> ref'.state, family |-> ref.family, bare |-> ref.bare, text |-> ref.text]
      /\ ref'.state = IF host = "unused" THEN "removed" ELSE ref.state
  BY <1>2, <1>6
<1>9. ref'.text = ref.text /\ ref'.bare = ref.bare /\ ref'.family = ref.family
  BY <1>8
<1>10. TypeOK'
  <2>1. DOMAIN defined' \subseteq Names /\ defined' \in [DOMAIN defined' -> Components]
    <3> HIDE DEF Referenced
    <3> QED
      BY <1>2, <1>6, <1>7
  <2>2. ref' \in [state : {"there", "removed", "lost", "inlined"}, family : {20, 30}, bare : BOOLEAN, text : Names]
    BY <1>6, <1>8
  <2> QED
    BY <1>1, <1>2, <1>3, <1>4, <1>5, <2>1, <2>2 DEF Shape, TypeOK
<1>11. Exists' => Exists /\ host # "unused"
  BY <1>8 DEF Exists
<1>12. Shape'
  BY <1>1, <1>2, <1>3, <1>4, <1>10, <1>11 DEF Shape, InPool
<1>13. Placed'
  BY <1>1, <1>3, <1>5, <1>9, <1>11, PlacedKept DEF Exists
<1>14. Named'
  <2> SUFFICES ASSUME trusted', Exists'
               PROVE  IF meant' = "none" THEN Unmeant(ref'.text, defined')
                      ELSE Means(ref'.text, defined', meant') /\ (ref'.bare \/ ref'.family = Family(version'))
    BY DEF Named
  <2>1. trusted /\ Exists /\ host # "unused"
    BY <1>5, <1>11
  <2>2. CASE ~ OfSchemas
    <3>1. defined' = defined
      BY <1>2, <2>2
    <3> QED
      BY <1>1, <1>3, <1>9, <2>1, <3>1 DEF Named
  <2>3. CASE OfSchemas /\ meant = "none"
    <3>1. Unmeant(ref.text, defined)
      BY <1>3, <2>1, <2>3 DEF Named
    <3>2. Unmeant(ref.text, defined')
      <4> HIDE DEF Referenced
      <4>1. DOMAIN defined' = Referenced /\ \A n \in Referenced : defined'[n] = defined[n]
        BY <1>2, <2>3
      <4> QED
        BY <1>7, <3>1, <4>1 DEF Unmeant
    <3> QED
      BY <1>1, <1>9, <2>3, <3>2
  <2>4. CASE OfSchemas /\ meant # "none"
    <3>1. Means(ref.text, defined, meant) /\ (ref.bare \/ ref.family = Family(version))
      BY <1>3, <2>1, <2>4 DEF Named
    <3>2. ~ Meets("prune")
      BY <1>2, <2>4
    <3>3. Steps(site) \cap CollectGaps = {} /\ (~ ref.bare \/ InPool)
      BY <2>1, <3>2, PruneMisses
    <3>4. InGrammar(site, version)
      BY <1>3, <2>1 DEF Placed
    <3>5. Spelled(ref.text) \subseteq Referenced
      <4>1. CASE InPool
        <5>1. host = "used"
          BY <1>3, <2>1, <4>1 DEF Shape
        <5>2. Steps(site) \subseteq {<<"Document", "schemas">>} \cup Followed
          BY <1>6, <4>1, PoolFollowed DEF InPool
        <5> QED
          BY <2>1, <4>1, <5>1, <5>2 DEF Referenced
      <4>2. CASE ~ InPool
        <5>1. Reaches(Collected[version], site)
          BY <1>6, <3>3, <3>4, CollectReaches
        <5> QED
          BY <2>1, <3>3, <4>2, <5>1 DEF Referenced, EntryPoint
      <4> QED
        BY <4>1, <4>2
    <3>6. Means(ref.text, defined', meant)
      <4>1. {ref.text, Decoded(ref.text)} \cap DOMAIN defined \subseteq Referenced
        BY <3>5 DEF Spelled
      <4> HIDE DEF Referenced
      <4> QED
        BY <1>2, <1>7, <2>4, <3>1, <4>1, PruneMeans
    <3> QED
      BY <1>1, <1>9, <2>4, <3>1, <3>6
  <2> QED
    BY <2>2, <2>3, <2>4
<1>15. NothingLostSilently'
  <2>1. ref'.state = "lost" => ref.state = "lost"
    BY <1>8
  <2> QED
    BY <1>1, <1>3, <1>5, <2>1 DEF NothingLostSilently
<1>16. Swept'
  <2> SUFFICES ASSUME OfSchemas', NEW n \in DOMAIN defined'
               PROVE  defined'[n] \in {"N", "L"} \/ (Exists' /\ n \in Spelled(ref.text)')
    BY DEF Swept
  <2>1. OfSchemas
    BY <1>1 DEF OfSchemas
  <2>2. n \in Referenced /\ defined'[n] = defined[n] /\ DOMAIN defined' = Referenced
    <3> HIDE DEF Referenced
    <3> QED
      BY <1>2, <2>1
  <2>3. CASE defined[n] \in {"N", "L"}
    BY <2>2, <2>3
  <2>4. CASE defined[n] \notin {"N", "L"}
    <3>1. Exists /\ n \in Spelled(ref.text) /\ (~ InPool \/ host = "used")
      BY <2>2, <2>4 DEF Referenced, EntryPoint
    <3>2. host # "unused"
      BY <1>3, <3>1 DEF Shape
    <3>3. Exists'
      BY <1>8, <3>1, <3>2 DEF Exists
    <3>4. n \in {ref.text, Decoded(ref.text)}
      BY <3>1 DEF Spelled
    <3>5. n \in Spelled(ref.text)'
      BY <1>9, <2>2, <3>4 DEF Spelled
    <3> QED
      BY <3>3, <3>5
  <2> QED
    BY <2>3, <2>4
<1> QED
  BY <1>1, <1>4, <1>12, <1>13, <1>14, <1>15, <1>16 DEF ToolsInv, ValidatorAgrees

\* Path items that have no operation go.
LEMMA PruneEmptyKeeps ==
    ASSUME ToolsInv, PruneEmptyPaths
    PROVE  ToolsInv'
<1>1. /\ UNCHANGED <<version, site, defined, host, empty, fixed, reported, verdict, meant, trusted, tools>>
      /\ Step("pruneEmpty") /\ ref' = IF empty THEN [ref EXCEPT !.state = "removed"] ELSE ref
  BY DEF PruneEmptyPaths
<1>2. Shape /\ Placed /\ Named /\ NothingLostSilently
  BY DEF ToolsInv
<1>3. /\ todo' \subseteq fixed' /\ fixed' \subseteq DOMAIN Pipeline /\ verdict = "none" /\ "pruneEmpty" \in fixed
      /\ "prune" \in fixed' \ todo' => todo' \subseteq {"pruneEmpty"}
  BY <1>1, <1>2, StepIn
<1>4. ref \in [state : {"there", "removed", "lost", "inlined"}, family : {20, 30}, bare : BOOLEAN, text : Names]
  BY <1>2 DEF Shape, TypeOK
<1>5. /\ ref' = [state |-> ref'.state, family |-> ref.family, bare |-> ref.bare, text |-> ref.text]
      /\ ref'.state \in {"removed", ref.state}
  BY <1>1, <1>4
<1>6. ref'.text = ref.text /\ ref'.bare = ref.bare /\ ref'.family = ref.family
  BY <1>5
<1>7. Exists' => Exists
  BY <1>5 DEF Exists
<1>8. TypeOK'
  <2>1. ref' \in [state : {"there", "removed", "lost", "inlined"}, family : {20, 30}, bare : BOOLEAN, text : Names]
    BY <1>4, <1>5
  <2> QED
    BY <1>1, <1>2, <1>3, <2>1 DEF Shape, TypeOK
<1>9. Shape'
  BY <1>1, <1>2, <1>3, <1>7, <1>8 DEF Shape, InPool
<1>10. Placed'
  BY <1>1, <1>2, <1>6, <1>7, PlacedKept DEF Exists
<1>11. Named'
  BY <1>1, <1>2, <1>6, <1>7 DEF Named
<1>12. NothingLostSilently'
  BY <1>1, <1>2, <1>5 DEF NothingLostSilently
<1>13. Swept'
  BY <1>1, <1>3 DEF Swept
<1> QED
  BY <1>1, <1>3, <1>9, <1>10, <1>11, <1>12, <1>13 DEF ToolsInv, ValidatorAgrees

-----------------------------------------------------------------------------
\* A tool outside the pipeline has nothing of it to keep.
LEMMA ToolIs ==
    ASSUME Tool
    PROVE  /\ todo' = {} /\ fixed' = {} /\ trusted /\ Swept'
           /\ tools \in 0..MaxTools => tools' \in 0..MaxTools
BY MaxToolsAssumption DEF Tool, Swept

\* Joining.
LEMMA JoinKeeps ==
    ASSUME ToolsInv, Join
    PROVE  ToolsInv'
<1>1. UNCHANGED <<version, site, host, empty, reported, meant>> /\ Tool /\ verdict' = "none" /\ OfSchemas
  BY DEF Join
<1>2. trusted' = (trusted /\ ~ Meets("join"))
  BY DEF Join
<1>3. PICK n \in DOMAIN defined :
          /\ defined[n] = "T" /\ n # "Joined"
          /\ defined' = With(With(defined, n, "L"), "Joined", "T")
          /\ ref' = IF Exists /\ ref.text = n /\ Reaches(Rewritten[version], site)
                    THEN [ref EXCEPT !.text = "Joined"] ELSE ref
  BY DEF Join
<1>4. Shape /\ Placed /\ Named /\ NothingLostSilently
  BY DEF ToolsInv
<1>5. todo' = {} /\ fixed' = {} /\ Swept' /\ (tools \in 0..MaxTools => tools' \in 0..MaxTools)
  BY <1>1, ToolIs
<1>6. trusted' \in BOOLEAN /\ (trusted' => trusted)
  BY <1>2
<1>7. /\ version \in Versions /\ IsPlace(site) /\ DOMAIN defined \subseteq Names /\ defined \in [DOMAIN defined -> Components]
      /\ ref \in [state : {"there", "removed", "lost", "inlined"}, family : {20, 30}, bare : BOOLEAN, text : Names]
  BY <1>4 DEF Shape, TypeOK
<1>8. /\ ref' = [state |-> ref.state, family |-> ref.family, bare |-> ref.bare, text |-> ref'.text]
      /\ ref'.text = IF Exists /\ ref.text = n /\ Reaches(Rewritten[version], site) THEN "Joined" ELSE ref.text
  BY <1>3, <1>7
<1>9. ref'.state = ref.state /\ ref'.bare = ref.bare /\ ref'.family = ref.family
  BY <1>8
<1>10. TypeOK'
  <2>1. DOMAIN defined' \subseteq Names /\ defined' \in [DOMAIN defined' -> Components]
    BY <1>3, <1>7, NamesAre DEF With, Components
  <2>2. ref' \in [state : {"there", "removed", "lost", "inlined"}, family : {20, 30}, bare : BOOLEAN, text : Names]
    BY <1>7, <1>8, NamesAre
  <2> QED
    BY <1>1, <1>4, <1>5, <1>6, <2>1, <2>2 DEF Shape, TypeOK
<1>11. Shape'
  BY <1>1, <1>4, <1>5, <1>9, <1>10 DEF Shape, InPool, Exists
<1>12. Placed'
  BY <1>1, <1>4, <1>6, <1>9, PlacedKept
<1>13. Named'
  <2> SUFFICES ASSUME trusted', Exists'
               PROVE  IF meant' = "none" THEN Unmeant(ref'.text, defined')
                      ELSE Means(ref'.text, defined', meant') /\ (ref'.bare \/ ref'.family = Family(version'))
    BY DEF Named
  <2>1. trusted /\ Exists /\ ~ Meets("join")
    BY <1>2, <1>9 DEF Exists
  <2>2. meant # "none"
    BY <1>3, <1>4, <2>1 DEF Named, Unmeant
  <2>3. Means(ref.text, defined, meant) /\ (ref.bare \/ ref.family = Family(version))
    BY <1>4, <2>1, <2>2 DEF Named
  <2>4. Steps(site) \cap JoinGaps = {} /\ (ref.text \in DOMAIN defined \/ Denotes(ref.text, defined) = "none")
    BY <2>1, JoinMisses
  <2>5. InGrammar(site, version)
    BY <1>4, <2>1 DEF Placed
  <2>6. Reaches(Rewritten[version], site)
    BY <1>1, <1>7, <2>4, <2>5, RewriteReaches DEF OfSchemas
  <2>7. ref'.text = IF ref.text = n THEN "Joined" ELSE ref.text
    BY <1>8, <2>1, <2>6
  <2>8. Means(ref'.text, defined', meant)
    BY <1>3, <2>3, <2>4, <2>7, JoinMeans
  <2> QED
    BY <1>1, <1>9, <2>2, <2>3, <2>8
<1>14. NothingLostSilently'
  BY <1>1, <1>4, <1>6, <1>9 DEF NothingLostSilently
<1> QED
  BY <1>1, <1>5, <1>11, <1>12, <1>13, <1>14 DEF ToolsInv, ValidatorAgrees

\* To 3.x.
LEMMA PromoteKeeps ==
    ASSUME ToolsInv, NEW target \in {30, 31, 32}, Promote(target)
    PROVE  ToolsInv'
<1>1. UNCHANGED <<defined, host, empty, reported, meant>> /\ Tool /\ verdict' = "none" /\ version = 20 /\ version' = target
  BY DEF Promote
<1>2. /\ ~ Exists => UNCHANGED <<ref, site>>
      /\ Exists /\ Promoted(site) => site' = PromotedPlace(site) /\ ref' = [ref EXCEPT !.family = 30]
      /\ Exists /\ ~ Promoted(site) => ref' = Lost /\ UNCHANGED site
  BY DEF Promote
<1>3. trusted' = (trusted /\ (ref'.state = "there" => InGrammar(site', target)) /\ ~ Meets("promote"))
  BY DEF Promote
<1>4. Shape /\ Placed /\ Named /\ NothingLostSilently
  BY DEF ToolsInv
<1>5. todo' = {} /\ fixed' = {} /\ Swept' /\ (tools \in 0..MaxTools => tools' \in 0..MaxTools) /\ trusted
  BY <1>1, ToolIs
<1>6. trusted' \in BOOLEAN
  BY <1>3
<1>7. /\ IsPlace(site)
      /\ ref \in [state : {"there", "removed", "lost", "inlined"}, family : {20, 30}, bare : BOOLEAN, text : Names]
  BY <1>4 DEF Shape, TypeOK
<1>8. /\ ref' = [state |-> ref'.state, family |-> ref'.family, bare |-> ref.bare, text |-> ref.text]
      /\ ref'.state \in {"lost", ref.state} /\ ref'.family \in {30, ref.family}
      /\ Exists' => Exists /\ Promoted(site) /\ ref'.family = 30
  BY <1>2, <1>7 DEF Lost, Exists
<1>9. ref'.text = ref.text /\ ref'.bare = ref.bare
  BY <1>8
<1>10. IsPlace(site') /\ site'[1] = site[1] /\ (Exists' /\ Kind(site) = "Target" => Kind(site') = "Target")
  <2>1. CASE Exists /\ Promoted(site)
    BY <1>2, <1>7, <2>1, PromotedIs DEF Promoted
  <2>2. CASE ~ (Exists /\ Promoted(site))
    BY <1>2, <1>7, <2>2
  <2> QED
    BY <2>1, <2>2
<1>11. TypeOK'
  <2>1. ref' \in [state : {"there", "removed", "lost", "inlined"}, family : {20, 30}, bare : BOOLEAN, text : Names]
    BY <1>7, <1>8
  <2>2. version' \in Versions
    BY <1>1 DEF Versions
  <2> QED
    BY <1>1, <1>4, <1>5, <1>6, <1>10, <2>1, <2>2 DEF Shape, TypeOK
<1>12. Shape'
  BY <1>1, <1>4, <1>5, <1>8, <1>10, <1>11 DEF Shape, InPool
<1>13. Placed'
  <2> SUFFICES ASSUME trusted', Exists'
               PROVE  InGrammar(site', version') /\ (version' = 20 => Kind(site') # "PathItem") /\ (ref'.bare => Kind(site') = "Target")
    BY DEF Placed
  <2>1. InGrammar(site', target)
    BY <1>3 DEF Exists
  <2>2. ref.bare => Kind(site) = "Target"
    BY <1>4, <1>5, <1>8 DEF Placed
  <2> QED
    BY <1>1, <1>9, <1>10, <2>1, <2>2
<1>14. Named'
  <2> SUFFICES ASSUME Exists'
               PROVE  IF meant' = "none" THEN Unmeant(ref'.text, defined')
                      ELSE Means(ref'.text, defined', meant') /\ (ref'.bare \/ ref'.family = Family(version'))
    BY DEF Named
  <2>1. ref'.family = Family(version') /\ Exists
    BY <1>1, <1>8 DEF Family
  <2> QED
    BY <1>1, <1>4, <1>5, <1>9, <2>1 DEF Named
<1>15. NothingLostSilently'
  <2> SUFFICES ASSUME trusted', ref'.state = "lost" PROVE reported'
    BY DEF NothingLostSilently
  <2>1. CASE ~ Exists
    BY <1>1, <1>2, <1>4, <1>5, <2>1 DEF NothingLostSilently
  <2>2. CASE Exists
    <3>1. ~ Promoted(site)
      BY <1>2, <1>7, <2>2 DEF Exists
    <3>2. InGrammar(site, 20) /\ Kind(site) # "PathItem"
      BY <1>1, <1>4, <1>5, <2>2 DEF Placed
    <3>3. Reaches(Promotes, site)
      BY <1>7, <3>2, PromotesAll
    <3>4. ~ Meets("promote")
      BY <1>3
    <3>5. Kind(site) # "Response"
      BY <2>2, <3>4, PromoteMisses
    <3> QED
      BY <3>1, <3>2, <3>3, <3>5 DEF Promoted
  <2> QED
    BY <2>1, <2>2
<1> QED
  BY <1>1, <1>5, <1>12, <1>13, <1>14, <1>15 DEF ToolsInv, ValidatorAgrees

\* To 2.0.
LEMMA DemoteKeeps ==
    ASSUME ToolsInv, Demote
    PROVE  ToolsInv'
<1>1. UNCHANGED <<defined, host, empty, meant>> /\ Tool /\ verdict' = "none" /\ version > 20 /\ version' = 20
  BY DEF Demote
<1>2. /\ ~ Exists => UNCHANGED <<ref, site, reported>>
      /\ Exists /\ ~ Demoted(site) => ref' = Lost /\ reported' = DemotionReported(site) /\ UNCHANGED site
      /\ Exists /\ Demoted(site) =>
            /\ site' = DemotedPlace(site)
            /\ ref' = IF Inlines(site) THEN [ref EXCEPT !.state = "inlined"]
                      ELSE IF Kind(site) = "Header" THEN ref ELSE [ref EXCEPT !.family = 20]
            /\ UNCHANGED reported
  BY DEF Demote
<1>3. trusted' = (trusted /\ (ref'.state = "there" => InGrammar(site', 20)) /\ ~ Meets("demote"))
  BY DEF Demote
<1>4. Shape /\ Placed /\ Named /\ NothingLostSilently
  BY DEF ToolsInv
<1>5. todo' = {} /\ fixed' = {} /\ Swept' /\ (tools \in 0..MaxTools => tools' \in 0..MaxTools) /\ trusted
  BY <1>1, ToolIs
<1>6. trusted' \in BOOLEAN
  BY <1>3
<1>7. /\ IsPlace(site) /\ version \in Versions /\ reported \in BOOLEAN
      /\ ref \in [state : {"there", "removed", "lost", "inlined"}, family : {20, 30}, bare : BOOLEAN, text : Names]
  BY <1>4 DEF Shape, TypeOK
<1>8. /\ ref' = [state |-> ref'.state, family |-> ref'.family, bare |-> ref.bare, text |-> ref.text]
      /\ ref'.state \in {"lost", "inlined", ref.state} /\ ref'.family \in {20, ref.family}
      /\ Exists' => Exists /\ Demoted(site) /\ ~ Inlines(site) /\ (Kind(site) = "Header" \/ ref'.family = 20)
      /\ ref'.state = "lost" => ref.state = "lost" \/ (Exists /\ ~ Demoted(site))
  BY <1>2, <1>7 DEF Lost, Exists
<1>9. ref'.text = ref.text /\ ref'.bare = ref.bare
  BY <1>8
<1>10. /\ IsPlace(site') /\ site'[1] = site[1]
       /\ Exists' /\ Kind(site) = "Target" => Kind(site') = "Target"
       /\ Exists' => Kind(site') # "PathItem"
  <2>1. CASE Exists /\ Demoted(site)
    BY <1>2, <1>7, <2>1, DemotedIs DEF Demoted
  <2>2. CASE ~ (Exists /\ Demoted(site))
    BY <1>2, <1>7, <1>8, <2>2
  <2> QED
    BY <2>1, <2>2
<1>11. reported' \in BOOLEAN
  BY <1>2, <1>7 DEF DemotionReported
<1>12. TypeOK'
  <2>1. ref' \in [state : {"there", "removed", "lost", "inlined"}, family : {20, 30}, bare : BOOLEAN, text : Names]
    BY <1>7, <1>8
  <2>2. version' \in Versions
    BY <1>1 DEF Versions
  <2> QED
    BY <1>1, <1>4, <1>5, <1>6, <1>10, <1>11, <2>1, <2>2 DEF Shape, TypeOK
<1>13. Shape'
  BY <1>1, <1>4, <1>5, <1>8, <1>10, <1>12 DEF Shape, InPool
<1>14. Placed'
  <2> SUFFICES ASSUME trusted', Exists'
               PROVE  InGrammar(site', version') /\ (version' = 20 => Kind(site') # "PathItem") /\ (ref'.bare => Kind(site') = "Target")
    BY DEF Placed
  <2>1. InGrammar(site', 20)
    BY <1>3 DEF Exists
  <2>2. ref.bare => Kind(site) = "Target"
    BY <1>4, <1>5, <1>8 DEF Placed
  <2> QED
    BY <1>1, <1>9, <1>10, <2>1, <2>2
<1>15. Named'
  <2> SUFFICES ASSUME trusted', Exists'
               PROVE  IF meant' = "none" THEN Unmeant(ref'.text, defined')
                      ELSE Means(ref'.text, defined', meant') /\ (ref'.bare \/ ref'.family = Family(version'))
    BY DEF Named
  <2>1. Exists /\ ~ Inlines(site)
    BY <1>8
  <2>4. ~ Meets("demote")
    BY <1>3
  <2>2. CASE meant = "none"
    BY <1>1, <1>4, <1>5, <1>9, <2>1, <2>2 DEF Named
  <2>3. CASE meant # "none"
    <3>1. Means(ref.text, defined, meant)
      BY <1>4, <1>5, <2>1, <2>3 DEF Named
    <3>2. Kind(site) # "Header"
      BY <2>1, <2>4, <3>1, DemoteMisses DEF Means, Inlines
    <3>3. ref'.family = Family(version')
      BY <1>1, <1>8, <3>2 DEF Family
    <3> QED
      BY <1>1, <1>9, <2>3, <3>1, <3>3
  <2> QED
    BY <2>2, <2>3
<1>16. NothingLostSilently'
  <2> SUFFICES ASSUME trusted', ref'.state = "lost" PROVE reported'
    BY DEF NothingLostSilently
  <2>1. CASE Exists /\ ~ Demoted(site)
    <3>1. version \in {30, 31, 32}
      BY <1>1, <1>7, VersionsAre
    <3>2. InGrammar(site, version)
      BY <1>4, <1>5, <2>1 DEF Placed
    <3>3. ~ Meets("demote")
      BY <1>3
    <3>4. /\ Kind(site) \notin {"Response", "PathItem", "RequestBody"} /\ Steps(site) \cap DemoteGaps = {}
          /\ Steps(site) \cap Item # {} => <<"Operation", "default">> \notin Steps(site)
      BY <2>1, <3>3, DemoteMisses
    <3>5. DemotionReported(site)
      BY <1>7, <2>1, <3>1, <3>2, <3>4, LossReported
    <3> QED
      BY <1>2, <2>1, <3>5
  <2>2. CASE ref.state = "lost"
    BY <1>2, <1>4, <1>5, <2>2 DEF NothingLostSilently, Exists
  <2> QED
    BY <1>8, <2>1, <2>2
<1> QED
  BY <1>1, <1>5, <1>13, <1>14, <1>15, <1>16 DEF ToolsInv, ValidatorAgrees

\* From one version of 3.x to another.
LEMMA RestampKeeps ==
    ASSUME ToolsInv, NEW target \in {30, 31, 32}, Restamp(target)
    PROVE  ToolsInv'
<1>1. /\ UNCHANGED <<site, ref, defined, host, empty, reported, meant>> /\ Tool /\ verdict' = "none"
      /\ version > 20 /\ version' = target /\ trusted' = (trusted /\ InGrammar(site, target))
  BY DEF Restamp
<1>2. Shape /\ Placed /\ Named /\ NothingLostSilently
  BY DEF ToolsInv
<1>3. todo' = {} /\ fixed' = {} /\ Swept' /\ (tools \in 0..MaxTools => tools' \in 0..MaxTools) /\ trusted
  BY <1>1, ToolIs
<1>4. version' \in Versions /\ Family(version') = Family(version)
  <2>1. version \in {30, 31, 32}
    BY <1>1, <1>2, VersionsAre DEF Shape, TypeOK
  <2> QED
    BY <1>1, <2>1 DEF Versions, Family
<1>5. trusted' \in BOOLEAN
  BY <1>1
<1>6. TypeOK'
  BY <1>1, <1>2, <1>3, <1>4, <1>5 DEF Shape, TypeOK
<1>7. Shape'
  BY <1>1, <1>2, <1>3, <1>6 DEF Shape, InPool, Exists
<1>8. Placed'
  <2> SUFFICES ASSUME trusted', Exists'
               PROVE  InGrammar(site', version') /\ (version' = 20 => Kind(site') # "PathItem") /\ (ref'.bare => Kind(site') = "Target")
    BY DEF Placed
  <2>1. InGrammar(site, target) /\ Exists
    BY <1>1 DEF Exists
  <2>2. ref.bare => Kind(site) = "Target"
    BY <1>2, <1>3, <2>1 DEF Placed
  <2> QED
    BY <1>1, <2>1, <2>2
<1>9. Named'
  BY <1>1, <1>2, <1>3, <1>4 DEF Named, Exists
<1>10. NothingLostSilently'
  BY <1>1, <1>2, <1>3 DEF NothingLostSilently
<1> QED
  BY <1>1, <1>3, <1>7, <1>8, <1>9, <1>10 DEF ToolsInv, ValidatorAgrees

\* Validating.
LEMMA ValidateKeeps ==
    ASSUME ToolsInv, Validate
    PROVE  ToolsInv'
<1>1. UNCHANGED <<version, site, ref, defined, host, empty, reported, meant, trusted>> /\ Tool
  BY DEF Validate
<1>2. verdict' = IF Exists /\ ~ ref.bare /\ Checked(version, site) /\ ~ Resolves THEN "dangling" ELSE "valid"
  BY DEF Validate
<1>3. Shape /\ Placed /\ Named /\ NothingLostSilently
  BY DEF ToolsInv
<1>4. todo' = {} /\ fixed' = {} /\ Swept' /\ (tools \in 0..MaxTools => tools' \in 0..MaxTools) /\ trusted
  BY <1>1, ToolIs
<1>5. TypeOK'
  BY <1>1, <1>2, <1>3, <1>4 DEF Shape, TypeOK
<1>6. Shape'
  BY <1>1, <1>3, <1>4, <1>5 DEF Shape, InPool, Exists
<1>7. Placed' /\ Named' /\ NothingLostSilently'
  BY <1>1, <1>3 DEF Placed, Named, NothingLostSilently, Exists
<1>8. Exists /\ ~ Meets("validate") =>
          (verdict' = "dangling" <=> Denotes(ref.text, defined) = "none" \/ ref.family # Family(version))
  <2> SUFFICES ASSUME Exists, ~ Meets("validate")
               PROVE  verdict' = "dangling" <=> Denotes(ref.text, defined) = "none" \/ ref.family # Family(version)
    OBVIOUS
  <2>1. /\ Kind(site) # "Target" /\ ~ AtWebhookParameters(site) /\ Steps(site) \cap ValidateGaps = {}
        /\ ref.text \in DOMAIN defined \/ Denotes(ref.text, defined) = "none"
    BY ValidateMisses
  <2>2. InGrammar(site, version) /\ ~ ref.bare
    BY <1>3, <1>4, <2>1 DEF Placed
  <2>3. Checked(version, site)
    BY <1>3, <2>1, <2>2, CheckReaches DEF Checked, Shape, TypeOK
  <2>4. verdict' = "dangling" <=> ~ Resolves
    BY <1>2, <2>2, <2>3
  <2>5. ref.text \in DOMAIN defined <=> Denotes(ref.text, defined) # "none"
    BY <1>3, <2>1, DenotesIs DEF Shape, TypeOK, Components
  <2> QED
    BY <2>4, <2>5 DEF Resolves
<1>9. ValidatorAgrees'
  <2>1. Exists' <=> Exists
    BY <1>1 DEF Exists
  <2>2. Meets("validate")' <=> Meets("validate")
    BY <1>1 DEF Meets, Traits, Exists, InPool
  <2> QED
    BY <1>1, <1>8, <2>1, <2>2 DEF ValidatorAgrees
<1> QED
  BY <1>4, <1>6, <1>7, <1>9 DEF ToolsInv

-----------------------------------------------------------------------------
LEMMA NextTools == ToolsInv /\ [Next]_vars => ToolsInv'
<1> SUFFICES ASSUME ToolsInv, [Next]_vars PROVE ToolsInv'
  OBVIOUS
<1>1. ASSUME NEW enabled \in SUBSET DOMAIN Pipeline \ {{}}, Fix(enabled) PROVE ToolsInv'
  BY <1>1, FixKeeps
<1>2. CASE StubMissingRefs
  BY <1>2, StubKeeps
<1>3. CASE RenameInvalidSchemas
  BY <1>3, RenameKeeps
<1>4. CASE PruneUnusedSchemas
  BY <1>4, PruneKeeps
<1>5. CASE PruneEmptyPaths
  BY <1>5, PruneEmptyKeeps
<1>6. CASE Join
  BY <1>6, JoinKeeps
<1>7. ASSUME NEW target \in {30, 31, 32}, Promote(target) \/ Restamp(target) PROVE ToolsInv'
  BY <1>7, PromoteKeeps, RestampKeeps
<1>8. CASE Demote
  BY <1>8, DemoteKeeps
<1>9. CASE Validate
  BY <1>9, ValidateKeeps
<1>10. CASE UNCHANGED vars
  BY <1>10 DEF vars, ToolsInv, Shape, TypeOK, Placed, Named, NothingLostSilently, Swept, ValidatorAgrees, InPool,
     Exists, OfSchemas, Spelled, Meets, Traits
<1> QED
  BY <1>1, <1>2, <1>3, <1>4, <1>5, <1>6, <1>7, <1>8, <1>9, <1>10 DEF Next

LEMMA ToolsAlways == Spec => []ToolsInv
BY InitTools, NextTools, PTL DEF Spec

\* The variables have their types, and the reference is at a place of the grammar,
\* whatever the conversions made of that place.
THEOREM ToolsKeepTypes == Spec => []TypeOK
<1>1. ToolsInv => TypeOK
  BY DEF ToolsInv, Shape
<1> QED
  BY <1>1, ToolsAlways, PTL

\* Whatever sequence of fixes, joins and conversions runs on a document, a reference
\* finds the component it was written for, in every place a document of that version
\* has, however deep, as long as no tool met what it is known to pass over.
THEOREM ToolsKeepMeaning == Spec => []ReferenceKeepsMeaning
<1>1. ToolsInv => ReferenceKeepsMeaning
  BY DEF ToolsInv, Named, Means, ReferenceKeepsMeaning
<1> QED
  BY <1>1, ToolsAlways, PTL

\* A conversion that drops a reference reports it, wherever the reference is.
THEOREM ToolsReportLosses == Spec => []NothingLostSilently
<1>1. ToolsInv => NothingLostSilently
  BY DEF ToolsInv
<1> QED
  BY <1>1, ToolsAlways, PTL

\* A pipeline that prunes leaves no schema that is not used.
THEOREM ToolsLeaveUsed == Spec => []FixLeavesUsed
<1>1. ToolsInv => FixLeavesUsed
  BY DEF ToolsInv, Swept, FixLeavesUsed
<1> QED
  BY <1>1, ToolsAlways, PTL

\* The validator reports a reference exactly when it denotes nothing, wherever in
\* the document it is, but for what it is known to pass over.
THEOREM ToolsValidateRightly == Spec => []ValidatorAgrees
<1>1. ToolsInv => ValidatorAgrees
  BY DEF ToolsInv
<1> QED
  BY <1>1, ToolsAlways, PTL
===============================================================================
