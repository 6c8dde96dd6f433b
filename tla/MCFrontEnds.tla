---------------------------- MODULE MCFrontEnds -----------------------------
(* Instances of FrontEnds for TLC: every field of every kind of object, in   *)
(* each of the ways a document can get to an object of the kind, with every  *)
(* peculiarity of the field.                                                 *)
EXTENDS FrontEnds

\* An object's fields that hold an object.
ObjectKinds == DOMAIN Object \cup DOMAIN Plain
Inner(kind, v) == {f \in DOMAIN FieldsOf(kind) : Belongs(<<kind, f>>, v) /\ KindOf(<<kind, f>>) \in ObjectKinds}

Pool   == <<<<"Document", "schemas">>>>
Inline == <<<<"Document", "paths">>, <<"PathItem", "get">>, <<"Operation", "parameters">>,
            <<"Parameter", "schema">>>>
Body   == <<<<"Document", "requestBodies">>, <<"RequestBody", "content">>>>

\* What is of each kind is taken apart in one or two places only: schemas in the
\* pool and in a parameter, encodings in the document's request bodies, and
\* operations under paths; those elsewhere as far as their schemas.
InUse == <<<<"Document", "paths">>, <<"PathItem", "get">>>>
Wanted(path, s) ==
    /\ s \notin Steps(path) \/ path = Append(InUse, <<"Operation", "callbacks">>)
    /\ s[1] = "Schema" => path \in {Pool, Inline}
    /\ s[2] \in {"trace", "query", "additionalOperations"} => path = <<<<"Document", "paths">>>>
    /\ s[2] = "callbacks" => path = InUse
    /\ s[1] \in {"Encoding", "Items"} => Len(path) < 5
    /\ s[1] = "Encoding" /\ s[2] # "headers" => path = Append(Body, <<"MediaType", "encoding">>)
    /\ path[1] \in In("Document", {"paths", "webhooks", "pathItems", "callbacks"}) /\ Len(path) > 2 =>
           \/ s[2] \in {"schema", "content"} \/ SubSeq(path, 1, 2) = InUse
    /\ <<"Operation", "callbacks">> \in Steps(path) =>
           s[2] \in {"get", "parameters", "requestBody", "content", "schema"}

Ends(path) == KindOf(path[Len(path)])
Grown(paths, v) ==
    paths \cup UNION {{Append(p, <<Ends(p), f>>) : f \in {f \in Inner(Ends(p), v) : Wanted(p, <<Ends(p), f>>)}}
                         : p \in {p \in paths : Ends(p) \in ObjectKinds}}
G1(v) == {<<<<"Document", f>>>> : f \in Inner("Document", v)}
G3(v) == Grown(Grown(G1(v), v), v)
G5(v) == Grown(Grown(G3(v), v), v)
G7(v) == Grown(Grown(G5(v), v), v)

\* What can be peculiar about a field, beside that a document has it.
Peculiar ==
    Flawed("Document", {"info", "paths"}, "missing") \cup Flawed("Document", {"security"}, "undefined")
    \cup {<<"Document", "schemas">>} \X {"slashName", "genericName", "blankName"}
    \cup Flawed("Info", {"title", "version"}, "missing") \cup Flawed("Contact", {"url", "email"}, "malformed")
    \cup Flawed("License", {"url", "identifier"}, "malformed") \cup Flawed("Server", {"url"}, "missing")
    \cup {<<"ServerVariable", "default">>} \X {"missing", "outside"}
    \cup Flawed("ServerVariable", {"enum"}, "empty")
    \cup Flawed("SecurityScheme", {"type", "name", "in", "scheme", "flows", "flow", "openIdConnectUrl"}, "missing")
    \cup In("SecurityScheme", {"authorizationUrl", "tokenUrl"}) \X {"missing", "malformed"}
    \cup In("OAuthFlow", {"authorizationUrl", "tokenUrl"}) \X {"missing", "malformed"}
    \cup {<<"PathItem", "name">>} \X {"noSlash", "malformed"} \cup Flawed("PathItem", {"conflict"}, "both")
    \cup {<<"Operation", "operationId">>} \X {"duplicate", "nextId"}
    \cup Flawed("Operation", {"responses"}, "missing") \cup Flawed("Operation", {"variable"}, "undeclared")
    \cup {<<"Operation", "status">>} \X {"malformed", "wildcard"}
    \cup Flawed("Operation", {"security"}, "undefined") \cup Flawed("Operation", {"conflict"}, "both")
    \cup Flawed("Operation", {"consumes", "produces"}, "malformed")
    \cup {<<"Parameter", "name">>} \X {"missing", "malformed"}
    \cup {<<"Parameter", "in">>} \X {"missing", "unknown", "cookie", "querystring"}
    \cup Flawed("Parameter", {"required", "type", "schema", "items"}, "missing")
    \cup Flawed("Parameter", {"schema", "example"}, "both")
    \cup {<<"Parameter", "content">>} \X {"missing", "both"}
    \cup In("Parameter", {"allowReserved"}) \X {"misplaced"} \cup In("Header", {"allowReserved"}) \X {"misplaced"}
    \cup Flawed("Header", {"items"}, "missing") \cup Flawed("Header", {"example"}, "both")
    \cup Flawed("Header", {"name"}, "malformed") \cup Flawed("Items", {"items"}, "missing")
    \cup Flawed("RequestBody", {"content"}, "missing") \cup Flawed("Response", {"description"}, "missing")
    \cup Flawed("MediaType", {"name"}, "malformed") \cup Flawed("MediaType", {"example", "encoding"}, "both")
    \cup Flawed("Encoding", {"encoding"}, "both")
    \cup Flawed("Example", {"externalValue", "dataValue", "serializedValue"}, "both")
    \cup {<<"Schema", "enum">>} \X {"mismatch", "csv", "csvMixed"}
    \cup Flawed("Schema", {"bounds"}, "contradiction") \cup Flawed("Schema", {"required"}, "undefined")
    \cup Flawed("Schema", {"type"}, "null") \cup Flawed("Schema", {"boolean"}, "written")
    \cup {<<"Schema", "discriminator">>} \X {"string", "object"}
    \cup {<<"XML", "nodeType">>} \X {"malformed", "both"}
    \cup Flawed("Discriminator", {"defaultMapping"}, "missing")

\* The fields of a kind, with the version that introduced each; and those that
\* stand for nothing a document can be said to have.
FieldsAndLeaves(kind) ==
    FieldsOf(kind) @@ (IF kind = "Schema" THEN [nullable |-> 30, exclusive |-> 20, tuple |-> 20,
                                                writeOnly |-> 30, deprecated |-> 30] ELSE << >>)
    @@ (IF kind = "Response" THEN [summary |-> 32] ELSE << >>)

\* A field that the version does not have, of a kind of object that it has and
\* that is read the same whatever the version: what is younger in 3.x, schemas and
\* methods in 2.0.
Misused(s, v) ==
    /\ ~Fits(s, v)
    /\ IF v = 20 THEN s[1] \in {"Schema", "Discriminator", "XML"} \/ s[2] \in {"trace", "query", "additionalOperations"}
       ELSE s \in DOMAIN OfVersions \/ FieldsAndLeaves(s[1])[s[2]] > v

Input(v, site, flaw, alias) == [document |-> [version |-> v, site |-> site, flaw |-> flaw, alias |-> alias],
                                commands |-> 1]
\* Flaws that take what came with a later version.
Impossible(v) ==
    (IF v = 20 THEN {<<<<"Parameter", "schema">>, "both">>} ELSE {})
    \cup (IF v < 32 THEN {<<"Parameter", "content">>} \X {"missing", "both"}
                         \cup {<<<<"MediaType", "encoding">>, "both">>} ELSE {})
Bare(v, path, kind) ==
    {Input(v, Append(path, trouble[1]), trouble[2], FALSE) :
        trouble \in {t \in Peculiar \ Impossible(v) : t[1][1] = kind /\ Fits(t[1], v)}}
Using(v, path, kind) ==
    {Input(v, Append(path, <<kind, f>>), "used", FALSE) :
        f \in {f \in DOMAIN FieldsAndLeaves(kind) :
                 /\ Fits(<<kind, f>>, v) \/ (Misused(<<kind, f>>, v) /\ (kind = "Schema" => path \in {Pool, Inline}))
                 /\ kind = "Schema" => path \in {Pool, Inline} \/ f \in {"nullable", "exclusive", "not", "xml"}}}
Aliases(v, path, kind) ==
    IF kind \notin {"Parameter", "Header", "Response", "RequestBody", "SecurityScheme"}
       \/ (v = 20 /\ kind \notin {"Parameter", "Response"}) THEN {}
    ELSE {Input(v, Append(path, trouble[1]), "missing", TRUE) :
             trouble \in {t \in Peculiar : t[1][1] = kind /\ t[2] = "missing" /\ Fits(t[1], v)}}

At(v, path, kind) == Bare(v, path, kind) \cup Using(v, path, kind) \cup Aliases(v, path, kind)
Places(v) == {p \in Grown(G7(v), v) : Ends(p) \in ObjectKinds /\ <<"Operation", "body">> \notin Steps(p)}
Wide == UNION {At(v, <<>>, "Document") \cup UNION {At(v, p, Ends(p)) : p \in Places(v)}
               \cup UNION {At(v, p, "Discriminator") : p \in {p \in Places(v) : Ends(p) = "Schema"}} : v \in Versions}

\* Two commands on what a fix is meant for and what a conversion respells, one on the
\* rest.
Narrow(inputs) ==
    {[input EXCEPT !.commands = 2] : input \in {input \in inputs :
        /\ Len(input.document.site) < 5 /\ ~input.document.alias
        /\ MeantFor(input.document) # {} \/ input.document.flaw \in {"string", "object", "null"}}}
AllInputs == LET inputs == Wide IN inputs \cup Narrow(inputs)

-----------------------------------------------------------------------------
\* What each command is known to pass over; the README has the list with the
\* code's lines.

Each(S)            == {{trait} : trait \in S}
Both(traits, more) == {{t, u} : t \in traits, u \in more}

Troubles(kind, fields, flaw) == {kind} \X fields \X {flaw}

Kinds(kinds)  == In("kind", kinds)
Callbacks     == {<<"Document", "callbacks">>, <<"Operation", "callbacks">>}
Unvisited     == In("Schema", DOMAIN SchemaFields) \ ValidateNestedSchemas
OfAParameter  == Troubles("Parameter", {"name", "in"}, "missing") \cup ({"Parameter"} \X {"in"} \X {"unknown", "cookie", "querystring"})
OfASchema     == Troubles("Parameter", {"schema", "type"}, "missing") \cup Troubles("Parameter", {"schema"}, "both")
OfAnOperation == Troubles("Operation", {"operationId"}, "duplicate") \cup Troubles("Operation", {"status"}, "malformed")
                 \cup Troubles("Operation", {"responses"}, "missing") \cup Troubles("RequestBody", {"content"}, "missing")
OfAServer     == Troubles("Server", {"url"}, "missing") \cup Troubles("ServerVariable", {"default"}, "missing")
                 \cup {<<"ServerVariable", "default", "outside">>, <<"ServerVariable", "enum", "empty">>}

UncheckedPlaces ==
    Each(Unvisited \cup Troubles("Schema", {"exclusive", "nullable", "tuple"}, "used")
         \cup Troubles("Document", {"jsonSchemaDialect"}, "used")
         \cup {<<"Info", "summary", "used">>, <<"License", "identifier", "used">>})
    \cup {{<<"from", 20>>, <<"Document", f>>, k} :
             f \in {"paths", "parameters", "responses"}, k \in Kinds({"Schema", "XML", "Discriminator"})}
    \cup Both({<<"from", 20>>}, In("Schema", {"anyOf", "oneOf", "not", "writeOnly", "deprecated"})
                               \cup {<<"PathItem", "additionalOperations", "used">>,
                                     <<"Operation", "security", "undefined">>})
    \cup {{<<"Operation", "requestBody">>, c, k} : c \in Callbacks, k \in Kinds({"Schema", "Discriminator"})}
    \cup Both({<<"from", 20>>}, {<<"Discriminator", "mapping", "used">>, <<"Schema", "type", "null">>})
    \cup {{<<"from", 30>>, <<"Document", "pathItems">>}} \cup Both(OfAnOperation, Callbacks)
    \cup Both(OfAParameter, Callbacks \cup {<<"Document", "parameters">>, <<"Document", "pathItems">>,
                                            <<"PathItem", "parameters">>})
    \cup Both({<<"Parameter", "required", "missing">>}, Callbacks)
    \cup {{<<"Parameter", "required", "missing">>, <<"Document", "webhooks">>, <<"PathItem", "parameters">>},
          {<<"Parameter", "required", "missing">>, <<"Document", "pathItems">>, <<"Operation", "parameters">>}}
    \cup Both(OfASchema, {<<"PathItem", "parameters">>, <<"Operation", "parameters">>})
    \cup Both({<<"MediaType", "name", "malformed">>},
              Callbacks \cup {<<"Parameter", "content">>, <<"Header", "content">>, <<"Response", "content">>,
                              <<"Document", "mediaTypes">>})
    \cup Both({<<"Response", "description", "missing">>}, In("Operation", {"responses", "default"}))
    \cup Both(OfAServer, {<<"PathItem", "servers">>, <<"Operation", "servers">>, <<"Link", "server">>})
    \cup Both({<<"Operation", "security", "undefined">>}, Callbacks \cup In("Document", {"pathItems", "webhooks"}))
    \cup Both({<<"OAuthFlows", "deviceAuthorization">>}, {<<"OAuthFlow", "tokenUrl", f>> : f \in {"missing", "malformed"}})

\* An alias has no description, and since 3.2 no response needs one.
UnfoundedPlaces == Both({<<"Response", "description", "missing">>}, {<<"alias", TRUE>>, <<"from", 32>>})

\* Nothing is repaired in the reusable path items, and of webhooks only what is
\* not about parameters; the enums of the rest are left.
UnrepairedPlaces ==
    {{<<"flaw", "csvMixed">>}}
    \cup Both({<<"Schema", "enum", "csv">>},
              In("Document", {"headers", "callbacks", "pathItems", "webhooks", "mediaTypes"})
              \cup In("PathItem", {"parameters", "query", "additionalOperations"})
              \cup {<<"Operation", "callbacks">>, <<"Parameter", "content">>}
              \cup In("Header", {"schema", "content"}) \cup In("Response", {"headers"})
              \cup In("MediaType", {"itemSchema", "encoding", "itemEncoding", "prefixEncoding"}))
    \cup Both({<<"flaw", "duplicate">>, <<"flaw", "nextId">>, <<"Parameter", "required", "missing">>},
              {<<"Document", "pathItems">>})
    \cup Both({<<"Parameter", "required", "missing">>}, {<<"Document", "webhooks">>})

\* What a restamped document keeps of the version it was of, and what a 2.0 document
\* has and a 3.x one does not, where nothing is said of it.
UnspokenPlaces ==
    {{<<"to", 30>>, <<"since", 31>>}}
    \cup {{<<"to", 30>>, t} : t \in {<<"Operation", "responses", "missing">>, <<"Document", "paths", "missing">>,
                           <<"Schema", "boolean", "written">>, <<"Schema", "type", "null">>}}
    \cup {{<<"to", 32>>, <<k, "name", "malformed">>} : k \in {"Header", "Parameter"}}
    \cup {{<<"to", v>>, t} : v \in {31, 32}, t \in {<<"ServerVariable", "enum", "empty">>,
             <<"Parameter", "allowReserved", "misplaced">>, <<"Header", "allowReserved", "misplaced">>}}
    \cup {{<<"to", v>>, <<"from", 30>>, <<"Schema", f, "used">>} : v \in {31, 32}, f \in {"exclusive", "nullable"}}
    \cup {{<<"from", 32>>, t} : t \in Callbacks \cup {<<"Response", "description", "missing">>,
             <<"Operation", "default">>, <<"Encoding", "headers">>}}
    \cup Both(In("Discriminator", {"defaultMapping"}) \cup In("XML", {"nodeType"}),
              {<<"Parameter", "schema">>, <<"Header", "schema">>})
    \cup Both({<<"Server", "name", "used">>}, {<<"PathItem", "servers">>, <<"Operation", "servers">>})
    \cup {{<<"from", 20>>, t} : t \in {<<"Header", "items">>, <<"Items", "collectionFormat", "used">>,
             <<"Operation", "schemes">>, <<"Response", "examples">>}}
    \cup {{<<"from", 20>>, <<"Document", "schemas", f>>} : f \in {"slashName", "genericName"}}
    \cup {{<<"from", 20>>, <<"alias", TRUE>>, <<"kind", "Response">>}}

\* And what is not valid in 2.0, and written for it all the same.
InvalidPlaces ==
    Each({<<"Schema", "boolean", "written">>, <<"Schema", "prefixItems">>, <<"Operation", "responses", "missing">>})
    \cup {{<<"alias", TRUE>>, <<"kind", "SecurityScheme">>}}
=============================================================================
