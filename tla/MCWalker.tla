------------------------------ MODULE MCWalker ------------------------------
(* Instances of Walker for TLC: small documents that together have every     *)
(* field of the tables, and callers that listen to everything, to schemas    *)
(* alone, or to some kinds of node; and documents with contents, queried by  *)
(* every command and tool.                                                   *)
EXTENDS WalkQueries

\* A document from its edges <<parent, at, child>>, in the order of the source.
Kid(edge) == [at |-> edge[2], node |-> edge[3], key |-> IF Len(edge) = 4 THEN edge[4] ELSE <<edge[3]>>]
Document(version, kind, edges, refs) ==
    [version |-> version, kind |-> kind, refs |-> refs,
     kids |-> [n \in DOMAIN kind |->
                LET Own == SelectSeq(edges, LAMBDA edge : edge[1] = n)
                IN  [i \in DOMAIN Own |-> Kid(Own[i])]]]

\* Paths of a 3.x document.
Operations == Document(3,
    [doc |-> "document", i |-> "info", p |-> "path", pi |-> "pathItem", q |-> "parameter",
     get |-> "operation", r |-> "parameter", rs |-> "schema", b |-> "requestBody", d |-> "response",
     put |-> "operation", query |-> "operation", srv |-> "server", x |-> "externalDocs"],
    <<<<"doc", "info", "i">>, <<"doc", "paths", "p">>, <<"p", "pathItem", "pi">>,
      <<"pi", "parameters", "q">>, <<"pi", "operation", "get">>, <<"get", "parameters", "r">>,
      <<"r", "schema", "rs">>, <<"get", "requestBody", "b">>, <<"get", "default", "d">>,
      <<"pi", "operation", "put">>, <<"pi", "query", "query">>, <<"pi", "servers", "srv">>, <<"query", "servers", "srv">>,
      <<"rs", "externalDocs", "x">>>>,
    {"q", "pi", "d"})

\* What a response and a request hold.
Bodies == Document(3,
    [doc |-> "document", rb |-> "requestBody", m |-> "mediaType", ms |-> "schema", e |-> "example",
     resp |-> "response", h |-> "header", hs |-> "schema", l |-> "link", m2 |-> "mediaType",
     enc |-> "header", param |-> "parameter", m3 |-> "mediaType", is |-> "schema"],
    <<<<"doc", "responses", "resp">>, <<"resp", "headers", "h">>, <<"h", "schema", "hs">>,
      <<"resp", "content", "m2">>, <<"m2", "encoding", "enc">>, <<"m2", "itemSchema", "is">>, <<"resp", "links", "l">>,
      <<"doc", "parameters", "param">>, <<"param", "content", "m3">>,
      <<"doc", "requestBodies", "rb">>, <<"rb", "content", "m">>, <<"m", "schema", "ms">>,
      <<"m", "examples", "e">>>>,
    {"resp", "h", "l", "e", "rb", "enc"})

\* Callbacks, webhooks and the rest of the components.
Callbacks == Document(3,
    [doc |-> "document", x |-> "externalDocs", w |-> "webhook", wq |-> "parameter",
     post |-> "operation", cb |-> "callback", pi |-> "pathItem", in |-> "operation",
     ref |-> "callbackRef", d |-> "response"],
    <<<<"doc", "webhooks", "w">>, <<"w", "parameters", "wq">>, <<"w", "additional", "post">>,
      <<"post", "externalDocs", "x">>, <<"post", "codes", "d">>, <<"post", "callbacks", "cb">>,
      <<"cb", "expressions", "pi">>, <<"pi", "operation", "in">>, <<"post", "callbackRefs", "ref">>>>,
    {"ref", "w", "wq"})

Components == Document(3,
    [doc |-> "document", s |-> "securityScheme", l |-> "link", cb |-> "callback",
     ref |-> "callbackRef", e |-> "example", pi |-> "pathItem", m |-> "mediaType",
     srv |-> "server", t |-> "tag", x |-> "externalDocs"],
    <<<<"doc", "servers", "srv">>, <<"doc", "securitySchemes", "s">>, <<"doc", "links", "l">>,
      <<"doc", "callbacks", "cb">>, <<"doc", "callbackRefs", "ref">>, <<"doc", "examples", "e">>,
      <<"doc", "pathItems", "pi">>, <<"doc", "mediaTypes", "m">>, <<"doc", "tags", "t">>,
      <<"t", "externalDocs", "x">>>>,
    {"s", "l", "ref", "e", "pi"})

\* Schemas that are shared, contain themselves, and use unguarded keywords.
Schemas == Document(3,
    [doc |-> "document", S |-> "schema", T |-> "schema", U |-> "schema", N |-> "schema",
     C |-> "schema"],
    <<<<"doc", "schemas", "S">>, <<"S", "properties", "T">>, <<"S", "propertyNames", "N">>,
      <<"S", "items", "T">>, <<"S", "not", "C">>, <<"T", "allOf", "U">>, <<"U", "if", "S">>,
      <<"S", "$defs", "C">>>>,
    {"T", "U"})

Deep == Document(3,
    [doc |-> "document", A |-> "schema", B |-> "schema", C |-> "schema", D |-> "schema",
     E |-> "schema", r |-> "mapRef"],
    <<<<"doc", "schemas", "A">>, <<"A", "additionalProperties", "B">>, <<"B", "prefixItems", "C">>,
      <<"C", "contains", "D">>, <<"D", "else", "E">>, <<"D", "then", "A">>,
      <<"B", "unevaluatedItems", "r">>, <<"doc", "schemas", "D">>>>,
    {"r", "E"})

Keywords == Document(3,
    [doc |-> "document", S |-> "schema", a |-> "schema", b |-> "schema", c |-> "schema",
     d |-> "schema", e |-> "schema", f |-> "schema", g |-> "schema"],
    <<<<"doc", "schemas", "S">>, <<"S", "patternProperties", "a">>,
      <<"S", "unevaluatedProperties", "b">>, <<"S", "dependentSchemas", "c">>,
      <<"S", "additionalItems", "d">>, <<"S", "anyOf", "e">>, <<"S", "oneOf", "f">>,
      <<"S", "contentSchema", "g">>>>,
    {})

\* A 2.0 document.
Swagger == Document(2,
    [doc |-> "document", i |-> "info", x |-> "externalDocs", p |-> "path", pi |-> "pathItem",
     get |-> "operation", q |-> "parameter", qs |-> "schema", d |-> "response", h |-> "header",
     ds |-> "schema", ok |-> "response"],
    <<<<"doc", "info", "i">>, <<"doc", "externalDocs", "x">>, <<"doc", "paths", "p">>,
      <<"p", "pathItem", "pi">>, <<"pi", "operation", "get">>, <<"get", "parameters", "q">>,
      <<"q", "schema", "qs">>, <<"get", "default", "d">>, <<"d", "headers", "h">>,
      <<"d", "schema", "ds">>, <<"get", "codes", "ok">>>>,
    {"qs", "d"})

Definitions == Document(2,
    [doc |-> "document", S |-> "schema", q |-> "parameter", r |-> "response", rs |-> "schema",
     sec |-> "securityScheme", t |-> "tag"],
    <<<<"doc", "schemas", "S">>, <<"S", "items", "S">>, <<"doc", "parameters", "q">>,
      <<"doc", "responses", "r">>, <<"r", "schema", "rs">>, <<"rs", "properties", "S">>,
      <<"doc", "securitySchemes", "sec">>, <<"doc", "tags", "t">>>>,
    {"sec", "rs"})

AllDocuments == {Operations, Bodies, Callbacks, Components, Schemas, Deep, Keywords, Swagger,
                 Definitions}
Listeners == {Handlers, {"schema"}, {"schema", "skipped", "post"},
              {"parameter", "response", "callback", "ref", "mapRefs", "post"}}
Heard == [doc : AllDocuments, handlers : Listeners]

\* $ref and parameters of a webhook's path item, encodings and item schemas,
\* shared media types, servers and externalDocs anywhere but where they are most
\* often written.
KnownGaps == {<<"webhook", "$ref">>, <<"webhook", "parameters">>, <<"mediaType", "encoding">>,
              <<"mediaType", "itemSchema">>, <<"document", "mediaTypes">>,
              <<"pathItem", "servers">>, <<"operation", "servers">>,
              <<"tag", "externalDocs">>, <<"schema", "externalDocs">>}


-------------------------------------------------------------------------------
(* Documents that are queried: what is written in their nodes, and as keys.  *)

Described(document, about) ==
    document @@ [about |-> [n \in DOMAIN document.kind |-> IF n \in DOMAIN about THEN about[n] @@ Blank
                                                           ELSE Blank]]
Internal == [key |-> <<"x-", "internal">>, value |-> "yes"]
Owner    == [key |-> <<"x-", "owner">>, value |-> "ann"]

Shop == Described(Document(3,
    [doc |-> "document", users |-> "path", usersItem |-> "pathItem", list |-> "operation",
     ok |-> "response", rate |-> "header", m |-> "mediaType", ms |-> "schema", err |-> "response",
     copy |-> "operation", user |-> "path", userItem |-> "pathItem", id |-> "parameter",
     get |-> "operation", q |-> "parameter", post |-> "operation", cb |-> "callback",
     cbItem |-> "pathItem", cbParam |-> "parameter", cbPost |-> "operation", cbOk |-> "response",
     w |-> "webhook", wParam |-> "parameter", wPost |-> "operation", Pet |-> "schema",
     petName |-> "schema", Tag |-> "schema", gone |-> "response", age |-> "header",
     page |-> "parameter", Rate |-> "header", key |-> "securityScheme", login |-> "securityScheme",
     shared |-> "pathItem", sharedGet |-> "operation"],
    <<<<"doc", "paths", "users", <<"", "users">>>>, <<"users", "pathItem", "usersItem">>,
      <<"usersItem", "operation", "list", <<"get">>>>, <<"list", "codes", "ok", <<"2", "0", "0">>>>,
      <<"ok", "headers", "rate", <<"X-Rate">>>>, <<"ok", "content", "m", <<"json">>>>,
      <<"m", "schema", "ms">>, <<"list", "codes", "err", <<"4", "X", "X">>>>,
      <<"usersItem", "additional", "copy", <<"COPY">>>>,
      <<"doc", "paths", "user", <<"", "users", "{id}">>>>, <<"user", "pathItem", "userItem">>,
      <<"userItem", "parameters", "id">>, <<"userItem", "operation", "get", <<"get">>>>,
      <<"get", "parameters", "q">>, <<"userItem", "operation", "post", <<"post">>>>,
      <<"post", "callbacks", "cb", <<"onEvent">>>>, <<"cb", "expressions", "cbItem", <<"{$url}">>>>,
      <<"cbItem", "parameters", "cbParam">>, <<"cbItem", "operation", "cbPost", <<"put">>>>,
      <<"cbPost", "default", "cbOk", <<"default">>>>,
      <<"doc", "webhooks", "w", <<"userMade">>>>, <<"w", "parameters", "wParam">>,
      <<"w", "operation", "wPost", <<"post">>>>,
      <<"doc", "schemas", "Pet", <<"Pet">>>>, <<"Pet", "properties", "petName", <<"name">>>>,
      <<"doc", "schemas", "Tag", <<"Tag">>>>, <<"doc", "responses", "gone", <<"Gone">>>>,
      <<"gone", "headers", "age", <<"Age">>>>, <<"doc", "parameters", "page", <<"Page">>>>,
      <<"doc", "headers", "Rate", <<"x-rate">>>>, <<"doc", "securitySchemes", "key", <<"Key">>>>,
      <<"doc", "securitySchemes", "login", <<"login">>>>,
      <<"doc", "pathItems", "shared", <<"Shared">>>>, <<"shared", "operation", "sharedGet", <<"get">>>>>>,
    {"q", "ms", "err"}),
    [list    |-> [tags |-> <<<<"users">>, <<"admin">>>>, id |-> <<"listUsers">>, extra |-> {Internal}],
     copy    |-> [tags |-> <<<<"admin">>>>, deprecated |-> TRUE, extra |-> {Internal, Owner}],
     get     |-> [tags |-> <<<<"users">>>>, id |-> <<"getUser">>],
     wPost   |-> [tags |-> <<<<"hooks">>>>],
     userItem |-> [extra |-> {Owner}],
     id      |-> [name |-> <<"id">>, in |-> <<"path">>],
     q       |-> [name |-> <<"Page">>, in |-> <<"query">>, target |-> <<"page">>, extra |-> {Internal}],
     page    |-> [name |-> <<"Page">>, in |-> <<"query">>, extra |-> {Internal}],
     cbParam |-> [name |-> <<"id">>, in |-> <<"header">>],
     wParam  |-> [name |-> <<"id">>, in |-> <<"header">>],
     ms      |-> [type |-> <<"object">>, target |-> <<"tag">>],
     err     |-> [target |-> <<"gone">>],
     Pet     |-> [type |-> <<"object">>, extra |-> {Owner}],
     petName |-> [type |-> <<"string", "null">>],
     Tag     |-> [type |-> <<"object">>],
     rate    |-> [extra |-> {Internal}],
     key     |-> [type |-> <<"apiKey">>, extra |-> {Owner}],
     login   |-> [type |-> <<"oauth2">>]])

\* A 2.0 document.
Store == Described(Document(2,
    [doc |-> "document", root |-> "path", rootItem |-> "pathItem", get |-> "operation",
     ok |-> "response", oks |-> "schema", cart |-> "path", cartItem |-> "pathItem",
     post |-> "operation", n |-> "parameter", made |-> "response", h |-> "header",
     Cart |-> "schema", lines |-> "schema", size |-> "parameter", none |-> "response",
     key |-> "securityScheme"],
    <<<<"doc", "paths", "root", <<"", "">>>>, <<"root", "pathItem", "rootItem">>,
      <<"rootItem", "operation", "get", <<"get">>>>, <<"get", "codes", "ok", <<"2", "0", "0">>>>,
      <<"ok", "schema", "oks">>,
      <<"doc", "paths", "cart", <<"", "cart", "lines">>>>, <<"cart", "pathItem", "cartItem">>,
      <<"cartItem", "operation", "post", <<"post">>>>, <<"post", "parameters", "n">>,
      <<"post", "default", "made", <<"default">>>>, <<"made", "headers", "h", <<"Age">>>>,
      <<"doc", "schemas", "Cart", <<"Cart">>>>, <<"Cart", "items", "lines">>,
      <<"doc", "parameters", "size", <<"Size">>>>, <<"doc", "responses", "none", <<"None">>>>,
      <<"doc", "securitySchemes", "key", <<"Key">>>>>>,
    {"oks", "lines", "none"}),
    [get   |-> [tags |-> <<<<"store">>>>, id |-> <<"root">>],
     post  |-> [tags |-> <<<<"store">>, <<"cart">>>>, extra |-> {Owner}],
     oks   |-> [type |-> <<"array">>, target |-> <<"cart">>],
     lines |-> [target |-> <<"line">>],
     none  |-> [target |-> <<"line">>],
     n     |-> [name |-> <<"n">>, in |-> <<"query">>],
     size  |-> [name |-> <<"size">>, in |-> <<"query">>],
     Cart  |-> [type |-> <<"array">>],
     key   |-> [type |-> <<"apiKey">>]])

Queried == {Shop, Store}

-------------------------------------------------------------------------------
(* The queries: each field alone, some together, groups and pages of each    *)
(* size.                                                                     *)

Expr(bang, key, op, value) == [bang |-> bang, key |-> <<"x-", key>>, op |-> op, value |-> value]
Yes       == Expr(FALSE, "internal", "=", "yes")
NotYes    == Expr(FALSE, "internal", "!=", "yes")
AnyOwner       == Expr(FALSE, "owner", "", "")
NoOwner   == Expr(TRUE, "owner", "", "")
Empty     == Expr(FALSE, "owner", "=", "")
Doubled   == Expr(TRUE, "owner", "!=", "ann")
BadKey    == [bang |-> FALSE, key |-> <<"owner">>, op |-> "", value |-> ""]
Filters   == {<<<<Yes>>>>, <<<<NotYes>>>>, <<<<AnyOwner>>>>, <<<<NoOwner>>>>, <<<<Empty>>>>, <<<<Doubled>>>>,
              <<<<BadKey>>>>, <<<<Yes, AnyOwner>>>>, <<<<Yes>>, <<AnyOwner>>>>, <<<<Yes, NoOwner>>>>}

AskNothing  == [x \in {} |-> <<>>]
Some(field, values) == {(field :> value) : value \in values}
Asked ==
    {AskNothing}
    \cup Some("method", {<<"Post">>, <<"copy">>})
    \cup Some("path", {<<"", "users", "*">>, <<"", "**">>, <<"**", "users", "**">>, <<"", "users">>,
                        <<"", "**", "users", "*">>, <<"*">>})
    \cup Some("tag", {<<"admin">>}) \cup Some("deprecated", {TRUE})
    \cup Some("operationId", {<<"getUser">>})
    \cup Some("component", {TRUE}) \cup Some("inline", {TRUE})
    \cup {[component |-> TRUE, inline |-> TRUE], [method |-> <<"get">>, path |-> <<"", "*">>],
          [path |-> <<"", "users", "**">>, status |-> <<"2", "x", "x">>],
          [name |-> <<"page">>, in |-> <<"Query">>], [component |-> TRUE, type |-> <<"object">>]}
    \cup Some("name", {<<"pet">>, <<"*a*">>, <<"x-rate">>, <<"[">>, <<"key">>, <<"id">>})
    \cup Some("in", {<<"query">>})
    \cup Some("type", {<<"object">>, <<"null">>, <<"apikey">>})
    \cup Some("status", {<<"4", "x", "x">>, <<"4", "x", "X">>, <<"2", "0", "0">>, <<"Default">>})
    \cup Some("target", {<<"*a*">>, <<"page">>, <<"[">>})
    \cup Some("nodeType", {<<"Schema">>})
    \cup Some("extension", Filters)

Query(front, what, asks) == [front |-> front, what |-> what, asks |-> asks, groupBy |-> <<>>,
                             detail |-> FALSE, resolve |-> FALSE, limit |-> 0]
Fronts == {"command", "tool"}
Singles == {Query(front, what, asks) : front \in Fronts, what \in WalkTools, asks \in Asked}
Everything == {q \in Singles : q.asks = AskNothing}
AllQueries ==
    Singles
    \cup {[q EXCEPT !.detail = TRUE, !.resolve = resolve] : q \in Everything, resolve \in BOOLEAN}
    \cup {[q EXCEPT !.limit = limit] : q \in Everything, limit \in {1, 9}}
    \cup {[q EXCEPT !.groupBy = by, !.limit = limit] :
              q \in {e \in Everything : e.front = "tool"}, limit \in {0, 1},
              by \in {<<"TAG">>} \cup UNION {Groupings(what) : what \in WalkTools}}
    \cup {[q EXCEPT !.groupBy = by, !.detail = TRUE] : q \in Everything, by \in Groupings("refs")}
    \cup {[q EXCEPT !.resolve = TRUE, !.asks = [type |-> <<"object">>]] :
              q \in {e \in Everything : e.what = "schemas"}}
    \cup {[q EXCEPT !.groupBy = <<"method">>, !.asks = [method |-> <<"GET">>]] :
              q \in {e \in Everything : e.what = "operations"}}

HeardOrQueried ==
    Heard \cup [doc : Queried, handlers : {Listens(q) : q \in AllQueries}]

\* What EachNodeAlwaysWalked asks of documents holds of all these.
ASSUME NoOtherGaps == GapsAreKnown

LowerLetters == [x \in {"X", "COPY", "Post", "GET", "Pet", "Tag", "Page", "Default", "Schema", "Key",
                        "X-Rate", "Query", "TAG", "apiKey", "Age", "Gone", "None", "Cart", "Size"} |->
    CASE x = "X" -> "x" [] x = "COPY" -> "copy" [] x = "Post" -> "post" [] x = "GET" -> "get"
      [] x = "Pet" -> "pet" [] x = "Tag" -> "tag" [] x = "Page" -> "page" [] x = "Default" -> "default"
      [] x = "Schema" -> "schema" [] x = "Key" -> "key" [] x = "X-Rate" -> "x-rate"
      [] x = "Query" -> "query" [] x = "TAG" -> "tag" [] x = "apiKey" -> "apikey" [] x = "Age" -> "age"
      [] x = "Gone" -> "gone" [] x = "None" -> "none" [] x = "Cart" -> "cart" [] x = "Size" -> "size"]
GlobTable == (<<"*a*">> :> {<<"tag">>, <<"name">>, <<"x-rate">>, <<"age">>, <<"page">>, <<"cart">>})

NoGlobs   == {<<"[">>}
\* In the order of the characters.
GroupNames ==
    <<<<>>, <<"(component)">>, <<"(ref)">>, <<"(untyped)">>, <<"/">>, <<"2", "0", "0">>, <<"4", "X", "X">>,
      <<"Age">>, <<"Page">>, <<"X-Rate">>, <<"admin">>, <<"apiKey">>, <<"array">>, <<"cart">>,
      <<"component">>, <<"copy">>, <<"default">>, <<"get">>, <<"gone">>, <<"header">>, <<"hooks">>,
      <<"id">>, <<"inline">>, <<"line">>, <<"n">>, <<"object">>, <<"page">>, <<"parameter">>,
      <<"path">>, <<"post">>, <<"put">>, <<"query">>, <<"response">>, <<"schema">>, <<"size">>,
      <<"store">>, <<"string", "null">>, <<"tag">>, <<"userMade">>, <<"users">>, <<"x-rate">>,
      <<"{$url}">>>>

AllTraits == {"**", "glob", "case", "extension", "no path", "outer method", "no entry", "unwalked"}

===============================================================================
