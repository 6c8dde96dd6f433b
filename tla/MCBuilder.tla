------------------------------ MODULE MCBuilder ------------------------------
(* A few Go types of two packages and the scripts a program could be, as    *)
(* pairs of what meets: two types, two operations, a document and a call.   *)
EXTENDS Builder

-----------------------------------------------------------------------------
\* The types.

Go(kind, of) == [kind |-> kind, of |-> of, fields |-> <<>>, path |-> None,
                 base |-> None, args |-> <<>>]
Struct(path, base, fields) ==
    [Go("struct", None) EXCEPT !.path = path, !.base = base, !.fields = fields]
Generic(base, args, fields) ==
    [Struct("x/models", base, fields) EXCEPT !.args = args]
Field(name, type) ==
    [name |-> name, type |-> type, embedded |-> FALSE, exported |-> TRUE,
     json |-> None, omit |-> FALSE, tag |-> <<>>, required |-> None]
Embedded(type) == [Field(type, type) EXCEPT !.embedded = TRUE]
Hidden(name, type) == [Field(name, type) EXCEPT !.exported = FALSE]

CityField == [Field("City", "string") EXCEPT !.json = "city", !.tag = [minLength |-> 1]]
ZipField == [Field("Zip", "*string") EXCEPT !.json = "zip"]
MCTypes == [
    string |-> Go("string", None), int64 |-> Go("int64", None),
    any |-> Go("interface", None)] @@
    ("time.Time" :> Go("special", None)) @@
    ("*string" :> Go("pointer", "string")) @@
    ("*Address" :> Go("pointer", "Address")) @@
    ("*Node" :> Go("pointer", "Node")) @@
    ("[]Address" :> Go("list", "Address")) @@
    ("[]Book" :> Go("list", "Book")) @@
    ("map[]User" :> Go("map", "*User")) @@
    ("*User" :> Go("pointer", "User")) @@
    [Address |-> Struct("x/models", "Address", <<CityField, ZipField, Hidden("note", "string")>>),
     Spot |-> Struct("x/models", "Spot", <<CityField, ZipField>>),
     \* Of the same package name and name as one of x/models.
     User |-> Struct("x/models", "User",
        <<[Field("ID", "int64") EXCEPT !.json = "id", !.tag = [minimum |-> 1]],
          [Field("Homes", "[]Address") EXCEPT !.json = "homes", !.omit = TRUE],
          [Field("Since", "time.Time") EXCEPT !.required = "false"],
          [Field("Token", "string") EXCEPT !.json = "-"]>>),
     OtherUser |-> Struct("y/models", "User", <<Field("Login", "string"), Field("At", "Spot")>>),
     ApiUser |-> Struct("x/api", "User", <<Field("Key", "any"), Field("Friends", "map[]User")>>),
     Node |-> Struct("x/models", "Node", <<Field("Value", "int64"), Field("Next", "*Node")>>),
     Author |-> Struct("x/models", "Author", <<Field("Books", "[]Book"), Field("Home", "Address")>>),
     Book |-> Struct("x/models", "Book", <<Field("By", "Author"), Field("Of", "OtherUser")>>),
     \* With a field of its own before, and one after, what it embeds.
     Account |-> Struct("x/models", "Account",
        <<[Field("ID", "string") EXCEPT !.json = "id"], Embedded("User"),
          Embedded("*Address"), [Field("Town", "User") EXCEPT !.json = "city"]>>),
     PageOfAddress |-> Generic("Page", <<"x/models.Address">>,
        <<Field("Items", "[]Address"), Field("Next", "*string")>>),
     PairOfUsers |-> Generic("Pair", <<"x/models.User", "x/api.User">>,
        <<Field("Left", "User"), Field("Right", "ApiUser")>>),
     Anonymous |-> Struct(None, None, <<Field("Note", "string")>>)]

MCPackageOf == ("x/models" :> "models") @@ ("y/models" :> "models")
                 @@ ("x/api" :> "api") @@ (None :> ".")
MCFlatPath == ("x/models" :> "x_models") @@ ("y/models" :> "y_models")
                @@ ("x/api" :> "x_api") @@ (None :> None)
ShortText == ("x/models.Address" :> "Address") @@ ("x/models.User" :> "User")
               @@ ("x/api.User" :> "User")
LongText == ("x/models.Address" :> "x/models_Address")
              @@ ("x/models.User" :> "x/models_User") @@ ("x/api.User" :> "x/api_User")
MCArgText == (TRUE :> LongText) @@ (FALSE :> ShortText)

\* Texts with their pascal, camel, snake and kebab case.
Casings == <<
    <<"models", "Models", "models", "models", "models">>,
    <<"api", "Api", "api", "api", "api">>,
    <<"Address", "Address", "address", "address", "address">>,
    <<"Spot", "Spot", "spot", "spot", "spot">>,
    <<"User", "User", "user", "user", "user">>,
    <<"Node", "Node", "node", "node", "node">>,
    <<"Author", "Author", "author", "author", "author">>,
    <<"Book", "Book", "book", "book", "book">>,
    <<"Account", "Account", "account", "account", "account">>,
    <<"Page_Address_", "PageAddress", "pageAddress", "page__address_", "page--address-">>,
    <<"Pair_User_User_", "PairUserUser", "pairUserUser", "pair__user__user_",
      "pair--user--user-">>,
    <<"PairOfUser_OfUser", "PairOfUserOfUser", "pairOfUserOfUser",
      "pair_of_user__of_user", "pair-of-user--of-user">>,
    <<"PageOfAddress", "PageOfAddress", "pageOfAddress", "page_of_address", "page-of-address">>>>
MCCased ==
    LET styles == <<"pascal", "camel", "snake", "kebab">>
    IN [s \in ToSet(styles) |->
          LET k == 1 + CHOOSE i \in DOMAIN styles : styles[i] = s
          IN [t \in {c[1] : c \in ToSet(Casings)} |->
                (CHOOSE c \in ToSet(Casings) : c[1] = t)[k]]]

\* A template that is the type in upper case and fails for generic types, and
\* a function that gives every type of a package the same name.
MCCustom == [
    shout |-> [t \in DOMAIN MCTypes |->
        IF MCTypes[t].args # <<>> THEN None
        ELSE IF t = "OtherUser" THEN "User" ELSE t],
    packages |-> [t \in DOMAIN MCTypes |-> MCPackageOf[MCTypes[t].path]]]
MCBadTemplates == {"broken"}
MCValidPatterns == {"[a-z]+"}

Sorted == <<"Cat", "Pet", "models.Account", "models.Address", "models.Author",
            "models.Book", "models.Page_Address_", "models.Spot", "models.User",
            "y_models_User", "zone">>
MCRank == [n \in ToSet(Sorted) |-> CHOOSE i \in DOMAIN Sorted : Sorted[i] = n]

-----------------------------------------------------------------------------
\* Options and calls.

Setting(field, value) == [do |-> "set", field |-> field, value |-> value]
Limit(key, value) == [do |-> "limit", key |-> key, value |-> value]
Extra(key) == [do |-> "extra", key |-> key]
AParam(name, in, type, options) ==
    [do |-> "param", name |-> name, in |-> in, type |-> type, options |-> options]
AFormField(name, type, options) ==
    [do |-> "form", name |-> name, type |-> type, options |-> options]
Answer(code, type, contentTypes) ==
    [do |-> "response", code |-> code, type |-> type, ref |-> None,
     contentTypes |-> contentTypes, raw |-> <<>>]
Body(type, contentTypes) ==
    [do |-> "body", type |-> type, contentTypes |-> contentTypes, raw |-> <<>>,
     required |-> TRUE]

Json == "application/json"
Xml  == "application/xml"
Whole == [Typed("string", "date") EXCEPT !.keys = [const |-> 1]]

Operation(path, method, options) ==
    [call |-> "AddOperation", path |-> path, method |-> method, options |-> options]
Webhook(path, method, options) ==
    [call |-> "AddWebhook", path |-> path, method |-> method, options |-> options]
Response(name, type) ==
    [call |-> "AddResponse", name |-> name, type |-> type, contentType |-> Json]
Parameter(name, in, type, options) ==
    [call |-> "AddParameter", name |-> name, param |-> name, in |-> in,
     type |-> type, options |-> options]
Registering(type, name) == [call |-> "RegisterType", type |-> type, name |-> name]
Deduplicating == [call |-> "DeduplicateSchemas"]
Building(door) == [call |-> "Build", door |-> door]

Script(version, options, calls) ==
    [version |-> version, info |-> <<"api">>, options |-> options,
     start |-> <<>>, calls |-> calls]

-----------------------------------------------------------------------------
\* Two types met one after the other, under every way to name them.

GenericOption(field, value) == [do |-> "WithGeneric", field |-> field, value |-> value]
Style(s) == <<[do |-> "WithSchemaNaming", style |-> s]>>
Template(t) == [do |-> "WithSchemaNameTemplate", template |-> t]
Namings == {
    <<>>, Style("pascal"), Style("camel"), Style("snake"), Style("kebab"),
    Style("type"), Style("path"),
    <<Template("broken"), Template("shout")>>,
    Style("snake") \o <<[do |-> "WithSchemaNameFunc", fn |-> "packages"]>>,
    <<GenericOption("style", "of")>>, <<GenericOption("style", "for")>>,
    <<GenericOption("style", "angle"), GenericOption("package", TRUE)>>,
    <<[do |-> "WithGenericNamingConfig",
       generic |-> [style |-> "flat", separator |-> None, between |-> None,
                    package |-> FALSE, casing |-> FALSE]]>>,
    Style("pascal") \o <<GenericOption("style", "of"), GenericOption("casing", TRUE)>>,
    <<GenericOption("separator", None), GenericOption("between", "-"),
      [do |-> "WithSchemaFieldProcessor", processors |-> <<"title", None>>]>>}
Met2 == {"User", "OtherUser", "ApiUser", "Node", "Author", "Book", "Account", "[]Book",
         "map[]User", "PageOfAddress", "PairOfUsers", "Anonymous", "Spot", "nil"}

TypeScripts ==
    {Script("3.1", naming, <<Registering(t, None), Response("r", u), Building("any")>>) :
        naming \in Namings, t \in Met2, u \in Met2}
    \union
    {Script("2.0", naming, <<Registering(t, None), Response("r", u), Building("any")>>) :
        naming \in {<<>>, Style("type")}, t \in Met2, u \in Met2}
    \union
    {Script("3.0", naming, <<Registering(t, name),
        Operation("/a", "post", <<Body(u, {Json, Xml}), Answer("200", t, {Json})>>),
        Building("any")>>) :
        naming \in {<<>>, Style("type")}, name \in {"Other", "User"},
        t \in Met2 \ {"nil"}, u \in Met2 \ {"nil"}}

-----------------------------------------------------------------------------
\* Two operations, or an operation and a webhook.

OptionLists == {
    <<>>,
    <<Setting("id", "a"), Setting("tags", {"old"}), Setting("tags", {"new"})>>,
    <<Setting("id", "b"), Setting("security", <<{"key"}>>), Setting("noSecurity", TRUE),
      Extra("x-a"), Setting("consumes", {Json})>>,
    <<Setting("security", <<{"key"}>>), Answer("404", None, {}), Answer("200", "User", {Json}),
      Answer("200", "OtherUser", {Json, Xml}), Answer("default", "User", {Json})>>,
    <<AParam("q", "query", "int64", <<Limit("minimum", 3), Limit("maximum", 2), Limit("minimum", 1),
                                     Setting("required", TRUE)>>),
      AParam("id", "path", "User", <<Extra("x-p")>>)>>,
    <<AParam("q", "query", "string", <<Setting("type", "integer"), Setting("format", "int32"),
                                      Limit("multipleOf", 1)>>),
      AParam("h", "header", "*string", <<Setting("schema", <<Whole>>), Setting("type", "number"),
                                        Limit("pattern", "[a-z]+"), [do |-> "wire", key |-> "pipes"]>>)>>,
    <<AParam("c", "cookie", "any", <<Limit("pattern", "(")>>),
      AParam("d", "query", "OtherUser", <<>>)>>,
    <<[do |-> "rawParam", name |-> "#/r", in |-> None, schema |-> <<>>, required |-> FALSE],
      Body("Spot", {Json}), AParam("q", "query", None, <<Limit("minLength", -1)>>)>>,
    <<AFormField("f", "string", <<Setting("required", TRUE), Limit("maxLength", 4)>>),
      AFormField("g", "file", <<>>), Body("OtherUser", {Json})>>,
    <<AFormField("f", "int64", <<Limit("minItems", 2), Limit("maxItems", 1)>>)>>,
    <<AFormField("f", "Spot", <<>>), AFormField("h", "string", <<Setting("format", "date"),
        Setting("type", "number")>>), Body("Spot", {}), Answer("200", "Spot", {}),
      [Answer("201", None, {Json}) EXCEPT !.raw = <<Whole>>],
      [Answer("500", None, {}) EXCEPT !.ref = "#/e"]>>}

Added ==
    {Operation("/a", m, o) : m \in {"get", "POST", "trace", "query", "brew"}, o \in OptionLists}
      \union {Webhook("/a", "GET", o) : o \in OptionLists}
Second ==
    {Operation("/a", "GET", <<Setting("id", "a")>>), Operation("/b", "put", <<>>),
     Webhook("/a", "get", <<Setting("id", "b"), Answer("200", "Spot", {Json})>>),
     Operation("/a", "get", <<AParam("x", "query", "OtherUser", <<>>), AFormField("f", "file", <<>>)>>),
     Parameter("p", "path", "int64", <<Limit("maximum", 5), Setting("type", "string")>>),
     Parameter("p", "query", "nil", <<Limit("maxItems", -1)>>),
     Parameter("p", "query", "User", <<>>)}
OperationScripts ==
    {Script(v, <<>>, <<first, second, Building("any")>>) :
        v \in ToSet(Versions), first \in Added, second \in Second}

-----------------------------------------------------------------------------
\* Documents to start from, and what else is set and added.

OldOperation ==
    [id |-> "old", tags |-> {}, deprecated |-> FALSE, params |-> <<>>, body |-> <<>>,
     responses |-> <<>>, security |-> <<>>, consumes |-> {}, produces |-> {}, extra |-> {}]
OldResponse(name) == [ref |-> None, schema |-> <<>>, content |-> (Json :> <<Ref(name)>>)]
Pet == [Typed("object", None) EXCEPT !.props = [name |-> Typed("string", None)]]
OldDocument(v) ==
    [Empty EXCEPT !.info = <<"old">>, !.tags = <<"old">>,
        !.paths = ("/a" :> [get |-> OldOperation, put |-> OldOperation])
                    @@ ("/o" :> [get |-> OldOperation]),
        !.responses = [r |-> OldResponse("Cat"), s |-> OldResponse("Pet")],
        !.parameters = [o |-> Param("o", "query", FALSE, <<Ref("Cat")>>)],
        !.schemes = [old |-> "oauth2"],
        !.bodies = IF v = "2.0" THEN <<>> ELSE [b |-> [required |-> FALSE, content |-> <<>>]]]
      @@ [version |-> v, schemas |-> [Pet |-> Pet, Cat |-> Pet, zone |-> Blank]
                                        @@ ("models.User" :> Pet)]

DocumentScripts ==
    {[Script(v, <<>>, <<call, other, Building("any")>>) EXCEPT !.start = <<OldDocument(v)>>] :
        v \in {"2.0", "3.1"},
        call \in {Operation("/a", "get", <<Setting("id", "old"), Body("User", {Json})>>),
                  Operation("/a", "post", <<>>), Response("r", "Account"),
                  Parameter("p", "query", "string", <<>>), Registering("User", "Cat")},
        other \in {[call |-> "AddSecurityScheme", name |-> "key", value |-> "apiKey"],
                   [call |-> "Set", section |-> "info", value |-> <<"new">>],
                   [call |-> "Add", section |-> "tags", item |-> "new"],
                   Deduplicating, Operation("/n", "get", <<Setting("id", "n")>>)}}

-----------------------------------------------------------------------------
\* Deduplicating, once or more, and building more than once.

Homes == <<Registering("User", None), Operation("/a", "get", <<Answer("200", "Spot", {Json})>>)>>
Asked2 == {<<Response("r", "Book")>>, <<Parameter("p", "query", "Spot", <<>>)>>,
           <<Webhook("/w", "post", <<Body("Spot", {Json})>>)>>}
Ends == {<<Building("any")>>, <<Deduplicating, Building("any")>>,
         <<Building("any"), Operation("/b", "get", <<>>), Building("any")>>,
         <<Building("BuildOAS3"), Building("BuildOAS2"), Building("any")>>,
         <<Deduplicating, Building("any"), Registering("Address", None), Building("any")>>,
         <<Deduplicating, Deduplicating, Building("any")>>}
DedupeScripts ==
    {Script(v, options, Homes \o asked \o end) :
        v \in {"2.0", "3.2"}, asked \in Asked2, end \in Ends,
        options \in {<<>>, <<[do |-> "WithSemanticDeduplication", on |-> TRUE]>>,
                     <<Template("broken")>>}}

\* Without info.
UntitledScripts ==
    {[Script(v, <<>>, <<Operation("/a", "get", <<>>), Building("any")>>) EXCEPT !.info = <<>>] :
        v \in ToSet(Versions)}

MCScripts ==
    UNION {TypeScripts, OperationScripts, DocumentScripts, DedupeScripts, UntitledScripts}
=============================================================================
