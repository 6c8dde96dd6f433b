-------------------------- MODULE MCDocumentValues --------------------------
(* Instances of DocumentValues for TLC: every field of every kind of object, *)
(* with every value it can have, under one parent of that kind (two for      *)
(* schemas, path items and media types).                                     *)
EXTENDS DocumentValues

Doc(f)   == <<"Document", f>>
Op(f)    == <<"Operation", f>>
Get      == <<Doc("paths"), <<"PathItem", "get">>>>
OK       == Append(Get, Op("responses"))
Body     == Append(Get, Op("requestBody"))
Flows    == <<Doc("securitySchemes"), <<"SecurityScheme", "flows">>>>
RequestContent == Append(Body, <<"RequestBody", "content">>)

Parents(v) ==
    {<<Doc("schemas")>>, <<Doc("info")>>, <<Doc("info"), <<"Info", "contact">>>>,
     <<Doc("info"), <<"Info", "license">>>>, <<Doc("externalDocs")>>, <<Doc("tags")>>,
     <<Doc("securitySchemes")>>, <<Doc("schemas"), <<"Schema", "xml">>>>,
     <<Doc("schemas"), <<"Schema", "externalDocs">>>>, <<Doc("paths")>>, Get, Append(Get, Op("parameters")), OK,
     Append(OK, <<"Response", "headers">>),
     Append(Get, Op("parameters")) \o <<<<"Parameter", "schema">>>>}
    \cup IF v = 20 THEN {Append(Get, Op("body")),
                        Append(Get, Op("parameters")) \o <<<<"Parameter", "items">>>>}
         ELSE {<<Doc("servers")>>, <<Doc("servers"), <<"Server", "variables">>>>,
               <<Doc("links")>>, <<Doc("examples")>>, Flows,
               Append(Flows, <<"OAuthFlows", "implicit">>),
               <<Doc("webhooks")>>, Body, RequestContent, Append(OK, <<"Response", "content">>),
               Append(OK, <<"Response", "links">>),
               Append(RequestContent, <<"MediaType", "encoding">>)}

KindAt(p) == KindOf(p[Len(p)])
Fields(kind, v) ==
    {<<kind, f>> : f \in {f \in DOMAIN FieldsOf(kind) : Belongs(<<kind, f>>, v)}}
Sites(v) ==
    {<<s>> : s \in Fields("Document", v)}
    \cup UNION {{Append(p, s) : s \in Fields(KindAt(p), v)} : p \in Parents(v)}
    \cup {<<Doc("schemas"), s>> : s \in Fields("Discriminator", v)}
AllBelong(p, v) == \A i \in DOMAIN p : Belongs(p[i], v)

Input(v, p, x, extended, n) ==
    [version |-> v, site |-> p, value |-> x, extended |-> extended, edits |-> n]
Each(S, v, n) ==
    UNION {{Input(v, p, x, e, n) : x \in FileValues(p[Len(p)], KindAt(p), v),
                                   e \in IF v = 20 THEN BOOLEAN ELSE {TRUE}}
             : p \in {p \in S : AllBelong(p, v)}}

\* Every place with one edit, and a few with two.
Twice == {<<Doc("schemas"), <<"Schema", "items">>>>, <<Doc("paths")>>, Append(Get, Op("security")),
          <<Doc("schemas"), <<"Schema", "properties">>>>}
Documents == UNION {Each(Sites(v) \ Twice, v, 1) \cup Each(Twice, v, 2) : v \in {20, 30, 32}}
=============================================================================
