----------------------------- MODULE ServedRequests -----------------------------
(***************************************************************************)
(* The server of package builder with the HTTP validator in it, and what    *)
(* the two do to a request: who is let through and what a handler gets.     *)
(***************************************************************************)
EXTENDS BuiltServer, SchemaChecks

-------------------------------------------------------------------------------
(* The HTTP validator (package httpvalidator): what each of the five parts  *)
(* of ValidateRequest finds in a request. A part returns its errors and its *)
(* warnings, as the places they name, and the values it read.               *)

Named1(params, n) == CHOOSE p \in params : p.name = n

Refused(values, params) ==
    {n \in DOMAIN values : (\E p \in params : p.name = n) /\ ~Accepts(values[n], Named1(params, n).schema)}
Missing(params, present) == {p.name : p \in {q \in params : q.required /\ q.name \notin present}}
At(place, names) == {<<place, n>> : n \in names}

PathPart(doc, tpl, op, sent) ==
    LET defined == ParametersIn(doc, tpl, op, "path")
        names   == {p.name : p \in defined}
        bound   == Bound(tpl, sent.path)
        values  == [n \in DOMAIN bound |->
                      IF n \in names THEN DeserializePath(bound[n], Named1(defined, n)) ELSE Text(bound[n])]
    IN [errors   |-> At("path", Refused(values, defined) \cup Missing(defined, DOMAIN bound)),
        warnings |-> At("path", DOMAIN bound \ names),
        values   |-> values]

\* A parameter is given by its own key, or else by the keys of a deep object.
QueryPart(doc, tpl, op, sent, flags) ==
    LET defined == ParametersIn(doc, tpl, op, "query")
        own     == {p \in defined : <<p.name>> \in DOMAIN sent.query}
        deep    == {p \in defined \ own : p.style = "deepObject" /\ p.schema # NoSchema
                                          /\ DeepKeys(sent.query, p.name) # {}}
        values  == [n \in {p.name : p \in own \cup deep} |->
                      LET p == Named1(defined, n)
                      IN IF p \in own THEN DeserializeQuery(sent.query[<<n>>], p)
                         ELSE DeserializeDeepObject(sent.query, p)]
        processed == {<<p.name>> : p \in own} \cup UNION {DeepKeys(sent.query, p.name) : p \in deep}
        unknown   == IF flags.strict THEN DOMAIN sent.query \ processed ELSE {}
        empty     == {p.name : p \in {q \in own : sent.query[<<q.name>>] = <<<<>>>>}}
    IN [errors   |-> At("query", Refused(values, defined) \cup Missing(defined, DOMAIN values)) \cup At("key", unknown),
        warnings |-> IF flags.warn THEN At("query", empty) ELSE {},
        values   |-> values]

StandardHeaders == {"Content-Type", "Cookie"}

\* A header that is present and empty is neither missing nor, to strict mode, known.
HeaderPart(doc, tpl, op, sent, flags) ==
    LET defined == ParametersIn(doc, tpl, op, "header")
        given   == {p \in defined : p.name \in DOMAIN sent.headers /\ sent.headers[p.name] # <<>>}
        values  == [n \in {p.name : p \in given} |-> DeserializeHeader(sent.headers[n], Named1(defined, n))]
        unknown == IF flags.strict THEN DOMAIN sent.headers \ (DOMAIN values \cup StandardHeaders) ELSE {}
    IN [errors   |-> At("header", Refused(values, defined) \cup Missing(defined, DOMAIN sent.headers)
                                  \cup unknown),
        warnings |-> {},
        values   |-> values]

CookiePart(doc, tpl, op, sent, flags) ==
    LET defined == ParametersIn(doc, tpl, op, "cookie")
        given   == {p \in defined : p.name \in DOMAIN sent.cookies}
        values  == [n \in {p.name : p \in given} |-> DeserializeCookie(sent.cookies[n], Named1(defined, n))]
        unknown == IF flags.strict THEN DOMAIN sent.cookies \ DOMAIN values ELSE {}
    IN [errors   |-> At("cookie", Refused(values, defined) \cup Missing(defined, DOMAIN values) \cup unknown),
        warnings |-> {},
        values   |-> values]

BodyErrors(doc, text, media, schema) ==
    CASE media = "application/json" -> text[1] # "json" \/ ~Accepts(text[2], schema)
      \* The form fields of a 2.0 document have no schema and no body parameter.
      [] media = "application/x-www-form-urlencoded" ->
            \/ text = Garbage
            \/ doc.version = 3 /\ text # Garbage
               /\ ~Accepts(Object(IF text[1] = "form" THEN text[2] ELSE Nothing), schema)
      [] OTHER -> FALSE

BodyPart(doc, op, sent, flags) ==
    LET schema  == BodySchema(doc, op, sent.media)
        unknown == doc.version = 3 /\ op.body # NoBody /\ schema = NoSchema /\ flags.strict
        bad     == \/ sent.media = "?"
                   \/ sent.media \notin {"", "?"} /\ unknown
                   \/ BodyRead(doc, op, sent) /\ BodyErrors(doc, sent.body, sent.media, schema)
        doubt   == \/ sent.media = ""
                   \/ sent.media = "multipart/form-data" /\ schema # NoSchema
                   \/ BodyRead(doc, op, sent) /\ sent.media = "application/pdf"
                   \/ BodyRead(doc, op, sent) /\ sent.media = "text/plain" /\ sent.body = NoText
    IN [errors   |-> IF bad THEN {<<"body", "">>} ELSE {},
        warnings |-> IF doubt /\ flags.warn THEN {<<"body", "">>} ELSE {},
        values   |-> Nothing]

Part(place, doc, tpl, op, sent, flags) ==
    CASE place = "path"   -> PathPart(doc, tpl, op, sent)
      [] place = "query"  -> QueryPart(doc, tpl, op, sent, flags)
      [] place = "header" -> HeaderPart(doc, tpl, op, sent, flags)
      [] place = "cookie" -> CookiePart(doc, tpl, op, sent, flags)
      [] place = "body"   -> BodyPart(doc, op, sent, flags)

-------------------------------------------------------------------------------
(* Properties. *)

Declared(p) == IF p.schema = NoSchema THEN NoSchema ELSE p.limits @@ p.schema

Spells(text, type) ==
    CASE type = "integer" -> IsDigits(text)
      [] type = "number"  -> IsNumber(text)
      [] type = "boolean" -> text \in Truths \cup Falsehoods
      [] OTHER            -> TRUE

\* The text of d is no text of another value of the schema.
RECURSIVE Legible(_, _)
Legible(d, s) ==
    CASE d[1] = "array"  -> IsArray(s) /\ \A i \in DOMAIN d[2] : Legible(d[2][i], ItemSchemaAt(s, i))
      [] d[1] = "object" -> IsObject(s) /\ \A f \in DOMAIN d[2] : Legible(d[2][f], PropertySchema(s, f))
      [] OTHER           -> /\ ~IsArray(s) /\ ~IsObject(s)
                            /\ \/ InstanceOf(d, IF SchemaType(s) = "" THEN "string" ELSE SchemaType(s))
                               \/ ~Spells(TextOf(d), SchemaType(s))

ArgumentsPlain ==
    /\ Template = call.path
    /\ \A p \in DOMAIN call.args :
          /\ Carried(call.args[p], p) /\ Legible(call.args[p], Declared(p))
          /\ ~Delicate(call.args[p], Declared(p))
          /\ setup.version = 2 => DOMAIN p.limits = {}

BodyPlain == call.body[1] = "json" => ~Delicate(call.body[2], BodySchema(Document, result.op, call.media))

BodyConforms(op) ==
    LET schema == BodySchema(Document, op, call.media) IN
    CASE call.media \in {"", "multipart/form-data"} -> TRUE
      [] call.media = "?"                            -> FALSE
      [] schema = NoSchema                           -> ~(using.strict /\ setup.version = 3 /\ op.body # NoBody)
      [] call.media = "application/json"             -> call.body[1] = "json" /\ Conforms(call.body[2], schema)
      [] call.media = "application/x-www-form-urlencoded" ->
            /\ call.body # Garbage
            /\ setup.version = 3 => Conforms(Object(IF call.body[1] = "form" THEN call.body[2] ELSE Nothing), schema)
      [] OTHER                                       -> TRUE

CallConforms(op) ==
    /\ \A p \in DOMAIN call.args : Conforms(call.args[p], Declared(p))
    /\ \A p \in op.params : p.required => \E q \in DOMAIN call.args : <<q.in, q.name>> = <<p.in, p.name>>
    /\ using.strict => \A place \in DOMAIN call.extra : call.extra[place] = {}
    /\ BodyConforms(op)

\* The validator lets a request through exactly when the values its sender
\* encoded conform to the schemas by the keywords' own definitions: decoding,
\* checking and the required and unknown parameters together make no other
\* request pass and refuse none (but for what Delicate and Carried name).
JudgesByMeaning ==
    stage = "judged" /\ result.op # NoOperation /\ ArgumentsPlain /\ BodyPlain =>
        (result.errors = {} <=> CallConforms(result.op))

\* Behind the validator a handler finds the values the client meant, with
\* their types, and no parameter the client did not give.
ArgumentsArrive ==
    stage = "handling" /\ Judging /\ ArgumentsPlain =>
        \A place \in {"path", "query", "header", "cookie"} :
            /\ DOMAIN seen.params[place] = {p.name : p \in Given(call, place)}
            /\ \A p \in Given(call, place) : Meant(seen.params[place][p.name]) = Meant(call.args[p])
===============================================================================
