------------------------------ MODULE BuiltServer ------------------------------
(***************************************************************************)
(* The server of package builder: AddOperation, Handle and BuildServer make *)
(* it, and one request at a time passes its layers: recovery, validation,   *)
(* router, dispatcher, handler. The document stays shared with the builder, *)
(* the routes do not; the validator is in ServerResult, so its two switches *)
(* may be set while a request is being judged. A handler is a record        *)
(* [kind, answer] or [kind, writes].                                        *)
(***************************************************************************)
EXTENDS RequestMatching

CONSTANTS
    Setups,      \* sets of calls on the builder in order, with its settings
    Calls(_),    \* what a client may ask of a setup
    MaxSwitches(_), \* how often the switches of its validator are set
    PartOf(_, _, _, _, _, _)    \* [errors, warnings, values] the validator finds in
                                \* one place, for a document, template, operation,
                                \* request and switches

\* The templates the scripts add operations to.
Templates == UNION {{e.path : e \in {x \in Range(s.script) : x.do = "add"}} : s \in Setups}

\* A handler is nil or of one of three kinds.
NoHandler == [kind |-> "none"]
IsHandler(h) ==
    \/ h = NoHandler
    \/ h.kind \in {"typed", "panics"}
    \/ h.kind = "http" /\ h.writes \in Seq(Range(h.writes))
ASSUME ScriptsAssumption ==
    \A s \in Setups : /\ s.script \in Seq(Range(s.script))
                      /\ \A e \in Range(s.script) : e.do \in {"add", "handle"} => IsHandler(e.handler)
ASSUME TemplatesAssumption == Templates \subseteq Seq(Seq(STRING)) \ {NoMatch}
\* No two segments have the same text.
ASSUME TextRankAssumption  ==
    \A a, b \in UNION {Range(t) : t \in Templates} : TextRank(a) \in Int /\ (a # b => TextRank(a) # TextRank(b))

VARIABLES
    setup,       \* [script, version, validate, judge, strictWarnings, recovery]
    made,        \* how many calls of the script have been made
    paths,       \* Builder.paths, which is also the map of the document
    operationIDs, \* Builder.operationIDs
    handlers,    \* ServerBuilder.handlers, <<path, method>> -> handler
    faulty,      \* Builder.errors is not empty
    server,      \* what BuildServer fixed: the templates and the routes
    switches, switched,
    call,        \* what the client means
    request,     \* what it sends, and whether its body is still to be read
    stage, using, result, seen, reply

builderVars == <<setup, made, paths, operationIDs, handlers, faulty, server>>
vars == <<builderVars, switches, switched, call, request, stage, using, result, seen, reply>>

NoItem    == [params |-> {}, ops |-> [m \in {} |-> NoOperation]]
NoServer  == [templates |-> {}, routes |-> [r \in {} |-> NoHandler]]
NotYet    == [id |-> "nothing"]
NoReply   == [status |-> 0, text |-> <<>>]
NoResult  == [errors |-> {}, warnings |-> {}, params |-> [p \in {} |-> Nothing], op |-> NoOperation]
Unset     == [body |-> NoText]
Defaults  == [strict |-> FALSE, warn |-> TRUE]

Document == [version |-> setup.version, paths |-> paths]

Init ==
    /\ setup \in Setups /\ made = 0
    /\ paths = [t \in {} |-> NoOperation] /\ operationIDs = {} /\ handlers = [k \in {} |-> NoHandler]
    /\ faulty = FALSE /\ server = NoServer
    /\ switches = Defaults /\ switched = 0 /\ using = Defaults
    /\ call = Unset /\ request = Unset /\ stage = "building"
    /\ result = NoResult /\ seen = NotYet /\ reply = NoReply

-------------------------------------------------------------------------------
(* Building. *)

\* The next call of the script is of this kind.
Due(kind)  == made < Len(setup.script) /\ setup.script[made + 1].do = kind
ThisCall   == setup.script[made + 1]

Put(f, key, value) == [k \in DOMAIN f \cup {key} |-> IF k = key THEN value ELSE f[k]]

\* Both spellings of a method name its field of the path item.
Field(method) == CASE method = "get" -> "GET" [] method = "post" -> "POST" [] OTHER -> method

\* Version 3 stands for 3.2. TRACE came with 3.0 and QUERY with 3.2; any method
\* that is not one of these is an error.
Supported(method) ==
    Field(method) \in IF setup.version = 2 THEN Methods \ {"TRACE"} ELSE Methods \cup {"QUERY"}

\* What an option sets on a parameter must make sense ...
Limit(p, k, default) == IF Has(p.limits, k) THEN p.limits[k] ELSE default
Sensible(p) ==
    /\ \A r \in {<<"minimum", "maximum">>, <<"minLength", "maxLength">>, <<"minItems", "maxItems">>} :
          {r[1], r[2]} \subseteq DOMAIN p.limits => p.limits[r[1]] <= p.limits[r[2]]
    /\ \A k \in {"minLength", "maxLength", "minItems", "maxItems"} : Limit(p, k, 0) >= 0
    /\ Limit(p, "multipleOf", 1) > 0
    /\ Limit(p, "pattern", "") # "("

\* ... and becomes part of its schema from 3.0 on. A 2.0 parameter keeps it
\* beside the schema of its type.
Processed(p) ==
    IF setup.version = 2 \/ p.schema = NoSchema THEN p ELSE [p EXCEPT !.schema = p.limits @@ @]

\* Mutant: each registration makes the map of its path anew.
RegisterAlone(path, method, handler) ==
    handlers' = Put([k \in {x \in DOMAIN handlers : x[1] # path} |-> handlers[k]], <<path, method>>, handler)

RegisterHandler(path, method, handler) == handlers' = Put(handlers, <<path, method>>, handler)

\* A parameter with limits that make no sense is left out.
Operation(op) == [op EXCEPT !.params = {Processed(p) : p \in {q \in @ : Sensible(q)}}]

\* A method, an operationId or a limit that is wrong is an error, and the
\* operation is there nevertheless.
AddOperation ==
    /\ stage \in {"building", "idle"} /\ Due("add")
    /\ LET e    == ThisCall
           item == IF e.path \in DOMAIN paths THEN paths[e.path] ELSE NoItem
       IN /\ IF e.handler = NoHandler THEN UNCHANGED handlers ELSE RegisterHandler(e.path, e.method, e.handler)
          /\ paths' = Put(paths, e.path,
                          IF Supported(e.method) THEN [item EXCEPT !.ops = Put(@, Field(e.method), Operation(e.op))] ELSE item)
          /\ operationIDs' = operationIDs \cup {e.op.id}
          /\ faulty' = (faulty \/ ~Supported(e.method) \/ e.op.id \in operationIDs
                               \/ \E p \in e.op.params : ~Sensible(p))
    /\ made' = made + 1
    /\ UNCHANGED <<setup, server, switches, switched, call, request, stage, using, result, seen, reply>>

Handle ==
    /\ stage \in {"building", "idle"} /\ Due("handle")
    /\ RegisterHandler(ThisCall.path, ThisCall.method, ThisCall.handler)
    /\ made' = made + 1
    /\ UNCHANGED <<setup, paths, operationIDs, faulty, server, switches, switched, call, request, stage, using, result, seen, reply>>

\* A route for every operation in one of the eight fields of a path item, with
\* the handler registered under its path and method, if there is one.
Routes == [k \in UNION {{<<t, m>> : m \in DOMAIN paths[t].ops \cap Methods} : t \in DOMAIN paths} |->
              [op      |-> paths[k[1]].ops[k[2]],
               handler |-> IF k \in DOMAIN handlers THEN handlers[k] ELSE NoHandler]]

BuildServer ==
    /\ stage = "building" /\ Due("build")
    /\ made' = made + 1
    /\ IF faulty THEN stage' = "failed" /\ UNCHANGED server
       ELSE /\ stage' = "idle"
            /\ server' = [templates |-> DOMAIN paths, routes |-> Routes]
    /\ UNCHANGED <<setup, paths, operationIDs, handlers, faulty, switches, switched, call, request, using, result, seen, reply>>

-------------------------------------------------------------------------------
(* The client encodes what it means as the document says. *)

Given(c, place) == {p \in DOMAIN c.args : p.in = place}
PathOf(c) ==
    [i \in DOMAIN c.path |->
       IF IsParam(c.path[i])
       THEN LET p == CHOOSE q \in Given(c, "path") : q.name = ParamOf(c.path[i]) IN EncodedText(c.args[p], p)
       ELSE c.path[i]]
Texts(c, place) ==
    LET mine == Given(c, place)
    IN [n \in {p.name : p \in mine} \cup c.extra[place] |->
          IF n \in c.extra[place] THEN <<"a">>
          ELSE LET p == CHOOSE q \in mine : q.name = n IN EncodedText(c.args[p], p)]
QueryOf(c) ==
    LET mine == {EncodedQuery(c.args[p], p) : p \in Given(c, "query")} \cup {[k \in {<<n>>} |-> <<<<"a">>>>] : n \in c.extra.query}
    IN [k \in UNION {DOMAIN q : q \in mine} |-> (CHOOSE q \in mine : k \in DOMAIN q)[k]]

Send ==
    /\ stage = "idle"
    /\ \E c \in Calls(setup) :
          /\ call' = c
          /\ request' = [method |-> c.method, path |-> PathOf(c), query |-> QueryOf(c), headers |-> Texts(c, "header"),
                         cookies |-> Texts(c, "cookie"), media |-> c.media, body |-> c.body]
    /\ stage' = "sent"
    /\ UNCHANGED <<builderVars, switches, switched, using, result, seen, reply>>

SetSwitches ==
    /\ switched < MaxSwitches(setup) /\ stage \notin {"building", "failed", "answered", "broken"}
    /\ switches' \in [strict : BOOLEAN, warn : BOOLEAN] \ {switches}
    /\ switched' = switched + 1
    /\ UNCHANGED <<builderVars, call, request, stage, using, result, seen, reply>>

-------------------------------------------------------------------------------
(* Validation. *)

Judging  == setup.validate /\ setup.judge
Template == MatchPath(server.templates, request.path)

Answer(status, text) == reply' = [status |-> status, text |-> text] /\ stage' = "answered"

Enter ==
    /\ stage = "sent"
    /\ using' = switches
    /\ LET op == GetOperation(Document, Template, request.method) IN
       /\ result' = [NoResult EXCEPT !.op = op, !.errors = IF op = NoOperation THEN {<<"request", "">>} ELSE {}]
       /\ stage' = IF ~Judging THEN "routing" ELSE IF op = NoOperation THEN "judged" ELSE "path"
    /\ UNCHANGED <<builderVars, switches, switched, call, request, seen, reply>>

Found(place, next) ==
    /\ LET part == PartOf(place, Document, Template, result.op, request, using)
       IN result' = [result EXCEPT !.errors = @ \cup part.errors, !.warnings = @ \cup part.warnings,
                                   !.params = Put(@, place, part.values)]
    /\ stage' = next
    /\ UNCHANGED <<builderVars, switches, switched, call, using, seen, reply>>

ValidatePath ==
    /\ stage = "path"
    /\ Found("path", "query") /\ UNCHANGED request
ValidateQuery ==
    /\ stage = "query"
    /\ Found("query", "header") /\ UNCHANGED request
ValidateHeaders ==
    /\ stage = "header"
    /\ Found("header", "cookie") /\ UNCHANGED request
ValidateCookies ==
    /\ stage = "cookie"
    /\ Found("cookie", "body") /\ UNCHANGED request

\* What was read of the body is gone.
ValidateBody ==
    /\ stage = "body"
    /\ Found("body", "judged")
    /\ request' = IF BodyRead(Document, result.op, request) THEN [request EXCEPT !.body = NoText] ELSE request

Refuses == result.errors # {} \/ (result.warnings # {} /\ setup.strictWarnings)

Judge ==
    /\ stage = "judged"
    /\ IF Refuses THEN Answer(400, <<"validation failed">>) ELSE stage' = "routing" /\ UNCHANGED reply
    /\ UNCHANGED <<builderVars, switches, switched, call, request, using, result, seen>>

-------------------------------------------------------------------------------
(* Routing and handling. *)

\* Mutant: the router takes the templates by their length alone.
RouteByLength ==
    LET hits == {t \in {k[1] : k \in DOMAIN server.routes} : Fits(t, request.path)}
    IN IF hits = {} THEN NoMatch ELSE CHOOSE t \in hits : \A u \in hits \ {t} : LongestFirst(t, u)

RoutePath == MatchPath({k[1] : k \in DOMAIN server.routes}, request.path)

Route ==
    /\ stage = "routing"
    /\ IF RoutePath = NoMatch THEN Answer(404, <<"not found">>) ELSE stage' = "dispatching" /\ UNCHANGED reply
    /\ UNCHANGED <<builderVars, switches, switched, call, request, using, result, seen>>

\* The values as the URL has them, when nothing was validated.
RawParams == [place \in {"path", "query", "header", "cookie"} |->
    CASE place = "path"  -> [n \in ParamNames(RoutePath) |-> Text(Bound(RoutePath, request.path)[n])]
      [] place = "query" -> [k \in {KeyOf(x) : x \in DOMAIN request.query} |->
                                Raw(request.query[CHOOSE x \in DOMAIN request.query : KeyOf(x) = k])]
      [] OTHER           -> Nothing]

RawBody    == IF request.media = "multipart/form-data" THEN NoText ELSE request.body
ParsedBody == IF RawBody[1] = "json" /\ request.media \in {"", "application/json"} THEN RawBody[2] ELSE Null

\* Mutant: the handler gets the texts, although the validator has read them.
BuildFromURL(route) ==
    seen' = [id |-> route.op.id, op |-> route.op, path |-> RoutePath, raw |-> RawBody, body |-> ParsedBody,
             params |-> RawParams]

BuildRequest(route) ==
    seen' = [id |-> route.op.id, op |-> route.op, path |-> RoutePath, raw |-> RawBody, body |-> ParsedBody,
             params |-> IF Judging THEN result.params ELSE RawParams]

Dispatch ==
    /\ stage = "dispatching"
    /\ LET key == <<RoutePath, request.method>> IN
       CASE key \notin DOMAIN server.routes -> Answer(405, <<"Method Not Allowed">>) /\ UNCHANGED <<seen, request>>
         [] key \in DOMAIN server.routes /\ server.routes[key].handler = NoHandler ->
               Answer(501, <<"not implemented">>) /\ UNCHANGED <<seen, request>>
         [] OTHER -> /\ BuildRequest(server.routes[key])
                     /\ request' = [request EXCEPT !.body = IF RawBody = NoText THEN @ ELSE NoText]
                     /\ stage' = "handling" /\ UNCHANGED reply
    /\ UNCHANGED <<builderVars, switches, switched, call, using, result>>

Handler == server.routes[<<seen.path, request.method>>].handler

\* What a response puts on the connection, in order. A body that cannot be
\* encoded fails after the status is out.
Writes(a) ==
    CASE a.by = "JSON"      -> <<<<"type", "application/json">>, <<"status", a.status>>>> \o
                               (IF a.body = "nil" THEN <<>> ELSE IF a.body = "unencodable" THEN <<<<"fail", 0>>>>
                                ELSE <<<<"text", a.body>>>>)
      [] a.by = "NoContent" -> <<<<"status", 204>>>>
      [] a.by = "Error"     -> <<<<"type", "application/json">>, <<"status", a.status>>, <<"text", a.body>>>>
      [] a.by = "Redirect"  -> <<<<"header", "Location">>, <<"status", a.status>>>>
      [] a.by = "Stream"    -> <<<<"type", "other">>, <<"status", a.status>>, <<"text", a.body>>>>
      [] a.by = "Response"  -> <<<<"header", "X-Custom">>, <<"type", "other">>, <<"status", a.status>>>> \o
                               (IF a.body = "nil" THEN <<>> ELSE <<<<"text", a.body>>>>)

\* The default error handler writes on what is left of the connection.
WithErrorHandler(writes) ==
    IF writes # <<>> /\ Last(writes) = <<"fail", 0>>
    THEN Front(writes) \o <<<<"type", "text/plain">>, <<"status", 500>>, <<"text", "internal server error">>>>
    ELSE writes

\* The writes of one kind, in their order.
Ofs(writes, what) ==
    LET upTo[i \in 0..Len(writes)] ==
            IF i = 0 THEN <<>>
            ELSE IF writes[i][1] = what THEN Append(upTo[i - 1], writes[i]) ELSE upTo[i - 1]
    IN  upTo[Len(writes)]
Second(pairs)     == [i \in DOMAIN pairs |-> pairs[i][2]]

\* net/http: the first status counts, a text without one makes it 200.
Served(writes) ==
    LET starts == {i \in DOMAIN writes : writes[i][1] \in {"status", "text"}}
        first  == IF starts = {} THEN 0 ELSE Min(starts)
    IN [status |-> IF starts = {} \/ writes[first][1] = "text" THEN 200 ELSE writes[first][2],
        text   |-> Second(Ofs(writes, "text"))]

\* Mutant: a later text replaces an earlier one.
CapturedLastText(writes) ==
    LET all   == Ofs(writes, "status")
        texts == Ofs(writes, "text")
    IN <<<<"status", IF all = <<>> THEN 200 ELSE Last(all)[2]>>>> \o IF texts = <<>> THEN <<>> ELSE <<Last(texts)>>

\* responseCapture: the last status counts, and no status is 200.
Captured(writes) ==
    LET all == Ofs(writes, "status")
    IN <<<<"status", IF all = <<>> THEN 200 ELSE Last(all)[2]>>>> \o Ofs(writes, "text")

Run ==
    /\ stage = "handling"
    /\ CASE Handler.kind = "typed" ->
              LET out == Served(WithErrorHandler(Writes(Handler.answer))) IN Answer(out.status, out.text)
         [] Handler.kind = "http"  ->
              LET out == Served(Captured(Handler.writes)) IN Answer(out.status, out.text)
         [] Handler.kind = "panics" -> stage' = "panicked" /\ UNCHANGED reply
    /\ UNCHANGED <<builderVars, switches, switched, call, request, using, result, seen>>

\* Mutant: the option leaves the layer out.
RecoverUnlessAsked ==
    /\ stage = "panicked"
    /\ IF ~setup.recovery THEN Answer(500, <<"internal server error">>) ELSE stage' = "broken" /\ UNCHANGED reply
    /\ UNCHANGED <<builderVars, switches, switched, call, request, using, result, seen>>

\* Without the recovery layer the connection is cut.
Recover ==
    /\ stage = "panicked"
    /\ IF setup.recovery THEN Answer(500, <<"internal server error">>) ELSE stage' = "broken" /\ UNCHANGED reply
    /\ UNCHANGED <<builderVars, switches, switched, call, request, using, result, seen>>

Over == stage \in {"answered", "broken", "failed"} /\ UNCHANGED vars

Validate == ValidatePath \/ ValidateQuery \/ ValidateHeaders \/ ValidateCookies \/ ValidateBody
Serve    == Enter \/ Validate \/ Judge \/ Route \/ Dispatch \/ Run \/ Recover
Next     == AddOperation \/ Handle \/ BuildServer \/ Send \/ SetSwitches \/ Serve \/ Over

\* A request runs in a goroutine of its own, which the scheduler keeps running:
\* it does not stay for ever before any of its steps (each of them is a step of
\* Serve, the one action that leaves these stages).
Serving == {"sent", "path", "query", "header", "cookie", "body", "judged", "routing", "dispatching", "handling", "panicked"}
Moves   == stage \in Serving /\ stage' \in (Serving \cup {"answered", "broken"}) \ {stage}
Spec    == Init /\ [][Next]_vars /\ WF_stage(Moves)
-------------------------------------------------------------------------------
(* Properties. *)

\* The first call of BuildServer.
BuiltAt == CHOOSE i \in DOMAIN setup.script :
    setup.script[i].do = "build" /\ \A j \in 1..(i - 1) : setup.script[j].do # "build"

Registers(e, path, method) == e.do \in {"add", "handle"} /\ e.path = path /\ e.method = method /\ e.handler # NoHandler
\* The function nil, registered as a handler.
Withdraws(e, path, method) == e.do = "handle" /\ e.path = path /\ e.method = method /\ e.handler = NoHandler
Registered(path, method) ==
    \E i \in 1..(BuiltAt - 1) :
        /\ Registers(setup.script[i], path, method)
        /\ \A j \in (i + 1)..(BuiltAt - 1) : ~Withdraws(setup.script[j], path, method)

\* A call the validator let through, on an operation that has a handler, is
\* never turned away by the router or the dispatcher, however the operation and
\* its handler were registered (a QUERY operation of 3.2 has no route).
RegisteredHandlersServe ==
    stage = "answered" /\ ~(Judging /\ Refuses) /\ Template = call.path =>
        \A i \in 1..(BuiltAt - 1) : LET e == setup.script[i] IN
            /\ e.do = "add" /\ e.path = call.path /\ Field(e.method) = call.method /\ call.method \in Methods
            /\ Registered(call.path, call.method)
            => seen # NotYet

\* A handler receives no request that was judged by another operation, unless
\* the builder set the operation it was judged by after the server was built.
JudgedByItsOperation ==
    stage = "handling" /\ Judging =>
        \/ seen.id = result.op.id
        \/ \E i \in (BuiltAt + 1)..Len(setup.script) : LET e == setup.script[i] IN
               e.do = "add" /\ e.path = Template /\ Field(e.method) = request.method

Orderly(writes) ==
    LET sets == {i \in DOMAIN writes : writes[i][1] = "status"} IN
    /\ Cardinality(sets) <= 1
    /\ \A i \in sets, j \in DOMAIN writes : writes[j][1] = "text" => i < j

\* HandleFunc records what a net/http handler writes and replays it: the client
\* gets what the handler would have sent itself, if it sets its status once and
\* before its text.
CapturedAnswersAgree ==
    stage = "answered" /\ seen # NotYet /\ Handler.kind = "http" /\ Orderly(Handler.writes) =>
        reply = Served(Handler.writes)

\* Every request ends: in an answer, or in a cut connection after a panic that
\* no recovery layer caught.
EveryCallEnds ==
    stage = "sent" ~> \/ stage = "answered"
                      \/ stage = "broken" /\ ~setup.recovery /\ Handler.kind = "panics"
===============================================================================
