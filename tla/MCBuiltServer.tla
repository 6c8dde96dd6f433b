---------------------------- MODULE MCBuiltServer ----------------------------
(* Built servers for TLC: every keyword against every kind of datum, every  *)
(* style against every kind of value, and scripts of calls on the builder.  *)
EXTENDS ServedRequests

Str == [type |-> <<"string">>]
Whole == [type |-> <<"integer">>]
Nul == [k \in {} |-> 0]
a1  == Text(<<"a">>)
ab  == Text(<<"a", "b">>)
N(n) == Number(2 * n)
Of(s) == <<"schema", s>>
O(k, v) == Object([f \in {k} |-> v])

Schemas == {
    Str, Whole, [type |-> <<"number">>], [type |-> <<"boolean">>], [type |-> <<"array">>], [type |-> <<"object">>],
    [type |-> <<"string", "null">>], [type |-> <<"null", "integer">>], [type |-> <<"integer", "number">>],
    [type |-> <<"string">>, nullable |-> TRUE],
    [enum |-> {a1, Flag(TRUE)}], [enum |-> {GoInt(1)}], [enum |-> {Array(<<a1>>)}],
    [type |-> <<"string">>, minLength |-> 2], [type |-> <<"string">>, maxLength |-> 1],
    [pattern |-> "b"], [pattern |-> "("], [format |-> "date"], [format |-> "uri"],
    [minimum |-> 2], [minimum |-> 2, exclusiveMinimum |-> Flag(TRUE)], [exclusiveMinimum |-> <<"number", 2>>],
    [maximum |-> 2], [maximum |-> 2, exclusiveMaximum |-> Flag(TRUE)], [maximum |-> 3, exclusiveMaximum |-> Flag(FALSE)],
    [multipleOf |-> 2], [multipleOf |-> 1],
    [minItems |-> 1, maxItems |-> 1], [uniqueItems |-> TRUE], [items |-> Of(Whole)],
    [items |-> <<"tuple", <<Str, Whole>>>>],
    [items |-> <<"tuple", <<Str>>>>, additionalItems |-> Flag(FALSE)],
    [items |-> <<"tuple", <<Str>>>>, additionalItems |-> Of(Whole)],
    [additionalItems |-> Flag(FALSE)],
    [required |-> {"k"}], [minProperties |-> 1, maxProperties |-> 1],
    [properties |-> [k |-> Whole]], [properties |-> [k |-> Whole], additionalProperties |-> Flag(FALSE)],
    [additionalProperties |-> Of(Whole)],
    [properties |-> [k |-> [type |-> <<"object">>, required |-> {"m"}]]],
    [allOf |-> <<Str, [minLength |-> 2]>>], [anyOf |-> <<Whole, [maxLength |-> 1]>>],
    [oneOf |-> <<Whole, [minimum |-> 3]>>], [oneOf |-> <<Str, [enum |-> {a1}]>>],
    [type |-> <<"array">>, items |-> Of([anyOf |-> <<Str, [type |-> <<"null">>]>>])]}

Data == {
    Null, a1, ab, Text(<<>>), Text(<<"é">>), Text(<<"b">>), Text(<<"2024-01-31">>), Text(<<"2024-02-31">>),
    Text(<<"a", "://">>), N(1), N(2), Number(3), Flag(TRUE),
    Array(<<>>), Array(<<a1>>), Array(<<a1, a1>>), Array(<<a1, N(1)>>), Array(<<N(1), N(1)>>), Array(<<a1, N(1), ab>>),
    Array(<<a1, N(1), N(2)>>), Array(<<Array(<<a1, a1>>), Array(<<Text(<<"a", " ", "a">>)>>)>>), Array(<<Null>>),
    Object(Nul), O("k", N(1)), O("k", a1), O("m", a1), Object([k |-> N(1), m |-> a1]), O("k", O("m", Null)), O("k", Object(Nul))}

Typed(a)   == [kind |-> "typed", answer |-> a]
Ok         == Typed([by |-> "JSON", status |-> 200, body |-> "pets"])
Op(id)     == [id |-> id, params |-> {}, body |-> NoBody]
Takes(s)   == [required |-> TRUE, content |-> [m \in {"application/json"} |-> s], schema |-> s]
Add(m, p, op, h) == [do |-> "add", method |-> m, path |-> p, op |-> op, handler |-> h]
Reg(m, p, h)     == [do |-> "handle", method |-> m, path |-> p, handler |-> h]
Build      == [do |-> "build"]
Settings   == [version |-> 3, validate |-> TRUE, judge |-> TRUE, strictWarnings |-> FALSE, recovery |-> FALSE]
Setup(kind, steps) == [kind |-> kind, script |-> steps] @@ Settings

NoExtra   == [place \in {"query", "header", "cookie"} |-> {}]
Call(m, p) == [method |-> m, path |-> p, args |-> Nul, extra |-> NoExtra, media |-> "", body |-> NoText]

\* Bodies.
BodySetups == {Setup("body", <<Add("POST", <<<<"b">>>>, [Op("b") EXCEPT !.body = Takes(s)], Ok), Build>>) : s \in Schemas}
              \cup {[Setup("body", <<Add("POST", <<<<"b">>>>, [Op("b") EXCEPT !.body = Takes(Whole)], Ok), Build>>)
                       EXCEPT !.version = 2, !.strictWarnings = w] : w \in BOOLEAN}
BodyCalls == {[Call("POST", <<<<"b">>>>) EXCEPT !.media = "application/json", !.body = Json(d)] : d \in Data}
             \cup {[Call("POST", <<<<"b">>>>) EXCEPT !.media = m, !.body = x] :
                     m \in {"", "?", "application/json", "application/pdf", "multipart/form-data"}, x \in {NoText, Garbage}}
MediaSetups ==
    {[Setup("media", <<Add("POST", <<<<"b">>>>,
                           [Op("b") EXCEPT !.body = [Takes(Whole) EXCEPT !.content = c]], Ok), Build>>) EXCEPT !.version = v] :
        v \in {2, 3},
        c \in {[m \in {"*/*"} |-> Whole], [m \in {"application/*"} |-> Str],
               [m \in {"text/plain", "application/x-www-form-urlencoded"} |-> [properties |-> [k |-> Str], required |-> {"k"}]]}}
MediaCalls ==
    {[Call("POST", <<<<"b">>>>) EXCEPT !.media = m, !.body = x] :
        m \in {"application/json", "application/x-www-form-urlencoded", "text/plain", "application/pdf"},
        x \in {NoText, Garbage, Form([k |-> a1]), Form([m |-> a1])}}
    \cup {[Call("POST", <<<<"b">>>>) EXCEPT !.media = m, !.body = Json(d)] : m \in {"application/json", "text/plain"}, d \in {N(1), a1}}

\* Parameters, each alone in its place: the styles, and the types with their limits.
Param(place, style, explode, s, l) ==
    [name |-> "n", in |-> place, style |-> style, explode |-> explode, required |-> TRUE, schema |-> s, limits |-> l]
Styles == {<<"path", "simple">>, <<"path", "label">>, <<"path", "matrix">>, <<"query", "form">>,
           <<"query", "spaceDelimited">>, <<"query", "pipeDelimited">>, <<"query", "deepObject">>,
           <<"header", "simple">>, <<"cookie", "form">>}
Fields2 == [type |-> <<"object">>, properties |-> [k |-> Whole, m |-> Str], additionalProperties |-> Flag(FALSE)]
ParamSchemas == {NoSchema, Str, Whole, [type |-> <<"number">>], [type |-> <<"boolean">>], [type |-> <<"array">>, items |-> Of(Whole)],
                 [type |-> <<"array">>, items |-> <<"tuple", <<Str, Whole>>>>], Fields2}
Values == {a1, Text(<<>>), Text(<<"a", ",", "b">>), Text(<<"a", ".", "b">>), Text(<<"/">>), Text(<<"1">>), N(1), Number(3), Flag(TRUE),
           Array(<<>>), Array(<<N(1)>>), Array(<<N(1), N(2)>>), Array(<<a1, N(1)>>), Array(<<Text(<<"a", "|">>), N(1)>>),
           O("k", N(1)), O("k", a1), Object([k |-> N(1), m |-> a1])}
PathFor(p) == IF p.in = "path" THEN <<<<"x">>, <<"{", "n", "}">>>> ELSE <<<<"x">>>>
WithParam(p) == Setup("param", <<Add("GET", PathFor(p), [Op("x") EXCEPT !.params = {p}], Ok), Build>>)
Params == {Param(st[1], st[2], e, s, Nul) : st \in Styles, e \in BOOLEAN, s \in ParamSchemas}
Limited == {Param("query", "form", TRUE, Whole, l) :
              l \in {[minimum |-> 2, maximum |-> 4], [minimum |-> 4, maximum |-> 2], [enum |-> {GoInt(1)}], [multipleOf |-> 0]}}
           \cup {Param("header", "simple", FALSE, Str, l) :
              l \in {[minLength |-> 1, maxLength |-> 2], [pattern |-> "b"], [pattern |-> "("], [minLength |-> -1], [minItems |-> 0]}}
ParamSetups == {WithParam(p) : p \in Params \cup Limited}
               \cup {[WithParam(p) EXCEPT !.version = 2] : p \in Limited}
               \cup {[WithParam(p) EXCEPT !.validate = FALSE] : p \in {q \in Params : q.schema = Whole}}
TheParam(s) == CHOOSE p \in s.script[1].op.params : TRUE
Suits(p, v) == p.style = "deepObject" => v[1] = "object"
ParamCalls(s) ==
    LET p == TheParam(s)
        c == Call("GET", PathFor(p))
    IN {[c EXCEPT !.args = p :> v] : v \in {x \in Values : Suits(p, x)}}
       \cup IF p.in = "path" THEN {} ELSE {c}

\* Switches set while a request with unknown parameters is judged.
Loose(place) == [Param(place, IF place \in {"query", "cookie"} THEN "form" ELSE "simple", FALSE, Whole, Nul) EXCEPT !.required = FALSE]
SwitchSetups == {Setup("switch", <<Add("POST", <<<<"x">>>>, [Op("x") EXCEPT !.params = {Loose("query"), Loose("header"), Loose("cookie")},
                                                           !.body = Takes(Whole)], Ok), Build>>)}
SwitchCalls == {[Call("POST", <<<<"x">>>>) EXCEPT !.args = IF g THEN Loose("query") :> v ELSE Nul, !.extra = x, !.media = m] :
                  g \in BOOLEAN, v \in {Text(<<>>), N(1)}, m \in {"", "text/plain"},
                  x \in [{"query", "header", "cookie"} -> {{}, {"z"}}]}

\* Scripts: overlapping templates, spellings, late calls, kinds of handlers.
Pet  == <<<<"p">>, <<"{", "i", "}">>>>
Same == <<<<"p">>, <<"{", "j", "}">>>>
Mine == <<<<"p">>, <<"m">>>>
Other  == <<<<"{", "j", "}">>, <<"m">>>>
IdParam == [Param("path", "simple", FALSE, Str, Nul) EXCEPT !.name = "i"]
JdParam == [IdParam EXCEPT !.name = "j"]
PetOp(id) == [Op(id) EXCEPT !.params = {IdParam}]
AnyOp(id) == [Op(id) EXCEPT !.params = {JdParam}]
Http(w) == [kind |-> "http", writes |-> w]
Scripts == {
    <<Add("GET", Pet, PetOp("pet"), Ok), Add("GET", Mine, Op("mine"), Ok), Add("GET", Other, AnyOp("any"), Ok), Build>>,
    <<Add("get", Pet, PetOp("pet"), Ok), Reg("GET", Pet, Ok), Add("QUERY", Mine, Op("mine"), Ok), Build>>,
    <<Add("get", Pet, PetOp("pet"), Ok), Add("TRACE", Mine, Op("mine"), Ok), Build>>,
    <<Add("GET", Pet, PetOp("pet"), NoHandler), Reg("GET", Pet, Ok), Build, Add("GET", Pet, PetOp("pet2"), Ok), Add("POST", Pet, PetOp("new"), Ok)>>,
    <<Add("GET", Pet, PetOp("pet"), NoHandler), Build, Reg("GET", Pet, Ok), Add("GET", Mine, Op("mine"), Ok)>>,
    <<Add("GET", Pet, PetOp("pet"), Ok), Add("GET", Mine, Op("pet"), Ok), Build>>,
    <<Add("GET", Pet, PetOp("pet"), Ok), Add("POST", Pet, PetOp("new"), Ok), Reg("POST", Mine, Ok), Build>>,
    <<Add("GET", Pet, PetOp("pet"), Ok), Add("WATCH", Mine, Op("mine"), Ok), Build>>,
    <<Add("GET", Pet, PetOp("pet"), Ok), Reg("POST", Pet, Ok), Add("POST", Same, [Op("new") EXCEPT !.params = {JdParam}], NoHandler), Reg("GET", Pet, NoHandler), Build>>,
    <<Add("QUERY", Mine, Op("mine"), Ok), Add("GET", Pet, PetOp("pet"), Ok), Build, Add("GET", Mine, Op("late"), Ok)>>}
Handlers == {[kind |-> "panics"]}
    \cup {Typed([by |-> b, status |-> 201, body |-> x]) : b \in {"JSON", "Response", "Error", "Stream", "NoContent", "Redirect"}, x \in {"nil", "pets", "unencodable"}}
    \cup {Http(w) : w \in {<<>>, <<<<"text", "a">>>>, <<<<"status", 202>>, <<"text", "a">>>>, <<<<"text", "a">>, <<"status", 500>>>>,
                          <<<<"status", 202>>, <<"text", "a">>, <<"text", "b">>>>, <<<<"status", 202>>, <<"status", 500>>>>}}
ScriptSetups ==
    {[Setup("script", sc) EXCEPT !.version = v, !.validate = val, !.judge = j] : sc \in Scripts, v \in {2, 3}, val \in BOOLEAN, j \in BOOLEAN}
    \cup {[Setup("script", <<Add("GET", Mine, Op("mine"), h), Build>>) EXCEPT !.recovery = r] : h \in Handlers, r \in BOOLEAN}
ScriptCalls ==
    {[Call(m, p) EXCEPT !.args = CASE p = Pet -> IdParam :> v [] p \in {Other, Same} -> JdParam :> v [] OTHER -> Nul] :
        m \in {"GET", "POST", "QUERY", "TRACE"}, p \in {Pet, Same, Mine, Other, <<<<"q">>>>}, v \in {a1, Text(<<"m">>), Text(<<"p">>)}}

MCSetups == BodySetups \cup MediaSetups \cup ParamSetups \cup SwitchSetups \cup ScriptSetups
MCCalls(s) ==
    CASE s.kind = "body"   -> BodyCalls
      [] s.kind = "media"  -> MediaCalls
      [] s.kind = "param"  -> ParamCalls(s)
      [] s.kind = "switch" -> SwitchCalls
      [] s.kind = "script" -> ScriptCalls
MCSwitches(s) == IF s.kind = "switch" THEN 2 ELSE 0
\* A brace sorts after the letters.
MCTextRank(segment) ==
    IF IsParam(segment) THEN 10 + [i |-> 1, j |-> 2, n |-> 3][ParamOf(segment)]
    ELSE [b |-> 1, m |-> 2, p |-> 3, x |-> 4][segment[1]]
===============================================================================
