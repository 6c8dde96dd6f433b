---------------------------- MODULE RequestMatching ----------------------------
(***************************************************************************)
(* The HTTP validator (package httpvalidator): which template a path takes, *)
(* which operation and which parameters and schemas then apply. A path and  *)
(* a template are sequences of segments, a parameter segment being {name},  *)
(* a segment a sequence of characters. A document is a record               *)
(*   [version, paths : template -> [params, ops : method -> operation]]     *)
(* and an operation a record [id, params, body].                            *)
(***************************************************************************)
EXTENDS WireFormats

CONSTANT TextRank(_)   \* the place of a segment among texts, as Go compares strings

NoMatch == <<>>
NoBody  == [required |-> FALSE, content |-> [m \in {} |-> NoSchema], schema |-> NoSchema]

IsParam(segment)   == segment # <<>> /\ segment[1] = "{"
ParamOf(segment)   == segment[2]
ParamNames(tpl)    == {ParamOf(tpl[i]) : i \in {j \in DOMAIN tpl : IsParam(tpl[j])}}

Specificity(tpl)    == Total([i \in DOMAIN tpl |-> IF IsParam(tpl[i]) THEN -1 ELSE Bytes(tpl[i])])
TemplateLength(tpl) == Total([i \in DOMAIN tpl |-> 1 + Bytes(tpl[i])])

\* Two templates that fit one path differ first in a segment of which one is a
\* parameter; its text decides.
SortsBefore(a, b) ==
    \E i \in DOMAIN a : /\ TextRank(a[i]) < TextRank(b[i])
                        /\ \A j \in 1..(i - 1) : a[j] = b[j]

\* Mutant: the longest template first.
LongestFirst(a, b) ==
    \/ TemplateLength(a) > TemplateLength(b)
    \/ TemplateLength(a) = TemplateLength(b) /\ SortsBefore(a, b)

\* The order the matchers are tried in.
TriedBefore(a, b) ==
    \/ Specificity(a) > Specificity(b)
    \/ /\ Specificity(a) = Specificity(b)
       /\ \/ TemplateLength(a) > TemplateLength(b)
          \/ TemplateLength(a) = TemplateLength(b) /\ SortsBefore(a, b)

Fits(tpl, path) ==
    /\ Len(tpl) = Len(path)
    /\ \A i \in DOMAIN tpl : IF IsParam(tpl[i]) THEN path[i] # <<>> ELSE tpl[i] = path[i]

MatchPath(templates, path) ==
    LET hits == {t \in templates : Fits(t, path)}
    IN IF hits = {} THEN NoMatch ELSE CHOOSE t \in hits : \A u \in hits \ {t} : TriedBefore(t, u)

\* The texts the parameters of a template take in a path.
Bound(tpl, path) == [n \in ParamNames(tpl) |-> path[CHOOSE i \in DOMAIN tpl : tpl[i] = <<"{", n, "}">>]]

-------------------------------------------------------------------------------
Methods == {"GET", "POST", "PUT", "DELETE", "PATCH", "HEAD", "OPTIONS", "TRACE"}
NoOperation == [id |-> "none", params |-> {}, body |-> NoBody]

GetOperation(doc, tpl, method) ==
    IF tpl \in DOMAIN doc.paths /\ method \in Methods \cap DOMAIN doc.paths[tpl].ops
    THEN doc.paths[tpl].ops[method] ELSE NoOperation

\* The parameters of the path but for the ones the operation has itself.
GetParameters(doc, tpl, op) ==
    LET mine == op.params
        path == IF tpl \in DOMAIN doc.paths THEN doc.paths[tpl].params ELSE {}
    IN mine \cup {p \in path : \A q \in mine : <<q.in, q.name>> # <<p.in, p.name>>}
ParametersIn(doc, tpl, op, place) == {p \in GetParameters(doc, tpl, op) : p.in = place}

Nothing == [n \in {} |-> Null]

-------------------------------------------------------------------------------
(* The body: no text, the JSON of a datum, a form, or a text that is neither. *)

NoText     == <<"empty", 0>>
Json(d)    == <<"json", d>>
Form(f)    == <<"form", f>>
Garbage    == <<"garbage", 0>>

MatchMediaType(pattern, media) ==
    \/ pattern \in {"*/*", media}
    \/ pattern = "application/*" /\ media \in {"application/json", "application/x-www-form-urlencoded", "application/pdf"}
ContentSchema(content, media) ==
    LET hits == {m \in DOMAIN content : MatchMediaType(m, media)} IN
    IF media \in DOMAIN content THEN content[media]
    ELSE IF hits # {} THEN content[CHOOSE m \in hits : TRUE] ELSE NoSchema
BodySchema(doc, op, media) ==
    IF doc.version = 3 THEN ContentSchema(op.body.content, media) ELSE op.body.schema

\* A server's request always has a body to read; without a Content-Type or a
\* schema, or in several parts, it is not read. "?" does not parse.
BodyRead(doc, op, request) ==
    /\ request.media \notin {"", "?", "multipart/form-data"}
    /\ BodySchema(doc, op, request.media) # NoSchema
===============================================================================
