------------------------------ MODULE WireFormats ------------------------------
(***************************************************************************)
(* How parameters travel: the encodings the comments of                     *)
(* httpvalidator/params.go give for each style, and the decoding that file  *)
(* performs. A query is a function from keys, which are texts, to the       *)
(* sequence of values given for the key; the other places hold one text.    *)
(* A parameter is a record [name, in, style, explode, required, schema].    *)
(***************************************************************************)
EXTENDS SchemaData

Split(text, at) ==
    FoldLeft(LAMBDA parts, c : IF c = at THEN Append(parts, <<>>)
                               ELSE [parts EXCEPT ![Len(parts)] = Append(@, c)],
             <<<<>>>>, text)
Join(parts, with) ==
    FoldLeftDomain(LAMBDA out, i : (IF i = 1 THEN out ELSE out \o <<with>>) \o parts[i], <<>>, parts)
After(text, prefix) == SubSeq(text, Len(prefix) + 1, Len(text))
Named(name)         == <<name, "=">>

\* The place of the first c of a text, or zero.
IndexOf(text, c) == SelectInSeq(text, LAMBDA x : x = c)

-------------------------------------------------------------------------------
(* Values from texts. *)

Digits == [d \in {"1", "2", "3", "5"} |-> CHOOSE n \in 1..5 : ToString(n) = d]

IsDigits(text) == text # <<>> /\ Range(text) \subseteq DOMAIN Digits
IntOf(text)    == FoldLeft(LAMBDA n, c : 10 * n + Digits[c], 0, text)
\* A half is the one fraction of the model.
Half           == <<".", "5">>
IsNumber(text) == IsDigits(text) \/ (IsSuffix(Half, text) /\ IsDigits(Front(Front(text))))
HalvesOf(text) == IF IsSuffix(Half, text) THEN 2 * IntOf(Front(Front(text))) + 1 ELSE 2 * IntOf(text)
Truths         == {<<"true">>, <<"1">>}
Falsehoods     == {<<"false">>}

CoerceValue(text, s) ==
    CASE SchemaType(s) = "integer" /\ IsDigits(text)                   -> Int64(IntOf(text))
      [] SchemaType(s) = "number" /\ IsNumber(text)                    -> Number(HalvesOf(text))
      [] SchemaType(s) = "boolean" /\ text \in Truths \cup Falsehoods  -> Flag(text \in Truths)
      [] OTHER                                                         -> Text(text)

CoerceArray(parts, s) == Array([i \in DOMAIN parts |-> CoerceValue(parts[i], ItemSchemaAt(s, i))])

PropertySchema(s, p) == IF p \in DOMAIN PropertiesOf(s) THEN s.properties[p] ELSE NoSchema

\* The texts that name properties, and the object a set of [key, val] pairs is.
KeyOf(text)        == IF Len(text) = 1 THEN text[1] ELSE text
ObjectOf(pairs, s) ==
    LET keys == {KeyOf(pairs[i].key) : i \in DOMAIN pairs}
        Latest(k) == pairs[Max({i \in DOMAIN pairs : KeyOf(pairs[i].key) = k})].val
    IN Object([k \in keys |-> CoerceValue(Latest(k), PropertySchema(s, k))])

\* key=value parts, the ones without a key skipped.
Assignments(parts) ==
    LET good == SelectSeq(parts, LAMBDA p : IndexOf(p, "=") > 1)
    IN [i \in DOMAIN good |-> [key |-> SubSeq(good[i], 1, IndexOf(good[i], "=") - 1),
                               val |-> SubSeq(good[i], IndexOf(good[i], "=") + 1, Len(good[i]))]]
\* key,value,key,value: a last key without a value is dropped.
Alternating(parts) == [i \in 1..Len(parts) \div 2 |-> [key |-> parts[2 * i - 1], val |-> parts[2 * i]]]

-------------------------------------------------------------------------------
(* The decoding. *)

IsArray(s)  == SchemaType(s) = "array"
IsObject(s) == SchemaType(s) = "object"

DeserializeSimple(text, s, explode) ==
    CASE s = NoSchema -> Text(text)
      [] IsArray(s)   -> CoerceArray(Split(text, ","), s)
      [] IsObject(s)  -> LET parts == Split(text, ",")
                         IN ObjectOf(IF explode THEN Assignments(parts) ELSE Alternating(parts), s)
      [] OTHER        -> CoerceValue(text, s)

DeserializeLabel(text, s, explode) ==
    LET rest == After(text, <<".">>) IN
    CASE ~IsPrefix(<<".">>, text) -> Text(text)
      [] IsPrefix(<<".">>, text) /\ s = NoSchema -> Text(rest)
      [] IsPrefix(<<".">>, text) /\ IsArray(s) ->
            CoerceArray(Split(rest, IF explode THEN "." ELSE ","), s)
      [] IsPrefix(<<".">>, text) /\ IsObject(s) ->
            ObjectOf(IF explode THEN Assignments(Split(rest, ".")) ELSE Alternating(Split(rest, ",")), s)
      [] OTHER -> CoerceValue(rest, s)

MatrixArray(rest, name, s, explode) ==
    LET mine == SelectSeq(Split(rest, ";"), LAMBDA p : IsPrefix(Named(name), p)) IN
    IF explode THEN CoerceArray([i \in DOMAIN mine |-> After(mine[i], Named(name))], s)
    ELSE IF IsPrefix(Named(name), rest) THEN CoerceArray(Split(After(rest, Named(name)), ","), s)
    ELSE Array(<<>>)

MatrixObject(rest, name, s, explode) ==
    IF explode THEN ObjectOf(Assignments(Split(rest, ";")), s)
    ELSE IF IsPrefix(Named(name), rest) THEN ObjectOf(Alternating(Split(After(rest, Named(name)), ",")), s)
    ELSE Object([k \in {} |-> Null])

DeserializeMatrix(text, name, s, explode) ==
    LET rest == After(text, <<";">>)
        bare == IF IsPrefix(Named(name), rest) THEN After(rest, Named(name)) ELSE rest
    IN CASE ~IsPrefix(<<";">>, text) -> Text(text)
         [] IsPrefix(<<";">>, text) /\ IsArray(s)  -> MatrixArray(rest, name, s, explode)
         [] IsPrefix(<<";">>, text) /\ IsObject(s) -> MatrixObject(rest, name, s, explode)
         [] OTHER -> CoerceValue(bare, s)

\* One value as it is, several as a list of texts.
Raw(values) == IF Len(values) = 1 THEN Text(values[1]) ELSE Array([i \in DOMAIN values |-> Text(values[i])])

DeserializeForm(values, s, explode) ==
    CASE s = NoSchema -> Raw(values)
      [] IsArray(s) /\ (explode \/ Len(values) # 1) -> CoerceArray(values, s)
      [] IsArray(s) /\ ~explode /\ Len(values) = 1  -> CoerceArray(Split(values[1], ","), s)
      [] IsObject(s) /\ explode                     -> Raw(values)
      [] IsObject(s) /\ ~explode /\ Len(values) = 1 -> ObjectOf(Alternating(Split(values[1], ",")), s)
      [] OTHER -> IF Len(values) = 1 THEN CoerceValue(values[1], s) ELSE Raw(values)

DeserializeDelimited(values, at, s) ==
    LET parts == Split(Join(values, at), at) IN
    IF IsArray(s) THEN CoerceArray(parts, s)
    ELSE IF Len(parts) = 1 THEN CoerceValue(parts[1], s) ELSE Raw(parts)

DeserializePath(text, p) ==
    CASE p.style = "simple" -> DeserializeSimple(text, p.schema, p.explode)
      [] p.style = "label"  -> DeserializeLabel(text, p.schema, p.explode)
      [] p.style = "matrix" -> DeserializeMatrix(text, p.name, p.schema, p.explode)
      [] OTHER              -> Text(text)

DeserializeQuery(values, p) ==
    CASE p.style = "form"           -> DeserializeForm(values, p.schema, p.explode)
      [] p.style = "spaceDelimited" -> DeserializeDelimited(values, " ", p.schema)
      [] p.style = "pipeDelimited"  -> DeserializeDelimited(values, "|", p.schema)
      [] OTHER                      -> Raw(values)

\* The keys name[property] of a query.
DeepKeys(query, name) == {k \in DOMAIN query : IsPrefix(<<name, "[">>, k) /\ IndexOf(k, "]") > 0}
DeserializeDeepObject(query, p) ==
    LET Prop(k) == KeyOf(SubSeq(k, 3, IndexOf(k, "]") - 1))
        keys    == DeepKeys(query, p.name)
        Key(f)  == CHOOSE k \in keys : Prop(k) = f
    IN Object([f \in {Prop(k) : k \in keys} |->
                 IF Len(query[Key(f)]) = 1 THEN CoerceValue(query[Key(f)][1], PropertySchema(p.schema, f))
                 ELSE Raw(query[Key(f)])])

DeserializeHeader(text, p) == DeserializeSimple(text, p.schema, p.explode)

DeserializeCookie(text, p) ==
    IF IsArray(p.schema) THEN DeserializeSimple(text, p.schema, FALSE) ELSE CoerceValue(text, p.schema)

-------------------------------------------------------------------------------
(* The encodings the comments give. *)

TextOfNumber(h) == <<ToString(h \div 2)>> \o IF h % 2 = 1 THEN Half ELSE <<>>
TextOf(d) ==
    CASE d[1] = "string"  -> d[2]
      [] d[1] = "boolean" -> <<IF d[2] THEN "true" ELSE "false">>
      [] OTHER            -> TextOfNumber(d[2])

TextsOf(items) == [i \in DOMAIN items |-> TextOf(items[i])]
Keys(fields)   == SetToSeq(DOMAIN fields)
\* k=v for each field, and k,v,k,v.
Assigned(fields) == [i \in DOMAIN Keys(fields) |-> <<Keys(fields)[i], "=">> \o TextOf(fields[Keys(fields)[i]])]
Listed(fields)   == FlattenSeq([i \in DOMAIN Keys(fields) |-> <<<<Keys(fields)[i]>>, TextOf(fields[Keys(fields)[i]])>>])

\* The parts of a value, in the exploded form or not.
Parts(d, explode) ==
    CASE d[1] = "array"                -> TextsOf(d[2])
      [] d[1] = "object" /\ explode    -> Assigned(d[2])
      [] d[1] = "object" /\ ~explode   -> Listed(d[2])
      [] OTHER                         -> <<TextOf(d)>>

\* ;id=3;id=4 and ;role=admin;name=Alex, else ;id=3,4.
EncodedMatrix(d, p) ==
    IF p.explode /\ d[1] \in {"array", "object"}
    THEN FlattenSeq([i \in DOMAIN Parts(d, TRUE) |->
            <<";">> \o (IF d[1] = "array" THEN Named(p.name) ELSE <<>>) \o Parts(d, TRUE)[i]])
    ELSE <<";">> \o Named(p.name) \o Join(Parts(d, FALSE), ",")

EncodedText(d, p) ==
    CASE p.in = "path" /\ p.style = "label"  -> <<".">> \o Join(Parts(d, p.explode), IF p.explode THEN "." ELSE ",")
      [] p.in = "path" /\ p.style = "matrix" -> EncodedMatrix(d, p)
      [] OTHER                               -> Join(Parts(d, p.explode), ",")

\* A value whose text needs no more than one key has the key of the parameter.
OneKey(p, values) == [k \in {<<p.name>>} |-> values]
EncodedQuery(d, p) ==
    CASE p.style = "deepObject" ->
            [k \in {<<p.name, "[", f, "]">> : f \in DOMAIN d[2]} |-> <<TextOf(d[2][k[3]])>>]
      [] p.style = "form" /\ p.explode /\ d[1] = "array" ->
            IF d[2] = <<>> THEN [k \in {} |-> <<>>] ELSE OneKey(p, TextsOf(d[2]))
      [] p.style = "form" /\ p.explode /\ d[1] = "object" ->
            [k \in {<<f>> : f \in DOMAIN d[2]} |-> <<TextOf(d[2][k[1]])>>]
      [] p.style = "spaceDelimited" -> OneKey(p, <<Join(Parts(d, FALSE), " ")>>)
      [] p.style = "pipeDelimited"  -> OneKey(p, <<Join(Parts(d, FALSE), "|")>>)
      [] OTHER                      -> OneKey(p, <<Join(Parts(d, FALSE), ",")>>)

-------------------------------------------------------------------------------
(* What the encoding of a value cannot carry. *)

Separators(p) ==
    CASE p.style = "label"          -> IF p.explode THEN {"."} ELSE {","}
      [] p.style = "matrix"         -> IF p.explode THEN {";"} ELSE {","}
      [] p.style = "spaceDelimited" -> {" "}
      [] p.style = "pipeDelimited"  -> {"|"}
      [] p.style = "form" /\ p.in = "query" /\ p.explode -> {}
      [] OTHER                      -> {","}

Composite(d) == d[1] \in {"array", "object"}
\* An item that holds the separator of the items, an empty list, an empty object:
\* no text for them is their own. An object with an empty text likewise.
Ambiguous(d, p) ==
    /\ Composite(d)
    /\ \/ Range(d[2]) = {}
       \/ p.style # "deepObject" /\ \E x \in Range(d[2]) : Range(TextOf(x)) \cap Separators(p) # {}
\* A segment of a path is not empty and holds no slash.
NoSegment(d, p) == p.in = "path" /\ (EncodedText(d, p) = <<>> \/ "/" \in Range(EncodedText(d, p)))
\* Forms of an object the decoder leaves as they came: one key per field or a
\* delimited list in a query, a cookie. An empty header is taken for none.
Undecoded(d, p) ==
    \/ (p.in = "query" /\ d[1] = "object" /\ p.style # "deepObject" /\ (p.explode \/ p.style # "form"))
    \/ (p.in = "cookie" /\ d[1] = "object")
    \/ (p.in = "header" /\ EncodedText(d, p) = <<>>)

Carried(d, p) == ~Ambiguous(d, p) /\ ~NoSegment(d, p) /\ ~Undecoded(d, p)
===============================================================================
