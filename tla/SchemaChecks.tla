----------------------------- MODULE SchemaChecks -----------------------------
(***************************************************************************)
(* Which data a schema lets through (httpvalidator/schema.go), and which    *)
(* the keywords it lists in httpvalidator/doc.go let through by their own   *)
(* definitions.                                                             *)
(***************************************************************************)
EXTENDS SchemaData

DataType(d) == IF d[1] \in {"int", "int64"} THEN "integer" ELSE d[1]

-------------------------------------------------------------------------------
(* The validator. *)

TypeMatches(type, wanted) ==
    type = wanted \/ {type, wanted} = {"integer", "number"}

\* The first type of the list that matches decides.
TypeFits(d, s) ==
    LET hits == {i \in DOMAIN TypesOf(s) : TypeMatches(DataType(d), s.type[i])} IN
    \/ TypesOf(s) = <<>>
    \/ /\ hits # {}
       /\ s.type[Min(hits)] = "integer" => d[2] % 2 = 0

IsNullable(s) == Has(s, "nullable") \/ "null" \in Range(TypesOf(s))

\* A pattern is a character the text must have; "(" does not compile.
MatchPattern(pattern, text) == pattern # "(" /\ pattern \in Range(text)

\* A date is one character of the model: the ones that have its shape, and of
\* them the ones that are in a calendar.
DateShaped == {"2024-01-31", "2024-02-31"}
Dates      == {"2024-01-31"}

FormatFits(format, text) ==
    CASE format = "date" -> Len(text) = 1 /\ text[1] \in DateShaped
      [] format = "uri"  -> \E i \in DOMAIN text : text[i] = "://"
      [] OTHER           -> TRUE

StringFits(text, s) ==
    /\ Has(s, "minLength") => Bytes(text) >= s.minLength
    /\ Has(s, "maxLength") => Bytes(text) <= s.maxLength
    /\ Has(s, "pattern")   => MatchPattern(s.pattern, text)
    /\ Has(s, "format")    => FormatFits(s.format, text)

\* Mutant: a bound that is declared inclusive counts as exclusive.
PresentIsExclusive(s, keyword) == Has(s, keyword) /\ s[keyword][1] = "boolean"

\* A bound that is itself a number is not looked at: only a TRUE is.
Exclusive(s, keyword) == Has(s, keyword) /\ s[keyword] = Flag(TRUE)

NumberFits(n, s) ==
    /\ Has(s, "minimum") => IF Exclusive(s, "exclusiveMinimum") THEN n > s.minimum ELSE n >= s.minimum
    /\ Has(s, "maximum") => IF Exclusive(s, "exclusiveMaximum") THEN n < s.maximum ELSE n <= s.maximum
    /\ Has(s, "multipleOf") => n % s.multipleOf = 0

\* What %v prints of a datum: a list between brackets, its items a space apart.
RECURSIVE Printed(_)
Printed(d) ==
    IF d[1] # "array" THEN IF d[1] = "string" THEN d[2] ELSE <<d>>
    ELSE <<"[">> \o FoldLeftDomain(LAMBDA out, i : out \o (IF i = 1 THEN <<>> ELSE <<" ">>) \o Printed(d[2][i]),
                                   <<>>, d[2]) \o <<"]">>

HasDuplicates(items) ==
    \E i, j \in DOMAIN items : i < j /\ items[i][1] = items[j][1] /\ Printed(items[i]) = Printed(items[j])

Forbids(s, keyword) == Has(s, keyword) /\ s[keyword] = Flag(FALSE)

RECURSIVE Accepts(_, _)

ArrayFits(items, s) ==
    /\ Has(s, "minItems") => Len(items) >= s.minItems
    /\ Has(s, "maxItems") => Len(items) <= s.maxItems
    /\ Has(s, "uniqueItems") => ~HasDuplicates(items)
    /\ \A i \in DOMAIN items : Accepts(items[i], ItemSchemaAt(s, i))
    /\ IsTuple(s) /\ Forbids(s, "additionalItems") => Len(items) <= Len(s.items[2])

ObjectFits(fields, s) ==
    /\ Has(s, "required") => s.required \subseteq DOMAIN fields
    /\ Has(s, "minProperties") => Cardinality(DOMAIN fields) >= s.minProperties
    /\ Has(s, "maxProperties") => Cardinality(DOMAIN fields) <= s.maxProperties
    /\ \A p \in DOMAIN fields \cap DOMAIN PropertiesOf(s) : Accepts(fields[p], s.properties[p])
    /\ Forbids(s, "additionalProperties") => DOMAIN fields \subseteq DOMAIN PropertiesOf(s)

\* Go compares the value with its type.
EnumFits(d, s) == Has(s, "enum") => d \in s.enum

CompositionFits(d, s) ==
    /\ Has(s, "allOf") => \A i \in DOMAIN s.allOf : Accepts(d, s.allOf[i])
    /\ Has(s, "anyOf") => \E i \in DOMAIN s.anyOf : Accepts(d, s.anyOf[i])
    /\ Has(s, "oneOf") => Cardinality({i \in DOMAIN s.oneOf : Accepts(d, s.oneOf[i])}) = 1

ValueFits(d, s) ==
    CASE DataType(d) = "string"               -> StringFits(d[2], s)
      [] DataType(d) \in {"number", "integer"} -> NumberFits(d[2], s)
      [] DataType(d) = "array"                -> ArrayFits(d[2], s)
      [] DataType(d) = "object"               -> ObjectFits(d[2], s)
      [] OTHER                                -> TRUE

Accepts(d, s) ==
    \/ s = NoSchema
    \/ d = Null /\ IsNullable(s)
    \/ /\ d # Null
       /\ TypeFits(d, s)
       /\ ValueFits(d, s)
       /\ EnumFits(d, s)
       /\ CompositionFits(d, s)

-------------------------------------------------------------------------------
(* The keywords by their definitions. *)

\* The value itself, without the Go type it is held in.
RECURSIVE Meant(_)
Meant(d) ==
    CASE DataType(d) \in {"number", "integer"} -> <<"number", d[2]>>
      [] d[1] = "array"                        -> Array([i \in DOMAIN d[2] |-> Meant(d[2][i])])
      [] d[1] = "object"                       -> Object([p \in DOMAIN d[2] |-> Meant(d[2][p])])
      [] OTHER                                 -> d

InstanceOf(d, type) ==
    IF type = "integer" THEN DataType(d) \in {"number", "integer"} /\ d[2] % 2 = 0
    ELSE type = (IF DataType(d) = "integer" THEN "number" ELSE DataType(d))

RealFormat(format, text) ==
    IF format = "date" THEN Len(text) = 1 /\ text[1] \in Dates ELSE FormatFits(format, text)

RECURSIVE Conforms(_, _)

StringConforms(text, s) ==
    /\ Has(s, "minLength") => Len(text) >= s.minLength
    /\ Has(s, "maxLength") => Len(text) <= s.maxLength
    /\ Has(s, "pattern")   => MatchPattern(s.pattern, text)
    /\ Has(s, "format")    => RealFormat(s.format, text)

AboveBound(n, s) ==
    /\ Has(s, "minimum") => n >= s.minimum
    /\ Has(s, "minimum") /\ Has(s, "exclusiveMinimum") /\ s.exclusiveMinimum = Flag(TRUE) => n # s.minimum
    /\ Has(s, "exclusiveMinimum") /\ s.exclusiveMinimum[1] = "number" => n > s.exclusiveMinimum[2]
BelowBound(n, s) ==
    /\ Has(s, "maximum") => n <= s.maximum
    /\ Has(s, "maximum") /\ Has(s, "exclusiveMaximum") /\ s.exclusiveMaximum = Flag(TRUE) => n # s.maximum
    /\ Has(s, "exclusiveMaximum") /\ s.exclusiveMaximum[1] = "number" => n < s.exclusiveMaximum[2]

NumberConforms(n, s) ==
    /\ AboveBound(n, s) /\ BelowBound(n, s)
    /\ Has(s, "multipleOf") => \E k \in -20..20 : n = k * s.multipleOf

ItemConforms(item, i, s) ==
    LET past == IsTuple(s) /\ i > Len(s.items[2]) IN
    /\ IsTuple(s) /\ ~past => Conforms(item, s.items[2][i])
    /\ past => ~Forbids(s, "additionalItems") /\ Conforms(item, AdditionalItems(s))
    /\ Has(s, "items") /\ ~IsTuple(s) => Conforms(item, s.items[2])

ArrayConforms(items, s) ==
    /\ Has(s, "minItems") => Len(items) >= s.minItems
    /\ Has(s, "maxItems") => Len(items) <= s.maxItems
    /\ Has(s, "uniqueItems") => \A i, j \in DOMAIN items : i < j => Meant(items[i]) # Meant(items[j])
    /\ \A i \in DOMAIN items : ItemConforms(items[i], i, s)

PropertyConforms(p, value, s) ==
    IF p \in DOMAIN PropertiesOf(s) THEN Conforms(value, s.properties[p])
    ELSE /\ ~Forbids(s, "additionalProperties")
         /\ Has(s, "additionalProperties") /\ s.additionalProperties[1] = "schema" =>
                Conforms(value, s.additionalProperties[2])

ObjectConforms(fields, s) ==
    /\ Has(s, "required") => s.required \subseteq DOMAIN fields
    /\ Has(s, "minProperties") => Cardinality(DOMAIN fields) >= s.minProperties
    /\ Has(s, "maxProperties") => Cardinality(DOMAIN fields) <= s.maxProperties
    /\ \A p \in DOMAIN fields : PropertyConforms(p, fields[p], s)

Conforms(d, s) ==
    \/ s = NoSchema
    \/ d = Null /\ Has(s, "nullable")
    \/ /\ TypesOf(s) = <<>> \/ \E t \in Range(TypesOf(s)) : InstanceOf(d, t)
       /\ DataType(d) = "string" => StringConforms(d[2], s)
       /\ DataType(d) \in {"number", "integer"} => NumberConforms(d[2], s)
       /\ d[1] = "array" => ArrayConforms(d[2], s)
       /\ d[1] = "object" => ObjectConforms(d[2], s)
       /\ Has(s, "enum") => \E e \in s.enum : Meant(e) = Meant(d)
       /\ Has(s, "allOf") => \A i \in DOMAIN s.allOf : Conforms(d, s.allOf[i])
       /\ Has(s, "anyOf") => \E i \in DOMAIN s.anyOf : Conforms(d, s.anyOf[i])
       /\ Has(s, "oneOf") => \E i \in DOMAIN s.oneOf :
             \A j \in DOMAIN s.oneOf : Conforms(d, s.oneOf[j]) <=> j = i

-------------------------------------------------------------------------------
(* Where the two are known to part. *)

SchemasIn(pair) == IF pair[1] = "tuple" THEN Range(pair[2]) ELSE IF pair[1] = "schema" THEN {pair[2]} ELSE {}

RECURSIVE Subschemas(_)
Subschemas(s) ==
    LET kids == (IF Has(s, "items") THEN SchemasIn(s.items) ELSE {})
                \cup (IF Has(s, "additionalItems") THEN SchemasIn(s.additionalItems) ELSE {})
                \cup Range(PropertiesOf(s))
                \cup UNION {IF Has(s, k) THEN Range(s[k]) ELSE {} : k \in {"allOf", "anyOf", "oneOf"}}
    IN {s} \cup UNION {Subschemas(k) : k \in kids}

RECURSIVE Subvalues(_)
Subvalues(d) ==
    {d} \cup (IF d[1] \in {"array", "object"} THEN UNION {Subvalues(x) : x \in Range(d[2])} ELSE {})

\* A null is refused wherever the schema has no type that names it.
NullUnnamed(d, s) == Null \in Subvalues(d) /\ \E x \in Subschemas(s) : TypesOf(x) = <<>> /\ ~IsNullable(x)
\* A number of a body or a parameter never has the Go type of one in an enum.
NumberInEnum(s) == \E x \in Subschemas(s) : Has(x, "enum") /\ \E e \in x.enum : e[1] = "int"
\* Integer is tried first and ends the search, although number would do.
IntegerFirst(s) == \E x \in Subschemas(s) :
    \E i, j \in DOMAIN TypesOf(x) : i < j /\ x.type[i] = "integer" /\ x.type[j] = "number"
\* Lists that print alike are taken for duplicates.
NestedUnique(d, s) ==
    /\ \E x \in Subschemas(s) : Has(x, "uniqueItems")
    /\ \E x \in Subvalues(d) : x[1] = "array" /\ \E i \in DOMAIN x[2] : x[2][i][1] = "array"
\* Lengths count bytes and formats look at the shape; numeric exclusive bounds
\* and a schema for the additional properties are skipped.
WideText(d, s) ==
    /\ \E x \in Subschemas(s) : Has(x, "minLength") \/ Has(x, "maxLength")
    /\ \E x \in Subvalues(d) : x[1] = "string" /\ "é" \in Range(x[2])
OnlyShaped(d, s) ==
    /\ \E x \in Subschemas(s) : Has(x, "format")
    /\ \E x \in Subvalues(d) : x[1] = "string" /\ Range(x[2]) \cap (DateShaped \ Dates) # {}
NumericBound(s) == \E x \in Subschemas(s) : \E k \in {"exclusiveMinimum", "exclusiveMaximum"} :
    Has(x, k) /\ x[k][1] = "number"
AdditionalSchema(s) == \E x \in Subschemas(s) :
    Has(x, "additionalProperties") /\ x.additionalProperties[1] = "schema"

Delicate(d, s) ==
    \/ NullUnnamed(d, s) \/ NumberInEnum(s) \/ IntegerFirst(s) \/ NestedUnique(d, s)
    \/ WideText(d, s) \/ OnlyShaped(d, s) \/ NumericBound(s) \/ AdditionalSchema(s)
===============================================================================
