------------------------------ MODULE SchemaData ------------------------------
(***************************************************************************)
(* Data, and what is looked up in a schema before any of them is judged     *)
(* (httpvalidator/params.go). A datum is a pair of a kind and a value: a    *)
(* text is a sequence of characters, a number counts halves, and the three  *)
(* kinds a number comes in (a JSON body, a parameter, a YAML enum) stay     *)
(* apart as they do in Go. A schema is a record of the keywords it has.     *)
(***************************************************************************)
EXTENDS Integers, Sequences, FiniteSets, SequencesExt, FiniteSetsExt

Null      == <<"null", 0>>
Text(s)   == <<"string", s>>
Number(h) == <<"number", h>>
Int64(n)  == <<"int64", 2 * n>>
GoInt(n)  == <<"int", 2 * n>>
Flag(b)   == <<"boolean", b>>
Array(s)  == <<"array", s>>
Object(f) == <<"object", f>>

NoSchema  == [absent |-> TRUE]

Has(s, keyword) == keyword \in DOMAIN s
TypesOf(s)      == IF Has(s, "type") THEN s.type ELSE <<>>

\* The type a parameter is read by: the first that is not null.
SchemaType(s) ==
    LET some == {i \in DOMAIN TypesOf(s) : s.type[i] # "null"} IN
    IF some # {} THEN s.type[Min(some)]
    ELSE IF TypesOf(s) # <<>> THEN s.type[1] ELSE ""

IsTuple(s) == Has(s, "items") /\ s.items[1] = "tuple"

AdditionalItems(s) ==
    IF Has(s, "additionalItems") /\ s.additionalItems[1] = "schema" THEN s.additionalItems[2] ELSE NoSchema

ItemSchemaAt(s, i) ==
    CASE IsTuple(s) /\ i <= Len(s.items[2])             -> s.items[2][i]
      [] IsTuple(s) /\ i > Len(s.items[2])              -> AdditionalItems(s)
      [] Has(s, "items") /\ s.items[1] = "schema"       -> s.items[2]
      [] OTHER                                          -> NoSchema

PropertiesOf(s) == IF Has(s, "properties") THEN s.properties ELSE [p \in {} |-> NoSchema]

Total(seq) ==
    LET upTo[i \in 0..Len(seq)] == IF i = 0 THEN 0 ELSE upTo[i - 1] + seq[i]
    IN  upTo[Len(seq)]

\* Go counts the bytes of a text, and this one letter has two.
Bytes(text) == Total([i \in DOMAIN text |-> IF text[i] = "é" THEN 2 ELSE 1])
===============================================================================
