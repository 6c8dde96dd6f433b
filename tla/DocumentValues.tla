--------------------------- MODULE DocumentValues ---------------------------
(***************************************************************************)
(* What becomes of one value of a document while it is read, copied,       *)
(* edited, compared and written.  Each of those is written once per kind of*)
(* object, three times for reading and twice for writing, and they must    *)
(* agree on every field: what one leaves out is lost, shared with a copy,  *)
(* or a difference nobody sees.                                            *)
(*                                                                         *)
(* The value is the one at input.site, a field of an object of Traversals  *)
(* or of PlainTables; it is held by the file, by the document it is        *)
(* read into, and by a copy of that.  meant is what each would hold if     *)
(* nothing were ever lost but what Expected lists.                         *)
(*                                                                         *)
(* Values: "A" and "B" are objects that have contents and differ in a     *)
(* plain field, one that the differ compares if it compares any; "X" is A *)
(* with one more extension, "R" and "S" are references, "T1" and "T2"     *)
(* tuples of schemas, "null" is an entry without a value, "blank" a       *)
(* Response without a field, "empty" an empty list of requirements. A     *)
(* boolean schema is "true" or "false" in a file and in a field of any    *)
(* type, and "True" or "False" where it is a Schema with a BoolForm. The  *)
(* target of a discriminator is "A" or "B", and so is a text, a number or a*)
(* value of any type; a flag is set ("A") or absent.                       *)
(***************************************************************************)
EXTENDS FieldTables

CONSTANT Inputs     \* records: version, site, value, extended, edits

VARIABLES input,    \* the document and the place
          format,   \* of the file: "json" or "yaml"
          held,     \* what the file, the document and the copy hold
          meant,    \* what they would hold if nothing were lost
          data,     \* ParseResult.Data: the place in the map as parsed
          kept,     \* ParseResult.sourceNode: the order of the source is kept
          shared,   \* what the document and its copy share: "nothing", "value" or "place"
          edits     \* edits made

vars == <<input, format, held, meant, data, kept, shared, edits>>

-----------------------------------------------------------------------------
\* The place and the values it can have.

Field     == input.site[Len(input.site)]
KindHere  == KindOf(Field)

InMap ==
    In("Document", DOMAIN Sections \cup {"securitySchemes", "examples", "links"})
    \cup In("PathItem", {"additionalOperations"})
    \cup In("Operation", {"responses", "callbacks", "callbackRefs"})
    \cup In("Parameter", {"content", "examples"}) \cup In("Header", {"content", "examples"})
    \cup In("RequestBody", {"content"})
    \cup In("Response", {"headers", "content", "links", "examples"})
    \cup In("MediaType", {"encoding", "examples"}) \cup In("Encoding", {"headers", "encoding"})
    \cup In("Schema", {"properties", "patternProperties", "dependentSchemas", "defs"})
    \cup In("Discriminator", {"mapping"}) \cup In("Server", {"variables"})
InList ==
    In("Document", {"tags", "servers"})
    \cup In("PathItem", {"parameters", "servers"})
    \cup In("Operation", {"parameters", "body", "servers"})
    \cup In("Schema", {"allOf", "anyOf", "oneOf", "prefixItems"})
    \cup In("MediaType", {"prefixEncoding"}) \cup In("Encoding", {"prefixEncoding"})
OfAnyType == In("Schema", {"items", "additionalProperties", "additionalItems",
                           "unevaluatedItems", "unevaluatedProperties"})
Container(s) == CASE s \in InMap -> "map" [] s \in InList -> "list" [] s \in OfAnyType -> "any"
                  [] s \in AnyValues -> "value"  [] OTHER -> "pointer"

Objects   == {"A", "B", "X"}
Refs      == {"R", "S"}
Tuples    == {"T1", "T2"}
Bare      == {"true", "false"}
BoolForms == {"True", "False"}

BoolForm(v) == CASE v = "true" -> "True"  [] v = "false" -> "False" [] OTHER -> v
Canon(v)    == CASE v = "True" -> "true"  [] v = "False" -> "false" [] OTHER -> v
Bared(v)    == IF v = "X" THEN "A" ELSE Canon(v)

\* Kinds of field whose values have no extensions.
Scalars == {"Text", "Texts", "Number", "Flag", "Any"}

HasRef(kind, v) ==
    \/ kind \in {"Schema", "Parameter", "Response", "PathItem"}
    \/ kind \in {"Header", "RequestBody", "Callback", "SecurityScheme", "Example", "Link"} /\ v >= 30

\* What a document can hold at s; in a file the booleans are bare.
Values(s, kind, v) ==
    {"absent"}
    \cup (IF kind = "Callback" THEN {} ELSE {"A"})
    \cup (IF kind \in {"Callback", "Flag"} THEN {} ELSE {"B"})
    \cup (IF kind \in {"Target", "Callback", "Security"} \cup Scalars THEN {} ELSE {"X"})
    \cup (IF HasRef(kind, v) THEN Refs ELSE {})
    \cup (IF kind = "Security" THEN {"empty"} ELSE {})
    \cup (IF kind = "Schema" /\ (v >= 31 \/ s = <<"Schema", "additionalProperties">>)
          THEN BoolForms \cup (IF s \in OfAnyType THEN Bare ELSE {}) ELSE {})
    \cup (IF s = <<"Schema", "items">> /\ v = 20 THEN Tuples ELSE {})
Nullable(s) ==
    \/ s \in InList \cup InMap
       /\ s[2] \notin {"callbacks", "callbackRefs", "mapping", "variables"}
       /\ s # <<"Response", "examples">>
    \/ s = <<"Operation", "default">> \/ s \in AnyValues
FileValues(s, kind, v) ==
    {Canon(w) : w \in Values(s, kind, v)} \cup (IF Nullable(s) THEN {"null"} ELSE {})

\* A place of the version, with a value that a file of that version can have there.
IsSite(path, v) ==
    /\ path \in Seq(AllFields) /\ path # <<>>
    /\ path[1][1] = "Document"
    /\ \A i \in 2..Len(path) : path[i][1] \in Parts(KindOf(path[i - 1]))
    /\ \A i \in DOMAIN path : Belongs(path[i], v)
ASSUME InputsAssumption ==
    \A in \in Inputs :
        /\ in.version \in Versions /\ IsSite(in.site, in.version)
        /\ LET last == in.site[Len(in.site)]
           IN  in.value \in FileValues(last, KindOf(last), in.version)
        /\ in.extended \in BOOLEAN /\ in.edits \in Nat

-----------------------------------------------------------------------------
\* What is lost, and what is overlooked, as it is.

\* By operation, the sets of traits whose values it is known to lose.
Value(v) == <<"value", v>>
Known ==
    [tags |-> {{Value("null"), <<"Operation", "responses">>}, {Value("null"), <<"Operation", "default">>},
               {Value("null"), <<"in", "value">>}},
     json |-> {{Value("null"), <<"Operation", "responses">>}, {Value("null"), <<"Operation", "default">>},
               {Value("null"), <<"in", "value">>}},
     map  |-> {{Value("null")}},
     toJSON  |-> {},
     toYAML  |-> {{Value("empty")}},
     ordered |-> {{<<"data", "stale">>}},
     copy    |-> {{Value("null"), <<"in", "map">>}, {Value("T1")}, {Value("T2")}},
     equals  |-> {{<<"pair", {"absent", "empty"}>>}}]

\* The traits of the differences that the differ misses.
Overlooked ==
    In("Document", {"parameters", "responses", "requestBodies", "headers", "callbacks",
                    "callbackRefs", "pathItems", "webhooks", "examples", "links",
                    "externalDocs", "security", "jsonSchemaDialect", "self"})
    \cup In("PathItem", {"parameters", "query", "additionalOperations", "servers"})
    \cup In("Operation", {"callbacks", "callbackRefs", "security", "tags", "externalDocs",
                         "servers", "consumes", "produces", "schemes"})
    \cup In("Parameter", {"content", "items", "examples"})
    \cup In("Header", {"schema", "content", "items", "examples"})
    \cup In("Response", {"schema"})
    \cup In("Schema", {"patternProperties", "defs", "xml", "externalDocs"})
    \cup In("MediaType", {"encoding", "itemSchema", "itemEncoding", "prefixEncoding",
                         "examples"})
    \cup In("Discriminator", {"mapping", "defaultMapping"})
    \cup In("Info", {"contact", "license", "summary", "termsOfService"})
    \cup In("Tag", {"externalDocs", "summary", "parent", "kind"})
    \cup In("Server", {"variables", "name"}) \cup In("Link", {"parameters", "requestBody", "server"})
    \cup In("SecurityScheme", DOMAIN SecuritySchemeFields \ {"type"})
    \cup In("plain", {"PathItem", "MediaType", "Any"})
    \cup In("both", {"fieldless", "spelled"})

\* Ways in which a transfer of value v can be special.
Traits(v) == {<<"value", v>>, <<"in", Container(Field)>>, Field}
Expected(op, traits) == \E known \in Known[op] : known \subseteq traits

-----------------------------------------------------------------------------
\* Reading.

Routes == {"tags", "json", "map"}

\* The JSON text of a document has a route of its own unless positions or order
\* are wanted, and a document whose references are resolved is decoded from the
\* map they are resolved in (RefResolver has what becomes of the references).
Offered(route, order) ==
    /\ route = "json" => format = "json" /\ ~order
    /\ route = "map" => held["file"] \notin Refs

ReadTable(route) ==
    IF route = "map" THEN Decodes[input.version]
    ELSE Tagged[input.version] \cup SplitsCallbackRefs

\* The place in the document that is made of value v.
Decoded(route, v) ==
    CASE ~Reaches(ReadTable(route), input.site) -> "absent"
      [] v = "null" /\ (route = "map" \/ Container(Field) = "value") -> "absent"
      [] v = "null" /\ route # "map" /\ Field \in {<<"Operation", "responses">>, <<"Operation", "default">>} -> "blank"
      [] v \in Bare /\ Container(Field) # "any" -> BoolForm(v)
      [] OTHER -> v

Read(route, order) ==
    /\ Offered(route, order)
    /\ LET v == Decoded(route, held["file"])
       IN /\ held'  = [held EXCEPT !["doc"] = v, !["copy"] = "none"]
          /\ meant' = [meant EXCEPT !["copy"] = "none",
                           !["doc"] = IF Expected(route, Traits(held["file"])) THEN Canon(v)
                                      ELSE meant["file"]]
    /\ data' = held["file"]
    /\ kept' = order
    /\ shared' = "nothing"
    /\ UNCHANGED <<input, format, edits>>

-----------------------------------------------------------------------------
\* Writing.

\* An operation is also written key by key for its requirements' sake.
WriteTable(fmt) ==
    IF fmt = "json" /\ (input.extended \/ Field = <<"Operation", "security">>)
    THEN Writes[input.version]
    ELSE Tagged[input.version] \cup MergesCallbackRefs

\* security: [] is what omitempty takes for empty.
Written(fmt, v) ==
    CASE ~Reaches(WriteTable(fmt), input.site) -> "absent"
      [] v = "empty" /\ fmt = "yaml" -> "absent"
      [] OTHER -> Canon(v)

ToFile(fmt, op, v, traits) ==
    /\ held'   = [held EXCEPT !["file"] = v]
    /\ meant'  = [meant EXCEPT !["file"] = IF Expected(op, traits) THEN v ELSE meant["doc"]]
    /\ format' = fmt
    /\ UNCHANGED <<input, data, kept, shared, edits>>

Writing(fmt) == IF fmt = "json" THEN "toJSON" ELSE "toYAML"
Write(fmt) ==
    /\ held["doc"] # "none"
    /\ ToFile(fmt, Writing(fmt), Written(fmt, held["doc"]), Traits(held["doc"]))

\* MarshalOrdered: what is written in the order of the source is the map as
\* parsed, whatever has become of the document.
Stale == IF Canon(data) # Canon(held["doc"]) THEN {<<"data", "stale">>} ELSE {}
WriteOrdered(fmt) ==
    /\ held["doc"] # "none"
    /\ IF kept THEN ToFile(fmt, "ordered", data, Stale)
       ELSE ToFile(fmt, Writing(fmt), Written(fmt, held["doc"]), Traits(held["doc"]))

-----------------------------------------------------------------------------
\* Copying and editing.

CopyTable == Copies[input.version]

\* Entries of maps that are nil are passed over, except in the paths.
Copied(v) ==
    IF v = "null" /\ Container(Field) = "map" /\ Field # <<"Document", "paths">> THEN "absent" ELSE v

\* A field that is not copied is shared with what is in it; the tuple form of a
\* field of any type is a slice that both have.
SharedBy(v) ==
    LET copied == Steps(input.site) \ {Field} \subseteq CopyTable   \* what it is in
    IN  CASE ~copied -> "place"
          [] copied /\ Field \notin CopyTable ->
                 IF Container(Field) \in {"map", "list"} THEN "place" ELSE "value"
          [] copied /\ Field \in CopyTable -> IF v \in Tuples THEN "value" ELSE "nothing"

Copy ==
    /\ held["doc"] # "none" /\ held["copy"] = "none"
    /\ LET v == Copied(held["doc"])
       IN /\ held'  = [held EXCEPT !["copy"] = v]
          /\ meant' = [meant EXCEPT !["copy"] = IF Expected("copy", Traits(held["doc"])) THEN Canon(v)
                                                ELSE meant["doc"]]
    /\ shared' = SharedBy(held["doc"])
    /\ UNCHANGED <<input, format, data, kept, edits>>

\* Values an edit turns into each other without storing another one.
InPlace(v, w) ==
    /\ KindHere \notin {"Target", "Text", "Flag"}
    /\ \E same \in {Objects \cup Refs \cup BoolForms, Tuples} : {v, w} \subseteq same

Other(holder) == IF holder = "doc" THEN "copy" ELSE "doc"

\* The holder's value becomes w, and with it what is the same thing in memory.
Edit(holder, w, inPlace) ==
    /\ held[holder] # "none" /\ edits < input.edits
    /\ w \in Values(Field, KindHere, input.version) \ {held[holder]}
    /\ inPlace => InPlace(held[holder], w)
    /\ LET other  == Other(holder)
           leaks  == shared = "place" \/ (shared = "value" /\ inPlace)
           known  == leaks /\ Expected("copy", Traits(held[holder]))
       IN /\ held'  = [held EXCEPT ![holder] = w, ![other] = IF leaks THEN w ELSE @]
          /\ meant' = [meant EXCEPT ![holder] = Canon(w), ![other] = IF known THEN Canon(w) ELSE @]
    /\ shared' = IF shared = "value" /\ ~inPlace THEN "nothing" ELSE shared
    /\ edits' = edits + 1
    /\ UNCHANGED <<input, format, data, kept>>

\* The copy is the document from now on; it has no order of the source.
Adopt ==
    /\ held["copy"] # "none"
    /\ held'  = [held EXCEPT !["doc"] = held["copy"], !["copy"] = "none"]
    /\ meant' = [meant EXCEPT !["doc"] = meant["copy"], !["copy"] = "none"]
    /\ kept' = FALSE
    /\ shared' = "nothing"
    /\ UNCHANGED <<input, format, data, edits>>

-----------------------------------------------------------------------------
\* Comparing two documents that are the same elsewhere.

\* Equals: both spellings of a boolean are one value, and so are no security
\* requirements and an empty list of them.
Equals(v, w) ==
    \/ ~Reaches(Equates[input.version], input.site)
    \/ Canon(v) = Canon(w)
    \/ {v, w} = {"absent", "empty"}

\* What has no field that the differ compares: it sees neither what a reference
\* refers to nor the boolean of a schema.
Fieldless == Refs \cup BoolForms \cup {"blank"}

\* DiffParsed.  It compares no two values without such a field, nor a plain field
\* of path items and media types; and of webhooks only which there are.
Distinguished(v, w) ==
    /\ v # w
    /\ ~({v, w} \subseteq Fieldless)
    /\ ~({v, w} = {"A", "B"} /\ KindHere \in {"PathItem", "MediaType", "Any"})
    /\ <<"Document", "webhooks">> \in Steps(input.site) =>
           Len(input.site) = 1 /\ "absent" \in {v, w}
Reported(v, w) == Reaches(Differs[input.version], input.site) /\ Distinguished(v, w)

\* compareDeep and hashSchema, of the component schema the place is in.
\* Extensions count only in what documents a schema.
InSchema == Len(input.site) > 1 /\ input.site[1] = <<"Document", "schemas">>
Within   == Steps(input.site) \ {<<"Document", "schemas">>}
Same(v, w) == IF KindHere = "ExternalDocs" THEN v = w ELSE Bared(v) = Bared(w)
Equivalent(v, w) == Within \subseteq Compares => Same(v, w)
Hashed(v)        == IF Within \subseteq Hashes THEN Bared(v) ELSE "unseen"

-----------------------------------------------------------------------------
Init ==
    /\ input \in Inputs
    /\ format \in {"json", "yaml"}
    /\ held  = [file |-> input.value, doc |-> "none", copy |-> "none"]
    /\ meant = [file |-> input.value, doc |-> "none", copy |-> "none"]
    /\ data = "none" /\ kept = FALSE /\ shared = "nothing" /\ edits = 0

AnyRead  == \E route \in Routes, order \in BOOLEAN : Read(route, order)
AnyWrite == \E fmt \in {"json", "yaml"} : Write(fmt) \/ WriteOrdered(fmt)
AnyEdit  == \E holder \in {"doc", "copy"}, w \in Values(Field, KindHere, input.version),
              inPlace \in BOOLEAN : Edit(holder, w, inPlace)

Next == AnyRead \/ AnyWrite \/ Copy \/ AnyEdit \/ Adopt
Spec == Init /\ [][Next]_vars

-----------------------------------------------------------------------------
\* Properties.

\* What a file holds is what was meant: through any sequence of reading it by any
\* of the three routes, editing, copying and writing it in either format, ordered
\* or not, nothing is lost but what Known lists.
RoundTrip == held["file"] = meant["file"]

\* A document and its copy hold what was meant for each: neither ever changes with
\* the other, whatever is changed in place or replaced in either of them.
CopiesApart ==
    \A holder \in {"doc", "copy"} : Canon(held[holder]) = meant[holder]

Compared == held["copy"] # "none"

PairTraits(v, w) ==
    Steps(input.site)
    \cup (IF v # w /\ {v, w} \subseteq Fieldless THEN {<<"both", "fieldless">>} ELSE {})
    \cup (IF {v, w} = {"A", "B"} THEN {<<"plain", KindHere>>} ELSE {})
    \cup (IF v # w /\ Canon(v) = Canon(w) THEN {<<"both", "spelled">>} ELSE {})
Missed(v, w) == PairTraits(v, w) \cap Overlooked # {}

\* Equals says what is different, and nothing else.  The differ reports two documents
\* exactly when they differ, outside the fields and pairs of values that Overlooked
\* lists.  (An entry without a value may stop it.)  For the joiner, two schemas are
\* the same exactly when Same says so, and those it takes
\* for the same have the same hash, or they would never be compared.
ComparisonsExact ==
    Compared =>
        LET v == held["doc"]  w == held["copy"] IN
        /\ Equals(v, w) <=> Canon(v) = Canon(w) \/ Expected("equals", {<<"pair", {v, w}>>})
        /\ "null" \notin {v, w} /\ ~Missed(v, w) => (Reported(v, w) <=> Canon(v) # Canon(w))
        /\ InSchema => /\ Equivalent(v, w) <=> Same(v, w)
                       /\ Equivalent(v, w) => Hashed(v) = Hashed(w)
=============================================================================
