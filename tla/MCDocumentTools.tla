--------------------------- MODULE MCDocumentTools --------------------------
(* Instances of DocumentTools for TLC: every kind of place once, with little *)
(* variety in the names, and a few places with all of it.                    *)
EXTENDS DocumentTools, SequencesExt

Fields(kind, v) ==
    IF kind \in DOMAIN Object THEN {f \in DOMAIN Object[kind] : InVersion(<<kind, f>>, v)} ELSE {}

Inline == <<<<"Document", "paths">>, <<"PathItem", "get">>, <<"Operation", "parameters">>,
            <<"Parameter", "schema">>>>

\* Schemas are taken apart in the pool and in one place outside it, all the
\* methods are tried under paths, and no step comes twice in a place.
Wanted(path, kind, f) ==
    /\ <<kind, f>> \notin Steps(path)
    /\ kind = "Schema" => path \in {<<<<"Document", "schemas">>>>, Inline}
    /\ f \in {"trace", "query", "additionalOperations"} => path = <<<<"Document", "paths">>>>
    /\ kind = "Encoding" /\ f # "headers" => path[Len(path) - 1] = <<"RequestBody", "content">>
Grown(paths, v) ==
    paths \cup UNION {{Append(p, <<Kind(p), f>>) : f \in {f \in Fields(Kind(p), v) : Wanted(p, Kind(p), f)}}
                         : p \in {p \in paths : Kind(p) # "Target"}}
Discriminated(paths, v) ==
    {p \o <<<<"Discriminator", f>>>> : p \in {p \in paths : p \in {<<<<"Document", "schemas">>>>, Inline}},
                                       f \in Fields("Discriminator", v)}

G1(v) == {<<<<"Document", f>>>> : f \in Fields("Document", v)}
G3(v) == Grown(Grown(G1(v), v), v)
G5(v) == Grown(Grown(G3(v), v), v)
G7(v) == Grown(Grown(G5(v), v), v)

\* The kinds of object that can be a $ref, and a body parameter is none.
Referring(v) ==
    {"Schema", "Target", "Parameter"}
    \cup (IF v = 20 THEN {"Response"} ELSE {"Response", "RequestBody", "Header"})
    \cup (IF v >= 31 THEN {"PathItem", "Callback"} ELSE {})
Places == [v \in Versions |->
    {p \in Grown(G7(v), v) \cup Discriminated(G5(v), v) :
        Kind(p) \in Referring(v) /\ p[Len(p)] # <<"Operation", "body">>}]

Input(v, p, text, bare, present, neighbour, h, e) ==
    [version |-> v, site |-> p, text |-> text, bare |-> bare, present |-> present,
     neighbour |-> neighbour, host |-> h, empty |-> e]
Hosts(p) == IF p[1] = <<"Document", "schemas">> /\ Section(Kind(p)) = "Schema"
            THEN {"used", "unused"} ELSE {"none"}

Wide ==
    UNION {UNION {{Input(v, p, "Odd", FALSE, present, FALSE, h, FALSE) : h \in Hosts(p), present \in BOOLEAN}
                    : p \in Places[v]}
             : v \in Versions}

\* The places with every spelling, and with the other components.
Few == {<<<<"Document", "schemas">>, <<"Schema", "properties">>>>,
        <<<<"Document", "schemas">>, <<"Discriminator", "mapping">>>>,
        Inline, Inline \o <<<<"Discriminator", "mapping">>>>,
        <<<<"Document", "paths">>, <<"PathItem", "parameters">>, <<"Parameter", "schema">>>>,
        <<<<"Document", "paths">>, <<"PathItem", "get">>, <<"Operation", "responses">>>>,
        <<<<"Document", "paths">>, <<"PathItem", "get">>, <<"Operation", "responses">>, <<"Response", "headers">>>>}
Deep ==
    {in \in {Input(v, p, text, bare, present, neighbour, h, e) :
                v \in {20, 30}, p \in Few, text \in {"Odd", "OddText"}, bare \in BOOLEAN,
                present \in BOOLEAN, neighbour \in BOOLEAN, h \in {"none", "used", "unused"},
                e \in BOOLEAN} :
        /\ InGrammar(in.site, in.version) /\ Kind(in.site) \in Referring(in.version)
        /\ in.host \in Hosts(in.site)
        /\ in.bare => Kind(in.site) = "Target"
        /\ in.empty => <<"PathItem", "parameters">> \in Steps(in.site)
        /\ Section(Kind(in.site)) = "Schema" \/ ~in.neighbour}
Documents == Wide \cup Deep
=============================================================================
