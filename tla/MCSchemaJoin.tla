---------------------------- MODULE MCSchemaJoin ----------------------------
(* Instances of SchemaJoin and DocumentJoin for TLC.  A name is a sequence of tokens:        *)
(* <<"A">> is A, <<"A", "2">> is A_2, <<"P", "A">> is A with prefix P.        *)
EXTENDS DocumentJoin, TLC

A   == <<"A">>
B   == <<"B">>
A2  == <<"A", "2">>
Tokens == {"A", "B", "P", "2", "3", "4"}
Shapes == {"s", "t", "empty", "custom"}

Plain(shape)      == [shape |-> shape, refs |-> <<>>]
Refers(shape, n)  == [shape |-> shape, refs |-> <<n>>]
Document(schemas) == [schemas |-> schemas, queryOnly |-> FALSE]

\* A refers to B, to itself or to nothing, B is one of two schemas.
Heads   == {Plain("s"), Refers("s", B)}
Couples == {Document(A :> a @@ B :> b) : a \in Heads, b \in {Plain("s"), Plain("t")}}
Loops   == {Document(A :> Refers("s", A)), Document(A :> Plain("empty"))}
\* A document may itself spell the name the template makes of A for document 2.
Triples == {Document(A :> a @@ B :> b @@ A2 :> c) :
               a \in Heads, b \in {Plain("s"), Plain("t")}, c \in Heads}
QueryOnly(documents) == {[d EXCEPT !.queryOnly = TRUE] : d \in documents}

ThreeDocuments == (Couples \X Couples \X Triples) \cup ((Couples \cup Loops) \X Triples \X Couples)
ThreeCouples   == Couples \X Couples \X Couples
\* No run takes these: a reference under a query operation is not rewritten.
QueryDocuments == Couples \X QueryOnly(Couples)

BySource == <<"2", "2", "3">>
ByOne    == <<"2", "2", "2">>
Copies   == <<"2", "3", "4">>
Unprefixed == <<"none", "none", "none">>
Shared   == <<"P", "P", "P">>

Collapsing == {"deduplicate-or-rename"}
Leftward   == {"rename-left"}
Rightward  == {"rename-right"}
Moving     == Collapsing \cup Leftward
Accepting  == {"accept-left", "accept-right", "fail", "fail-on-paths", "deduplicate"}
AnyStrategy == Moving \cup Accepting \cup Rightward

\* A handler may overturn a strategy, except one that moves what is there already;
\* with what it may answer, one strategy that it overturns stands for the others.
AnyAnswer  == {"continue", "accept-left", "accept-right", "deduplicate", "rename", "custom", "fail"}
MaySupply  == {"continue", "custom"}
RespectfulAnswers ==
    [s \in AnyStrategy |-> IF s \in Moving THEN MaySupply ELSE IF s \in Rightward THEN AnyAnswer ELSE {}]

\* Calls.  A plain one brings nothing beside the schemas.
Everywhere(v) == [d \in Doc |-> v]
NoOverlay == [removes |-> {}, adds |-> {}]
NoLists   == [servers |-> <<>>, security |-> <<>>, schemes |-> <<>>, tags |-> <<>>]
PlainCall ==
    [front |-> "options", given |-> [default |-> "", path |-> "", component |-> ""],
     answers |-> {}, hears |-> {}, report |-> FALSE, mergeArrays |-> TRUE, dedupTags |-> TRUE,
     version |-> Everywhere("3.0"), broken |-> Everywhere(FALSE), unnamed |-> Everywhere(FALSE),
     host |-> Everywhere(""), entries |-> Everywhere({}), lists |-> Everywhere(NoLists),
     preOverlays |-> <<>>, specOverlays |-> Everywhere(NoOverlay), postOverlay |-> NoOverlay,
     badOverlay |-> FALSE, overInput |-> FALSE]

\* Documents that share one schema, for calls that are about other things.
Bare == Document(A :> Plain("s"))
BareDocuments == <<Bare, Bare, Bare>>
Calls(requests) == {[docs |-> BareDocuments, strategy |-> "accept-left", request |-> r] : r \in requests}

\* Which of the three documents have a name.
Spreads == {{1, 2, 3}, {1, 3}, {2, 3}}
Spread(e, ds) == [d \in Doc |-> IF d \in ds THEN {e} ELSE {}]
Sections3 == {Order3[i] : i \in DOMAIN Order3} \ {"schemas"}
Sections2 == {Order2[i] : i \in DOMAIN Order2} \ {"schemas"}
Versions(section) == {v \in {"2.0", "3.1"} : section \in IF v = "2.0" THEN Sections2 ELSE Sections3}
Sections == Sections2 \cup Sections3
Given(s) == [default |-> "", path |-> s, component |-> s]

\* Every section, under every strategy and with a handler that may answer anything.
SectionCalls(section, v) ==
    LET Having(ds) == [PlainCall EXCEPT !.version = Everywhere(v), !.entries = Spread(<<section, "x">>, ds)]
    IN  {[Having(ds) EXCEPT !.given = Given(s)] : ds \in Spreads, s \in AnyStrategy}
          \cup {[Having({1, 3}) EXCEPT !.given = Given(s), !.answers = {"continue"}] : s \in AnyStrategy}
          \cup {[Having(ds) EXCEPT !.given = Given(s), !.answers = AnyAnswer, !.hears = h, !.report = r] :
                   ds \in Spreads, s \in {"accept-left", "accept-right"}, h \in {{}, {"path", "header"}},
                   r \in BOOLEAN}

\* Two names, and one name in two sections.
Several == [PlainCall EXCEPT !.given = Given("accept-right"),
                !.entries = [d \in Doc |-> IF d = 2 THEN {<<"paths", "x">>, <<"responses", "x">>, <<"paths", "y">>}
                                           ELSE {<<"paths", "x">>, <<"responses", "x">>}]]

\* Callbacks in two forms.
Forms == {{}, {<<"callbacks", "x">>}, {<<"callbackRefs", "x">>}}
FormCalls == {[PlainCall EXCEPT !.entries = e] : e \in [Doc -> Forms \cup {{<<"callbacks", "x">>, <<"callbackRefs", "x">>}}]}

\* The fronts, with and without a strategy of each kind.
Fronted ==
    {[PlainCall EXCEPT !.front = f, !.given = [default |-> g, path |-> p, component |-> c],
                       !.entries = Spread(<<s, "x">>, {1, 2}), !.overInput = o] :
        f \in {"options", "config"}, g \in {"", "accept-right"}, p \in {"", "accept-left"}, c \in {"", "accept-left"},
        s \in {"paths", "responses"}, o \in {FALSE}}
      \cup
    {[PlainCall EXCEPT !.front = f, !.given.path = p, !.given.component = c,
                       !.entries = Spread(<<s, "x">>, {1, 2}), !.overInput = o] :
        f \in {"command"}, p \in {"", "accept-left"}, c \in {"", "accept-right"},
        s \in {"paths", "responses"}, o \in BOOLEAN}
      \cup
    {[PlainCall EXCEPT !.front = "tool", !.given.path = p, !.entries = Spread(<<s, "x">>, {1, 2})] :
        p \in {"", "accept-left"}, s \in {"paths", "responses"}}

\* Versions, broken documents, hosts and lists.
VersionCalls ==
    {[PlainCall EXCEPT !.version = <<v, w, u>>, !.host = <<"h", h, "">>, !.broken[2] = b, !.unnamed[3] = n] :
        v \in {"2.0", "3.0"}, w \in {"2.0", "3.0"}, u \in {"2.0", "3.1"}, h \in {"", "h", "k"},
        b \in BOOLEAN, n \in BOOLEAN}
ListsOf(seq) == [field \in DOMAIN NoLists |-> seq]
ListCalls ==
    {[PlainCall EXCEPT !.version = Everywhere(v), !.mergeArrays = m, !.dedupTags = t,
                       !.lists = <<ListsOf(a), ListsOf(b), ListsOf(c)>>] :
        v \in {"2.0", "3.0"}, m \in BOOLEAN, t \in BOOLEAN,
        a \in {<<"k", "k">>, <<>>}, b \in {<<"k", "l">>, <<"l", "l">>}, c \in {<<"l">>, <<"k", "m">>}}

\* Overlays remove a path, or add one to every document, which then collides.
RemovesX == [removes |-> {<<"paths", "x">>}, adds |-> {}]
AddsX    == [removes |-> {}, adds |-> {<<"paths", "x">>}]
OverlayCalls ==
    {[PlainCall EXCEPT !.entries = Spread(<<"paths", "x">>, ds), !.preOverlays = pre, !.specOverlays[2] = own,
                       !.postOverlay = post, !.given = Given(s), !.badOverlay = b] :
        ds \in {{}, {1, 2}}, pre \in {<<>>, <<AddsX>>, <<RemovesX>>, <<RemovesX, AddsX>>}, own \in {NoOverlay, RemovesX},
        post \in {NoOverlay, RemovesX, AddsX}, s \in {"", "accept-right"}, b \in BOOLEAN}

OtherCalls ==
    Calls(UNION {UNION {SectionCalls(s, v) : v \in Versions(s)} : s \in Sections}
            \cup {Several} \cup FormCalls \cup Fronted \cup VersionCalls \cup ListCalls \cup OverlayCalls)
SchemaCalls == {[docs |-> i, strategy |-> s, request |-> PlainCall] : i \in ThreeDocuments, s \in AnyStrategy}
AllCalls    == SchemaCalls \cup OtherCalls
AllDocuments == ThreeDocuments \cup {BareDocuments}

\* What the theorems ask of documents and handlers holds of these.
ASSUME TheoremsApply == HandlersOnlySupply /\ HandlersRespectStrategy /\ DocumentsAreClosed /\ CustomStaysApart
=============================================================================
