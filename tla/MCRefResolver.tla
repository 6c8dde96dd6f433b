--------------------------- MODULE MCRefResolver ---------------------------
(* Instances of RefResolver for TLC.  A document has two or three schemas    *)
(* right under its root; "main" is the parsed document when a reference names *)
(* its file.                                                                 *)
EXTENDS RefResolver

Tokens == {"root", "main", "ext", "nofile", "A", "B", "C", "x", "y"}

Local(path) == [file |-> "here", path |-> path]
In(f, path) == [file |-> f, path |-> path]

Map     == (<<>> :> [ref |-> NoRef, object |-> TRUE])
Scalar  == (<<>> :> [ref |-> NoRef, object |-> FALSE])
To(r)   == (<<>> :> [ref |-> r, object |-> TRUE])
\* tree t as the value of key k
Under(k, t) == [p \in {<<k>> \o q : q \in DOMAIN t} |-> t[Tail(p)]]
With1(k, t) == Map @@ Under(k, t)
With2(k, t, l, u) == Map @@ Under(k, t) @@ Under(l, u)
\* A "$ref" with a sibling.
Beside(r, k, t) == To(r) @@ Under(k, t)
File(f, t) == Under(f, t)
Api(a, b)      == File("root", With2("A", a, "B", b))
Api3(a, b, c)  == File("root", Map @@ Under("A", a) @@ Under("B", b) @@ Under("C", c))

RefA == Local(<<"A">>)
RefB == Local(<<"B">>)
RefC == Local(<<"C">>)
RefAx == Local(<<"A", "x">>)
Whole == Local(<<>>)

\* Objects with a property, with a nested one, and references with a sibling.
One(refs)    == {With1("x", To(r)) : r \in refs}
Nested(refs) == {With1("x", With1("y", To(r))) : r \in refs}
Alone(refs)  == {Beside(r, "y", Scalar) : r \in refs}

Pair == With2("x", To(RefB), "y", To(RefA))
Locals == {i \in {Api(a, b) : a \in {Pair} \cup Nested({RefA, RefB}) \cup Alone({RefB, Whole}),
                              b \in One({RefA, RefB, RefAx, Whole}) \cup Alone({RefAx})} : IsDirect(i)}
\* Three schemas in a circle, and the parsed file again as an external one.
Circle == {Api3(With1("x", To(RefB)), With2("x", To(RefC), "y", To(Whole)), With1("x", To(RefA)))}

\* References between files that are all spelled with their file.
Ring == {File("root", With1("A", u)) @@ File("main", With1("A", u)) @@ File("ext", With1("B", w)) :
            u \in One({In("ext", <<"B">>)}) \cup Alone({In("ext", <<"B">>)}),
            w \in One({In("main", <<"A">>), In("ext", <<"B">>), In("ext", <<>>)}) \cup {With1("x", Scalar)}}
\* A reference that leads nowhere or to a scalar, beside one that is fine.
Missing == {Api(With1("x", Scalar), b) : b \in
               {With2("x", To(RefA), "y", To(r)) : r \in {RefC, RefAx, In("nofile", <<>>), In("main", <<"A">>)}}}
           \cup {Api(Map, Beside(RefAx, "x", Scalar))}
Diamonds == {Api3(With2("x", To(RefB), "y", To(RefB)), b, With1("y", Scalar)) :
               b \in {With1("x", To(RefC)), With2("x", To(RefC), "y", To(RefC))}}
Several == Locals \cup Circle \cup {i \in Ring : IsDirect(i)} \cup Diamonds \cup Missing
\* What AlwaysInlinedAsWritten asks of documents holds of all these.
ASSUME SeveralAreDirect == \A i \in Several : IsDirect(i)

\* No run takes the next three.  A reference that leads to another one is left
\* with an empty map (MaxRefDepth 16); the other two are refused with an error.
Alias    == {Api3(To(RefB), To(RefC), With1("x", Scalar))}
Pairs    == {Api(Pair, With1("x", To(RefA)))}
\* The file and the document each have a schema B.
External == {Api(With1("x", To(In("ext", <<"A">>))), Map) @@
             File("ext", With2("A", With1("y", To(RefB)), "B", With1("x", Scalar)))}
============================================================
