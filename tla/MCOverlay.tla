------------------------------ MODULE MCOverlay ------------------------------
(* Instances of Overlay for TLC: documents of five maps and an array, and    *)
(* overlays of one or two actions, whose updates live in maps and arrays of  *)
(* their own.                                                                *)
EXTENDS Overlay

Child(k)     == [kind |-> "child",  key |-> k,  at |-> 0, rec |-> FALSE]
Index(i)     == [kind |-> "index",  key |-> "", at |-> i, rec |-> FALSE]
Wild         == [kind |-> "wild",   key |-> "", at |-> 0, rec |-> FALSE]
Where(k, n)  == [kind |-> "filter", key |-> k,  at |-> n, rec |-> FALSE]
Anywhere(seg) == [seg EXCEPT !.rec = TRUE]
All          == [kind |-> "none",   key |-> "", at |-> 0, rec |-> TRUE]

\* {a: {x: 1}, b: {x: 2, a: {x: 1}}, l: [1, {x: 2}, {x: 1}]}
DocMaps ==
    <<[a |-> Map(2), b |-> Map(3), l |-> List(1, 3)],
      [x |-> Scalar(1)],
      [x |-> Scalar(2), a |-> Map(4)],
      [x |-> Scalar(1)],
      [x |-> Scalar(2)],
      [x |-> Scalar(1)]>>
DocArrays == <<<<Scalar(1), Map(5), Map(6)>>>>

\* Updates of the first action use maps 7 and 8 and array 2, of the second 9,
\* 10 and 3.
UpdateMaps(i) == <<[x |-> Scalar(7)], [y |-> Map(2 * i + 5)]>>
Merges(i)  == Map(2 * i + 5)        \* {x: 7}
Nests(i)   == Map(2 * i + 6)        \* {y: {x: 7}}
Lists(i)   == List(i + 1, 1)        \* [7]

Delete(target)    == [target |-> target, remove |-> TRUE, update |-> Scalar(0)]
Change(target, u) == [target |-> target, remove |-> FALSE, update |-> u]

One   == {<<Child("a")>>, <<Child("b"), Child("a")>>, <<Child("l")>>,
          <<Child("l"), Index(0)>>, <<Child("l"), Index(-1)>>, <<Child("b"), Where("x", 1)>>,
          <<Child("b"), Child("a"), Child("x")>>}
Many  == {<<Wild>>, <<Wild, Child("x")>>, <<Child("l"), Where("x", 2)>>, <<Child("l"), Wild>>,
          <<Where("x", 1)>>, <<Child("b"), Wild>>,
          <<Anywhere(Child("a"))>>, <<Anywhere(Where("x", 1))>>, <<Anywhere(Child("a")), Child("x")>>}
Deep  == {<<Anywhere(Index(-1))>>, <<Anywhere(Wild)>>}
Odd   == {<<>>, <<Child("x")>>}
Targets == One \cup Many \cup Odd

Input(acts) == [maps |-> DocMaps \o UpdateMaps(1) \o UpdateMaps(2),
                arrays |-> DocArrays \o <<<<Scalar(7)>>, <<Scalar(7)>>>>,
                actions |-> acts]

Updates(i) == {Scalar(7), Merges(i), Lists(i)}
Acts(i)    == {Delete(t) : t \in Targets \cup Deep} \cup {Change(t, Scalar(7)) : t \in Deep}
              \cup {Change(t, u) : t \in Targets, u \in Updates(i)}
Singles    == {Input(<<a>>) : a \in Acts(1)}

\* Updates that are stored in one place at most: at several, only scalars and
\* what is merged into an object.
Mergeable  == {<<Wild>>, <<Where("x", 1)>>, <<Anywhere(Child("a"))>>, <<Anywhere(Where("x", 1))>>}
Apart      == {Delete(t) : t \in Targets} \cup {Change(t, Scalar(7)) : t \in Targets}
              \cup {Change(t, u) : t \in One \cup Odd, u \in Updates(1) \cup {Nests(1)}}
              \cup {Change(t, Merges(1)) : t \in Mergeable}
Later      == {<<>>, <<Wild>>, <<Child("b"), Wild>>, <<Child("l"), Index(-1)>>, <<Child("l"), Where("x", 2)>>,
               <<Wild, Child("x")>>, <<Anywhere(Child("a"))>>, <<Anywhere(Where("x", 1))>>}
Second     == {Delete(t) : t \in Later} \cup {Change(t, u) : t \in Later, u \in {Merges(2), Nests(2), Lists(2)}}
Couples    == {Input(<<a, b>>) : a \in Apart, b \in Second}
\* Every child of the root gets a new object, and the one of a is then changed.  No
\* run takes it: the object is one and the same, and AppliedAsWritten fails.
Shared     == {Input(<<Change(<<Wild>>, Nests(1)), Change(<<Child("a"), Child("y"), Child("x")>>, Scalar(3))>>)}
Faithful   == Singles \cup Couples
=============================================================================
